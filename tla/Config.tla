------------------------------- MODULE Config -------------------------------
(***************************************************************************)
(* config_read of gpsserver and gpsclient (the two config.c files share   *)
(* config_read, config_get_value and xstrncpy and differ in their key     *)
(* tables and in config_set_value).  A file is a sequence of symbols: a   *)
(* key name is one symbol (no key of either table is a prefix of another, *)
(* so a key name is never split or confused), and the other symbols stand *)
(* for the characters whose class the parser tells apart.                 *)
(***************************************************************************)
EXTENDS Integers, Sequences, SequencesExt

CONSTANTS Keys,        \* config_keys[], in table order (a sequence)
          Conv,        \* Conv[k]: how config_set_value converts key k
          Size,        \* Size[k]: sizeof the char array of a string key
          Zero,        \* the zero-initialised global struct config
          Default,     \* what config_default() stores
          Bufsiz,      \* BUFSIZ, in symbols: fgets keeps Bufsiz-1 and a NUL
          MaxFile      \* longest file, in symbols

SP    == " "           \* space; a tab takes the same branches everywhere
NL    == "\n"
HASH  == "#"
YES   == "yes"         \* the three characters y, e, s
DIGIT == "5"
MINUS == "-"
ANYC  == "x"          \* any other character
Chars == {SP, NL, HASH, YES, DIGIT, MINUS, ANYC}
Symbols == ToSet(Keys) \cup Chars
KeySet == ToSet(Keys)

ASSUME /\ Bufsiz >= 2 /\ MaxFile >= 1
       /\ KeySet \cap Chars = {}
       /\ \A k \in KeySet : Conv[k] \in {"u16", "int", "bool", "str", "interval"}

VARIABLES file,        \* the file's contents
          pos,         \* the offset of the next fgets()
          pc,          \* "open", "read", "done" (returned 1), "failed" (0)
          config       \* the global struct config, one entry per key

vars == <<file, pos, pc, config>>

-----------------------------------------------------------------------------
(* fgets(buffer, BUFSIZ, fp): up to Bufsiz-1 symbols, through the first   *)
(* newline (fgetsNoNul forgets the room for the NUL).                     *)
fgetsNoNul(fl, at) ==
    LET chunk == SubSeq(fl, at, Min({at + Bufsiz - 1, Len(fl)}))
        nl    == {i \in 1..Len(chunk) : chunk[i] = NL}
    IN  IF nl = {} THEN chunk ELSE SubSeq(chunk, 1, Min(nl))
fgets(f, p) ==
    LET chunk == SubSeq(f, p, Min({p + Bufsiz - 2, Len(f)}))
        nl    == {i \in 1..Len(chunk) : chunk[i] = NL}
    IN  IF nl = {} THEN chunk ELSE SubSeq(chunk, 1, Min(nl))

Blank(c) == c = SP

(* config_get_value: p walks past the key (NULL at the end of the line), *)
(* then past blanks; the value runs to the first newline, which becomes  *)
(* the terminating NUL.  A line ends at Len(line) + 1 (its NUL).         *)
RECURSIVE SkipKey(_, _), SkipBlanks(_, _), ValueEnd(_, _)
SkipKey(line, p) ==
    IF p > Len(line) THEN 0
    ELSE IF Blank(line[p]) THEN p ELSE SkipKey(line, p + 1)
SkipBlanks(line, p) ==
    IF p <= Len(line) /\ Blank(line[p]) THEN SkipBlanks(line, p + 1) ELSE p
ValueEnd(line, t) ==
    IF t > Len(line) \/ line[t] = NL THEN t ELSE ValueEnd(line, t + 1)

NULL == "NULL"
config_get_value(line) ==
    LET k == SkipKey(line, 1)
    IN  IF k = 0 THEN NULL
        ELSE LET p == SkipBlanks(line, k)
             IN  SubSeq(line, p, ValueEnd(line, p) - 1)

(* atoi: leading white space, an optional sign, then decimal digits. *)
RECURSIVE Digits(_, _, _)
Digits(v, i, acc) ==
    IF i <= Len(v) /\ v[i] = DIGIT THEN Digits(v, i + 1, 10 * acc + 5) ELSE acc
atoi(v) ==
    LET s == SkipBlanks(v, 1)
    IN  IF s <= Len(v) /\ v[s] = MINUS THEN -Digits(v, s + 1, 0)
        ELSE Digits(v, s, 0)

xstrncpy(src, size) ==
    IF Len(src) >= size THEN SubSeq(src, 1, size - 1) ELSE src

(* config_set_value: the switch on the key's index.  An unsigned short    *)
(* field keeps atoi's value modulo 2^16.                                  *)
config_set_value(cfg, value, k) ==
    [cfg EXCEPT ![k] =
        CASE Conv[k] = "u16"      -> atoi(value) % 65536
          [] Conv[k] = "int"      -> atoi(value)
          [] Conv[k] = "bool"     -> IF value = <<YES>> THEN 1 ELSE 0
          [] Conv[k] = "str"      -> xstrncpy(value, Size[k])
          [] Conv[k] = "interval" -> IF atoi(value) <= 0 THEN 10 ELSE atoi(value)]

(* The first key of the table that buffer starts with (strncmp over the  *)
(* key's length), if any.                                                 *)
MatchedKey(line) ==
    LET ix == {i \in 1..Len(Keys) : Len(line) >= 1 /\ line[1] = Keys[i]}
    IN  IF ix = {} THEN NULL ELSE Keys[Min(ix)]

-----------------------------------------------------------------------------
Init == /\ file \in BoundedSeq(Symbols, MaxFile)
        /\ pos = 1
        /\ pc = "open"
        /\ config = Zero

(* fopen; on success config_default(). *)
Open == /\ pc = "open"
        /\ \/ pc' = "failed" /\ UNCHANGED config
           \/ pc' = "read" /\ config' = Default
        /\ UNCHANGED <<file, pos>>

(* One pass of the while (fgets(...)) loop. *)
ReadLine ==
    /\ pc = "read"
    /\ pos <= Len(file)
    /\ LET line  == fgets(file, pos)
           k     == MatchedKey(line)
           value == config_get_value(line)
       IN  /\ pos' = pos + Len(line)
           /\ config' = IF line[1] = HASH \/ k = NULL \/ value = NULL
                        THEN config
                        ELSE config_set_value(config, value, k)
    /\ UNCHANGED <<file, pc>>

(* fgets returns NULL at end of file; fclose, return 1. *)
Close == /\ pc = "read"
         /\ pos > Len(file)
         /\ pc' = "done"
         /\ UNCHANGED <<file, pos, config>>

Next == Open \/ ReadLine \/ Close

Spec == Init /\ [][Next]_vars

-----------------------------------------------------------------------------
TypeOK == /\ file \in Seq(Symbols) /\ Len(file) <= MaxFile
          /\ pos \in 1..MaxFile + 1
          /\ pc \in {"open", "read", "done", "failed"}
          /\ DOMAIN config = KeySet

(* The lines config_read sees, defined without fgets: each is the         *)
(* shortest prefix of the rest of the file that ends in a newline, fills  *)
(* the buffer, or ends the file.                                          *)
RECURSIVE Pieces(_)
Pieces(f) ==
    IF f = <<>> THEN <<>>
    ELSE LET n == Min({i \in 1..Len(f) : f[i] = NL \/ i = Bufsiz - 1 \/ i = Len(f)})
         IN  <<SubSeq(f, 1, n)>> \o Pieces(SubSeq(f, n + 1, Len(f)))

(* The value of a line: what follows the first run of blanks after the    *)
(* key, up to the newline; none when the line has no blank.               *)
HasValue(w) == \E i \in 1..Len(w) : Blank(w[i])
ValueOf(w) ==
    LET b == Min({i \in 1..Len(w) : Blank(w[i])})
        e == Min({i \in b..Len(w) + 1 : i > Len(w) \/ ~Blank(w[i])})
        n == Min({i \in e..Len(w) + 1 : i > Len(w) \/ w[i] = NL})
    IN  SubSeq(w, e, n - 1)

Sets(w, k) == Len(w) >= 1 /\ w[1] = k /\ HasValue(w)

(* Every key holds the converted value of the last line that names it    *)
(* and has a value, or its default.                                       *)
RefConfig(f) ==
    LET L == Pieces(f)
    IN  [k \in KeySet |->
           LET J == {j \in 1..Len(L) : Sets(L[j], k)}
           IN  IF J = {} THEN Default[k]
               ELSE config_set_value(Default, ValueOf(L[Max(J)]), k)[k]]

(* When config_read returns 1, the struct holds what the file says by    *)
(* the reading above: config_get_value's pointer walks, the fgets chunks *)
(* of a long line, comment lines and the later-line-wins overwrite of    *)
(* the loop agree with it on every file of up to MaxFile symbols.         *)
ReadAsReference == pc = "done" => config = RefConfig(file)
=============================================================================
