----------------------------- MODULE MC_Parsers -----------------------------
(***************************************************************************)
(* The input parsers of both daemons in one run: config_read over the     *)
(* gpsclient and the gpsserver key tables, and the frame codec.  Init     *)
(* picks one of the three; the other two stay in their initial state, so  *)
(* the states of the run are the sum, not the product, of the three.      *)
(***************************************************************************)
EXTENDS Naturals, TLC

CONSTANTS Bufsiz, MaxFile

ANYC == "x"

\* gpsclient: client-name (char[16], scaled to 2 so that xstrncpy
\* truncates) and buffer-interval (int, replaced when <= 0).
ClientKeys    == <<"client-name", "buffer-interval">>
ClientConv    == ("client-name" :> "str") @@ ("buffer-interval" :> "interval")
ClientSize    == ("client-name" :> 2) @@ ("buffer-interval" :> 0)
ClientZero    == ("client-name" :> <<>>) @@ ("buffer-interval" :> 0)
ClientDefault == ("client-name" :> <<ANYC>>) @@ ("buffer-interval" :> 10)

\* gpsserver: control-port (unsigned short), unicast-enable ("yes"),
\* packet-interval (int), db-name (char[16], scaled to 2).
ServerKeys    == <<"control-port", "unicast-enable", "packet-interval", "db-name">>
ServerConv    == ("control-port" :> "u16") @@ ("unicast-enable" :> "bool")
                 @@ ("packet-interval" :> "int") @@ ("db-name" :> "str")
ServerSize    == ("control-port" :> 0) @@ ("unicast-enable" :> 0)
                 @@ ("packet-interval" :> 0) @@ ("db-name" :> 2)
ServerZero    == ("control-port" :> 0) @@ ("unicast-enable" :> 0)
                 @@ ("packet-interval" :> 0) @@ ("db-name" :> <<>>)
ServerDefault == ("control-port" :> 5000) @@ ("unicast-enable" :> 1)
                 @@ ("packet-interval" :> 5000) @@ ("db-name" :> <<ANYC>>)

VARIABLES which,
          cfile, cpos, cpc, cconfig,
          sfile, spos, spc, sconfig,
          kind, sorder, rorder, sent, wire, flipped, verdict, rcvd

Client == INSTANCE Config WITH Keys <- ClientKeys, Conv <- ClientConv,
            Size <- ClientSize, Zero <- ClientZero, Default <- ClientDefault,
            file <- cfile, pos <- cpos, pc <- cpc, config <- cconfig
Server == INSTANCE Config WITH Keys <- ServerKeys, Conv <- ServerConv,
            Size <- ServerSize, Zero <- ServerZero, Default <- ServerDefault,
            file <- sfile, pos <- spos, pc <- spc, config <- sconfig
Frame  == INSTANCE Codec WITH Tsps <- {258, 16777217}, Chars <- {65},
            Ports <- {6000}, FlipBits <- {1, 64}

cvars == <<cfile, cpos, cpc, cconfig>>
svars == <<sfile, spos, spc, sconfig>>
fvars == <<kind, sorder, rorder, sent, wire, flipped, verdict, rcvd>>
vars  == <<which, cvars, svars, fvars>>

Init == /\ which \in {"client", "server", "frame"}
        /\ IF which = "client" THEN Client!Init
           ELSE cfile = <<>> /\ cpos = 1 /\ cpc = "open" /\ cconfig = ClientZero
        /\ IF which = "server" THEN Server!Init
           ELSE sfile = <<>> /\ spos = 1 /\ spc = "open" /\ sconfig = ServerZero
        /\ IF which = "frame" THEN Frame!Init
           ELSE /\ kind = "CTL" /\ sorder = "LE" /\ rorder = "LE" /\ sent = <<>>
                /\ wire = <<>> /\ flipped = FALSE /\ verdict = Frame!NoVerdict /\ rcvd = <<>>

Next == \/ which = "client" /\ Client!Next /\ UNCHANGED <<which, svars, fvars>>
        \/ which = "server" /\ Server!Next /\ UNCHANGED <<which, cvars, fvars>>
        \/ which = "frame"  /\ Frame!Next  /\ UNCHANGED <<which, cvars, svars>>

Spec == Init /\ [][Next]_vars

(* The three parsers' state has its type. *)
TypeOK == Client!TypeOK /\ Server!TypeOK /\ Frame!TypeOK

(* When config_read returns 1, every key of either daemon holds the      *)
(* converted value of the last line naming it (fgets chunks, comment and *)
(* unknown lines, blank runs and truncation included), or its default.   *)
ReadAsReference == Client!ReadAsReference /\ Server!ReadAsReference

(* A frame msgX_check accepts carries the values the sender stored,      *)
(* whatever the byte orders and whichever bit was flipped in transit.    *)
CheckedAsSent == Frame!CheckedAsSent

(* An intact frame between hosts of the same byte order passes the check. *)
SameOrderAccepted == Frame!SameOrderAccepted
=============================================================================
