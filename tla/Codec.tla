------------------------------- MODULE Codec -------------------------------
(***************************************************************************)
(* The wire frames of src/libs/msg.h and msg.c, byte by byte: a frame is  *)
(* the sequence of its bytes in memory.  A sender on a host of one byte   *)
(* order fills the fields, calls msgX_init and msgX_hton and sends; the   *)
(* datagram may have a bit flipped on the way; the receiver, on a host of *)
(* either order, calls msgX_ntoh and msgX_check.  Arrays that no field    *)
(* swaps (TGR's __reserved, ACK's name, latitude and longitude, CTL's     *)
(* name) are one byte each, and CTL's mport, bport and __pad1 are left    *)
(* out: they are copied or swapped exactly like uport.                    *)
(***************************************************************************)
EXTENDS Integers, Sequences, SequencesExt, Bitwise

CONSTANTS Tsps,        \* time(NULL) / gfix.time values a sender stores
          Chars,       \* byte values of the char arrays
          Ports,       \* ctl.uport values
          FlipBits     \* bit masks a corrupted datagram may flip

Kinds  == {"TGR", "ACK", "CTL"}
Orders == {"LE", "BE"}          \* host byte orders

TGR_MSG_HDR == 41209            \* 0xa0f9
CTL_MSG_HDR == 41465            \* 0xa1f9
ACK_MSG_HDR == 41721            \* 0xa2f9
HDR == ("TGR" :> TGR_MSG_HDR) @@ ("CTL" :> CTL_MSG_HDR) @@ ("ACK" :> ACK_MSG_HDR)
CTL_CLIENT_ONLINE  == 1
CTL_CLIENT_OFFLINE == 2

(* struct tgr_msg, struct ack_msg, struct ctl_msg: field |-> <<offset, width>> *)
Layout ==
    ("TGR" :> [hdr |-> <<1, 2>>, crc |-> <<3, 2>>, tsp |-> <<5, 4>>,
               reserved |-> <<9, 1>>])
 @@ ("ACK" :> [hdr |-> <<1, 2>>, crc |-> <<3, 2>>, name |-> <<5, 1>>,
               latitude |-> <<6, 1>>, longitude |-> <<7, 1>>, tsp |-> <<8, 4>>])
 @@ ("CTL" :> [hdr |-> <<1, 2>>, ctl |-> <<3, 2>>, uport |-> <<5, 2>>,
               name |-> <<7, 1>>])

Off(k, f) == Layout[k][f][1]
Wid(k, f) == Layout[k][f][2]
Span(k, f) == Off(k, f) .. Off(k, f) + Wid(k, f) - 1
FrameLen(k) == Max({Off(k, f) + Wid(k, f) - 1 : f \in DOMAIN Layout[k]})

(* What the sending code stores before msgX_init. *)
Payloads(k) ==
    CASE k = "TGR" -> [tsp : Tsps, reserved : Chars]
      [] k = "ACK" -> [name : Chars, latitude : Chars, longitude : Chars, tsp : Tsps]
      [] k = "CTL" -> [ctl : {CTL_CLIENT_ONLINE, CTL_CLIENT_OFFLINE},
                       uport : Ports, name : Chars]

-----------------------------------------------------------------------------
(* A field's bytes in memory: byte j (from 0) of a w-byte value (the     *)
(* unmasked form keeps the higher bytes too).                             *)
ByteAtUnmasked(uv, uj, uw, uo) ==
    IF uo = "LE" THEN uv \div (256 ^ uj) ELSE uv \div (256 ^ (uw - 1 - uj))
ByteAt(v, j, w, ord) ==
    IF ord = "LE" THEN (v \div (256 ^ j)) % 256
                  ELSE (v \div (256 ^ (w - 1 - j))) % 256

FieldOf(k, i) == CHOOSE f \in DOMAIN Layout[k] : i \in Span(k, f)

(* msg->f = v *)
Put(pm, k, f, val, ord) ==
    [i \in DOMAIN pm |-> IF i \in Span(k, f)
                         THEN ByteAt(val, i - Off(k, f), Wid(k, f), ord) ELSE pm[i]]

(* reading msg->f *)
BigEndianValue(b) ==
    LET r[n \in 0..Len(b)] == IF n = 0 THEN 0 ELSE 256 * r[n - 1] + b[n]
    IN  r[Len(b)]
Get(gm, k, f, ord) ==
    LET b == SubSeq(gm, Off(k, f), Off(k, f) + Wid(k, f) - 1)
    IN  BigEndianValue(IF ord = "BE" THEN b ELSE Reverse(b))

(* The fields msgX_hton and msgX_ntoh pass through htons/htonl. *)
HtonFields == ("TGR" :> {"hdr", "crc", "tsp"}) @@ ("ACK" :> {"hdr", "crc", "tsp"})
              @@ ("CTL" :> {"hdr", "ctl", "uport"})
NtohFieldsNoCrc == ("TGR" :> {"hdr", "tsp"}) @@ ("ACK" :> {"hdr", "tsp"})
                   @@ ("CTL" :> {"hdr", "ctl", "uport"})
NtohFields == ("TGR" :> {"hdr", "crc", "tsp"}) @@ ("ACK" :> {"hdr", "crc", "tsp"})
              @@ ("CTL" :> {"hdr", "ctl", "uport"})

(* htons/htonl and ntohs/ntohl reverse a field's bytes on a little-endian *)
(* host and are the identity on a big-endian one.                         *)
Swap(sm, k, fields, ord) ==
    IF ord = "BE" THEN sm
    ELSE [i \in DOMAIN sm |->
            IF FieldOf(k, i) \in fields
            THEN sm[2 * Off(k, FieldOf(k, i)) + Wid(k, FieldOf(k, i)) - 1 - i]
            ELSE sm[i]]
msg_hton(hm, k, ord) == Swap(hm, k, HtonFields[k], ord)
msg_ntoh(nm, k, ord) == Swap(nm, k, NtohFields[k], ord)

(* crc16(crc, buf, len): CRC-16 with the reflected polynomial 0xa001,    *)
(* one bit at a time: CrcShift is one shift of the register.              *)
CrcShift == [x \in 0..65535 |-> IF x % 2 = 1 THEN (x \div 2) ^^ 40961 ELSE x \div 2]
CrcByte(c) ==
    LET r[n \in 0..8] == IF n = 0 THEN c ELSE CrcShift[r[n - 1]]
    IN  r[8]
crc16(crc, buf) ==
    LET r[n \in 0..Len(buf)] == IF n = 0 THEN crc ELSE CrcByte(r[n - 1] ^^ buf[n])
    IN  r[Len(buf)]

(* crc16 over the bytes from offset 4 to the end, as msgX_init and     *)
(* msgX_check compute it; CrcSkipTsp starts after TGR's tsp.          *)
CrcSkipTsp(sk) == crc16(0, SubSeq(sk, 9, Len(sk)))
CrcOf(cm) == crc16(0, SubSeq(cm, 5, Len(cm)))

(* msgtgr_init, msgack_init: the header, then the CRC of bytes 4..end;   *)
(* msgctl_init: the header only.                                          *)
CrcInit(ci, k, ord) ==
    LET mh == Put(ci, k, "hdr", HDR[k], ord)
    IN  Put(mh, k, "crc", CrcOf(mh), ord)
msgtgr_init(ti, ord) == CrcInit(ti, "TGR", ord)
msgack_init(ai, ord) == CrcInit(ai, "ACK", ord)
msgctl_init(xi, ord) == Put(xi, "CTL", "hdr", CTL_MSG_HDR, ord)
msg_init(im, k, ord) ==
    CASE k = "TGR" -> msgtgr_init(im, ord)
      [] k = "ACK" -> msgack_init(im, ord)
      [] k = "CTL" -> msgctl_init(im, ord)

(* msgtgr_check, msgack_check: -1 for a bad header, -2 for a CRC that    *)
(* differs from the recomputed one; msgctl_check: -1 for a bad header,   *)
(* -2 for a code other than ONLINE and OFFLINE.                           *)
CrcCheck(cc, k, ord) ==
    CASE Get(cc, k, "hdr", ord) # HDR[k]         -> -1
      [] CrcOf(cc) # Get(cc, k, "crc", ord)     -> -2
      [] OTHER                                  -> 0
msgtgr_check(tc, ord) == CrcCheck(tc, "TGR", ord)
msgack_check(ac, ord) == CrcCheck(ac, "ACK", ord)
msgctl_check(xc, ord) ==
    CASE Get(xc, "CTL", "hdr", ord) # CTL_MSG_HDR -> -1
      [] Get(xc, "CTL", "ctl", ord) \notin {CTL_CLIENT_ONLINE, CTL_CLIENT_OFFLINE} -> -2
      [] OTHER -> 0
msg_check(km, k, ord) ==
    CASE k = "TGR" -> msgtgr_check(km, ord)
      [] k = "ACK" -> msgack_check(km, ord)
      [] k = "CTL" -> msgctl_check(km, ord)

-----------------------------------------------------------------------------
VARIABLES kind,        \* the frame's struct
          sorder,      \* the sender's byte order
          rorder,      \* the receiver's byte order
          sent,        \* the field values the sender stored
          wire,        \* the datagram's (or stream's) bytes
          flipped,     \* whether a bit of the datagram was flipped
          verdict,     \* msgX_check's result, NoVerdict before the receive
          rcvd         \* the fields as the receiver reads them after ntoh

NoVerdict == 1                 \* a value msgX_check never returns

vars == <<kind, sorder, rorder, sent, wire, flipped, verdict, rcvd>>

Init == /\ kind \in Kinds
        /\ sorder \in Orders
        /\ rorder \in Orders
        /\ sent = <<>>
        /\ wire = <<>>
        /\ flipped = FALSE
        /\ verdict = NoVerdict
        /\ rcvd = <<>>

(* send_packets (server.c) for a TGR, read_sockets (client.c) for an ACK, *)
(* send_ctlmsg (client.c) for a CTL: store the fields, msgX_init,         *)
(* msgX_hton, send the struct.                                            *)
Send == /\ wire = <<>>
        /\ \E v \in Payloads(kind) :
              LET raw == [i \in 1..FrameLen(kind) |->
                          IF FieldOf(kind, i) \in DOMAIN v
                          THEN ByteAt(v[FieldOf(kind, i)], i - Off(kind, FieldOf(kind, i)),
                                      Wid(kind, FieldOf(kind, i)), sorder)
                          ELSE 0]
              IN  /\ sent' = v
                  /\ wire' = msg_hton(msg_init(raw, kind, sorder), kind, sorder)
        /\ UNCHANGED <<kind, sorder, rorder, flipped, verdict, rcvd>>

(* A TGR or ACK datagram arrives with one bit flipped; CTL travels on TCP. *)
Corrupt == /\ wire # <<>> /\ verdict = NoVerdict /\ ~flipped
           /\ kind # "CTL"
           /\ \E i \in DOMAIN wire, b \in FlipBits :
                 wire' = [wire EXCEPT ![i] = @ ^^ b]
           /\ flipped' = TRUE
           /\ UNCHANGED <<kind, sorder, rorder, sent, verdict, rcvd>>

(* recv_msg (client.c, packet_validation on), read_ackmsg and read_ctlmsg *)
(* (server.c): msgX_ntoh in place, then msgX_check.                       *)
Receive == /\ wire # <<>> /\ verdict = NoVerdict
           /\ LET host == msg_ntoh(wire, kind, rorder)
              IN  /\ verdict' = msg_check(host, kind, rorder)
                  /\ rcvd' = [f \in DOMAIN sent |-> Get(host, kind, f, rorder)]
           /\ UNCHANGED <<kind, sorder, rorder, sent, wire, flipped>>

Next == Send \/ Corrupt \/ Receive

Spec == Init /\ [][Next]_vars

-----------------------------------------------------------------------------
TypeOK == /\ kind \in Kinds /\ sorder \in Orders /\ rorder \in Orders
          /\ wire \in Seq(0..255)
          /\ verdict \in {NoVerdict, 0, -1, -2}
          /\ flipped \in BOOLEAN

(* Whatever the two hosts' byte orders and whichever bit the network     *)
(* flipped, a frame msgX_check accepts carries exactly the field values  *)
(* the sender stored: the CRC range of msgtgr_init/msgack_init covers    *)
(* every payload byte, and ntoh undoes hton field by field.              *)
CheckedAsSent == verdict = 0 => rcvd = sent

(* Between hosts of the same byte order an intact TGR, ACK or CTL frame  *)
(* passes msgX_check: ntoh restores the bytes the CRC was computed on    *)
(* and the CRC field itself.                                              *)
SameOrderAccepted ==
    verdict # NoVerdict /\ ~flipped /\ sorder = rorder => verdict = 0
====
