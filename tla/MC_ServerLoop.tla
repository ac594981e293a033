--------------------------- MODULE MC_ServerLoop ---------------------------
(* Model-checking instance of ServerLoop: two clients, three client       *)
(* descriptors (so a control connection, a sink and a spare can be open    *)
(* together and the table can fill), triggers every tick, prune after two. *)
EXTENDS ServerLoop

CONSTANTS c1, c2

MCNames == {c1, c2}
=============================================================================
