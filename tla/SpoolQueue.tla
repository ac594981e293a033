----------------------------- MODULE SpoolQueue -----------------------------
(***************************************************************************)
(* What the client's spool promises (spec 4.2, 4.3): rows are queued in   *)
(* the order they are inserted; the head of the queue may be delivered    *)
(* upstream any number of times; it leaves the queue only after it has    *)
(* been delivered at least once.  Nothing else ever leaves the queue.     *)
(***************************************************************************)
EXTENDS Sequences, SequencesExt

CONSTANT Rows             \* row identities

VARIABLES queue,          \* rows held locally, oldest first
          upstream        \* rows delivered upstream, in delivery order

Init == queue = <<>> /\ upstream = <<>>

Enqueue(r) == /\ queue' = Append(queue, r)
              /\ UNCHANGED upstream

Deliver == /\ queue # <<>>
           /\ upstream' = Append(upstream, Head(queue))
           /\ UNCHANGED queue

Discard == /\ queue # <<>>
          /\ Head(queue) \in ToSet(upstream)
          /\ queue' = Tail(queue)
          /\ UNCHANGED upstream

Next == (\E r \in Rows : Enqueue(r)) \/ Deliver \/ Discard

Spec == Init /\ [][Next]_<<queue, upstream>>
=============================================================================
