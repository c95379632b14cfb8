------------------------------ MODULE LossyFifo ------------------------------
(***************************************************************************)
(* What the receive path promises: a bounded queue that keeps bytes in the *)
(* order they arrived, hands each kept byte over exactly once, and loses   *)
(* bytes only by filling up first.                                         *)
(***************************************************************************)
EXTENDS Naturals, Sequences

CONSTANTS Capacity,  \* bytes the queue can hold
          Byte

VARIABLES queue,      \* kept and not yet handed over, oldest first
          delivered,  \* handed over, oldest first
          lost        \* number of bytes that found the queue full

vars == <<queue, delivered, lost>>

Init == queue = <<>> /\ delivered = <<>> /\ lost = 0

\* A run of bytes arrives: the queue grows at its end, and a byte is lost only
\* if the queue ends up full.
Arrive ==
  /\ queue' \in Seq(Byte)
  /\ Len(queue') \in Len(queue) .. Capacity
  /\ SubSeq(queue', 1, Len(queue)) = queue
  /\ lost' \in Nat /\ lost' >= lost
  /\ lost' > lost => Len(queue') = Capacity
  /\ UNCHANGED delivered

Deliver ==
  /\ queue # <<>>
  /\ queue' = Tail(queue)
  /\ delivered' = Append(delivered, Head(queue))
  /\ UNCHANGED lost

Next == Arrive \/ Deliver

Spec == Init /\ [][Next]_vars
=============================================================================
