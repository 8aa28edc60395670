----------------------------- MODULE BoundedFifo -----------------------------
(***************************************************************************)
(* What a single-producer single-consumer queue promises: items come out   *)
(* once each, whole and in the order they went in, and never more than     *)
(* Capacity of them wait.  WaitFreeRingBuffer implements this module.      *)
(***************************************************************************)
EXTENDS Naturals, Sequences

CONSTANTS Items,     \* what is queued
          NoItem,    \* the consumer's variable before its first item
          Capacity   \* how many items may wait

VARIABLES queue,     \* the items waiting, oldest first
          received   \* the item the consumer got last

vars == <<queue, received>>

Init == queue = << >> /\ received = NoItem

\* A push that succeeds.  One that fails changes nothing.
Enqueue(item) == /\ Len(queue) < Capacity
                 /\ queue' = Append(queue, item)
                 /\ UNCHANGED received

\* A pop that succeeds.  One that fails changes nothing.
Dequeue == /\ queue # << >>
           /\ received' = Head(queue)
           /\ queue' = Tail(queue)

Next == Dequeue \/ \E item \in Items : Enqueue(item)

Spec == Init /\ [][Next]_vars
=============================================================================
