-------------------------- MODULE WaitFreeRingBuffer --------------------------
(***************************************************************************)
(* src/src/WaitFreeRingBuffer.h and WaitFreeFrameBuffer.h: the wait-free   *)
(* FIFO between the audio callback and the socket, PLC, monitor and        *)
(* analyser threads.  One thread calls push(), another calls pop(); they   *)
(* share two atomic positions and Size slots, each slot a frame that       *)
(* setItem()/getItem() copy with memcpy, which is not atomic.              *)
(*                                                                         *)
(* Every atomic load, every atomic store and both ends of every memcpy are *)
(* steps of their own.  A load of the other side's position may return     *)
(* any value stored since the last one this thread saw (that is all that   *)
(* acquire/release promises), so the checks do not rest on sequential      *)
(* consistency.  The xrun counters, which nothing in the queue reads, are  *)
(* left out.                                                               *)
(***************************************************************************)
EXTENDS Naturals, Sequences

CONSTANTS Size,    \* the template parameter Size: slots in mRing
          Items,   \* the frames pushed
          NoItem,  \* the consumer's buffer before the first pop
          Torn     \* a slot never written, or in the middle of a memcpy

ASSUME SizeAssumption == Size \in Nat \ {0}
ASSUME ItemsAssumption == NoItem \notin Items /\ Torn \notin Items

VARIABLES
  mRing,      \* the slots
  mHeadPtr,   \* next slot to write, stored by the producer only
  mTailPtr,   \* next slot to read, stored by the consumer only
  pushStep,   \* where the producer is in push()
  pushValue,  \* push's argument
  pushTail,   \* push's local "tail": the last mTailPtr the producer saw
  popStep,    \* where the consumer is in pop()
  popValue,   \* what getItem has copied so far
  popHead,    \* the last mHeadPtr the consumer saw
  received    \* pop's output argument after a pop that returned true

producerVars == <<mHeadPtr, pushStep, pushValue, pushTail>>
consumerVars == <<mTailPtr, popStep, popValue, popHead, received>>
vars == <<mRing, producerVars, consumerVars>>

Slots == 0 .. Size - 1

\* MUTANT the index is not wrapped.
nextUnwrapped(current) == current + 1

\* next(): (current + 1) % Size, for a current that is a slot.
next(current) == IF current + 1 = Size THEN 0 ELSE current + 1

\* The expression size() and push() end with: the items from tail to head.
Between(tail, head) == IF head >= tail THEN head - tail
                                       ELSE head + (Size - tail)

\* The items in the queue, which no thread can read in one step.
Count == Between(mTailPtr, mHeadPtr)

\* What a load may return: a position stored since "seen", up to the latest.
Visible(seen, latest) ==
  {p \in Slots : Between(seen, p) <= Between(seen, latest)}

Init ==
  /\ mRing = [i \in Slots |-> Torn]
  /\ mHeadPtr = 0 /\ mTailPtr = 0
  /\ pushStep = "idle" /\ pushValue = NoItem /\ pushTail = 0
  /\ popStep = "idle" /\ popValue = NoItem /\ popHead = 0
  /\ received = NoItem

-----------------------------------------------------------------------------
(* push(), run by the producer *)

\* MUTANT the overrun test is dropped
NeverFull(tail) == FALSE

\* Line 65: the slot after head is still the consumer's.
IsFull(tail) == next(mHeadPtr) = tail

\* Lines 62-68: the queue looks full, push returns 0.
PushOverrun ==
  /\ pushStep = "idle"
  /\ \E tail \in Visible(pushTail, mTailPtr) :
       /\ IsFull(tail)
       /\ pushTail' = tail
  /\ UNCHANGED <<mRing, mHeadPtr, pushStep, pushValue, consumerVars>>

\* Lines 62-65: there is room for item.
PushLoadTail(item) ==
  /\ pushStep = "idle"
  /\ \E tail \in Visible(pushTail, mTailPtr) :
       /\ ~IsFull(tail)
       /\ pushTail' = tail
  /\ pushValue' = item
  /\ pushStep' = "write"
  /\ UNCHANGED <<mRing, mHeadPtr, consumerVars>>

\* Line 69: setItem's memcpy starts ...
PushWriteBegin ==
  /\ pushStep = "write"
  /\ mRing' = [mRing EXCEPT ![mHeadPtr] = Torn]
  /\ pushStep' = "copy"
  /\ UNCHANGED <<mHeadPtr, pushValue, pushTail, consumerVars>>

\* ... and ends.
PushWriteEnd ==
  /\ pushStep = "copy"
  /\ mRing' = [mRing EXCEPT ![mHeadPtr] = pushValue]
  /\ pushStep' = "store"
  /\ UNCHANGED <<mHeadPtr, pushValue, pushTail, consumerVars>>

\* Line 70: the item is published.
PushStoreHead ==
  /\ pushStep = "store"
  /\ mHeadPtr' = next(mHeadPtr)
  /\ pushStep' = "idle"
  /\ UNCHANGED <<mRing, pushValue, pushTail, consumerVars>>

-----------------------------------------------------------------------------
(* pop(), run by the consumer *)

\* Lines 79-83: the queue looks empty, pop returns false.
PopUnderrun ==
  /\ popStep = "idle"
  /\ mTailPtr \in Visible(popHead, mHeadPtr)
  /\ popHead' = mTailPtr
  /\ UNCHANGED <<mRing, mTailPtr, popStep, popValue, received, producerVars>>

\* MUTANT pop does not test for an empty queue
PopLoadHeadUnchecked ==
  /\ popStep = "idle"
  /\ popHead' \in Visible(popHead, mHeadPtr)
  /\ popStep' = "read"
  /\ UNCHANGED <<mRing, mTailPtr, popValue, received, producerVars>>

\* Lines 79-80: there is an item.
PopLoadHead ==
  /\ popStep = "idle"
  /\ popHead' \in Visible(popHead, mHeadPtr) \ {mTailPtr}
  /\ popStep' = "read"
  /\ UNCHANGED <<mRing, mTailPtr, popValue, received, producerVars>>

\* Line 84: getItem's memcpy starts ...
PopReadBegin ==
  /\ popStep = "read"
  /\ popValue' = mRing[mTailPtr]
  /\ popStep' = "copy"
  /\ UNCHANGED <<mRing, mTailPtr, popHead, received, producerVars>>

\* ... and ends: had the slot changed under it, the copy would be a mixture.
PopReadEnd ==
  /\ popStep = "copy"
  /\ popValue' = IF mRing[mTailPtr] = popValue THEN popValue ELSE Torn
  /\ popStep' = "store"
  /\ UNCHANGED <<mRing, mTailPtr, popHead, received, producerVars>>

\* Lines 85-86: the slot goes back to the producer, pop returns true.
PopStoreTail ==
  /\ popStep = "store"
  /\ mTailPtr' = next(mTailPtr)
  /\ received' = popValue
  /\ popStep' = "idle"
  /\ UNCHANGED <<mRing, popValue, popHead, producerVars>>

-----------------------------------------------------------------------------
Producer == \/ PushOverrun
            \/ \E item \in Items : PushLoadTail(item)
            \/ PushWriteBegin
            \/ PushWriteEnd
            \/ PushStoreHead

Consumer == \/ PopUnderrun
            \/ PopLoadHead
            \/ PopReadBegin
            \/ PopReadEnd
            \/ PopStoreTail

Next == Producer \/ Consumer

Spec == Init /\ [][Next]_vars

-----------------------------------------------------------------------------
\* The variables stay in range: positions are slots, slots hold frames.
TypeOK ==
  /\ mRing \in [Slots -> Items \cup {Torn}]
  /\ mHeadPtr \in Slots /\ mTailPtr \in Slots
  /\ pushStep \in {"idle", "write", "copy", "store"}
  /\ pushValue \in Items \cup {NoItem}
  /\ pushTail \in Slots
  /\ popStep \in {"idle", "read", "copy", "store"}
  /\ popValue \in Items \cup {NoItem, Torn}
  /\ popHead \in Slots
  /\ received \in Items \cup {NoItem, Torn}

\* setItem's and getItem's memcpy (WaitFreeFrameBuffer.h:72-80) never run on
\* the same slot at once, although neither thread holds a lock: the race on
\* the frame that the acquire/release pairs of push and pop must exclude.
CopiesDisjoint ==
  pushStep \in {"write", "copy"} /\ popStep \in {"read", "copy"}
    => mHeadPtr # mTailPtr

\* push's return value (line 71) and a size() called by the producer may lag
\* behind the consumer, and then report more items than there are, never
\* fewer: RegulatorWorker::pullPacket, which pushes until the reported size
\* reaches its target, can therefore not overfill the queue.
ProducerNeverUnderestimates ==
  \A tail \in Visible(pushTail, mTailPtr) : Between(tail, mHeadPtr) >= Count

\* A size() called by the consumer may lag behind the producer, and then
\* report fewer items than there are, never more: the pops with which
\* FromAudioSocketPlugin::updateQueueStats drains the packets size() reported
\* (AudioSocket.cpp:257-280) all find one.
ConsumerNeverOverestimates ==
  \A head \in Visible(popHead, mHeadPtr) : Between(mTailPtr, head) <= Count

\* The slots from mTailPtr up to mHeadPtr, oldest first.
Nth(k) == IF mTailPtr + k >= Size THEN mTailPtr + k - Size ELSE mTailPtr + k
Contents == [k \in 1 .. Count |-> mRing[Nth(k - 1)]]

Fifo == INSTANCE BoundedFifo WITH Capacity <- Size - 1, queue <- Contents

\* push and pop implement a FIFO of Size - 1 items: every item that push
\* accepted comes out of pop once, whole and in order, whatever the
\* interleaving and however stale the positions read (lines 44-46).
FifoSpec == Fifo!Spec
=============================================================================
