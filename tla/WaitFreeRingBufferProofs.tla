----------------------- MODULE WaitFreeRingBufferProofs -----------------------
(* Proofs about WaitFreeRingBuffer, for every Size and every set of items.  *)
EXTENDS WaitFreeRingBuffer, SequenceTheorems, TLAPS

\* The four positions lie around the ring in the order: the tail the producer
\* saw, the tail, the head the consumer saw, the head.
PositionsInOrder ==
  /\ Between(pushTail, mTailPtr) <= Between(pushTail, popHead)
  /\ Between(pushTail, popHead) <= Between(pushTail, mHeadPtr)

\* Past its test, the producer has room and the consumer has an item.
TestsStillHold ==
  /\ pushStep # "idle" => next(mHeadPtr) # pushTail /\ pushValue \in Items
  /\ popStep # "idle" => popHead # mTailPtr

\* The slots between tail and head hold whole items; a copy is what was copied.
FramesWhole ==
  /\ \A i \in Slots : Between(mTailPtr, i) < Count => mRing[i] \in Items
  /\ pushStep = "store" => mRing[mHeadPtr] = pushValue
  /\ popStep \in {"copy", "store"} => popValue = mRing[mTailPtr]

\* The inductive invariant.
RingInv == TypeOK /\ PositionsInOrder /\ TestsStillHold /\ FramesWhole

-----------------------------------------------------------------------------
\* A load never returns a position outside the ring or ahead of the latest.
LEMMA VisibleSlots ==
  ASSUME NEW seen \in Slots, NEW latest \in Slots, NEW p \in Visible(seen, latest)
  PROVE  p \in Slots /\ Between(seen, p) <= Between(seen, latest)
BY DEF Visible

\* next() stays in the ring.
LEMMA NextInSlots ==
  ASSUME NEW i \in Slots
  PROVE  next(i) \in Slots
BY SizeAssumption DEF Slots, next

\* The number of items between two positions is below Size.
LEMMA BetweenInRange ==
  ASSUME NEW i \in Slots, NEW j \in Slots
  PROVE  Between(i, j) \in 0 .. Size - 1
BY SizeAssumption DEF Slots, Between

\* The invariant holds when the queue is constructed.
LEMMA InitRingInv == Init => RingInv
<1> SUFFICES ASSUME Init PROVE RingInv
  OBVIOUS
<1>1. TypeOK
  BY SizeAssumption DEF Init, TypeOK, Slots
<1>2. PositionsInOrder
  BY SizeAssumption DEF Init, PositionsInOrder, Between
<1>3. TestsStillHold
  BY DEF Init, TestsStillHold
<1>4. FramesWhole
  BY SizeAssumption DEF Init, FramesWhole, Between, Count, Slots
<1> QED BY <1>1, <1>2, <1>3, <1>4 DEF RingInv

\* Every step of push and of pop preserves the invariant.
LEMMA NextRingInv == RingInv /\ [Next]_vars => RingInv'
<1> SUFFICES ASSUME RingInv, [Next]_vars
             PROVE  RingInv'
  OBVIOUS
<1> USE SizeAssumption, ItemsAssumption DEF RingInv
<1>1. CASE PushOverrun
  <2>1. TypeOK'
    BY <1>1, VisibleSlots DEF PushOverrun, TypeOK, consumerVars
  <2>2. PositionsInOrder'
    BY <1>1 DEF PushOverrun, TypeOK, consumerVars, PositionsInOrder, Visible, Between, Slots
  <2>3. TestsStillHold' /\ FramesWhole'
    BY <1>1 DEF PushOverrun, consumerVars, TestsStillHold, FramesWhole, Count, Between
  <2> QED BY <2>1, <2>2, <2>3
<1>2. ASSUME NEW item \in Items, PushLoadTail(item)
      PROVE  RingInv'
  <2>1. TypeOK'
    BY <1>2, VisibleSlots DEF PushLoadTail, TypeOK, consumerVars
  <2>2. PositionsInOrder'
    BY <1>2 DEF PushLoadTail, TypeOK, consumerVars, PositionsInOrder, Visible, Between, Slots
  <2>3. TestsStillHold'
    BY <1>2 DEF PushLoadTail, consumerVars, TestsStillHold, IsFull, next
  <2>4. FramesWhole'
    BY <1>2 DEF PushLoadTail, consumerVars, FramesWhole, Count, Between
  <2> QED BY <2>1, <2>2, <2>3, <2>4
<1>3. CASE PushWriteBegin
  <2>1. TypeOK'
    BY <1>3 DEF PushWriteBegin, TypeOK, consumerVars
  <2>2. PositionsInOrder' /\ TestsStillHold'
    BY <1>3 DEF PushWriteBegin, consumerVars, PositionsInOrder, TestsStillHold, Between, next
  <2>3. \A i \in Slots : Between(mTailPtr, i) < Count => i # mHeadPtr
    BY DEF TypeOK, Count, Between, Slots
  <2>4. popStep \in {"copy", "store"} => mTailPtr # mHeadPtr
    BY DEF TypeOK, TestsStillHold, PositionsInOrder, Between, Slots
  <2>5. FramesWhole'
    BY <1>3, <2>3, <2>4 DEF PushWriteBegin, consumerVars, TypeOK, FramesWhole, Count, Between
  <2> QED BY <2>1, <2>2, <2>5
<1>4. CASE PushWriteEnd
  <2>1. TypeOK'
    BY <1>4 DEF PushWriteEnd, TypeOK, TestsStillHold, consumerVars
  <2>2. PositionsInOrder' /\ TestsStillHold'
    BY <1>4 DEF PushWriteEnd, consumerVars, PositionsInOrder, TestsStillHold, Between, next
  <2>3. \A i \in Slots : Between(mTailPtr, i) < Count => i # mHeadPtr
    BY DEF TypeOK, Count, Between, Slots
  <2>4. popStep \in {"copy", "store"} => mTailPtr # mHeadPtr
    BY DEF TypeOK, TestsStillHold, PositionsInOrder, Between, Slots
  <2>5. FramesWhole'
    BY <1>4, <2>3, <2>4 DEF PushWriteEnd, consumerVars, TypeOK, FramesWhole, Count, Between
  <2> QED BY <2>1, <2>2, <2>5
<1>5. CASE PushStoreHead
  <2>1. TypeOK'
    BY <1>5, NextInSlots DEF PushStoreHead, TypeOK, consumerVars
  <2>2. PositionsInOrder'
    BY <1>5 DEF PushStoreHead, TypeOK, consumerVars, PositionsInOrder, TestsStillHold,
                Between, Slots, next
  <2>3. TestsStillHold'
    BY <1>5 DEF PushStoreHead, consumerVars, TestsStillHold
  <2>4. \A i \in Slots : Between(mTailPtr, i) < Count' => Between(mTailPtr, i) < Count \/ i = mHeadPtr
    BY <1>5 DEF PushStoreHead, TypeOK, consumerVars, PositionsInOrder, TestsStillHold,
                Count, Between, Slots, next
  <2>5. mRing[mHeadPtr] \in Items
    BY <1>5 DEF PushStoreHead, TestsStillHold, FramesWhole
  <2>6. FramesWhole'
    BY <1>5, <2>4, <2>5 DEF PushStoreHead, consumerVars, FramesWhole, Between
  <2> QED BY <2>1, <2>2, <2>3, <2>6
<1>6. CASE PopUnderrun
  <2>1. TypeOK'
    BY <1>6 DEF PopUnderrun, TypeOK, producerVars
  <2>2. PositionsInOrder'
    BY <1>6 DEF PopUnderrun, TypeOK, producerVars, PositionsInOrder, Visible, Between, Slots
  <2>3. TestsStillHold' /\ FramesWhole'
    BY <1>6 DEF PopUnderrun, producerVars, TestsStillHold, FramesWhole, Count, Between
  <2> QED BY <2>1, <2>2, <2>3
<1>7. CASE PopLoadHead
  <2>1. TypeOK'
    BY <1>7 DEF PopLoadHead, TypeOK, producerVars, Visible
  <2>2. PositionsInOrder'
    <3>1. popHead' \in Slots /\ Between(popHead, popHead') <= Between(popHead, mHeadPtr)
      BY <1>7 DEF PopLoadHead, Visible
    <3>2. UNCHANGED <<mHeadPtr, mTailPtr, pushTail>>
      BY <1>7 DEF PopLoadHead, producerVars
    <3>3. {popHead, mHeadPtr, mTailPtr, pushTail} \subseteq Slots
      BY DEF TypeOK
    <3> QED BY <3>1, <3>2, <3>3 DEF PositionsInOrder, Between, Slots
  <2>3. TestsStillHold' /\ FramesWhole'
    BY <1>7 DEF PopLoadHead, producerVars, TestsStillHold, FramesWhole, Count, Between
  <2> QED BY <2>1, <2>2, <2>3
<1>8. CASE PopReadBegin
  <2>1. TypeOK'
    BY <1>8 DEF PopReadBegin, TypeOK, producerVars
  <2>2. PositionsInOrder' /\ TestsStillHold' /\ FramesWhole'
    BY <1>8 DEF PopReadBegin, producerVars, PositionsInOrder, TestsStillHold, FramesWhole,
                Count, Between
  <2> QED BY <2>1, <2>2
<1>9. CASE PopReadEnd
  <2>1. TypeOK'
    BY <1>9 DEF PopReadEnd, TypeOK, producerVars
  <2>2. PositionsInOrder' /\ TestsStillHold' /\ FramesWhole'
    BY <1>9 DEF PopReadEnd, producerVars, PositionsInOrder, TestsStillHold, FramesWhole,
                Count, Between
  <2> QED BY <2>1, <2>2
<1>10. CASE PopStoreTail
  <2>1. TypeOK'
    BY <1>10, NextInSlots DEF PopStoreTail, TypeOK, producerVars
  <2>2. PositionsInOrder'
    BY <1>10 DEF PopStoreTail, TypeOK, producerVars, PositionsInOrder, TestsStillHold,
                 Between, Slots, next
  <2>3. TestsStillHold'
    BY <1>10 DEF PopStoreTail, producerVars, TestsStillHold
  <2>4. \A i \in Slots : Between(mTailPtr', i) < Count' => Between(mTailPtr, i) < Count
    BY <1>10 DEF PopStoreTail, TypeOK, producerVars, PositionsInOrder, TestsStillHold,
                 Count, Between, Slots, next
  <2>5. FramesWhole'
    BY <1>10, <2>4 DEF PopStoreTail, producerVars, FramesWhole, Between
  <2> QED BY <2>1, <2>2, <2>3, <2>5
<1>11. CASE UNCHANGED vars
  BY <1>11 DEF vars, producerVars, consumerVars, TypeOK, PositionsInOrder, TestsStillHold,
               FramesWhole, Count, Between, next
<1> QED
  BY <1>1, <1>2, <1>3, <1>4, <1>5, <1>6, <1>7, <1>8, <1>9, <1>10, <1>11
  DEF Next, Producer, Consumer

\* The invariant holds in every state the queue reaches.
THEOREM RingInvariant == Spec => []RingInv
BY InitRingInv, NextRingInv, PTL DEF Spec

\* Type correctness, for every Size and every set of items.
THEOREM TypeCorrect == Spec => []TypeOK
<1>1. RingInv => TypeOK
  BY DEF RingInv
<1> QED BY <1>1, RingInvariant, PTL

\* The two memcpys never meet in a slot: push and pop are free of data races.
THEOREM NoDataRace == Spec => []CopiesDisjoint
<1>1. RingInv => CopiesDisjoint
  BY SizeAssumption DEF RingInv, CopiesDisjoint, TypeOK, PositionsInOrder, TestsStillHold,
                        Between, Slots
<1> QED BY <1>1, RingInvariant, PTL

\* What push returns (WaitFreeRingBuffer.h:71), and a size() that the producer calls,
\* is never less than what the queue holds: size() errs on the safe side.
THEOREM SizeSafeForProducer == Spec => []ProducerNeverUnderestimates
<1>1. RingInv => ProducerNeverUnderestimates
  BY SizeAssumption DEF RingInv, ProducerNeverUnderestimates, TypeOK, PositionsInOrder,
                        Visible, Count, Between, Slots
<1> QED BY <1>1, RingInvariant, PTL

\* A size() that the consumer calls is never more than what the queue holds, so that
\* as many pops as it reports all find an item (AudioSocket.cpp:257-280).
THEOREM SizeSafeForConsumer == Spec => []ConsumerNeverOverestimates
<1>1. RingInv => ConsumerNeverOverestimates
  BY SizeAssumption DEF RingInv, ConsumerNeverOverestimates, TypeOK, PositionsInOrder,
                        Visible, Count, Between, Slots
<1> QED BY <1>1, RingInvariant, PTL

-----------------------------------------------------------------------------
(* The queue implements BoundedFifo. *)

\* The k-th waiting item is in the slot k - 1 after the tail, before the head.
LEMMA NthSlot ==
  ASSUME TypeOK, NEW k \in 1 .. Count
  PROVE  /\ Nth(k - 1) \in Slots
         /\ Between(mTailPtr, Nth(k - 1)) = k - 1
         /\ Nth(k - 1) # mHeadPtr
BY SizeAssumption DEF TypeOK, Count, Nth, Between, Slots

\* The waiting items are a sequence of Count frames, none of them torn.
LEMMA ContentsSeq ==
  ASSUME RingInv
  PROVE  /\ Count \in Nat /\ Count < Size
         /\ Contents \in Seq(Items) /\ Len(Contents) = Count
<1>1. Count \in 0 .. Size - 1
  BY BetweenInRange DEF RingInv, TypeOK, Count
<1>2. \A k \in 1 .. Count : mRing[Nth(k - 1)] \in Items
  <2> SUFFICES ASSUME NEW k \in 1 .. Count PROVE mRing[Nth(k - 1)] \in Items
    OBVIOUS
  <2>1. Nth(k - 1) \in Slots /\ Between(mTailPtr, Nth(k - 1)) = k - 1
    BY NthSlot DEF RingInv
  <2> QED BY <1>1, <2>1, SizeAssumption DEF RingInv, FramesWhole
<1> QED BY <1>1, <1>2, SizeAssumption DEF Contents

\* A step that moves neither position and writes no waiting slot changes nothing.
LEMMA ContentsUnchanged ==
  ASSUME TypeOK, UNCHANGED <<mHeadPtr, mTailPtr>>,
         \A i \in Slots : i # mHeadPtr => mRing'[i] = mRing[i]
  PROVE  Contents' = Contents
<1>1. Count' = Count
  BY DEF Count, Between
<1>2. \A k \in 1 .. Count : mRing'[Nth(k - 1)'] = mRing[Nth(k - 1)]
  BY NthSlot DEF Nth
<1> QED BY <1>1, <1>2 DEF Contents

\* Storing the head appends the item that was pushed.
LEMMA StoreHeadEnqueues ==
  ASSUME RingInv, PushStoreHead
  PROVE  Fifo!Enqueue(pushValue) /\ pushValue \in Items
<1>1. TypeOK /\ Count \in Nat /\ Contents \in Seq(Items) /\ Len(Contents) = Count
  BY ContentsSeq DEF RingInv
<1>2. Count < Size - 1 /\ Count' = Count + 1 /\ UNCHANGED <<mRing, mTailPtr, received>>
  BY SizeAssumption DEF PushStoreHead, consumerVars, RingInv, TypeOK, PositionsInOrder,
                        TestsStillHold, Count, Between, Slots, next
<1>3. Nth(Count) = mHeadPtr
  BY SizeAssumption DEF RingInv, TypeOK, Nth, Count, Between, Slots
<1>4. mRing[mHeadPtr] = pushValue /\ pushValue \in Items
  BY DEF PushStoreHead, RingInv, FramesWhole, TestsStillHold
<1>5. Contents' = Append(Contents, pushValue)
  <2>1. Contents' = [k \in 1 .. Count + 1 |-> mRing[Nth(k - 1)]]
    BY <1>2 DEF Contents, Nth
  <2>2. \A k \in 1 .. Count : mRing[Nth(k - 1)] = Contents[k]
    BY DEF Contents
  <2>3. mRing[Nth((Count + 1) - 1)] = pushValue
    BY <1>1, <1>3, <1>4
  <2>4. Contents' \in Seq(Items) /\ Len(Contents') = Count + 1
    <3>1. \A k \in 1 .. Count + 1 : mRing[Nth(k - 1)] \in Items
      <4> SUFFICES ASSUME NEW k \in 1 .. Count + 1 PROVE mRing[Nth(k - 1)] \in Items
        OBVIOUS
      <4>1. CASE k = Count + 1
        BY <1>4, <2>3, <4>1
      <4>2. CASE k \in 1 .. Count
        BY <1>1, <2>2, <4>2, ElementOfSeq
      <4> QED BY <1>1, <4>1, <4>2
    <3> QED BY <1>1, <2>1, <3>1
  <2>5. Append(Contents, pushValue) \in Seq(Items)
        /\ Len(Append(Contents, pushValue)) = Count + 1
    BY <1>1, <1>4, AppendProperties
  <2>6. \A k \in 1 .. Count + 1 : Contents'[k] = Append(Contents, pushValue)[k]
    BY <1>1, <1>4, <2>1, <2>2, <2>3, AppendProperties
  <2> QED BY <2>4, <2>5, <2>6, SeqEqual
<1> QED BY <1>1, <1>2, <1>4, <1>5 DEF Fifo!Enqueue

\* Storing the tail removes the item that was copied out.
LEMMA StoreTailDequeues ==
  ASSUME RingInv, PopStoreTail
  PROVE  Fifo!Dequeue
<1>1. TypeOK /\ Count \in Nat /\ Contents \in Seq(Items) /\ Len(Contents) = Count
  BY ContentsSeq DEF RingInv
<1>2. Count > 0 /\ Count' = Count - 1 /\ mRing' = mRing /\ received' = popValue
  BY SizeAssumption DEF PopStoreTail, producerVars, RingInv, TypeOK, PositionsInOrder,
                        TestsStillHold, Count, Between, Slots, next
<1>3. popValue = Contents[1]
  <2>1. popValue = mRing[mTailPtr]
    BY DEF PopStoreTail, RingInv, FramesWhole
  <2>2. Nth(1 - 1) = mTailPtr
    BY SizeAssumption DEF RingInv, TypeOK, Nth, Slots
  <2>3. Contents[1] = mRing[Nth(1 - 1)]
    BY <1>1, <1>2 DEF Contents
  <2> QED BY <2>1, <2>2, <2>3
<1>4. \A k \in 1 .. Count - 1 : Nth(k - 1)' = Nth(k)
  BY <1>1, SizeAssumption DEF PopStoreTail, producerVars, RingInv, TypeOK, Nth, Count,
                              Between, Slots, next
<1>5. Contents' = Tail(Contents)
  <2>1. Contents' = [k \in 1 .. Count - 1 |-> mRing[Nth(k)]]
    BY <1>2, <1>4 DEF Contents
  <2>2. \A k \in 1 .. Count - 1 : Contents[k + 1] = mRing[Nth((k + 1) - 1)]
    BY <1>1 DEF Contents
  <2>3. \A k \in 1 .. Count - 1 : mRing[Nth(k)] = Contents[k + 1]
    BY <1>1, <2>2
  <2>4. Contents' \in Seq(Items) /\ Len(Contents') = Count - 1
    <3>1. \A k \in 1 .. Count - 1 : mRing[Nth(k)] \in Items
      BY <1>1, <2>3, ElementOfSeq
    <3> QED BY <1>1, <1>2, <2>1, <3>1
  <2>5. Tail(Contents) \in Seq(Items) /\ Len(Tail(Contents)) = Count - 1
        /\ \A k \in 1 .. Count - 1 : Tail(Contents)[k] = Contents[k + 1]
    BY <1>1, <1>2, HeadTailProperties
  <2>6. \A k \in 1 .. Count - 1 : Contents'[k] = Tail(Contents)[k]
    BY <2>1, <2>3, <2>5
  <2> QED BY <1>1, <1>2, <2>4, <2>5, <2>6, SeqEqual
<1> QED BY <1>1, <1>2, <1>3, <1>5 DEF Fifo!Dequeue

\* Every step of push and of pop is a step of the FIFO or changes nothing in it.
LEMMA StepImplements == RingInv /\ [Next]_vars => [Fifo!Next]_(Fifo!vars)
<1> SUFFICES ASSUME RingInv, [Next]_vars
             PROVE  [Fifo!Next]_(Fifo!vars)
  OBVIOUS
<1>1. CASE PushStoreHead
  BY <1>1, StoreHeadEnqueues DEF Fifo!Next
<1>2. CASE PopStoreTail
  BY <1>2, StoreTailDequeues DEF Fifo!Next
<1>3. ASSUME ~PushStoreHead, ~PopStoreTail
      PROVE  UNCHANGED <<mHeadPtr, mTailPtr, received>>
  BY <1>3 DEF Next, Producer, Consumer, vars, producerVars, consumerVars, PushOverrun,
     PushLoadTail, PushWriteBegin, PushWriteEnd, PopUnderrun, PopLoadHead, PopReadBegin,
     PopReadEnd
<1>4. ASSUME ~PushStoreHead, ~PopStoreTail
      PROVE  \A i \in Slots : i # mHeadPtr => mRing'[i] = mRing[i]
  BY <1>4 DEF Next, Producer, Consumer, vars, producerVars, consumerVars, PushOverrun,
     PushLoadTail, PushWriteBegin, PushWriteEnd, PopUnderrun, PopLoadHead, PopReadBegin,
     PopReadEnd, RingInv, TypeOK
<1>5. ASSUME ~PushStoreHead, ~PopStoreTail
      PROVE  UNCHANGED Fifo!vars
  BY <1>3, <1>4, <1>5, ContentsUnchanged DEF RingInv, Fifo!vars
<1> QED BY <1>1, <1>2, <1>5

\* The ring buffer is a FIFO of Size - 1 items, for every Size.
THEOREM ImplementsFifo == Spec => FifoSpec
<1>1. Init => Fifo!Init
  <2> SUFFICES ASSUME Init PROVE Contents = << >> /\ received = NoItem
    BY DEF Fifo!Init
  <2>1. Count = 0
    BY DEF Init, Count, Between
  <2> QED BY <2>1 DEF Contents, Init
<1>2. RingInv /\ [Next]_vars => [Fifo!Next]_(Fifo!vars)
  BY StepImplements
<1> QED BY <1>1, <1>2, RingInvariant, PTL DEF Spec, FifoSpec, Fifo!Spec
=============================================================================
