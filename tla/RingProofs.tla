----------------------------- MODULE RingProofs -----------------------------
(***************************************************************************)
(* The two rings.  RingBuffer for every number of slots: type correctness, *)
(* the order of the slots held, and the balance of the statistics.         *)
(* AudioSocket, whose callback plays out of a ring of extra samples, for   *)
(* every size of that ring, of the packets' queue and of a sample: the     *)
(* order of what is played, and what becomes of each sample.               *)
(***************************************************************************)
EXTENDS RingBuffer, AudioSocket, WellFoundedInduction, TLAPS

-----------------------------------------------------------------------------
(* RingBuffer *)

\* The positions of a ring, without the modulo.
LEMMA AheadInRing ==
  \A p \in Slots, d \in 0 .. NumSlots :
    Ahead(p, d) = (IF p + d < NumSlots THEN p + d ELSE p + d - NumSlots) /\ Ahead(p, d) \in Slots
<1>1. \A x \in 0 .. NumSlots - 1 : x % NumSlots = x
  BY RingBufferAssumption
<1>2. \A x \in NumSlots .. 2 * NumSlots - 1 : x % NumSlots = x - NumSlots
  BY RingBufferAssumption
<1> QED BY <1>1, <1>2, RingBufferAssumption DEF Ahead, Slots

LEMMA AheadZero == \A p \in Slots : Ahead(p, 0) = p
BY AheadInRing, RingBufferAssumption DEF Slots

LEMMA AheadAdds ==
  ASSUME NEW p \in Slots, NEW a \in 0 .. NumSlots, NEW b \in 0 .. NumSlots, a + b <= NumSlots
  PROVE  Ahead(Ahead(p, a), b) = Ahead(p, a + b) /\ Ahead(p, a + b) \in Slots
<1>1. a + b \in 0 .. NumSlots
  BY RingBufferAssumption
<1>2. Ahead(p, a) = (IF p + a < NumSlots THEN p + a ELSE p + a - NumSlots)
      /\ Ahead(p, a) \in Slots
  BY AheadInRing
<1>3. Ahead(p, a + b) = (IF p + (a + b) < NumSlots THEN p + (a + b) ELSE p + (a + b) - NumSlots)
      /\ Ahead(p, a + b) \in Slots
  BY <1>1, AheadInRing
<1>4. Ahead(Ahead(p, a), b) = (IF Ahead(p, a) + b < NumSlots THEN Ahead(p, a) + b
                                                          ELSE Ahead(p, a) + b - NumSlots)
  BY <1>2, AheadInRing
<1> HIDE DEF Ahead
<1> QED BY <1>2, <1>3, <1>4, RingBufferAssumption DEF Slots

LEMMA AheadDiffers ==
  ASSUME NEW p \in Slots, NEW a \in 0 .. NumSlots - 1, NEW b \in 0 .. NumSlots - 1, a # b
  PROVE  Ahead(p, a) # Ahead(p, b)
<1>1. a \in 0 .. NumSlots /\ b \in 0 .. NumSlots
  BY RingBufferAssumption
<1>2. Ahead(p, a) = (IF p + a < NumSlots THEN p + a ELSE p + a - NumSlots)
  BY <1>1, AheadInRing
<1>3. Ahead(p, b) = (IF p + b < NumSlots THEN p + b ELSE p + b - NumSlots)
  BY <1>1, AheadInRing
<1> QED BY <1>2, <1>3, RingBufferAssumption DEF Slots

LEMMA HalfInRing ==
  /\ NumSlots \div 2 \in 0 .. NumSlots - 1
  /\ (NumSlots \div 2) % NumSlots = NumSlots \div 2
<1>1. NumSlots \div 2 \in 0 .. NumSlots - 1
  BY RingBufferAssumption
<1> QED BY <1>1, RingBufferAssumption

RingInv == TypeOK /\ HeldInOrder

LEMMA InitRingInv == Init => RingInv
<1> SUFFICES ASSUME Init PROVE RingInv
  OBVIOUS
<1>1. mWritePosition \in Slots /\ mFullSlots \in 0 .. NumSlots /\ mReadPosition \in Slots
      /\ mReadPosition = 0 /\ mWritePosition = mFullSlots
  <2>1. mWritePosition = NumSlots \div 2 /\ mFullSlots = NumSlots \div 2 /\ mReadPosition = 0
    BY HalfInRing DEF Init
  <2> QED BY <2>1, HalfInRing, RingBufferAssumption DEF Slots
<1>2. TypeOK
  <2>1. inserts = 0 /\ mRingBuffer \in [Slots -> 0 .. inserts]
    BY DEF Init, Silence
  <2>2. mLastReadSlot \in 0 .. inserts /\ given \in 0 .. inserts
    BY <2>1 DEF Init, Silence
  <2>3. waiting \in BOOLEAN /\ (waiting => kind = "send")
        /\ kind \in {"send", "zeros", "wavetable"}
    BY DEF Init
  <2>4. /\ mReadsNew \in Nat /\ mUnderrunsNew \in Nat /\ reads \in Nat /\ inserts \in Nat
        /\ mUnderruns \in Nat /\ mOverflows \in Nat /\ mBufDecPktLoss \in Nat
        /\ mSkewRaw \in Int
    BY RingBufferAssumption DEF Init
  <2> QED BY <1>1, <2>1, <2>2, <2>3, <2>4 DEF TypeOK
<1>3. \A i \in 0 .. mFullSlots - 1 : Nth(i) = Silence
  <2>1. \A i \in 0 .. mFullSlots - 1 : Ahead(mReadPosition, i) \in Slots
    BY <1>1, AheadInRing, RingBufferAssumption
  <2> QED BY <2>1 DEF Init, Nth
<1>4. mWritePosition = Ahead(mReadPosition, mFullSlots)
  BY <1>1, AheadInRing, RingBufferAssumption DEF Slots
<1> QED BY <1>2, <1>3, <1>4 DEF RingInv, HeldInOrder, Init

\* The slot at mReadPosition is handed out: the next ones move up by one.
LEMMA TakeSlotInv ==
  ASSUME RingInv, TakeSlot, inserts' = inserts
  PROVE  HeldInOrder' /\ mReadPosition' \in Slots /\ mFullSlots' \in 0 .. NumSlots
         /\ given' \in 0 .. inserts /\ mLastReadSlot' \in 0 .. inserts
<1>1. mFullSlots \in 1 .. NumSlots /\ mFullSlots' = mFullSlots - 1
      /\ mReadPosition \in Slots /\ mReadPosition' = Ahead(mReadPosition, 1)
      /\ mWritePosition' = mWritePosition /\ mRingBuffer' = mRingBuffer
      /\ mLastReadSlot' = mRingBuffer[mReadPosition] /\ given' = mRingBuffer[mReadPosition]
      /\ mRingBuffer[mReadPosition] \in 0 .. inserts
  BY RingBufferAssumption DEF TakeSlot, RingInv, TypeOK
<1>2. \A i \in 0 .. mFullSlots - 1 :
        Ahead(mReadPosition', i) = Ahead(mReadPosition, i + 1)
  <2> SUFFICES ASSUME NEW i \in 0 .. mFullSlots - 1
               PROVE  Ahead(mReadPosition', i) = Ahead(mReadPosition, i + 1)
    OBVIOUS
  <2>1. i \in 0 .. NumSlots /\ 1 \in 0 .. NumSlots /\ 1 + i <= NumSlots /\ 1 + i = i + 1
    BY <1>1, RingBufferAssumption
  <2>2. Ahead(Ahead(mReadPosition, 1), i) = Ahead(mReadPosition, 1 + i)
    BY <1>1, <2>1, AheadAdds
  <2> QED BY <1>1, <2>1, <2>2
<1>3. \A i \in 0 .. mFullSlots' - 1 : Nth(i)' = Nth(i + 1)
  BY <1>1, <1>2, RingBufferAssumption DEF Nth
<1>4. Nth(0) = mRingBuffer[mReadPosition]
  BY <1>1, AheadZero DEF Nth
<1>5. mWritePosition' = Ahead(mReadPosition', mFullSlots')
  <2>1. mFullSlots - 1 \in 0 .. mFullSlots - 1 /\ (mFullSlots - 1) + 1 = mFullSlots
    BY <1>1, RingBufferAssumption
  <2> QED BY <1>1, <1>2, <2>1 DEF RingInv, HeldInOrder
<1>6. \A i \in 0 .. mFullSlots - 1 : Nth(i) \in Nat
  <2>1. \A i \in 0 .. mFullSlots - 1 : Ahead(mReadPosition, i) \in Slots
    BY <1>1, AheadInRing, RingBufferAssumption
  <2> QED BY <2>1 DEF Nth, RingInv, TypeOK
<1>7. \A i \in 0 .. mFullSlots' - 1 :
        (Nth(i)' = Silence /\ mLastReadSlot' = Silence) \/ Nth(i)' > mLastReadSlot'
  BY <1>1, <1>3, <1>4, <1>6, RingBufferAssumption DEF RingInv, HeldInOrder, Silence
<1>8. \A i, j \in 0 .. mFullSlots' - 1 :
        i < j => Nth(i)' < Nth(j)' \/ (Nth(i)' = Silence /\ Nth(j)' = Silence)
  BY <1>1, <1>3, RingBufferAssumption DEF RingInv, HeldInOrder
<1>9. HeldInOrder'
  BY <1>5, <1>7, <1>8 DEF HeldInOrder, Silence
<1>10. mReadPosition' \in Slots
  BY <1>1, AheadInRing, RingBufferAssumption
<1> QED BY <1>1, <1>9, <1>10, RingBufferAssumption

\* What leaves the data and mLastReadSlot alone keeps the order.
LEMMA HeldUnchanged ==
  ASSUME HeldInOrder, UNCHANGED <<dataVars, mLastReadSlot>>
  PROVE  HeldInOrder'
BY DEF HeldInOrder, dataVars, Nth, Ahead

LEMMA InsertInv ==
  ASSUME RingInv, NEW lostCount \in LostCounts, InsertSlotNonBlocking(lostCount)
  PROVE  RingInv'
<1>1. lostCount \in Nat
  BY RingBufferAssumption
<1>2. /\ mReadsNew' \in Nat /\ mUnderrunsNew' \in Nat /\ mUnderruns' \in Nat
      /\ mBufDecPktLoss' \in Nat /\ mSkewRaw' \in Int
      /\ inserts' = inserts + 1 /\ UNCHANGED <<kind, mLastReadSlot, waiting, given, reads>>
  BY <1>1 DEF InsertSlotNonBlocking, UpdateReadStats, RingInv, TypeOK
<1>t. /\ mReadPosition \in Slots /\ mWritePosition \in Slots /\ mFullSlots \in 0 .. NumSlots
      /\ inserts \in Nat /\ mRingBuffer \in [Slots -> 0 .. inserts] /\ mOverflows \in Nat
      /\ mLastReadSlot \in 0 .. inserts /\ given \in 0 .. inserts
      /\ mWritePosition = Ahead(mReadPosition, mFullSlots)
  BY DEF RingInv, TypeOK, HeldInOrder
<1>3. CASE mFullSlots = NumSlots /\ OverflowReset
  <2> DEFINE d == NumSlots \div 2
  <2>1. d \in 0 .. NumSlots - 1 /\ d \in 0 .. NumSlots
    BY HalfInRing, RingBufferAssumption
  <2>2. /\ mReadPosition' = Ahead(mReadPosition, d)
        /\ mFullSlots' = mFullSlots - d /\ mOverflows' = mOverflows + d + 1
        /\ mWritePosition' = mWritePosition /\ mRingBuffer' = mRingBuffer
    BY <1>3 DEF OverflowReset
  <2> HIDE DEF d
  <2>3. \A i \in 0 .. mFullSlots' : Ahead(mReadPosition', i) = Ahead(mReadPosition, i + d)
    <3> SUFFICES ASSUME NEW i \in 0 .. mFullSlots'
                 PROVE  Ahead(mReadPosition', i) = Ahead(mReadPosition, i + d)
      OBVIOUS
    <3>1. i \in 0 .. NumSlots /\ d + i <= NumSlots /\ d + i = i + d
      BY <1>3, <2>1, <2>2, RingBufferAssumption
    <3>2. Ahead(Ahead(mReadPosition, d), i) = Ahead(mReadPosition, d + i)
      BY <1>t, <2>1, <3>1, AheadAdds
    <3> QED BY <2>2, <3>1, <3>2
  <2>4. mFullSlots' \in 0 .. NumSlots /\ mFullSlots' + d = mFullSlots
        /\ mReadPosition' \in Slots
    <3>1. mReadPosition' \in Slots
      BY <1>t, <2>1, <2>2, AheadInRing
    <3> QED BY <1>3, <2>1, <2>2, <3>1, RingBufferAssumption
  <2>5. \A i \in 0 .. mFullSlots' - 1 : Nth(i)' = Nth(i + d)
    BY <2>2, <2>3, <2>4, RingBufferAssumption DEF Nth
  <2>6. mWritePosition' = Ahead(mReadPosition', mFullSlots')
    <3>1. mFullSlots' \in 0 .. mFullSlots'
      BY <2>4, RingBufferAssumption
    <3> QED BY <1>t, <2>2, <2>3, <2>4, <3>1
  <2>7. \A i \in 0 .. mFullSlots' - 1 : i + d \in 0 .. mFullSlots - 1
    <3> SUFFICES ASSUME NEW i \in 0 .. mFullSlots' - 1 PROVE i + d \in 0 .. mFullSlots - 1
      OBVIOUS
    <3>1. mFullSlots = NumSlots /\ mFullSlots' = NumSlots - d
      BY <1>3, <2>2
    <3>2. i \in 0 .. (NumSlots - d) - 1
      BY <3>1
    <3> QED BY <2>1, <3>1, <3>2, RingBufferAssumption
  <2>8. \A i \in 0 .. mFullSlots' - 1 :
          (Nth(i)' = Silence /\ mLastReadSlot' = Silence) \/ Nth(i)' > mLastReadSlot'
    BY <1>2, <2>5, <2>7 DEF RingInv, HeldInOrder
  <2>9. \A i, j \in 0 .. mFullSlots' - 1 :
          i < j => Nth(i)' < Nth(j)' \/ (Nth(i)' = Silence /\ Nth(j)' = Silence)
    <3> SUFFICES ASSUME NEW i \in 0 .. mFullSlots' - 1, NEW j \in 0 .. mFullSlots' - 1, i < j
                 PROVE  Nth(i)' < Nth(j)' \/ (Nth(i)' = Silence /\ Nth(j)' = Silence)
      OBVIOUS
    <3>1. i + d < j + d
      BY <2>1, <2>4, RingBufferAssumption
    <3> QED BY <2>5, <2>7, <3>1 DEF RingInv, HeldInOrder
  <2>10. HeldInOrder'
    BY <2>6, <2>8, <2>9 DEF HeldInOrder, Silence
  <2>11. TypeOK'
    <3>1. mRingBuffer' \in [Slots -> 0 .. inserts'] /\ mLastReadSlot' \in 0 .. inserts'
          /\ given' \in 0 .. inserts' /\ mOverflows' \in Nat
      BY <1>2, <1>t, <2>1, <2>2, RingBufferAssumption
    <3> QED BY <1>2, <2>2, <2>4, <3>1 DEF RingInv, TypeOK
  <2> QED BY <2>10, <2>11 DEF RingInv
<1>4. CASE /\ mFullSlots < NumSlots
           /\ mRingBuffer' = [mRingBuffer EXCEPT ![mWritePosition] = inserts + 1]
           /\ mWritePosition' = Ahead(mWritePosition, 1)
           /\ mFullSlots' = mFullSlots + 1
           /\ UNCHANGED <<mReadPosition, mOverflows>>
  <2>0. mFullSlots \in 0 .. NumSlots - 1 /\ 1 \in 0 .. NumSlots /\ mFullSlots + 1 <= NumSlots
        /\ mFullSlots' \in 0 .. NumSlots
    BY <1>t, <1>4, RingBufferAssumption
  <2>1. mWritePosition' = Ahead(mReadPosition', mFullSlots') /\ mWritePosition' \in Slots
    BY <1>t, <1>4, <2>0, AheadAdds
  <2>2. TypeOK'
    <3>1. mRingBuffer' \in [Slots -> 0 .. inserts'] /\ mLastReadSlot' \in 0 .. inserts'
          /\ given' \in 0 .. inserts'
      BY <1>2, <1>t, <1>4
    <3> QED BY <1>2, <1>4, <2>0, <2>1, <3>1 DEF RingInv, TypeOK
  <2>3. \A i \in 0 .. mFullSlots - 1 : Ahead(mReadPosition, i) \in Slots \ {mWritePosition}
    <3> SUFFICES ASSUME NEW i \in 0 .. mFullSlots - 1
                 PROVE  Ahead(mReadPosition, i) \in Slots \ {mWritePosition}
      OBVIOUS
    <3>1. i \in 0 .. NumSlots /\ i \in 0 .. NumSlots - 1 /\ i # mFullSlots
      BY <2>0, RingBufferAssumption
    <3>2. Ahead(mReadPosition, i) # Ahead(mReadPosition, mFullSlots)
      BY <1>t, <2>0, <3>1, AheadDiffers
    <3>3. Ahead(mReadPosition, i) \in Slots
      BY <1>t, <3>1, AheadInRing
    <3> QED BY <1>t, <3>2, <3>3
  <2>4. \A i \in 0 .. mFullSlots - 1 : Nth(i)' = Nth(i) /\ Nth(i) \in 0 .. inserts
    BY <1>t, <1>4, <2>3 DEF Nth
  <2>5. \A i : i = mFullSlots => Nth(i)' = inserts + 1
    <3>1. Ahead(mReadPosition', mFullSlots) = mWritePosition
      BY <1>t, <1>4
    <3>2. mRingBuffer'[mWritePosition] = inserts + 1
      BY <1>t, <1>4
    <3> QED BY <3>1, <3>2 DEF Nth
  <2>6. \A i \in 0 .. mFullSlots' - 1 : i \in 0 .. mFullSlots - 1 \/ i = mFullSlots
    BY <1>4, <2>0, RingBufferAssumption
  <2>7. \A i \in 0 .. mFullSlots' - 1 :
          (Nth(i)' = Silence /\ mLastReadSlot' = Silence) \/ Nth(i)' > mLastReadSlot'
    BY <1>2, <1>t, <2>4, <2>5, <2>6 DEF RingInv, HeldInOrder
  <2>8. \A i, j \in 0 .. mFullSlots' - 1 :
          i < j => Nth(i)' < Nth(j)' \/ (Nth(i)' = Silence /\ Nth(j)' = Silence)
    <3> SUFFICES ASSUME NEW i \in 0 .. mFullSlots' - 1, NEW j \in 0 .. mFullSlots' - 1, i < j
                 PROVE  Nth(i)' < Nth(j)' \/ (Nth(i)' = Silence /\ Nth(j)' = Silence)
      OBVIOUS
    <3>1. i \in 0 .. mFullSlots - 1
      BY <1>4, <2>0, RingBufferAssumption
    <3>2. CASE j = mFullSlots
      BY <1>t, <2>4, <2>5, <3>1, <3>2
    <3>3. CASE j \in 0 .. mFullSlots - 1
      BY <2>4, <3>1, <3>3 DEF RingInv, HeldInOrder
    <3> QED BY <2>6, <3>2, <3>3
  <2> QED BY <2>1, <2>2, <2>7, <2>8 DEF RingInv, HeldInOrder, Silence
<1> QED BY <1>3, <1>4 DEF InsertSlotNonBlocking

LEMMA NextRingInv == RingInv /\ [Next]_vars => RingInv'
<1> SUFFICES ASSUME RingInv, [Next]_vars PROVE RingInv'
  OBVIOUS
<1>1. ASSUME NEW lostCount \in LostCounts, InsertSlotNonBlocking(lostCount) PROVE RingInv'
  BY <1>1, InsertInv
<1>2. CASE ReadSlotNonBlocking
  <2>1. CASE mFullSlots <= 0 /\ UnderrunReset
    <3>1. mFullSlots = 0 /\ mFullSlots' = 0
      BY <2>1 DEF RingInv, TypeOK, UnderrunReset
    <3>2. HeldInOrder'
      BY <3>1, <2>1 DEF RingInv, HeldInOrder, UnderrunReset, Ahead
    <3>3. TypeOK'
      BY <1>2, <2>1 DEF RingInv, TypeOK, UnderrunReset, ReadSlotNonBlocking, statVars, Silence
    <3> QED BY <3>2, <3>3 DEF RingInv
  <2>2. CASE TakeSlot /\ UNCHANGED mUnderrunsNew
    <3>1. inserts' = inserts
      BY <1>2 DEF ReadSlotNonBlocking
    <3>2. TypeOK'
      BY <1>2, <2>2, <3>1, TakeSlotInv
         DEF RingInv, TypeOK, TakeSlot, ReadSlotNonBlocking, statVars
    <3> QED BY <2>2, <3>1, <3>2, TakeSlotInv DEF RingInv
  <2> QED BY <1>2, <2>1, <2>2 DEF ReadSlotNonBlocking
<1>3. CASE ReadSlotBlocking
  <2>1. inserts' = inserts
    BY <1>3 DEF ReadSlotBlocking
  <2>2. CASE TakeSlot /\ UNCHANGED waiting
    <3>1. TypeOK'
      BY <1>3, <2>1, <2>2, TakeSlotInv
         DEF RingInv, TypeOK, TakeSlot, ReadSlotBlocking, statVars
    <3> QED BY <2>1, <2>2, <3>1, TakeSlotInv DEF RingInv
  <2>3. CASE mFullSlots = 0 /\ waiting' = TRUE /\ UNCHANGED <<dataVars, mLastReadSlot, given>>
    <3>1. TypeOK'
      BY <1>3, <2>1, <2>3 DEF RingInv, TypeOK, ReadSlotBlocking, statVars, dataVars
    <3> QED BY <2>3, <3>1, HeldUnchanged DEF RingInv
  <2> QED BY <1>3, <2>2, <2>3 DEF ReadSlotBlocking
<1>4. CASE ReadSlotWoken
  <2>1. inserts' = inserts /\ TakeSlot
    BY <1>4 DEF ReadSlotWoken
  <2>2. TypeOK'
    BY <1>4, <2>1, TakeSlotInv DEF RingInv, TypeOK, TakeSlot, ReadSlotWoken, statVars
  <2> QED BY <2>1, <2>2, TakeSlotInv DEF RingInv
<1>5. CASE ReadSlotAborted
  <2>1. TypeOK'
    BY <1>5 DEF RingInv, TypeOK, ReadSlotAborted, statVars, dataVars
  <2>2. HeldInOrder'
    BY <1>5, HeldUnchanged DEF RingInv, ReadSlotAborted
  <2> QED BY <2>1, <2>2 DEF RingInv
<1>6. CASE ResetStats
  <2>1. TypeOK'
    BY <1>6 DEF RingInv, TypeOK, ResetStats, dataVars
  <2>2. HeldInOrder'
    BY <1>6, HeldUnchanged DEF RingInv, ResetStats
  <2> QED BY <2>1, <2>2 DEF RingInv
<1>7. CASE UNCHANGED vars
  <2>1. TypeOK'
    BY <1>7 DEF RingInv, TypeOK, vars, dataVars, statVars
  <2>2. HeldInOrder'
    BY <1>7, HeldUnchanged DEF RingInv, vars
  <2> QED BY <2>1, <2>2 DEF RingInv
<1> QED BY <1>1, <1>2, <1>3, <1>4, <1>5, <1>6, <1>7 DEF Next

THEOREM RingInvariant == Spec => []RingInv
BY InitRingInv, NextRingInv, PTL DEF Spec

\* Positions, counts and slots stay in range, for every number of slots.
THEOREM RingBufferTypeCorrect == Spec => []TypeOK
<1>1. RingInv => TypeOK
  BY DEF RingInv
<1> QED BY <1>1, RingInvariant, PTL

\* The slots held are in the order of their insertion and newer than what was
\* read, whatever overflows and underruns there are, for every number of slots.
THEOREM SlotsHeldInOrder == Spec => []HeldInOrder
<1>1. RingInv => HeldInOrder
  BY DEF RingInv
<1> QED BY <1>1, RingInvariant, PTL

\* The balance of one step.
LEMMA StepBalances ==
  ASSUME TypeOK, [Next]_vars
  PROVE  [Balance' = Balance \/ ResetStats \/ ReadSlotAborted]_vars
<1>i. /\ mFullSlots \in Int /\ mOverflows \in Int /\ mUnderruns \in Int /\ mUnderrunsNew \in Int
      /\ mSkewRaw \in Int /\ mBufDecPktLoss \in Int /\ mReadsNew \in Int
  BY RingBufferAssumption DEF TypeOK
<1>o. /\ Outstanding \in {0, 1}
      /\ waiting' = waiting => Outstanding' = Outstanding
      /\ waiting = FALSE => Outstanding = 0
      /\ waiting = TRUE => Outstanding = 1
      /\ waiting' = FALSE => Outstanding' = 0
      /\ waiting' = TRUE => Outstanding' = 1
  BY DEF Outstanding, TypeOK
<1>1. ASSUME NEW lostCount \in LostCounts, InsertSlotNonBlocking(lostCount)
      PROVE  Balance' = Balance
  <2>1. lostCount \in Nat /\ NumSlots \div 2 \in Nat /\ Outstanding' = Outstanding
    BY <1>1, <1>o, RingBufferAssumption DEF InsertSlotNonBlocking
  <2>2. mSkewRaw' = mSkewRaw - lostCount - 1 + mReadsNew
        /\ mBufDecPktLoss' = mBufDecPktLoss + lostCount /\ mReadsNew' = 0
        /\ mUnderruns' = mUnderruns + mUnderrunsNew /\ mUnderrunsNew' = 0
    BY <1>1 DEF InsertSlotNonBlocking, UpdateReadStats
  <2>3. CASE OverflowReset
    <3>1. mFullSlots' = mFullSlots - NumSlots \div 2
          /\ mOverflows' = mOverflows + NumSlots \div 2 + 1
      BY <2>3 DEF OverflowReset
    <3> QED BY <1>i, <1>o, <2>1, <2>2, <3>1 DEF Balance
  <2>4. CASE mFullSlots' = mFullSlots + 1 /\ UNCHANGED mOverflows
    BY <1>i, <1>o, <2>1, <2>2, <2>4 DEF Balance
  <2> QED BY <1>1, <2>3, <2>4 DEF InsertSlotNonBlocking
<1>2. ASSUME ReadSlotNonBlocking PROVE Balance' = Balance
  <2>1. Outstanding' = Outstanding /\ mReadsNew' = mReadsNew + 1
        /\ mUnderruns' = mUnderruns /\ mOverflows' = mOverflows
        /\ mSkewRaw' = mSkewRaw /\ mBufDecPktLoss' = mBufDecPktLoss
    BY <1>2, <1>o DEF ReadSlotNonBlocking, statVars
  <2>2. CASE UnderrunReset
    <3>1. mFullSlots' = mFullSlots /\ mUnderrunsNew' = mUnderrunsNew + 1
      BY <2>2 DEF UnderrunReset
    <3> QED BY <1>i, <1>o, <2>1, <3>1 DEF Balance
  <2>3. CASE TakeSlot /\ UNCHANGED mUnderrunsNew
    <3>1. mFullSlots' = mFullSlots - 1 /\ mUnderrunsNew' = mUnderrunsNew
      BY <2>3 DEF TakeSlot
    <3> QED BY <1>i, <1>o, <2>1, <3>1 DEF Balance
  <2> QED BY <1>2, <2>2, <2>3 DEF ReadSlotNonBlocking
<1>3. ASSUME ReadSlotBlocking PROVE Balance' = Balance
  <2>1. mReadsNew' = mReadsNew + 1 /\ Outstanding = 0
        /\ mUnderrunsNew' = mUnderrunsNew /\ mUnderruns' = mUnderruns
        /\ mOverflows' = mOverflows /\ mSkewRaw' = mSkewRaw /\ mBufDecPktLoss' = mBufDecPktLoss
    BY <1>3, <1>o DEF ReadSlotBlocking, statVars
  <2>2. CASE TakeSlot /\ UNCHANGED waiting
    <3>1. mFullSlots' = mFullSlots - 1 /\ Outstanding' = 0
      BY <1>o, <2>1, <2>2 DEF TakeSlot
    <3> QED BY <1>i, <2>1, <3>1 DEF Balance
  <2>3. CASE waiting' = TRUE /\ UNCHANGED dataVars
    <3>1. mFullSlots' = mFullSlots /\ Outstanding' = 1
      BY <1>o, <2>3 DEF dataVars
    <3> QED BY <1>i, <2>1, <3>1 DEF Balance
  <2> QED BY <1>3, <2>2, <2>3 DEF ReadSlotBlocking
<1>4. ASSUME ReadSlotWoken PROVE Balance' = Balance
  <2>1. Outstanding = 1 /\ Outstanding' = 0
    BY <1>4, <1>o DEF ReadSlotWoken
  <2>2. mFullSlots' = mFullSlots - 1 /\ mReadsNew' = mReadsNew /\ mUnderrunsNew' = mUnderrunsNew
        /\ mUnderruns' = mUnderruns /\ mOverflows' = mOverflows /\ mSkewRaw' = mSkewRaw
        /\ mBufDecPktLoss' = mBufDecPktLoss
    BY <1>4 DEF ReadSlotWoken, TakeSlot, statVars
  <2> QED BY <1>i, <2>1, <2>2 DEF Balance
<1> QED BY <1>1, <1>2, <1>3, <1>4 DEF Next

\* The statistics explain every slot, for every number of slots.
THEOREM StatisticsBalance == Spec => BooksBalance
<1>1. RingInv /\ [Next]_vars => [Balance' = Balance \/ ResetStats \/ ReadSlotAborted]_vars
  BY StepBalances DEF RingInv
<1> QED BY <1>1, RingInvariant, PTL DEF Spec, BooksBalance

-----------------------------------------------------------------------------
(* AudioSocket *)

\* The k-th position after i, and how far j is after i.
At(i, k) == (i + k) % RingSize
Gap(i, j) == (j - i) % RingSize

\* What the queue holds.
Packets == [first : Int, n : 1 .. RingSize]

\* The samples in the ring, the one that is being played included; the number
\* of the first sample that has not been read.
InRing == Gap(mNextExtraSample, mLastExtraSample)
Extras(k) == mExtraSamples[At(mNextExtraSample, k)]
BeingPlayed == IF audio = "advance" THEN 1 ELSE 0
ToCome == base + Whole(read)

\* The types, of what the invariant reads.
SocketType ==
  /\ worker \in {"loop", "greet", "header", "resetNext", "resetLast", "resetStats", "send", "pop",
                 "receive", "end", "done"}
  /\ mIsEstablished \in BOOLEAN /\ raced \in BOOLEAN
  /\ socket \in {"none", "connected", "lost"}
  /\ base \in Int /\ sent \in Nat /\ read \in Nat
  /\ mReceiveQueue \in Seq(Packets)
  /\ audio \in {"idle", "check", "play", "advance", "fill", "drain"}
  /\ reg \in Ring /\ packet \in Packets \cup {Nothing}
  /\ mExtraSamples \in [Ring -> Int]
  /\ mNextExtraSample \in Ring /\ mLastExtraSample \in Ring
  /\ mMinQueuePackets \in Nat
  /\ heard \in Nat /\ lastHeard \in Int /\ dropped \in Int

\* What is read of a connection is its header and whole samples.
StreamInv ==
  /\ sent = 0 \/ sent >= HeaderUnits
  /\ read <= sent
  /\ read = 0 \/ \E m \in Nat : read = HeaderUnits + UnitsPerSample * m
  /\ worker \in {"greet", "header"} => read = 0 /\ ~mIsEstablished
  /\ worker \in {"resetNext", "resetLast", "resetStats", "send", "pop", "receive"} => mIsEstablished
  /\ mIsEstablished => read >= HeaderUnits
  /\ ~mIsEstablished /\ socket = "connected" => read = 0

\* Where the two threads are, as long as they keep apart.
PlacesInv ==
  /\ audio = "advance" => reg = mNextExtraSample /\ mNextExtraSample # mLastExtraSample
  /\ audio = "fill" =>
       reg = mLastExtraSample /\ mNextExtraSample = mLastExtraSample /\ packet \in Packets
  /\ audio # "fill" => packet = Nothing
  /\ worker = "resetLast" => audio \in {"idle", "check"} /\ mNextExtraSample = 0

\* What waits is newer than what was heard, and older than what is to come: the
\* queue ...
QueueInv ==
  /\ lastHeard \in Nat /\ lastHeard < ToCome
  /\ packet.n > 0 => lastHeard < packet.first /\ packet.first + packet.n <= ToCome
  /\ \A i \in 1 .. Len(mReceiveQueue) :
       /\ lastHeard < mReceiveQueue[i].first
       /\ mReceiveQueue[i].first + mReceiveQueue[i].n <= ToCome
       /\ packet.n > 0 => packet.first + packet.n <= mReceiveQueue[i].first
  /\ \A i, j \in 1 .. Len(mReceiveQueue) :
       i < j => mReceiveQueue[i].first + mReceiveQueue[i].n <= mReceiveQueue[j].first

\* ... and the ring, which is older than the queue.
ExtrasInv ==
  worker # "resetLast" =>
    /\ \A k \in BeingPlayed .. InRing - 1 :
         /\ lastHeard < Extras(k) /\ Extras(k) < ToCome
         /\ \A i \in 1 .. Len(mReceiveQueue) : Extras(k) < mReceiveQueue[i].first
    /\ \A j, k \in BeingPlayed .. InRing - 1 : j < k => Extras(j) < Extras(k)

\* SamplesAccounted, the ring and the queue being counted instead of listed.
AccountsInv ==
  heard + (IF worker = "resetLast" THEN 0 ELSE InRing - BeingPlayed)
    + packet.n + SamplesOf(mReceiveQueue) + dropped = ToCome - 1

\* The inductive invariant: once a callback has run within a reset, only the types
\* and the stream are left.
SocketInv ==
  /\ SocketType /\ StreamInv
  /\ ~raced => PlacesInv /\ QueueInv /\ ExtrasInv /\ AccountsInv

-----------------------------------------------------------------------------
(* The positions of the ring of extra samples *)

\* Remainders of numbers within a lap of the ring.
LEMMA Wraps ==
  ASSUME NEW N \in Nat \ {0}
  PROVE  /\ \A x \in 0 .. N - 1 : x % N = x
         /\ \A x \in N .. 2 * N - 1 : x % N = x - N
         /\ \A x \in -N .. -1 : x % N = x + N
<1>1. \A x \in 0 .. N - 1 : x % N = x
  OBVIOUS
<1>2. \A x \in N .. 2 * N - 1 : x % N = x - N
  OBVIOUS
<1>3. \A x \in -N .. -1 : x % N = x + N
  OBVIOUS
<1> QED BY <1>1, <1>2, <1>3

LEMMA RingWraps ==
  /\ \A x \in 0 .. RingSize - 1 : x % RingSize = x
  /\ \A x \in RingSize .. 2 * RingSize - 1 : x % RingSize = x - RingSize
  /\ \A x \in -RingSize .. -1 : x % RingSize = x + RingSize
<1>1. RingSize \in Nat \ {0}
  BY AudioSocketAssumption
<1> QED BY <1>1, Wraps

\* The k-th position after i, and how far j is after i.
LEMMA AtInRing ==
  ASSUME NEW i \in Ring, NEW k \in 0 .. RingSize
  PROVE  At(i, k) = (IF i + k < RingSize THEN i + k ELSE i + k - RingSize) /\ At(i, k) \in Ring
<1>1. RingSize \in Nat \ {0}
  BY AudioSocketAssumption
<1>2. CASE i + k < RingSize
  <2>1. i + k \in 0 .. RingSize - 1
    BY <1>1, <1>2 DEF Ring
  <2>2. (i + k) % RingSize = i + k
    BY <2>1, RingWraps
  <2> QED BY <1>2, <2>1, <2>2 DEF At, Ring
<1>3. CASE i + k >= RingSize
  <2>1. /\ i + k \in RingSize .. 2 * RingSize - 1 /\ ~(i + k < RingSize)
        /\ i + k - RingSize \in 0 .. RingSize - 1
    BY <1>1, <1>3 DEF Ring
  <2>2. PICK x \in RingSize .. 2 * RingSize - 1 : x = i + k
    BY <2>1
  <2>3. x % RingSize = x - RingSize
    BY RingWraps
  <2>4. (i + k) % RingSize = i + k - RingSize
    BY <1>1, <2>2, <2>3 DEF Ring
  <2> QED BY <2>1, <2>4 DEF At, Ring
<1> QED BY <1>1, <1>2, <1>3 DEF Ring

LEMMA GapInRing ==
  ASSUME NEW i \in Ring, NEW j \in Ring
  PROVE  /\ Gap(i, j) = (IF j >= i THEN j - i ELSE j - i + RingSize)
         /\ Gap(i, j) \in 0 .. RingSize - 1
<1>1. RingSize \in Nat \ {0}
  BY AudioSocketAssumption
<1>2. CASE j >= i
  <2>1. j - i \in 0 .. RingSize - 1
    BY <1>1, <1>2 DEF Ring
  <2>2. (j - i) % RingSize = j - i
    BY <2>1, RingWraps
  <2> QED BY <1>2, <2>1, <2>2 DEF Gap
<1>3. CASE j < i
  <2>1. j - i \in -RingSize .. -1
    BY <1>1, <1>3 DEF Ring
  <2>2. (j - i) % RingSize = j - i + RingSize
    BY <2>1, RingWraps
  <2>3. j - i + RingSize \in 0 .. RingSize - 1 /\ ~(j >= i)
    BY <1>1, <1>3 DEF Ring
  <2> QED BY <2>2, <2>3 DEF Gap
<1> QED BY <1>1, <1>2, <1>3 DEF Ring

LEMMA AtGap ==
  ASSUME NEW i \in Ring
  PROVE  /\ At(i, 0) = i /\ At(i, RingSize) = i /\ Gap(i, i) = 0
         /\ \A k \in 0 .. RingSize - 1 : Gap(i, At(i, k)) = k
         /\ \A j \in Ring : At(i, Gap(i, j)) = j
<1>0. RingSize \in Nat \ {0}
  BY AudioSocketAssumption
<1>1. At(i, 0) = i /\ At(i, RingSize) = i
  BY <1>0, AtInRing DEF Ring
<1>2. Gap(i, i) = 0
  BY <1>0, GapInRing DEF Ring
<1>3. ASSUME NEW k \in 0 .. RingSize - 1
      PROVE  Gap(i, At(i, k)) = k
  <2>1. PICK j \in Ring : j = At(i, k) /\ j = (IF i + k < RingSize THEN i + k ELSE i + k - RingSize)
    BY <1>0, AtInRing
  <2>2. Gap(i, j) = (IF j >= i THEN j - i ELSE j - i + RingSize)
    BY GapInRing
  <2> QED BY <1>0, <2>1, <2>2 DEF Ring
<1>4. ASSUME NEW j \in Ring
      PROVE  At(i, Gap(i, j)) = j
  <2>1. PICK k \in 0 .. RingSize - 1 :
          k = Gap(i, j) /\ k = (IF j >= i THEN j - i ELSE j - i + RingSize)
    BY GapInRing
  <2>2. At(i, k) = (IF i + k < RingSize THEN i + k ELSE i + k - RingSize)
    BY <1>0, AtInRing
  <2> QED BY <1>0, <2>1, <2>2 DEF Ring
<1> QED BY <1>1, <1>2, <1>3, <1>4

\* The read index moves on.
LEMMA NextPosition ==
  ASSUME NEW i \in Ring, NEW j \in Ring, i # j
  PROVE  /\ At(i, 1) \in Ring /\ Gap(i, j) \in 1 .. RingSize - 1
         /\ Gap(At(i, 1), j) = Gap(i, j) - 1
         /\ (j - (i + 1)) % RingSize = Gap(i, j) - 1
         /\ \A k \in 0 .. RingSize - 1 : At(At(i, 1), k) = At(i, k + 1)
<1>0. RingSize \in Nat \ {0}
  BY AudioSocketAssumption
<1>1. PICK s \in Ring : s = At(i, 1) /\ s = (IF i + 1 < RingSize THEN i + 1 ELSE i + 1 - RingSize)
  BY <1>0, AtInRing
<1>2. PICK g \in 0 .. RingSize - 1 :
        g = Gap(i, j) /\ g = (IF j >= i THEN j - i ELSE j - i + RingSize)
  BY GapInRing
<1>3. g \in 1 .. RingSize - 1
  BY <1>0, <1>2 DEF Ring
<1>4. Gap(s, j) = g - 1
  <2>1. Gap(s, j) = (IF j >= s THEN j - s ELSE j - s + RingSize)
    BY GapInRing
  <2> QED BY <1>0, <1>1, <1>2, <1>3, <2>1 DEF Ring
<1>5. (j - (i + 1)) % RingSize = g - 1
  <2>1. CASE j > i
    <3>1. j - (i + 1) \in 0 .. RingSize - 1
      BY <1>0, <2>1 DEF Ring
    <3>2. (j - (i + 1)) % RingSize = j - (i + 1)
      BY <3>1, RingWraps
    <3> QED BY <1>0, <1>2, <2>1, <3>2 DEF Ring
  <2>2. CASE j < i
    <3>1. j - (i + 1) \in -RingSize .. -1
      BY <1>0, <2>2 DEF Ring
    <3>2. (j - (i + 1)) % RingSize = j - (i + 1) + RingSize
      BY <3>1, RingWraps
    <3> QED BY <1>0, <1>2, <2>2, <3>2 DEF Ring
  <2> QED BY <2>1, <2>2 DEF Ring
<1>6. ASSUME NEW k \in 0 .. RingSize - 1
      PROVE  At(s, k) = At(i, k + 1)
  <2>1. At(s, k) = (IF s + k < RingSize THEN s + k ELSE s + k - RingSize)
    BY <1>0, AtInRing
  <2>2. k + 1 \in 0 .. RingSize
    BY <1>0
  <2>3. At(i, k + 1) = (IF i + (k + 1) < RingSize THEN i + (k + 1) ELSE i + (k + 1) - RingSize)
    BY <2>2, AtInRing
  <2> QED BY <1>0, <1>1, <2>1, <2>3 DEF Ring
<1> QED BY <1>1, <1>2, <1>3, <1>4, <1>5, <1>6

-----------------------------------------------------------------------------
(* The units of a connection *)

\* Division, and its uniqueness.
LEMMA Divided ==
  ASSUME NEW U \in Nat \ {0}, NEW x \in Nat
  PROVE  x \div U \in Nat /\ x % U \in 0 .. U - 1 /\ x = U * (x \div U) + (x % U)
OBVIOUS

LEMMA ProductsOrdered ==
  ASSUME NEW U \in Nat \ {0}, NEW a \in Int, NEW b \in Int, a < b
  PROVE  U * a + U <= U * b
<1>1. PICK d \in Nat : b = a + 1 + d
  <2>1. b - a - 1 \in Nat /\ b = a + 1 + (b - a - 1)
    OBVIOUS
  <2> QED BY <2>1
<1>2. U * b = U * a + U + U * d
  BY <1>1
<1>3. U * d >= 0
  OBVIOUS
<1> QED BY <1>2, <1>3

LEMMA DividedOnce ==
  ASSUME NEW U \in Nat \ {0}, NEW a \in Nat, NEW r \in 0 .. U - 1, NEW x, x = U * a + r
  PROVE  x \in Nat /\ x \div U = a /\ x % U = r
<1>1. U * a \in Nat
  OBVIOUS
<1>2. x \in Nat
  BY <1>1
<1>3. PICK b \in Nat, s \in 0 .. U - 1 : b = x \div U /\ s = x % U /\ x = U * b + s
  BY <1>2, Divided
<1>4. ~(a < b)
  <2> SUFFICES ASSUME a < b PROVE FALSE
    OBVIOUS
  <2>1. U * a + U <= U * b
    BY ProductsOrdered
  <2> QED BY <1>1, <1>3, <2>1
<1>5. ~(b < a)
  <2> SUFFICES ASSUME b < a PROVE FALSE
    OBVIOUS
  <2>1. U * b + U <= U * a
    BY ProductsOrdered
  <2> QED BY <1>1, <1>3, <2>1
<1>6. a = b
  BY <1>4, <1>5
<1> QED BY <1>1, <1>2, <1>3, <1>6

LEMMA UnitsAssumption ==
  /\ UnitsPerSample \in Nat \ {0} /\ HeaderUnits \in Nat \ {0} /\ RingSize \in Nat \ {0}
  /\ QueueSize \in Nat
  /\ \A m \in Nat : HeaderUnits + UnitsPerSample * m \in Nat \ {0}
<1>1. /\ UnitsPerSample \in Nat \ {0} /\ HeaderUnits \in Nat \ {0} /\ RingSize \in Nat \ {0}
      /\ QueueSize \in Nat
  BY AudioSocketAssumption
<1>2. \A m \in Nat : UnitsPerSample * m \in Nat
  BY <1>1
<1> QED BY <1>1, <1>2

\* The samples that are whole in what is read.
LEMMA WholeRead ==
  /\ Whole(0) = 0 /\ Whole(HeaderUnits) = 0
  /\ \A m \in Nat : Whole(HeaderUnits + UnitsPerSample * m) = m
<1>1. Whole(0) = 0 /\ Whole(HeaderUnits) = 0
  BY UnitsAssumption DEF Whole
<1>2. ASSUME NEW m \in Nat
      PROVE  Whole(HeaderUnits + UnitsPerSample * m) = m
  <2>1. PICK x \in Nat : x = UnitsPerSample * m
    BY UnitsAssumption
  <2>2. (HeaderUnits + x) - HeaderUnits = x
    BY UnitsAssumption
  <2>3. CASE m = 0
    <3>1. HeaderUnits + x = HeaderUnits
      BY UnitsAssumption, <2>1, <2>3
    <3> QED BY <1>1, <2>1, <2>3, <3>1
  <2>4. CASE m # 0
    <3>1. x > 0
      <4>1. UnitsPerSample * 0 + UnitsPerSample <= UnitsPerSample * m
        BY UnitsAssumption, <2>4, ProductsOrdered
      <4> QED BY UnitsAssumption, <2>1, <4>1
    <3>2. Whole(HeaderUnits + x) = x \div UnitsPerSample
      BY UnitsAssumption, <2>2, <3>1 DEF Whole
    <3>3. x = UnitsPerSample * m + 0 /\ 0 \in 0 .. UnitsPerSample - 1
      BY UnitsAssumption, <2>1
    <3>4. x \div UnitsPerSample = m
      BY UnitsAssumption, <3>3, DividedOnce
    <3> QED BY <2>1, <3>2, <3>4
  <2> QED BY <2>3, <2>4
<1> QED BY <1>1, <1>2

\* Samples that are read have begun.
LEMMA WholeBegun ==
  ASSUME NEW m \in Nat, NEW s \in Nat, s >= HeaderUnits + UnitsPerSample * m
  PROVE  Begun(s) \in Nat /\ m <= Begun(s)
<1>1. PICK x \in Nat : x = UnitsPerSample * m
  BY UnitsAssumption
<1>2. CASE s <= HeaderUnits
  <2>1. x = 0
    BY UnitsAssumption, <1>1, <1>2
  <2>2. m = 0
    <3> SUFFICES ASSUME m > 0 PROVE FALSE
      OBVIOUS
    <3>1. UnitsPerSample * 0 + UnitsPerSample <= UnitsPerSample * m
      BY UnitsAssumption, ProductsOrdered
    <3> QED BY UnitsAssumption, <1>1, <2>1, <3>1
  <2> QED BY <1>2, <2>2 DEF Begun
<1>3. CASE s > HeaderUnits
  <2>1. PICK y \in Nat : y = s - HeaderUnits + UnitsPerSample - 1 /\ y >= x
    <3>1. s - HeaderUnits + UnitsPerSample - 1 \in Nat /\ s - HeaderUnits + UnitsPerSample - 1 >= x
      BY UnitsAssumption, <1>1, <1>3
    <3> QED BY <3>1
  <2>2. Begun(s) = y \div UnitsPerSample
    BY UnitsAssumption, <1>3, <2>1 DEF Begun
  <2>3. PICK b \in Nat, r \in 0 .. UnitsPerSample - 1 :
          b = y \div UnitsPerSample /\ y = UnitsPerSample * b + r
    BY UnitsAssumption, Divided
  <2>4. ~(b < m)
    <3> SUFFICES ASSUME b < m PROVE FALSE
      OBVIOUS
    <3>1. UnitsPerSample * b + UnitsPerSample <= UnitsPerSample * m
      BY UnitsAssumption, ProductsOrdered
    <3>2. PICK z \in Nat : z = UnitsPerSample * b
      BY UnitsAssumption
    <3> QED BY UnitsAssumption, <1>1, <2>1, <2>3, <3>1, <3>2
  <2> QED BY <2>2, <2>3, <2>4
<1> QED BY UnitsAssumption, <1>2, <1>3

\* A read takes whole samples, as many as fit into the ring.
LEMMA ReadsSamples ==
  ASSUME read \in Nat, sent \in Nat, base \in Int, sent - read > UnitsPerSample,
         NEW m \in Nat, read = HeaderUnits + UnitsPerSample * m
  PROVE  \E c \in 1 .. RingSize :
           /\ read + BytesToRead = HeaderUnits + UnitsPerSample * (m + c)
           /\ read + BytesToRead <= sent
           /\ PacketOf(BytesToRead) = [first |-> base + m, n |-> c]
<1>1. PICK U \in Nat \ {0} : U = UnitsPerSample
  BY UnitsAssumption
<1>2. PICK most \in Nat : most = RingSize * U
  BY <1>1, UnitsAssumption
<1>3. most >= U
  <2>1. 0 < RingSize
    BY UnitsAssumption
  <2>2. U * 0 + U <= U * RingSize
    BY <2>1, UnitsAssumption, ProductsOrdered
  <2> QED BY <1>2, <2>2, UnitsAssumption
<1>4. PICK x \in Nat : x = Readable /\ x >= U /\ x <= most /\ x <= sent - read
  <2>1. Readable = IF sent - read > most THEN most ELSE sent - read
    BY <1>1, <1>2 DEF Readable
  <2>2. sent - read \in Nat
    BY <1>1
  <2> QED BY <1>1, <1>3, <2>1, <2>2
<1>5. PICK c \in Nat, r \in 0 .. U - 1 : c = x \div U /\ r = x % U /\ x = U * c + r
  <2>1. x \div U \in Nat /\ x % U \in 0 .. U - 1 /\ x = U * (x \div U) + (x % U)
    BY <1>1, Divided
  <2> QED BY <2>1
<1>6. PICK y \in Nat : y = U * c
  OBVIOUS
<1>7. BytesToRead = y
  BY <1>1, <1>4, <1>5, <1>6 DEF BytesToRead
<1>8. c \in 1 .. RingSize
  <2>1. c # 0
    <3> SUFFICES ASSUME c = 0 PROVE FALSE
      OBVIOUS
    <3>1. y = 0
      BY <1>6
    <3> QED BY <1>4, <1>5, <1>6, <3>1
  <2>2. ~(RingSize < c)
    <3> SUFFICES ASSUME RingSize < c PROVE FALSE
      OBVIOUS
    <3>1. U * RingSize + U <= U * c
      BY UnitsAssumption, ProductsOrdered
    <3>2. U * RingSize = most
      BY <1>2, UnitsAssumption
    <3> QED BY <1>4, <1>5, <1>6, <3>1, <3>2
  <2> QED BY <2>1, <2>2, UnitsAssumption
<1>9. read + y = HeaderUnits + U * (m + c) /\ read + y <= sent
  <2>1. U * (m + c) = U * m + U * c
    OBVIOUS
  <2>2. PICK z \in Nat : z = U * m
    OBVIOUS
  <2> QED BY <1>1, <1>4, <1>5, <1>6, <2>1, <2>2, UnitsAssumption
<1>10. PacketOf(y) = [first |-> base + m, n |-> c]
  <2>1. PICK z \in Nat : z = U * m /\ z = read - HeaderUnits
    <3>1. U * m \in Nat
      OBVIOUS
    <3> QED BY <1>1, <3>1, UnitsAssumption
  <2>2. z = U * m + 0 /\ y = U * c + 0 /\ 0 \in 0 .. U - 1
    BY <2>1, <1>6
  <2>3. z \div U = m /\ z % U = 0
    BY <2>2, DividedOnce
  <2>4. y \div U = c
    BY <2>2, DividedOnce
  <2> QED BY <1>1, <2>1, <2>3, <2>4 DEF PacketOf
<1> QED BY <1>1, <1>7, <1>8, <1>9, <1>10

-----------------------------------------------------------------------------
(* The samples of a queue *)

\* A set of natural numbers that is not empty has a least element.
LEMMA Least ==
  ASSUME NEW S \in SUBSET Nat, S # {}
  PROVE  \E n \in S : \A m \in S : n <= m
<1>1. PICK n \in S : \A m \in S : ~(<<m, n>> \in OpToRel(<, Nat))
  BY NatLessThanWellFounded, WFMin
<1>2. \A m \in S : ~(m < n)
  BY <1>1 DEF OpToRel
<1> QED BY <1>2

\* Induction up to a bound, for a set of numbers.
LEMMA CountUp ==
  ASSUME NEW N \in Nat, NEW G, 0 \in G, \A n \in 0 .. N - 1 : n \in G => n + 1 \in G
  PROVE  \A n \in 0 .. N : n \in G
<1> DEFINE Bad == {n \in 0 .. N : n \notin G}
<1> SUFFICES ASSUME Bad # {} PROVE FALSE
  OBVIOUS
<1>1. PICK k \in Bad : \A m \in Bad : k <= m
  <2>1. Bad \in SUBSET Nat
    OBVIOUS
  <2> HIDE DEF Bad
  <2> QED BY <2>1, Least
<1>2. k \in 1 .. N
  BY <1>1
<1>3. k - 1 \in 0 .. N - 1 /\ k - 1 \in 0 .. N /\ (k - 1) + 1 = k
  BY <1>2
<1>4. k - 1 \notin Bad
  BY <1>1, <1>2
<1> QED BY <1>1, <1>3, <1>4

\* The states of a loop from s on; its turn n is step n of B.
IsLoop(f, N, P, s, B) ==
  f \in [0 .. N -> P] /\ f[0] = s /\ \A n \in 1 .. N : f[n] = B[f[n - 1]][n]

\* A loop whose turns keep a set computes a sequence of states in the set.
LEMMA LoopExists ==
  ASSUME NEW N \in Nat, NEW P, NEW s \in P, NEW B \in [P -> [1 .. N -> P]]
  PROVE  \E f : IsLoop(f, N, P, s, B)
<1> DEFINE Upto(k) == \E f \in [0 .. k -> P] : /\ f[0] = s
                                               /\ \A n \in 1 .. k : f[n] = B[f[n - 1]][n]
           G == {k \in 0 .. N : Upto(k)}
<1>1. 0 \in G
  <2> DEFINE f == [n \in 0 .. 0 |-> s]
  <2>1. f \in [0 .. 0 -> P] /\ f[0] = s /\ 1 .. 0 = {}
    OBVIOUS
  <2> HIDE DEF f
  <2>2. Upto(0)
    BY <2>1
  <2> QED BY <2>2
<1>2. ASSUME NEW k \in 0 .. N - 1, k \in G
      PROVE  k + 1 \in G
  <2>1. PICK f \in [0 .. k -> P] : f[0] = s /\ \A n \in 1 .. k : f[n] = B[f[n - 1]][n]
    BY <1>2
  <2>2. PICK t \in P : t = B[f[k]][k + 1]
    <3>1. f[k] \in P /\ k + 1 \in 1 .. N
      BY <2>1
    <3> QED BY <3>1
  <2> DEFINE g == [n \in 0 .. k + 1 |-> IF n = k + 1 THEN t ELSE f[n]]
  <2>3. g \in [0 .. k + 1 -> P]
    BY <2>1, <2>2
  <2>4. g[0] = s
    BY <2>1
  <2>5. ASSUME NEW n \in 1 .. k + 1
        PROVE  g[n] = B[g[n - 1]][n]
    <3>1. CASE n = k + 1
      BY <2>2, <3>1
    <3>2. CASE n # k + 1
      BY <2>1, <3>2
    <3> QED BY <3>1, <3>2
  <2> HIDE DEF g
  <2>6. Upto(k + 1)
    BY <2>3, <2>4, <2>5
  <2>7. k + 1 \in 0 .. N
    OBVIOUS
  <2> HIDE DEF Upto
  <2> QED BY <2>6, <2>7
<1>3. N \in 0 .. N
  OBVIOUS
<1> HIDE DEF G
<1>4. N \in G
  BY <1>1, <1>2, <1>3, CountUp
<1> QED BY <1>4 DEF G, IsLoop

LEMMA PacketFields ==
  \A p \in Packets : p.first \in Int /\ p.n \in Nat /\ p.n \in 1 .. RingSize
BY UnitsAssumption DEF Packets

\* The running totals of a queue.
IsTotal(f, q) ==
  f \in [0 .. Len(q) -> Nat] /\ f[0] = 0 /\ \A k \in 1 .. Len(q) : f[k] = f[k - 1] + q[k].n

LEMMA TotalExists ==
  ASSUME NEW q \in Seq(Packets)
  PROVE  \E f : IsTotal(f, q) /\ SamplesOf(q) = f[Len(q)]
<1> DEFINE N == Len(q)
           B == [t \in Nat |-> [k \in 1 .. N |-> t + q[k].n]]
           Steps(f) == f = [k \in 0 .. N |-> IF k = 0 THEN 0 ELSE f[k - 1] + q[k].n]
<1>0. N \in Nat /\ \A k \in 1 .. N : q[k].n \in Nat
  <2>1. N \in Nat /\ \A k \in 1 .. N : q[k] \in Packets
    OBVIOUS
  <2> QED BY <2>1, PacketFields
<1>1. /\ B \in [Nat -> [1 .. N -> Nat]]
      /\ \A t \in Nat, k \in 1 .. N : B[t][k] = t + q[k].n
  BY <1>0
<1>2. PICK b : IsTotal(b, q)
  <2> HIDE DEF B
  <2>1. PICK b : IsLoop(b, N, Nat, 0, B)
    BY <1>0, <1>1, LoopExists
  <2>2. b \in [0 .. N -> Nat] /\ b[0] = 0
    BY <2>1 DEF IsLoop
  <2>3. ASSUME NEW k \in 1 .. N PROVE b[k] = b[k - 1] + q[k].n
    <3>1. k - 1 \in 0 .. N
      BY <1>0
    <3>2. b[k] = B[b[k - 1]][k] /\ b[k - 1] \in Nat
      BY <2>1, <2>2, <3>1 DEF IsLoop
    <3> QED BY <1>1, <3>2
  <2> QED BY <2>2, <2>3 DEF IsTotal
<1>3. Steps(b)
  <2>1. \A k \in 0 .. N : b[k] = IF k = 0 THEN 0 ELSE b[k - 1] + q[k].n
    BY <1>0, <1>2 DEF IsTotal
  <2> QED BY <1>2, <2>1 DEF IsTotal
<1> DEFINE f == CHOOSE f : Steps(f)
<1>4. Steps(f)
  <2> HIDE DEF Steps
  <2> QED BY <1>3
<1>5. SamplesOf(q) = f[N]
  BY DEF SamplesOf
<1> HIDE DEF f
<1>6. DOMAIN f = 0 .. N /\ f[0] = 0 /\ \A k \in 1 .. N : f[k] = f[k - 1] + q[k].n
  BY <1>0, <1>4
<1>7. f = b
  <2> DEFINE G == {k \in 0 .. N : f[k] = b[k]}
  <2>1. 0 \in G
    BY <1>0, <1>2, <1>6 DEF IsTotal
  <2>2. ASSUME NEW k \in 0 .. N - 1, k \in G
        PROVE  k + 1 \in G
    BY <1>0, <1>2, <1>6, <2>2 DEF IsTotal
  <2> HIDE DEF G
  <2>3. \A k \in 0 .. N : k \in G
    BY <1>0, <2>1, <2>2, CountUp
  <2>4. \A k \in 0 .. N : f[k] = b[k]
    BY <2>3 DEF G
  <2> QED BY <1>2, <1>4, <2>4 DEF IsTotal
<1> QED BY <1>2, <1>5, <1>7

\* r is what follows the first m packets of q.
IsPart(r, q, m) == m + Len(r) <= Len(q) /\ \A k \in 1 .. Len(r) : r[k] = q[m + k]

\* The totals of a queue that is part of another.
LEMMA TotalsAgree ==
  ASSUME NEW q \in Seq(Packets), NEW r \in Seq(Packets), NEW f, NEW g, IsTotal(f, q), IsTotal(g, r),
         NEW m \in Nat, IsPart(r, q, m)
  PROVE  \A k \in 0 .. Len(r) : f[m + k] = f[m] + g[k]
<1> DEFINE N == Len(r)
           G == {k \in 0 .. N : f[m + k] = f[m] + g[k]}
<1>0. N \in Nat /\ Len(q) \in Nat /\ m \in 0 .. Len(q) /\ m + N <= Len(q)
  BY DEF IsPart
<1>10. f \in [0 .. Len(q) -> Nat] /\ g \in [0 .. N -> Nat] /\ g[0] = 0
  BY DEF IsTotal
<1>1. 0 \in G
  <2>1. f[m] \in Nat /\ m + 0 = m /\ 0 \in 0 .. N
    BY <1>0, <1>10
  <2> QED BY <1>10, <2>1
<1>2. ASSUME NEW k \in 0 .. N - 1, k \in G
      PROVE  k + 1 \in G
  <2>1. k + 1 \in 1 .. N /\ m + k + 1 \in 1 .. Len(q) /\ (k + 1) - 1 = k /\ (m + k + 1) - 1 = m + k
    BY <1>0
  <2>2. g[k + 1] = g[k] + r[k + 1].n /\ f[m + k + 1] = f[m + k] + q[m + k + 1].n
    BY <2>1 DEF IsTotal
  <2>3. r[k + 1] = q[m + k + 1]
    BY <1>0, <2>1 DEF IsPart
  <2>4. f[m] \in Nat /\ g[k] \in Nat /\ g[k + 1] \in Nat /\ f[m + k] \in Nat
    <3>1. k \in 0 .. N /\ k + 1 \in 0 .. N /\ m + k \in 0 .. Len(q)
      BY <1>0
    <3> QED BY <1>0, <1>10, <3>1
  <2>5. r[k + 1].n \in Nat
    <3>1. \A j \in 1 .. Len(r) : r[j] \in Packets
      OBVIOUS
    <3>2. r[k + 1] \in Packets
      BY <2>1, <3>1
    <3> QED BY <3>2, PacketFields
  <2>6. f[m + k] = f[m] + g[k]
    BY <1>2
  <2>7. f[m + (k + 1)] = f[m] + g[k + 1]
    <3>1. m + (k + 1) = m + k + 1
      BY <1>0
    <3>2. PICK x, y, z \in Nat : x = f[m] /\ y = g[k] /\ z = r[k + 1].n
      BY <2>4, <2>5
    <3>3. f[m + k] = x + y
      BY <2>6, <3>2
    <3>4. f[m + k + 1] = (x + y) + z
      BY <2>2, <2>3, <3>2, <3>3
    <3>5. g[k + 1] = y + z
      BY <2>2, <3>2
    <3>6. (x + y) + z = x + (y + z)
      BY <3>2
    <3> QED BY <3>1, <3>2, <3>4, <3>5, <3>6
  <2> QED BY <2>1, <2>7
<1> HIDE DEF G
<1>3. \A k \in 0 .. N : k \in G
  BY <1>0, <1>1, <1>2, CountUp
<1> QED BY <1>3 DEF G

LEMMA SamplesCount == \A q \in Seq(Packets) : SamplesOf(q) \in Nat
<1> SUFFICES ASSUME NEW q \in Seq(Packets) PROVE SamplesOf(q) \in Nat
  OBVIOUS
<1>1. PICK f : IsTotal(f, q) /\ SamplesOf(q) = f[Len(q)]
  BY TotalExists
<1> QED BY <1>1 DEF IsTotal

LEMMA NoSamples == SamplesOf(<< >>) = 0
<1>1. << >> \in Seq(Packets) /\ Len(<< >>) = 0
  OBVIOUS
<1>2. PICK f : IsTotal(f, << >>) /\ SamplesOf(<< >>) = f[Len(<< >>)]
  BY <1>1, TotalExists
<1> QED BY <1>1, <1>2 DEF IsTotal

LEMMA AppendedSamples ==
  ASSUME NEW q \in Seq(Packets), NEW p \in Packets
  PROVE  SamplesOf(Append(q, p)) = SamplesOf(q) + p.n /\ SamplesOf(q) \in Nat
<1>1. PICK r \in Seq(Packets) : r = Append(q, p)
  <2>1. Append(q, p) \in Seq(Packets)
    OBVIOUS
  <2> QED BY <2>1
<1>2. /\ Len(r) = Len(q) + 1 /\ Len(q) \in Nat /\ r[Len(q) + 1] = p
      /\ \A k \in 1 .. Len(q) : q[k] = r[0 + k]
  BY <1>1
<1>3. PICK f : IsTotal(f, r) /\ SamplesOf(r) = f[Len(r)]
  BY TotalExists
<1>4. PICK g : IsTotal(g, q) /\ SamplesOf(q) = g[Len(q)]
  BY TotalExists
<1>5. \A k \in 0 .. Len(q) : f[0 + k] = f[0] + g[k]
  <2>1. 0 \in Nat /\ IsPart(q, r, 0)
    BY <1>2 DEF IsPart
  <2> QED BY <1>3, <1>4, <2>1, TotalsAgree
<1>6. g[Len(q)] \in Nat /\ f[0] = 0
  BY <1>2, <1>3, <1>4 DEF IsTotal
<1>7. f[Len(q)] = g[Len(q)]
  BY <1>2, <1>5, <1>6
<1>8. f[Len(q) + 1] = f[Len(q)] + p.n
  <2>1. Len(q) + 1 \in 1 .. Len(r) /\ (Len(q) + 1) - 1 = Len(q)
    BY <1>2
  <2> QED BY <1>2, <1>3, <2>1 DEF IsTotal
<1> QED BY <1>1, <1>2, <1>3, <1>4, <1>6, <1>7, <1>8

\* A queue that is cut in two.
LEMMA CutSamples ==
  ASSUME NEW q \in Seq(Packets), NEW a \in Seq(Packets), NEW b \in Seq(Packets),
         Len(a) + Len(b) = Len(q), IsPart(a, q, 0), IsPart(b, q, Len(a))
  PROVE  /\ SamplesOf(q) = SamplesOf(a) + SamplesOf(b)
         /\ SamplesOf(q) \in Nat /\ SamplesOf(a) \in Nat /\ SamplesOf(b) \in Nat
<1>1. PICK f : IsTotal(f, q) /\ SamplesOf(q) = f[Len(q)]
  BY TotalExists
<1>2. PICK g : IsTotal(g, a) /\ SamplesOf(a) = g[Len(a)]
  BY TotalExists
<1>3. PICK h : IsTotal(h, b) /\ SamplesOf(b) = h[Len(b)]
  BY TotalExists
<1>4. Len(q) \in Nat /\ Len(a) \in Nat /\ Len(b) \in Nat /\ 0 \in Nat
  OBVIOUS
<1>5. \A k \in 0 .. Len(a) : f[0 + k] = f[0] + g[k]
  BY <1>1, <1>2, <1>4, TotalsAgree
<1>6. \A k \in 0 .. Len(b) : f[Len(a) + k] = f[Len(a)] + h[k]
  BY <1>1, <1>3, <1>4, TotalsAgree
<1>7. f \in [0 .. Len(q) -> Nat] /\ f[0] = 0
  BY <1>1 DEF IsTotal
<1>8. g \in [0 .. Len(a) -> Nat]
  BY <1>2 DEF IsTotal
<1>9. h \in [0 .. Len(b) -> Nat]
  BY <1>3 DEF IsTotal
<1>10. f[Len(q)] \in Nat /\ g[Len(a)] \in Nat /\ h[Len(b)] \in Nat
  <2>1. Len(q) \in 0 .. Len(q) /\ Len(a) \in 0 .. Len(a) /\ Len(b) \in 0 .. Len(b)
    BY <1>4
  <2> QED BY <1>7, <1>8, <1>9, <2>1
<1>11. f[0 + Len(a)] = f[0] + g[Len(a)] /\ f[Len(a) + Len(b)] = f[Len(a)] + h[Len(b)]
  <2>1. Len(a) \in 0 .. Len(a) /\ Len(b) \in 0 .. Len(b)
    BY <1>4
  <2> QED BY <1>5, <1>6, <2>1
<1>12. f[Len(a)] = g[Len(a)] /\ f[Len(q)] = f[Len(a)] + h[Len(b)]
  <2>1. 0 + Len(a) = Len(a) /\ 0 + g[Len(a)] = g[Len(a)]
    BY <1>4, <1>10
  <2> QED BY <1>7, <1>11, <2>1
<1> QED BY <1>1, <1>2, <1>3, <1>10, <1>12

LEMMA SplitSamples ==
  ASSUME NEW q \in Seq(Packets), NEW m \in 0 .. Len(q)
  PROVE  /\ SubSeq(q, 1, m) \in Seq(Packets) /\ SubSeq(q, m + 1, Len(q)) \in Seq(Packets)
         /\ Len(SubSeq(q, m + 1, Len(q))) = Len(q) - m
         /\ \A k \in 1 .. Len(q) - m : SubSeq(q, m + 1, Len(q))[k] = q[m + k]
         /\ SamplesOf(q) = SamplesOf(SubSeq(q, 1, m)) + SamplesOf(SubSeq(q, m + 1, Len(q)))
         /\ SamplesOf(SubSeq(q, 1, m)) \in Nat /\ SamplesOf(SubSeq(q, m + 1, Len(q))) \in Nat
<1>0. Len(q) \in Nat /\ m \in Nat /\ m <= Len(q)
  OBVIOUS
<1>1. PICK a \in Seq(Packets) : a = SubSeq(q, 1, m) /\ Len(a) = m /\ \A k \in 1 .. m : a[k] = q[k]
  <2>1. SubSeq(q, 1, m) \in Seq(Packets) /\ Len(SubSeq(q, 1, m)) = m
    BY <1>0
  <2>2. \A k \in 1 .. m : SubSeq(q, 1, m)[k] = q[k]
    BY <1>0
  <2> QED BY <2>1, <2>2
<1>2. PICK b \in Seq(Packets) : /\ b = SubSeq(q, m + 1, Len(q)) /\ Len(b) = Len(q) - m
                                /\ \A k \in 1 .. Len(q) - m : b[k] = q[m + k]
  <2>1. SubSeq(q, m + 1, Len(q)) \in Seq(Packets) /\ Len(SubSeq(q, m + 1, Len(q))) = Len(q) - m
    BY <1>0
  <2>2. \A k \in 1 .. Len(q) - m : SubSeq(q, m + 1, Len(q))[k] = q[m + k]
    BY <1>0
  <2> QED BY <2>1, <2>2
<1>3. SamplesOf(q) = SamplesOf(a) + SamplesOf(b) /\ SamplesOf(a) \in Nat /\ SamplesOf(b) \in Nat
  <2>1. Len(a) + Len(b) = Len(q)
    <3>1. Len(a) = m /\ Len(b) = Len(q) - m
      BY <1>1, <1>2
    <3>2. m + (Len(q) - m) = Len(q)
      BY <1>0
    <3> QED BY <3>1, <3>2
  <2>2. IsPart(a, q, 0)
    BY <1>0, <1>1 DEF IsPart
  <2>3. IsPart(b, q, Len(a))
    <3>1. \A k \in 1 .. Len(b) : b[k] = q[Len(a) + k]
      BY <1>1, <1>2
    <3> QED BY <2>1, <3>1 DEF IsPart
  <2> QED BY <2>1, <2>2, <2>3, CutSamples
<1> QED BY <1>1, <1>2, <1>3

LEMMA TailSamples ==
  ASSUME NEW q \in Seq(Packets), q # << >>
  PROVE  /\ Head(q) \in Packets /\ Head(q) = q[1] /\ Tail(q) \in Seq(Packets)
         /\ Len(q) >= 1 /\ Len(Tail(q)) = Len(q) - 1
         /\ \A k \in 1 .. Len(q) - 1 : Tail(q)[k] = q[k + 1]
         /\ SamplesOf(q) = Head(q).n + SamplesOf(Tail(q)) /\ SamplesOf(Tail(q)) \in Nat
<1>1. /\ Head(q) \in Packets /\ Head(q) = q[1] /\ Tail(q) \in Seq(Packets)
      /\ Len(q) \in Nat /\ Len(q) >= 1 /\ Len(Tail(q)) = Len(q) - 1
      /\ \A k \in 1 .. Len(q) - 1 : Tail(q)[k] = q[k + 1]
  OBVIOUS
<1>2. PICK a \in Seq(Packets) : a = Append(<< >>, Head(q)) /\ Len(a) = 1 /\ a[1] = q[1]
  <2>1. \A p \in Packets : /\ Append(<< >>, p) \in Seq(Packets)
                            /\ Len(Append(<< >>, p)) = 1 /\ Append(<< >>, p)[1] = p
    OBVIOUS
  <2> QED BY <1>1, <2>1
<1>3. SamplesOf(a) = Head(q).n
  <2>1. << >> \in Seq(Packets)
    OBVIOUS
  <2>2. SamplesOf(Append(<< >>, Head(q))) = SamplesOf(<< >>) + Head(q).n
    BY <1>1, <2>1, AppendedSamples
  <2>3. Head(q).n \in Int
    BY <1>1, PacketFields
  <2> QED BY <1>2, <2>2, <2>3, NoSamples
<1>4. SamplesOf(q) = SamplesOf(a) + SamplesOf(Tail(q)) /\ SamplesOf(Tail(q)) \in Nat
  <2>1. PICK t \in Seq(Packets) : /\ t = Tail(q) /\ Len(t) = Len(q) - 1
                                  /\ \A k \in 1 .. Len(q) - 1 : t[k] = q[k + 1]
    BY <1>1
  <2>2. Len(a) + Len(t) = Len(q)
    BY <1>1, <1>2, <2>1
  <2>3. IsPart(a, q, 0)
    BY <1>1, <1>2 DEF IsPart
  <2>4. IsPart(t, q, Len(a))
    <3> SUFFICES ASSUME NEW k \in 1 .. Len(t) PROVE t[k] = q[Len(a) + k]
      BY <1>1, <1>2, <2>1 DEF IsPart
    <3>1. k \in 1 .. Len(q) - 1 /\ Len(a) + k = k + 1
      BY <1>1, <1>2, <2>1
    <3> QED BY <2>1, <3>1
  <2> QED BY <2>1, <2>2, <2>3, <2>4, CutSamples
<1> QED BY <1>1, <1>3, <1>4

\* A sequence of numbers that rises.
Rising(s) == \A i, j \in 1 .. Len(s) : i < j => s[i] < s[j]

LEMMA RisingJoined ==
  ASSUME NEW s \in Seq(Int), NEW t \in Seq(Int), Rising(s), Rising(t),
         \A i \in 1 .. Len(s), j \in 1 .. Len(t) : s[i] < t[j]
  PROVE  Rising(s \o t)
<1> SUFFICES ASSUME NEW i \in 1 .. Len(s \o t), NEW j \in 1 .. Len(s \o t), i < j
             PROVE  (s \o t)[i] < (s \o t)[j]
  BY DEF Rising
<1>0. Len(s \o t) = Len(s) + Len(t) /\ Len(s) \in Nat /\ Len(t) \in Nat
  OBVIOUS
<1>1. \A k \in 1 .. Len(s) : (s \o t)[k] = s[k]
  OBVIOUS
<1>2. \A k \in Len(s) + 1 .. Len(s) + Len(t) : (s \o t)[k] = t[k - Len(s)]
  OBVIOUS
<1>3. CASE j <= Len(s)
  <2>1. i \in 1 .. Len(s) /\ j \in 1 .. Len(s)
    BY <1>0, <1>3
  <2> QED BY <1>1, <2>1 DEF Rising
<1>4. CASE i <= Len(s) /\ j > Len(s)
  <2>1. i \in 1 .. Len(s) /\ j \in Len(s) + 1 .. Len(s) + Len(t) /\ j - Len(s) \in 1 .. Len(t)
    BY <1>0, <1>4
  <2>2. (s \o t)[i] = s[i] /\ (s \o t)[j] = t[j - Len(s)]
    BY <1>1, <1>2, <2>1
  <2>3. s[i] < t[j - Len(s)]
    BY <2>1
  <2> QED BY <2>2, <2>3
<1>5. CASE i > Len(s)
  <2>1. /\ i \in Len(s) + 1 .. Len(s) + Len(t) /\ i - Len(s) \in 1 .. Len(t)
        /\ j \in Len(s) + 1 .. Len(s) + Len(t) /\ j - Len(s) \in 1 .. Len(t)
        /\ i - Len(s) < j - Len(s)
    BY <1>0, <1>5
  <2>2. (s \o t)[i] = t[i - Len(s)] /\ (s \o t)[j] = t[j - Len(s)]
    BY <1>2, <2>1
  <2>3. t[i - Len(s)] < t[j - Len(s)]
    BY <2>1 DEF Rising
  <2> QED BY <2>2, <2>3
<1> QED BY <1>0, <1>3, <1>4, <1>5

\* A member of a joined sequence is a member of one of the two.
LEMMA JoinedMembers ==
  ASSUME NEW s \in Seq(Int), NEW t \in Seq(Int), NEW i \in 1 .. Len(s \o t)
  PROVE  \/ \E k \in 1 .. Len(s) : (s \o t)[i] = s[k]
         \/ \E k \in 1 .. Len(t) : (s \o t)[i] = t[k]
<1>0. Len(s \o t) = Len(s) + Len(t) /\ Len(s) \in Nat /\ Len(t) \in Nat
  OBVIOUS
<1>1. CASE i <= Len(s)
  <2>1. i \in 1 .. Len(s)
    BY <1>0, <1>1
  <2>2. (s \o t)[i] = s[i]
    BY <2>1
  <2> QED BY <2>1, <2>2
<1>2. CASE i > Len(s)
  <2>1. i \in Len(s) + 1 .. Len(s) + Len(t) /\ i - Len(s) \in 1 .. Len(t)
    BY <1>0, <1>2
  <2>2. (s \o t)[i] = t[i - Len(s)]
    BY <2>1
  <2> QED BY <2>1, <2>2
<1> QED BY <1>0, <1>1, <1>2

\* The samples of a packet.
LEMMA PacketSamples ==
  ASSUME NEW p \in Packets, p.first >= 0
  PROVE  /\ Samples(p) \in Seq(Int) /\ Len(Samples(p)) = p.n
         /\ \A k \in 1 .. Len(Samples(p)) : Samples(p)[k] = p.first + k - 1
         /\ Rising(Samples(p))
<1>0. p.n \in Nat /\ p.first \in Nat
  BY PacketFields
<1>1. p.first # Torn
  BY <1>0 DEF Torn
<1>2. PICK s : s = [k \in 1 .. p.n |-> p.first + k - 1]
  OBVIOUS
<1>3. Samples(p) = s
  BY <1>1, <1>2 DEF Samples
<1>4. s \in Seq(Int) /\ Len(s) = p.n
  BY <1>0, <1>2
<1>5. \A k \in 1 .. Len(s) : s[k] = p.first + k - 1
  BY <1>2, <1>4
<1>6. Rising(s)
  BY <1>0, <1>4, <1>5 DEF Rising
<1> QED BY <1>3, <1>4, <1>5, <1>6

LEMMA NothingSamples ==
  Samples(Nothing) \in Seq(Int) /\ Len(Samples(Nothing)) = 0
<1>1. Samples(Nothing) = [k \in 1 .. 0 |-> 0 + k - 1]
  BY DEF Samples, Nothing, Torn
<1>2. [k \in 1 .. 0 |-> 0 + k - 1] \in Seq(Int) /\ Len([k \in 1 .. 0 |-> 0 + k - 1]) = 0
  OBVIOUS
<1> QED BY <1>1, <1>2

\* A queue's samples, packet by packet.
IsFlat(f, q) ==
  /\ f \in [0 .. Len(q) -> Seq(Int)] /\ f[0] = << >>
  /\ \A k \in 1 .. Len(q) : f[k] = f[k - 1] \o Samples(q[k])

LEMMA FlatExists ==
  ASSUME NEW q \in Seq(Packets), \A k \in 1 .. Len(q) : Samples(q[k]) \in Seq(Int)
  PROVE  \E f : IsFlat(f, q) /\ Queued(q) = f[Len(q)]
<1> DEFINE N == Len(q)
           B == [t \in Seq(Int) |-> [k \in 1 .. N |-> t \o Samples(q[k])]]
           Steps(f) == f = [k \in 0 .. N |-> IF k = 0 THEN << >> ELSE f[k - 1] \o Samples(q[k])]
<1>0. N \in Nat
  OBVIOUS
<1>1. /\ B \in [Seq(Int) -> [1 .. N -> Seq(Int)]]
      /\ \A t \in Seq(Int), k \in 1 .. N : B[t][k] = t \o Samples(q[k])
  <2>1. \A t \in Seq(Int), k \in 1 .. N : t \o Samples(q[k]) \in Seq(Int)
    OBVIOUS
  <2> QED BY <2>1
<1>2. PICK b : IsFlat(b, q)
  <2> HIDE DEF B
  <2>0. << >> \in Seq(Int)
    OBVIOUS
  <2>1. PICK b : IsLoop(b, N, Seq(Int), << >>, B)
    BY <1>0, <1>1, <2>0, LoopExists
  <2>2. b \in [0 .. N -> Seq(Int)] /\ b[0] = << >>
    BY <2>1 DEF IsLoop
  <2>3. ASSUME NEW k \in 1 .. N PROVE b[k] = b[k - 1] \o Samples(q[k])
    <3>1. k - 1 \in 0 .. N
      BY <1>0
    <3>2. b[k] = B[b[k - 1]][k] /\ b[k - 1] \in Seq(Int)
      BY <2>1, <2>2, <3>1 DEF IsLoop
    <3> QED BY <1>1, <3>2
  <2> QED BY <2>2, <2>3 DEF IsFlat
<1>3. Steps(b)
  <2>1. \A k \in 0 .. N : b[k] = IF k = 0 THEN << >> ELSE b[k - 1] \o Samples(q[k])
    <3> SUFFICES ASSUME NEW k \in 0 .. N
                 PROVE  b[k] = IF k = 0 THEN << >> ELSE b[k - 1] \o Samples(q[k])
      OBVIOUS
    <3>1. k = 0 \/ k \in 1 .. N
      BY <1>0
    <3> QED BY <1>2, <3>1 DEF IsFlat
  <2> QED BY <1>2, <2>1 DEF IsFlat
<1> DEFINE f == CHOOSE f : Steps(f)
<1>4. Steps(f)
  <2> HIDE DEF Steps
  <2> QED BY <1>3
<1>5. Queued(q) = f[N]
  BY DEF Queued
<1> HIDE DEF f
<1>6. DOMAIN f = 0 .. N /\ f[0] = << >> /\ \A k \in 1 .. N : f[k] = f[k - 1] \o Samples(q[k])
  <2>1. /\ DOMAIN f = 0 .. N
        /\ \A k \in 0 .. N : f[k] = IF k = 0 THEN << >> ELSE f[k - 1] \o Samples(q[k])
    BY <1>4, Zenon
  <2>2. 0 \in 0 .. N /\ \A k \in 1 .. N : k \in 0 .. N /\ k # 0
    BY <1>0
  <2> QED BY <2>1, <2>2
<1>7. f = b
  <2> DEFINE G == {k \in 0 .. N : f[k] = b[k]}
  <2>1. 0 \in G
    BY <1>0, <1>2, <1>6 DEF IsFlat
  <2>2. ASSUME NEW k \in 0 .. N - 1, k \in G
        PROVE  k + 1 \in G
    <3>1. k + 1 \in 1 .. N /\ k + 1 \in 0 .. N /\ (k + 1) - 1 = k
      BY <1>0
    <3>2. f[k + 1] = f[k] \o Samples(q[k + 1]) /\ b[k + 1] = b[k] \o Samples(q[k + 1])
      BY <1>2, <1>6, <3>1 DEF IsFlat
    <3> QED BY <2>2, <3>1, <3>2
  <2> HIDE DEF G
  <2>3. \A k \in 0 .. N : k \in G
    BY <1>0, <2>1, <2>2, CountUp
  <2>4. \A k \in 0 .. N : f[k] = b[k]
    BY <2>3 DEF G
  <2> QED BY <1>2, <1>4, <2>4 DEF IsFlat
<1> QED BY <1>2, <1>5, <1>7

\* The packets of a queue follow each other.
Follow(q) ==
  /\ \A i \in 1 .. Len(q) : q[i].first >= 0
  /\ \A i, j \in 1 .. Len(q) : i < j => q[i].first + q[i].n <= q[j].first

\* Each of the samples in s comes from one of the first k packets of q.
From(s, q, k) ==
  \A x \in 1 .. Len(s) : \E j \in 1 .. k : q[j].first <= s[x] /\ s[x] < q[j].first + q[j].n

LEMMA QueuedSamples ==
  ASSUME NEW q \in Seq(Packets), Follow(q)
  PROVE  /\ Queued(q) \in Seq(Int) /\ Len(Queued(q)) = SamplesOf(q)
         /\ Rising(Queued(q)) /\ From(Queued(q), q, Len(q))
<1> DEFINE N == Len(q)
<1>0. N \in Nat /\ \A k \in 1 .. N : q[k] \in Packets
  OBVIOUS
<1>1. ASSUME NEW k \in 1 .. N
      PROVE  /\ Samples(q[k]) \in Seq(Int) /\ Len(Samples(q[k])) = q[k].n
             /\ \A x \in 1 .. Len(Samples(q[k])) : Samples(q[k])[x] = q[k].first + x - 1
             /\ Rising(Samples(q[k]))
  <2>1. q[k] \in Packets /\ q[k].first >= 0
    BY <1>0 DEF Follow
  <2> QED BY <2>1, PacketSamples
<1>2. PICK f : IsFlat(f, q) /\ Queued(q) = f[N]
  BY <1>1, FlatExists
<1>3. PICK g : IsTotal(g, q) /\ SamplesOf(q) = g[N]
  BY TotalExists
<1> DEFINE G == {k \in 0 .. N : Len(f[k]) = g[k] /\ Rising(f[k]) /\ From(f[k], q, k)}
<1>4. 0 \in G
  <2>1. f[0] = << >> /\ g[0] = 0 /\ Len(<< >>) = 0 /\ 0 \in 0 .. N
    BY <1>0, <1>2, <1>3 DEF IsFlat, IsTotal
  <2> QED BY <2>1 DEF Rising, From
<1>5. ASSUME NEW k \in 0 .. N - 1, k \in G
      PROVE  k + 1 \in G
  <2>1. k + 1 \in 1 .. N /\ k + 1 \in 0 .. N /\ (k + 1) - 1 = k /\ k \in 0 .. N
    BY <1>0
  <2>2. PICK s \in Seq(Int) : s = f[k]
    BY <1>2, <2>1 DEF IsFlat
  <2>3. PICK p \in Packets : p = q[k + 1]
    BY <1>0, <2>1
  <2>4. PICK t \in Seq(Int) : /\ t = Samples(p) /\ Len(t) = p.n /\ Rising(t)
                              /\ \A x \in 1 .. Len(t) : t[x] = p.first + x - 1
    BY <1>1, <2>1, <2>3
  <2>5. f[k + 1] = s \o t
    BY <1>2, <2>1, <2>2, <2>3, <2>4 DEF IsFlat
  <2>6. Len(s) = g[k] /\ Rising(s) /\ From(s, q, k)
    BY <1>5, <2>2
  <2>7. Len(s \o t) = g[k + 1]
    <3>1. Len(s \o t) = Len(s) + Len(t)
      OBVIOUS
    <3>2. g[k + 1] = g[k] + p.n
      BY <1>3, <2>1, <2>3 DEF IsTotal
    <3> QED BY <2>4, <2>6, <3>1, <3>2
  <2>8. Rising(s \o t)
    <3>1. ASSUME NEW i \in 1 .. Len(s), NEW j \in 1 .. Len(t)
          PROVE  s[i] < t[j]
      <4>1. PICK l \in 1 .. k : s[i] < q[l].first + q[l].n
        BY <2>6 DEF From
      <4>2. l \in 1 .. N /\ l < k + 1
        BY <1>0
      <4>3. q[l].first + q[l].n <= p.first
        BY <2>1, <2>3, <4>2 DEF Follow
      <4>4. t[j] = p.first + j - 1
        BY <2>4
      <4>5. PICK c \in Int, d \in Int : c = q[l].first + q[l].n /\ d = p.first
        <5>1. PICK r \in Packets : r = q[l]
          BY <1>0, <4>2
        <5>2. r.first + r.n \in Int /\ p.first \in Int
          BY PacketFields
        <5> QED BY <5>1, <5>2
      <4>6. s[i] \in Int /\ s[i] < c /\ c <= d /\ t[j] = d + j - 1
        BY <4>1, <4>3, <4>4, <4>5
      <4> QED BY <4>6
    <3> QED BY <2>4, <2>6, <3>1, RisingJoined
  <2>9. From(s \o t, q, k + 1)
    <3> SUFFICES ASSUME NEW x \in 1 .. Len(s \o t)
                 PROVE  \E j \in 1 .. k + 1 : /\ q[j].first <= (s \o t)[x]
                                              /\ (s \o t)[x] < q[j].first + q[j].n
      BY DEF From
    <3>1. CASE \E y \in 1 .. Len(s) : (s \o t)[x] = s[y]
      <4>1. PICK y \in 1 .. Len(s) : (s \o t)[x] = s[y]
        BY <3>1
      <4>2. PICK j \in 1 .. k : q[j].first <= s[y] /\ s[y] < q[j].first + q[j].n
        BY <2>6 DEF From
      <4>3. j \in 1 .. k + 1
        OBVIOUS
      <4> QED BY <4>1, <4>2, <4>3
    <3>2. CASE \E y \in 1 .. Len(t) : (s \o t)[x] = t[y]
      <4>1. PICK y \in 1 .. Len(t) : (s \o t)[x] = t[y]
        BY <3>2
      <4>2. t[y] = p.first + y - 1 /\ y \in 1 .. p.n
        BY <2>4
      <4>3. p.first <= t[y] /\ t[y] < p.first + p.n
        BY <4>2, PacketFields
      <4>4. k + 1 \in 1 .. k + 1
        OBVIOUS
      <4> QED BY <2>3, <4>1, <4>3, <4>4
    <3> QED BY <3>1, <3>2, JoinedMembers
  <2> QED BY <2>1, <2>5, <2>7, <2>8, <2>9
<1> HIDE DEF G
<1>6. \A k \in 0 .. N : k \in G
  BY <1>0, <1>4, <1>5, CountUp
<1>7. N \in G /\ N \in 0 .. N
  BY <1>0, <1>6
<1>8. f[N] \in Seq(Int)
  BY <1>2, <1>7 DEF IsFlat
<1> QED BY <1>2, <1>3, <1>7, <1>8 DEF G

-----------------------------------------------------------------------------
(* The invariant *)

LEMMA ZeroInRing == 0 \in Ring /\ \A i \in Ring : i \in Nat /\ i < RingSize
BY UnitsAssumption DEF Ring

LEMMA InitSocketInv == SocketInit => SocketInv
<1> SUFFICES ASSUME SocketInit PROVE SocketInv
  OBVIOUS
<1>1. SocketType
  <2>1. mExtraSamples \in [Ring -> Int] /\ mReceiveQueue \in Seq(Packets)
    BY DEF SocketInit, Torn
  <2>2. reg \in Ring /\ packet \in Packets \cup {Nothing} /\ mNextExtraSample \in Ring
        /\ mLastExtraSample \in Ring
    BY ZeroInRing DEF SocketInit
  <2> QED BY <2>1, <2>2 DEF SocketInit, SocketType
<1>2. StreamInv
  BY UnitsAssumption DEF SocketInit, StreamInv
<1>3. ToCome = 1
  BY WholeRead DEF SocketInit, ToCome
<1>4. InRing = 0 /\ BeingPlayed = 0
  BY ZeroInRing, AtGap DEF SocketInit, InRing, BeingPlayed
<1>5. PlacesInv
  BY DEF SocketInit, PlacesInv
<1>6. QueueInv
  BY <1>3 DEF SocketInit, QueueInv, Nothing
<1>7. ExtrasInv
  BY <1>4 DEF ExtrasInv
<1>8. AccountsInv
  BY <1>3, <1>4, NoSamples DEF SocketInit, AccountsInv, Nothing
<1> QED BY <1>1, <1>2, <1>5, <1>6, <1>7, <1>8 DEF SocketInv

Core == PlacesInv /\ QueueInv /\ ExtrasInv /\ AccountsInv

\* A step that leaves the samples alone.
LEMMA SamplesKept ==
  ASSUME SocketType, Core,
         UNCHANGED <<ring, reg, packet, heard, lastHeard, mReceiveQueue, dropped>>,
         ToCome' = ToCome, (worker' = "resetLast") <=> (worker = "resetLast"),
         \/ audio' = audio
         \/ /\ audio \in {"idle", "check", "play"}
            /\ audio' \in {"idle", "check", "play", "drain"},
         worker = "resetLast" => audio' \in {"idle", "check"}
  PROVE  Core'
<1>1. InRing' = InRing /\ BeingPlayed' = BeingPlayed
  BY DEF InRing, BeingPlayed, ring
<1>2. \A k : Extras(k)' = Extras(k)
  BY DEF Extras, ring
<1>3. PlacesInv'
  BY DEF Core, PlacesInv, ring
<1>4. QueueInv'
  BY DEF Core, QueueInv
<1>5. ExtrasInv'
  BY <1>1, <1>2 DEF Core, ExtrasInv
<1>6. AccountsInv'
  BY <1>1 DEF Core, AccountsInv
<1> QED BY <1>3, <1>4, <1>5, <1>6 DEF Core

LEMMA NumbersHeld ==
  ASSUME SocketType
  PROVE  /\ InRing \in 0 .. RingSize - 1 /\ BeingPlayed \in {0, 1}
         /\ \A k \in 0 .. RingSize : Extras(k) \in Int
         /\ packet.first \in Int /\ packet.n \in Nat
         /\ \A i \in 1 .. Len(mReceiveQueue) : /\ mReceiveQueue[i] \in Packets
                                              /\ mReceiveQueue[i].first \in Int
                                              /\ mReceiveQueue[i].n \in 1 .. RingSize
<1>1. InRing \in 0 .. RingSize - 1
  BY GapInRing DEF SocketType, InRing
<1>2. \A k \in 0 .. RingSize : Extras(k) \in Int
  <2> SUFFICES ASSUME NEW k \in 0 .. RingSize PROVE Extras(k) \in Int
    OBVIOUS
  <2>1. mNextExtraSample \in Ring /\ mExtraSamples \in [Ring -> Int]
    BY DEF SocketType
  <2>2. At(mNextExtraSample, k) \in Ring
    BY <2>1, AtInRing
  <2> QED BY <2>1, <2>2 DEF Extras
<1>3. packet.first \in Int /\ packet.n \in Nat
  BY PacketFields DEF SocketType, Nothing
<1>4. \A i \in 1 .. Len(mReceiveQueue) : mReceiveQueue[i] \in Packets
  BY DEF SocketType
<1> QED BY <1>1, <1>2, <1>3, <1>4, PacketFields DEF BeingPlayed

LEMMA ToComeInt == SocketType /\ StreamInv => ToCome \in Int
<1> SUFFICES ASSUME SocketType, StreamInv PROVE ToCome \in Int
  OBVIOUS
<1>1. Whole(read) \in Nat
  BY WholeRead DEF StreamInv
<1> QED BY <1>1 DEF SocketType, ToCome

\* A step that leaves the samples alone, but gives up the next ones of the stream.
LEMMA SamplesGivenUp ==
  ASSUME SocketType, Core, UNCHANGED <<ring, reg, packet, heard, lastHeard, mReceiveQueue, audio>>,
         worker # "resetLast", worker' # "resetLast",
         NEW d \in Nat, ToCome \in Int, ToCome' = ToCome + d, dropped' = dropped + d
  PROVE  Core'
<1>0. ToCome' \in Int /\ ToCome <= ToCome'
  OBVIOUS
<1>1. InRing' = InRing /\ BeingPlayed' = BeingPlayed /\ \A k : Extras(k)' = Extras(k)
  BY DEF InRing, BeingPlayed, Extras, ring
<1>2. PlacesInv'
  BY DEF Core, PlacesInv, ring
<1>3. QueueInv'
  <2>1. lastHeard \in Nat /\ lastHeard < ToCome'
    BY <1>0 DEF Core, QueueInv
  <2>2. packet.n > 0 => packet.first + packet.n <= ToCome'
    BY <1>0, NumbersHeld DEF Core, QueueInv
  <2>3. \A i \in 1 .. Len(mReceiveQueue) : mReceiveQueue[i].first + mReceiveQueue[i].n <= ToCome'
    <3> SUFFICES ASSUME NEW i \in 1 .. Len(mReceiveQueue)
                 PROVE  mReceiveQueue[i].first + mReceiveQueue[i].n <= ToCome'
      OBVIOUS
    <3>1. PICK x \in Int : x = mReceiveQueue[i].first + mReceiveQueue[i].n
      BY NumbersHeld
    <3>2. x <= ToCome
      BY <3>1 DEF Core, QueueInv
    <3> QED BY <1>0, <3>1, <3>2
  <2> QED BY <2>1, <2>2, <2>3 DEF Core, QueueInv
<1>4. ExtrasInv'
  <2> SUFFICES ASSUME NEW k \in BeingPlayed .. InRing - 1 PROVE Extras(k) < ToCome'
    BY <1>1 DEF Core, ExtrasInv
  <2>1. k \in 0 .. RingSize
    BY NumbersHeld, UnitsAssumption
  <2>2. Extras(k) \in Int
    BY <2>1, NumbersHeld
  <2>3. Extras(k) < ToCome
    BY DEF Core, ExtrasInv
  <2> QED BY <1>0, <2>2, <2>3
<1>5. AccountsInv'
  <2>1. PICK h \in Int, r \in Int, n \in Int, t \in Int :
          h = heard /\ r = InRing - BeingPlayed /\ n = packet.n /\ t = SamplesOf(mReceiveQueue)
    <3>1. SamplesOf(mReceiveQueue) \in Nat
      BY SamplesCount DEF SocketType
    <3> QED BY <3>1, NumbersHeld DEF SocketType
  <2>2. h + r + n + t + dropped = ToCome - 1
    BY <2>1 DEF Core, AccountsInv
  <2>3. h + r + n + t + dropped' = ToCome' - 1
    <3>1. dropped \in Int
      BY DEF SocketType
    <3> QED BY <2>2, <3>1
  <2> QED BY <1>1, <2>1, <2>3 DEF AccountsInv
<1> QED BY <1>2, <1>3, <1>4, <1>5 DEF Core

\* A step that puts the next samples of the stream into the queue.
LEMMA PacketQueued ==
  ASSUME SocketType, Core, UNCHANGED <<ring, reg, packet, heard, lastHeard, dropped, audio>>,
         worker # "resetLast", worker' # "resetLast", ToCome \in Int,
         NEW p \in Packets, p.first = ToCome, ToCome' = ToCome + p.n,
         mReceiveQueue' = Append(mReceiveQueue, p)
  PROVE  Core'
<1> DEFINE L == Len(mReceiveQueue)
<1>0. p.n \in 1 .. RingSize /\ p.n \in Nat /\ ToCome' \in Int /\ ToCome <= ToCome'
      /\ ToCome < ToCome' /\ p.first + p.n <= ToCome'
  BY PacketFields
<1>1. InRing' = InRing /\ BeingPlayed' = BeingPlayed /\ \A k : Extras(k)' = Extras(k)
  BY DEF InRing, BeingPlayed, Extras, ring
<1>2. PlacesInv'
  BY DEF Core, PlacesInv, ring
<1>3. /\ mReceiveQueue \in Seq(Packets) /\ L \in Nat /\ Len(mReceiveQueue') = L + 1
      /\ \A i \in 1 .. L : mReceiveQueue'[i] = mReceiveQueue[i]
      /\ mReceiveQueue'[L + 1] = p
  BY DEF SocketType
<1>4. QueueInv'
  <2>1. lastHeard \in Nat /\ lastHeard < ToCome /\ lastHeard < ToCome'
    BY <1>0 DEF Core, QueueInv
  <2>2. packet.n > 0 => packet.first + packet.n <= ToCome /\ packet.first + packet.n <= ToCome'
    BY <1>0, NumbersHeld DEF Core, QueueInv
  <2>3. ASSUME NEW i \in 1 .. L
        PROVE  /\ lastHeard < mReceiveQueue[i].first
               /\ mReceiveQueue[i].first + mReceiveQueue[i].n <= ToCome
               /\ mReceiveQueue[i].first + mReceiveQueue[i].n <= ToCome'
               /\ packet.n > 0 => packet.first + packet.n <= mReceiveQueue[i].first
    <3>1. PICK x \in Int : x = mReceiveQueue[i].first + mReceiveQueue[i].n
      BY NumbersHeld
    <3>2. x <= ToCome
      BY <3>1 DEF Core, QueueInv
    <3> QED BY <1>0, <3>1, <3>2 DEF Core, QueueInv
  <2>4. ASSUME NEW i \in 1 .. L + 1
        PROVE  /\ lastHeard < mReceiveQueue'[i].first
               /\ mReceiveQueue'[i].first + mReceiveQueue'[i].n <= ToCome'
               /\ packet.n > 0 => packet.first + packet.n <= mReceiveQueue'[i].first
    <3>1. CASE i = L + 1
      BY <1>0, <1>3, <2>1, <2>2, <3>1
    <3>2. CASE i # L + 1
      <4>1. i \in 1 .. L
        BY <1>3, <3>2
      <4> QED BY <1>3, <2>3, <4>1
    <3> QED BY <3>1, <3>2
  <2>5. ASSUME NEW i \in 1 .. L + 1, NEW j \in 1 .. L + 1, i < j
        PROVE  mReceiveQueue'[i].first + mReceiveQueue'[i].n <= mReceiveQueue'[j].first
    <3>1. i \in 1 .. L
      BY <1>3, <2>5
    <3>2. CASE j = L + 1
      BY <1>3, <2>3, <3>1, <3>2
    <3>3. CASE j # L + 1
      <4>1. j \in 1 .. L
        BY <1>3, <3>3
      <4>2. mReceiveQueue[i].first + mReceiveQueue[i].n <= mReceiveQueue[j].first
        BY <2>5, <3>1, <4>1 DEF Core, QueueInv
      <4> QED BY <1>3, <3>1, <4>1, <4>2
    <3> QED BY <3>2, <3>3
  <2>6. lastHeard' = lastHeard /\ packet' = packet /\ Len(mReceiveQueue') = L + 1
    BY <1>3
  <2>7. lastHeard' \in Nat /\ lastHeard' < ToCome'
    BY <2>1, <2>6
  <2>8. packet'.n > 0 => lastHeard' < packet'.first /\ packet'.first + packet'.n <= ToCome'
    BY <2>2, <2>6 DEF Core, QueueInv
  <2>9. \A i \in 1 .. Len(mReceiveQueue') :
          /\ lastHeard' < mReceiveQueue'[i].first
          /\ mReceiveQueue'[i].first + mReceiveQueue'[i].n <= ToCome'
          /\ packet'.n > 0 => packet'.first + packet'.n <= mReceiveQueue'[i].first
    BY <2>4, <2>6
  <2>10. \A i, j \in 1 .. Len(mReceiveQueue') :
           i < j => mReceiveQueue'[i].first + mReceiveQueue'[i].n <= mReceiveQueue'[j].first
    BY <2>5, <2>6
  <2> QED BY <2>7, <2>8, <2>9, <2>10 DEF QueueInv
<1>5. ExtrasInv'
  <2>1. ASSUME NEW k \in BeingPlayed .. InRing - 1
        PROVE  /\ lastHeard < Extras(k) /\ Extras(k) < ToCome'
               /\ \A i \in 1 .. L + 1 : Extras(k) < mReceiveQueue'[i].first
    <3>1. k \in 0 .. RingSize
      BY NumbersHeld, UnitsAssumption
    <3>2. Extras(k) \in Int
      BY <3>1, NumbersHeld
    <3>3. /\ lastHeard < Extras(k) /\ Extras(k) < ToCome
          /\ \A i \in 1 .. L : Extras(k) < mReceiveQueue[i].first
      BY DEF Core, ExtrasInv
    <3>4. ASSUME NEW i \in 1 .. L + 1 PROVE Extras(k) < mReceiveQueue'[i].first
      <4>1. i = L + 1 \/ i \in 1 .. L
        BY <1>3
      <4> QED BY <1>3, <3>3, <4>1
    <3> QED BY <1>0, <3>2, <3>3, <3>4
  <2>2. \A j, k \in BeingPlayed .. InRing - 1 : j < k => Extras(j) < Extras(k)
    BY DEF Core, ExtrasInv
  <2> QED BY <1>1, <1>3, <2>1, <2>2 DEF ExtrasInv
<1>6. AccountsInv'
  <2>1. SamplesOf(mReceiveQueue') = SamplesOf(mReceiveQueue) + p.n
    BY <1>3, AppendedSamples
  <2>2. PICK h \in Int, r \in Int, n \in Int, t \in Int :
          h = heard /\ r = InRing - BeingPlayed /\ n = packet.n /\ t = SamplesOf(mReceiveQueue)
    <3>1. SamplesOf(mReceiveQueue) \in Nat
      BY <1>3, SamplesCount
    <3> QED BY <3>1, NumbersHeld DEF SocketType
  <2>3. h + r + n + t + dropped = ToCome - 1
    BY <2>2 DEF Core, AccountsInv
  <2>4. h + r + n + (t + p.n) + dropped = ToCome' - 1
    <3>1. PICK d \in Int, c \in Nat : d = dropped /\ c = p.n
      BY <1>0 DEF SocketType
    <3>2. h + r + n + t + d = ToCome - 1 /\ ToCome' = ToCome + c
      BY <2>3, <3>1
    <3>3. h + r + n + (t + c) + d = ToCome' - 1
      BY <3>2
    <3> QED BY <3>1, <3>3
  <2> QED BY <1>1, <2>1, <2>2, <2>4 DEF AccountsInv
<1> QED BY <1>2, <1>4, <1>5, <1>6 DEF Core

\* The steps of the peer, and of the owner.
LEMMA PeerStep ==
  ASSUME SocketInv,
         PeerListens \/ PeerReads \/ PeerSendsHeader \/ PeerCloses \/ Stop
         \/ \E n \in Chunks : PeerSendsAudio(n)
  PROVE  SocketType' /\ StreamInv' /\ (~raced' => Core')
<1> USE DEF socketVars, flags, link, peer, stream, queues, audioVars, call, ring, stats
<1>0. SocketType /\ StreamInv /\ (~raced => Core)
  BY DEF SocketInv, Core
<1>1. /\ UNCHANGED <<worker, mIsEstablished, base, read, mReceiveQueue, audioVars>>
      /\ socket' \in {socket, "lost"}
      /\ sent' = sent \/ (sent = 0 /\ sent' = HeaderUnits)
         \/ \E n \in Chunks : sent >= HeaderUnits /\ sent' = sent + n
  BY DEF PeerListens, PeerReads, PeerSendsHeader, PeerCloses, Stop, PeerSendsAudio
<1>2. sent' \in Nat /\ sent' >= sent /\ (sent' = 0 \/ sent' >= HeaderUnits)
  <2>1. sent \in Nat /\ (sent = 0 \/ sent >= HeaderUnits)
    BY <1>0 DEF SocketType, StreamInv
  <2>2. \A n \in Chunks : n \in Nat
    BY AudioSocketAssumption
  <2> QED BY <1>1, <2>1, <2>2, UnitsAssumption
<1>3. SocketType'
  BY <1>0, <1>1, <1>2 DEF SocketType
<1>4. StreamInv'
  <2>1. read' <= sent'
    BY <1>0, <1>1, <1>2 DEF SocketType, StreamInv
  <2>2. read' = 0 \/ \E m \in Nat : read' = HeaderUnits + UnitsPerSample * m
    BY <1>0, <1>1 DEF StreamInv
  <2> QED BY <1>0, <1>1, <1>2, <2>1, <2>2 DEF StreamInv
<1>5. ToCome' = ToCome
  BY <1>1 DEF ToCome
<1>6. ASSUME ~raced' PROVE Core'
  <2>1. Core
    BY <1>0, <1>1, <1>6
  <2>2. worker = "resetLast" => audio' \in {"idle", "check"}
    BY <1>1, <2>1 DEF Core, PlacesInv
  <2> QED BY <1>0, <1>1, <1>5, <2>1, <2>2, SamplesKept
<1> QED BY <1>3, <1>4, <1>6

\* The steps of the worker that leave the stream alone.
LEMMA WorkerStep ==
  ASSUME SocketInv, RunEnds \/ HeaderWritten \/ ResetCheck \/ SendAudio \/ SendNext
  PROVE  SocketType' /\ StreamInv' /\ (~raced' => Core')
<1> USE DEF socketVars, flags, link, peer, stream, queues, audioVars, call, ring, stats
<1>0. SocketType /\ StreamInv /\ (~raced => Core)
  BY DEF SocketInv, Core
<1>1. /\ UNCHANGED <<stream, mReceiveQueue, call, ring, dropped, raced>>
      /\ mMinQueuePackets' \in {mMinQueuePackets, QueueSize + 1}
      /\ worker \notin {"resetNext", "resetLast"} /\ worker' # "resetLast"
  BY DEF RunEnds, HeaderWritten, ResetCheck, resetQueueStats, SendAudio, SendNext, ConnectFailed,
     IoFailed
<1>2. /\ worker' \in {"done", "end", "loop", "header", "send", "pop", "receive"}
      /\ mIsEstablished' \in BOOLEAN /\ socket' \in {"none", "connected", "lost"}
      /\ worker' = "header" => read = 0 /\ ~mIsEstablished'
      /\ worker' \in {"send", "pop", "receive"} => mIsEstablished'
      /\ mIsEstablished' => mIsEstablished
      /\ socket' = "connected" => socket = "connected" /\ mIsEstablished' = mIsEstablished
  <2>0. /\ mIsEstablished \in BOOLEAN /\ socket \in {"none", "connected", "lost"}
        /\ worker = "greet" => read = 0 /\ ~mIsEstablished
        /\ worker \in {"resetStats", "send", "pop", "receive"} => mIsEstablished
    BY <1>0 DEF SocketType, StreamInv
  <2> USE DEF ConnectFailed, IoFailed, close, isConnected
  <2>1. CASE RunEnds
    BY <2>0, <2>1 DEF RunEnds
  <2>2. CASE HeaderWritten
    <3>1. worker = "greet" /\ UNCHANGED stream
      BY <2>2 DEF HeaderWritten
    <3>2. CASE close /\ ConnectFailed
      BY <2>0, <3>1, <3>2
    <3>3. CASE isConnected /\ worker' = "header" /\ UNCHANGED link
      BY <2>0, <3>1, <3>3
    <3> QED BY <2>2, <3>2, <3>3 DEF HeaderWritten
  <2>3. CASE ResetCheck
    BY <2>0, <2>3 DEF ResetCheck
  <2>4. CASE SendAudio
    BY <2>0, <2>4 DEF SendAudio
  <2>5. CASE SendNext
    BY <2>0, <2>5 DEF SendNext
  <2> QED BY <2>1, <2>2, <2>3, <2>4, <2>5
<1>3. SocketType'
  <2>1. mMinQueuePackets' \in Nat
    BY <1>0, <1>1, UnitsAssumption DEF SocketType
  <2> QED BY <1>0, <1>1, <1>2, <2>1 DEF SocketType
<1>4. StreamInv'
  <2>1. read' <= sent' /\ (sent' = 0 \/ sent' >= HeaderUnits)
    BY <1>0, <1>1 DEF StreamInv
  <2>2. read' = 0 \/ \E m \in Nat : read' = HeaderUnits + UnitsPerSample * m
    BY <1>0, <1>1 DEF StreamInv
  <2> QED BY <1>0, <1>1, <1>2, <2>1, <2>2 DEF StreamInv
<1>5. ToCome' = ToCome
  BY <1>1 DEF ToCome
<1>6. ASSUME ~raced' PROVE Core'
  BY <1>0, <1>1, <1>5, <1>6, SamplesKept
<1> QED BY <1>3, <1>4, <1>6

\* The header is read.
LEMMA HeaderStep ==
  ASSUME SocketInv, ReadAudioHeader
  PROVE  SocketType' /\ StreamInv' /\ (~raced' => Core')
<1> USE DEF flags, link, peer, stream, queues, audioVars, call, ring, stats
<1>0. SocketType /\ StreamInv /\ (~raced => Core)
  BY DEF SocketInv, Core
<1>1. /\ UNCHANGED <<base, sent, mReceiveQueue, audioVars>>
      /\ worker = "header" /\ worker' \in {"end", "loop", "resetNext"}
      /\ mIsEstablished' \in BOOLEAN /\ socket' \in {"none", "connected", "lost"}
      /\ worker' = "resetNext" <=> mIsEstablished'
      /\ ~mIsEstablished' => socket' # "connected"
      /\ (read' = read /\ ~mIsEstablished') \/ (sent > read /\ read' = HeaderUnits)
  <2>1. mIsEstablished \in BOOLEAN /\ socket \in {"none", "connected", "lost"}
    BY <1>0 DEF SocketType
  <2>5. UNCHANGED <<base, sent, mReceiveQueue, audioVars>> /\ worker = "header"
    BY DEF ReadAudioHeader
  <2>2. CASE close /\ ConnectFailed /\ UNCHANGED read
    <3>1. worker' \in {"end", "loop"}
      BY <2>2 DEF ConnectFailed
    <3>2. mIsEstablished' = FALSE /\ socket' \in {"none", "lost"}
      BY <2>1, <2>2 DEF close, isConnected
    <3>3. UNCHANGED <<base, sent, mReceiveQueue, audioVars>> /\ worker = "header" /\ read' = read
      BY <2>2, <2>5
    <3> QED BY <3>1, <3>2, <3>3
  <2>3. CASE mIsEstablished' = TRUE /\ worker' = "resetNext" /\ UNCHANGED socket
             /\ sent > read /\ read' = HeaderUnits
    BY <2>1, <2>3, <2>5
  <2>4. CASE close /\ ConnectFailed /\ sent > read /\ read' = HeaderUnits
    <3>1. worker' \in {"end", "loop"}
      BY <2>4 DEF ConnectFailed
    <3>2. mIsEstablished' = FALSE /\ socket' \in {"none", "lost"}
      BY <2>1, <2>4 DEF close, isConnected
    <3>3. UNCHANGED <<base, sent, mReceiveQueue, audioVars>> /\ worker = "header"
          /\ sent > read /\ read' = HeaderUnits
      BY <2>4, <2>5
    <3> QED BY <3>1, <3>2, <3>3
  <2> QED BY <2>2, <2>3, <2>4 DEF ReadAudioHeader
<1>2. read = 0 /\ read' \in {0, HeaderUnits} /\ read' \in Nat /\ read' <= sent
  <2>1. read = 0 /\ sent \in Nat /\ (sent = 0 \/ sent >= HeaderUnits)
    BY <1>0, <1>1 DEF SocketType, StreamInv
  <2> QED BY <1>1, <2>1, UnitsAssumption
<1>3. SocketType'
  BY <1>0, <1>1, <1>2 DEF SocketType
<1>4. StreamInv'
  <2>1. read' = 0 \/ \E m \in Nat : read' = HeaderUnits + UnitsPerSample * m
    <3>1. HeaderUnits = HeaderUnits + UnitsPerSample * 0
      BY UnitsAssumption
    <3> QED BY <1>2, <3>1
  <2>2. mIsEstablished' => read' >= HeaderUnits
    BY <1>1, <1>2, UnitsAssumption
  <2> QED BY <1>0, <1>1, <1>2, <2>1, <2>2 DEF StreamInv
<1>5. ToCome' = ToCome
  BY <1>1, <1>2, WholeRead DEF ToCome
<1>6. ASSUME ~raced' PROVE Core'
  <2>1. Core
    BY <1>0, <1>1, <1>6
  <2> QED BY <1>0, <1>1, <1>5, <2>1, SamplesKept
<1> QED BY <1>3, <1>4, <1>6

\* The callback's beginning.
LEMMA ComputeStep ==
  ASSUME SocketInv, ComputeTo \/ ComputeFrom
  PROVE  SocketType' /\ StreamInv' /\ (~raced' => Core')
<1> USE DEF flags, link, peer, stream, queues, audioVars, call, ring, stats
<1>0. SocketType /\ StreamInv /\ (~raced => Core)
  BY DEF SocketInv, Core
<1>1. /\ UNCHANGED <<worker, link, peer, stream, mReceiveQueue, ring, reg, packet, heard, lastHeard,
                     stats, dropped>>
      /\ audio \in {"idle", "check"} /\ audio' \in {"idle", "check", "play"}
      /\ raced' \in BOOLEAN
      /\ ~raced' => ~raced /\ ~(audio' = "play" /\ worker = "resetLast")
  <2>1. raced \in BOOLEAN
    BY <1>0 DEF SocketType
  <2>2. CASE ComputeTo
    BY <2>1, <2>2 DEF ComputeTo
  <2>3. CASE ComputeFrom
    BY <2>1, <2>3 DEF ComputeFrom
  <2> QED BY <2>2, <2>3
<1>2. SocketType'
  BY <1>0, <1>1 DEF SocketType
<1>3. StreamInv'
  BY <1>0, <1>1 DEF StreamInv
<1>4. ToCome' = ToCome
  BY <1>1 DEF ToCome
<1>5. ASSUME ~raced' PROVE Core'
  BY <1>0, <1>1, <1>4, <1>5, SamplesKept
<1> QED BY <1>2, <1>3, <1>5

\* A connection is made: what was read of the last one ends where the next begins.
LEMMA DialStep ==
  ASSUME SocketInv, Dial
  PROVE  SocketType' /\ StreamInv' /\ (~raced' => Core')
<1> USE DEF flags, link, peer, stream, queues, audioVars, call, ring, stats
<1>0. SocketType /\ StreamInv /\ (~raced => Core)
  BY DEF SocketInv, Core
<1>1. /\ UNCHANGED <<mIsEstablished, mReceiveQueue, call, ring, stats, raced>>
      /\ worker = "loop" /\ ~mIsEstablished
  BY DEF Dial
<1>2. CASE UNCHANGED <<stream, dropped>> /\ worker' \in {"end", "loop"} /\ UNCHANGED socket
  <2>1. SocketType'
    BY <1>0, <1>1, <1>2 DEF SocketType
  <2>2. StreamInv'
    BY <1>0, <1>1, <1>2 DEF StreamInv
  <2>3. ToCome' = ToCome
    BY <1>2 DEF ToCome
  <2>4. ASSUME ~raced' PROVE Core'
    BY <1>0, <1>1, <1>2, <2>3, <2>4, SamplesKept
  <2> QED BY <2>1, <2>2, <2>4
<1>3. CASE UNCHANGED <<stream, dropped, socket>> /\ worker' = "greet" /\ socket = "connected"
  <2>1. SocketType'
    BY <1>0, <1>1, <1>3 DEF SocketType
  <2>2. StreamInv'
    BY <1>0, <1>1, <1>3 DEF StreamInv
  <2>3. ToCome' = ToCome
    BY <1>3 DEF ToCome
  <2>4. ASSUME ~raced' PROVE Core'
    BY <1>0, <1>1, <1>3, <2>3, <2>4, SamplesKept
  <2> QED BY <2>1, <2>2, <2>4
<1>4. CASE /\ socket' = "connected" /\ worker' = "greet"
           /\ base' = base + Begun(sent) /\ sent' = 0 /\ read' = 0
           /\ dropped' = dropped + Begun(sent) - Whole(read)
  <2>1. PICK b \in Nat, w \in Nat : b = Begun(sent) /\ w = Whole(read) /\ w <= b
    <3>1. read \in Nat /\ sent \in Nat /\ read <= sent
          /\ (read = 0 \/ \E m \in Nat : read = HeaderUnits + UnitsPerSample * m)
          /\ (sent = 0 \/ sent >= HeaderUnits)
      BY <1>0 DEF SocketType, StreamInv
    <3>2. CASE read = 0
      <4>1. Whole(read) = 0
        BY <3>2, WholeRead
      <4>2. Begun(sent) \in Nat
        <5>1. CASE sent = 0
          BY <5>1, UnitsAssumption DEF Begun
        <5>2. CASE sent >= HeaderUnits + UnitsPerSample * 0
          BY <3>1, <5>2, WholeBegun
        <5>3. UnitsPerSample * 0 = 0
          BY UnitsAssumption
        <5> QED BY <3>1, <5>1, <5>2, <5>3, UnitsAssumption
      <4> QED BY <4>1, <4>2
    <3>3. CASE \E m \in Nat : read = HeaderUnits + UnitsPerSample * m
      <4>1. PICK m \in Nat : read = HeaderUnits + UnitsPerSample * m
        BY <3>3
      <4>2. Whole(read) = m
        BY <4>1, WholeRead
      <4>3. sent >= HeaderUnits + UnitsPerSample * m
        BY <3>1, <4>1
      <4>4. Begun(sent) \in Nat /\ m <= Begun(sent)
        BY <3>1, <4>3, WholeBegun
      <4> QED BY <4>2, <4>4
    <3> QED BY <3>1, <3>2, <3>3
  <2>2. base' \in Int /\ dropped' \in Int
    <3>1. base \in Int /\ dropped \in Int
      BY <1>0 DEF SocketType
    <3>2. base' = base + b /\ dropped' = dropped + b - w
      BY <1>4, <2>1
    <3> QED BY <3>1, <3>2
  <2>3. SocketType'
    BY <1>0, <1>1, <1>4, <2>2 DEF SocketType
  <2>4. StreamInv'
    BY <1>1, <1>4, UnitsAssumption DEF StreamInv
  <2>5. ToCome' = ToCome + (b - w) /\ ToCome \in Int /\ dropped' = dropped + (b - w)
    <3>1. Whole(read') = 0 /\ base \in Int /\ dropped \in Int
      BY <1>0, <1>4, WholeRead DEF SocketType
    <3> QED BY <1>4, <2>1, <3>1 DEF ToCome
  <2>6. ASSUME ~raced' PROVE Core'
    <3>1. Core
      BY <1>0, <1>1, <2>6
    <3>2. b - w \in Nat
      BY <2>1
    <3> QED BY <1>0, <1>1, <1>4, <2>5, <3>1, <3>2, SamplesGivenUp
  <2> QED BY <2>3, <2>4, <2>6
<1> QED BY <1>1, <1>2, <1>3, <1>4 DEF Dial, ConnectFailed, isConnected

\* A new connection clears the ring: the read index ...
LEMMA ResetNextStep ==
  ASSUME SocketInv, ResetNext
  PROVE  SocketType' /\ StreamInv' /\ (~raced' => Core')
<1> USE DEF flags, link, peer, stream, queues, audioVars, call, ring, stats
<1>0. SocketType /\ StreamInv /\ (~raced => Core)
  BY DEF SocketInv, Core
<1>1. /\ UNCHANGED <<mIsEstablished, socket, base, sent, read, mReceiveQueue, audio, reg, packet,
                     heard, lastHeard, mExtraSamples, mLastExtraSample, mMinQueuePackets>>
      /\ worker = "resetNext" /\ worker' = "resetLast" /\ mNextExtraSample' = 0
      /\ dropped' = dropped + InRing
      /\ raced' = (raced \/ Computing)
  BY DEF ResetNext, InRing, Gap
<1>2. SocketType'
  <2>1. dropped' \in Int
    BY <1>0, <1>1, NumbersHeld DEF SocketType
  <2>2. raced' \in BOOLEAN
    BY <1>1 DEF Computing
  <2> QED BY <1>0, <1>1, <2>1, <2>2, ZeroInRing DEF SocketType
<1>3. StreamInv'
  BY <1>0, <1>1 DEF StreamInv
<1>4. ASSUME ~raced' PROVE Core'
  <2>1. Core /\ audio \in {"idle", "check"}
    BY <1>0, <1>1, <1>4 DEF Computing
  <2>2. ToCome' = ToCome
    BY <1>1 DEF ToCome
  <2>3. PlacesInv'
    BY <1>1, <2>1 DEF Core, PlacesInv
  <2>4. QueueInv'
    BY <1>1, <2>1, <2>2 DEF Core, QueueInv
  <2>5. ExtrasInv'
    BY <1>1 DEF ExtrasInv
  <2>6. AccountsInv'
    <3>1. heard + (InRing - 0) + packet.n + SamplesOf(mReceiveQueue) + dropped = ToCome - 1
      BY <1>1, <2>1 DEF Core, AccountsInv, BeingPlayed
    <3>2. PICK h \in Int, r \in Int, n \in Int, t \in Int :
            h = heard /\ r = InRing /\ n = packet.n /\ t = SamplesOf(mReceiveQueue)
      <4>1. SamplesOf(mReceiveQueue) \in Nat /\ heard \in Nat
        BY <1>0, SamplesCount DEF SocketType
      <4>2. InRing \in Int /\ packet.n \in Int
        BY <1>0, NumbersHeld
      <4> QED BY <4>1, <4>2
    <3>3. dropped \in Int
      BY <1>0 DEF SocketType
    <3>4. h + 0 + n + t + dropped' = ToCome - 1
      BY <1>1, <3>1, <3>2, <3>3
    <3> QED BY <1>1, <2>2, <3>2, <3>4 DEF AccountsInv
  <2> QED BY <2>3, <2>4, <2>5, <2>6 DEF Core
<1> QED BY <1>2, <1>3, <1>4

\* ... and the write index.
LEMMA ResetLastStep ==
  ASSUME SocketInv, ResetLast
  PROVE  SocketType' /\ StreamInv' /\ (~raced' => Core')
<1> USE DEF flags, link, peer, stream, queues, audioVars, call, ring, stats
<1>0. SocketType /\ StreamInv /\ (~raced => Core)
  BY DEF SocketInv, Core
<1>1. /\ UNCHANGED <<mIsEstablished, socket, base, sent, read, mReceiveQueue, audio, reg, packet,
                     heard, lastHeard, mExtraSamples, mNextExtraSample, mMinQueuePackets,
                     dropped, raced>>
      /\ worker = "resetLast" /\ worker' = "resetStats" /\ mLastExtraSample' = 0
  BY DEF ResetLast
<1>2. SocketType'
  BY <1>0, <1>1, ZeroInRing DEF SocketType
<1>3. StreamInv'
  BY <1>0, <1>1 DEF StreamInv
<1>4. ASSUME ~raced' PROVE Core'
  <2>1. Core /\ audio \in {"idle", "check"} /\ mNextExtraSample = 0
    BY <1>0, <1>1, <1>4 DEF Core, PlacesInv
  <2>2. ToCome' = ToCome
    BY <1>1 DEF ToCome
  <2>3. InRing' = 0 /\ BeingPlayed' = 0
    BY <1>1, <2>1, ZeroInRing, AtGap DEF InRing, BeingPlayed
  <2>4. PlacesInv'
    BY <1>1, <2>1 DEF Core, PlacesInv
  <2>5. QueueInv'
    BY <1>1, <2>1, <2>2 DEF Core, QueueInv
  <2>6. ExtrasInv'
    BY <2>3 DEF ExtrasInv
  <2>7. AccountsInv'
    BY <1>1, <2>1, <2>2, <2>3 DEF Core, AccountsInv
  <2> QED BY <2>4, <2>5, <2>6, <2>7 DEF Core
<1> QED BY <1>2, <1>3, <1>4

\* A packet is read, and put into the queue unless it is full.
LEMMA ReceiveStep ==
  ASSUME SocketInv, ReceiveAudio
  PROVE  SocketType' /\ StreamInv' /\ (~raced' => Core')
<1> USE DEF flags, link, peer, stream, queues, audioVars, call, ring, stats
<1>0. SocketType /\ StreamInv /\ (~raced => Core)
  BY DEF SocketInv, Core
<1>1. /\ UNCHANGED <<mIsEstablished, socket, base, sent, audio, reg, packet, heard, lastHeard,
                     mExtraSamples, mNextExtraSample, mLastExtraSample, mMinQueuePackets, raced>>
      /\ worker = "receive" /\ worker' \in {"receive", "loop"}
  BY DEF ReceiveAudio
<1>2. mIsEstablished
  BY <1>0, <1>1 DEF StreamInv
<1>3. CASE UNCHANGED <<read, mReceiveQueue, dropped>>
  <2>1. SocketType'
    BY <1>0, <1>1, <1>3 DEF SocketType
  <2>2. StreamInv'
    BY <1>0, <1>1, <1>2, <1>3 DEF StreamInv
  <2>3. ToCome' = ToCome
    BY <1>1, <1>3 DEF ToCome
  <2>4. ASSUME ~raced' PROVE Core'
    BY <1>0, <1>1, <1>3, <2>3, <2>4, SamplesKept
  <2> QED BY <2>1, <2>2, <2>4
<1>4. CASE /\ sent - read > UnitsPerSample /\ read' = read + BytesToRead
           /\ \/ mReceiveQueue' = Append(mReceiveQueue, PacketOf(BytesToRead)) /\ UNCHANGED dropped
              \/ dropped' = dropped + PacketOf(BytesToRead).n /\ UNCHANGED mReceiveQueue
  <2>1. read \in Nat /\ sent \in Nat /\ base \in Int
    BY <1>0 DEF SocketType
  <2>2. PICK m \in Nat : read = HeaderUnits + UnitsPerSample * m
    <3>1. read # 0
      BY <1>0, <1>2, <2>1, UnitsAssumption DEF StreamInv
    <3> QED BY <1>0, <3>1 DEF StreamInv
  <2>3. PICK c \in 1 .. RingSize :
          /\ read + BytesToRead = HeaderUnits + UnitsPerSample * (m + c)
          /\ read + BytesToRead <= sent
          /\ PacketOf(BytesToRead) = [first |-> base + m, n |-> c]
    BY <1>4, <2>1, <2>2, ReadsSamples
  <2>4. m + c \in Nat /\ read' = HeaderUnits + UnitsPerSample * (m + c) /\ read' <= sent
    BY <1>4, <2>3
  <2>5. read' \in Nat /\ read' >= HeaderUnits
    <3>1. UnitsPerSample * (m + c) \in Nat
      BY <2>4, UnitsAssumption
    <3> QED BY <2>4, <3>1, UnitsAssumption
  <2>6. ToCome = base + m /\ ToCome' = base + (m + c) /\ ToCome \in Int /\ ToCome' = ToCome + c
    <3>1. Whole(read) = m /\ Whole(read') = m + c
      BY <2>2, <2>4, WholeRead
    <3> QED BY <1>1, <2>1, <3>1 DEF ToCome
  <2>7. PICK p \in Packets : p = PacketOf(BytesToRead) /\ p.first = ToCome /\ p.n = c
    <3>1. [first |-> base + m, n |-> c] \in Packets
      BY <2>1 DEF Packets
    <3> QED BY <2>3, <2>6, <3>1
  <2>8. StreamInv'
    BY <1>0, <1>1, <1>2, <2>4, <2>5 DEF StreamInv
  <2>9. CASE dropped' = dropped + p.n /\ UNCHANGED mReceiveQueue
    <3>1. SocketType'
      <4>1. dropped' \in Int
        BY <1>0, <2>7, <2>9 DEF SocketType
      <4> QED BY <1>0, <1>1, <2>5, <2>9, <4>1 DEF SocketType
    <3>2. c \in Nat
      OBVIOUS
    <3>3. ASSUME ~raced' PROVE Core'
      BY <1>0, <1>1, <2>6, <2>7, <2>9, <3>2, <3>3, SamplesGivenUp
    <3> QED BY <2>8, <3>1, <3>3
  <2>10. CASE mReceiveQueue' = Append(mReceiveQueue, p) /\ UNCHANGED dropped
    <3>1. SocketType'
      <4>1. mReceiveQueue' \in Seq(Packets)
        BY <1>0, <2>10 DEF SocketType
      <4> QED BY <1>0, <1>1, <2>5, <2>10, <4>1 DEF SocketType
    <3>2. ASSUME ~raced' PROVE Core'
      <4>1. Core
        BY <1>0, <1>1, <3>2
      <4> QED BY <1>0, <1>1, <2>6, <2>7, <2>10, <4>1, PacketQueued
    <3> QED BY <2>8, <3>1, <3>2
  <2> QED BY <1>4, <2>7, <2>9, <2>10
<1> QED BY <1>3, <1>4 DEF ReceiveAudio

\* The oldest of the ring's samples is played ...
LEMMA PlayStep ==
  ASSUME SocketInv, PlayExtra
  PROVE  SocketType' /\ StreamInv' /\ (~raced' => Core')
<1> USE DEF flags, link, peer, stream, queues, audioVars, call, ring, stats
<1>0. SocketType /\ StreamInv /\ (~raced => Core)
  BY DEF SocketInv, Core
<1>1. /\ UNCHANGED <<worker, mIsEstablished, socket, base, sent, read, mReceiveQueue, packet, ring,
                     mMinQueuePackets, dropped, raced>>
      /\ audio = "play" /\ audio' = "advance" /\ mNextExtraSample # mLastExtraSample
      /\ heard' = heard + 1 /\ lastHeard' = mExtraSamples[mNextExtraSample]
      /\ reg' = mNextExtraSample
  BY DEF PlayExtra
<1>2. lastHeard' = Extras(0) /\ Extras(0) \in Int
  <2>1. mNextExtraSample \in Ring
    BY <1>0 DEF SocketType
  <2>2. 0 \in 0 .. RingSize
    BY UnitsAssumption
  <2> QED BY <1>0, <1>1, <2>1, <2>2, AtGap, NumbersHeld DEF Extras
<1>3. SocketType'
  <2>1. mNextExtraSample \in Ring /\ heard \in Nat
    BY <1>0 DEF SocketType
  <2>2. reg' \in Ring /\ heard' \in Nat /\ lastHeard' \in Int
    BY <1>1, <1>2, <2>1
  <2> QED BY <1>0, <1>1, <2>2 DEF SocketType
<1>4. StreamInv'
  BY <1>0, <1>1 DEF StreamInv
<1>5. ASSUME ~raced' PROVE Core'
  <2>1. Core
    BY <1>0, <1>1, <1>5
  <2>2. ToCome' = ToCome /\ BeingPlayed = 0 /\ BeingPlayed' = 1 /\ InRing' = InRing
        /\ \A k : Extras(k)' = Extras(k)
    BY <1>1 DEF ToCome, BeingPlayed, InRing, Extras
  <2>3. InRing \in 1 .. RingSize - 1
    <3>1. mNextExtraSample \in Ring /\ mLastExtraSample \in Ring
      BY <1>0 DEF SocketType
    <3> QED BY <1>1, <3>1, NextPosition DEF InRing
  <2>4. 0 \in 0 .. InRing - 1
    BY <2>3, UnitsAssumption
  <2>5. worker # "resetLast"
    BY <1>1, <2>1 DEF Core, PlacesInv
  <2>6. /\ lastHeard < Extras(0) /\ Extras(0) < ToCome
        /\ \A i \in 1 .. Len(mReceiveQueue) : Extras(0) < mReceiveQueue[i].first
    BY <2>1, <2>2, <2>4, <2>5 DEF Core, ExtrasInv
  <2>7. packet = Nothing /\ packet.n = 0
    BY <1>1, <2>1 DEF Core, PlacesInv, Nothing
  <2>8. PlacesInv'
    BY <1>1, <2>1 DEF Core, PlacesInv
  <2>9. QueueInv'
    <3>1. lastHeard' \in Nat /\ lastHeard' < ToCome'
      <4>1. lastHeard \in Nat
        BY <2>1 DEF Core, QueueInv
      <4> QED BY <1>2, <2>2, <2>6, <4>1
    <3>2. \A i \in 1 .. Len(mReceiveQueue) : lastHeard' < mReceiveQueue[i].first
      BY <1>2, <2>6
    <3> QED BY <1>1, <2>1, <2>2, <2>7, <3>1, <3>2 DEF Core, QueueInv
  <2>10. ExtrasInv'
    <3>1. ASSUME NEW k \in 1 .. InRing - 1
          PROVE  /\ Extras(0) < Extras(k) /\ Extras(k) < ToCome
                 /\ \A i \in 1 .. Len(mReceiveQueue) : Extras(k) < mReceiveQueue[i].first
      <4>1. k \in 0 .. InRing - 1 /\ 0 < k
        BY <2>3
      <4> QED BY <2>1, <2>2, <2>4, <2>5, <4>1 DEF Core, ExtrasInv
    <3>2. ASSUME NEW j \in 1 .. InRing - 1, NEW k \in 1 .. InRing - 1, j < k
          PROVE  Extras(j) < Extras(k)
      <4>1. k \in 0 .. InRing - 1 /\ j \in 0 .. InRing - 1
        BY <2>3
      <4> QED BY <2>1, <2>2, <2>5, <3>2, <4>1 DEF Core, ExtrasInv
    <3> QED BY <1>1, <1>2, <2>2, <3>1, <3>2 DEF ExtrasInv
  <2>11. AccountsInv'
    <3>1. PICK h \in Int, r \in Int, n \in Int, t \in Int, d \in Int :
            /\ h = heard /\ r = InRing /\ n = packet.n /\ t = SamplesOf(mReceiveQueue)
            /\ d = dropped
      <4>1. SamplesOf(mReceiveQueue) \in Nat /\ heard \in Nat /\ dropped \in Int
        BY <1>0, SamplesCount DEF SocketType
      <4>2. InRing \in Int /\ packet.n \in Int
        BY <1>0, NumbersHeld
      <4> QED BY <4>1, <4>2
    <3>2. h + (r - 0) + n + t + d = ToCome - 1
      BY <2>1, <2>2, <2>5, <3>1 DEF Core, AccountsInv
    <3>3. (h + 1) + (r - 1) + n + t + d = ToCome - 1
      BY <3>2
    <3> QED BY <1>1, <2>2, <2>5, <3>1, <3>3 DEF AccountsInv
  <2> QED BY <2>8, <2>9, <2>10, <2>11 DEF Core
<1> QED BY <1>3, <1>4, <1>5

\* ... and leaves the ring.
LEMMA AdvanceStep ==
  ASSUME SocketInv, Advance
  PROVE  SocketType' /\ StreamInv' /\ (~raced' => Core')
<1> USE DEF flags, link, peer, stream, queues, audioVars, call, ring, stats
<1>0. SocketType /\ StreamInv /\ (~raced => Core)
  BY DEF SocketInv, Core
<1>1. /\ UNCHANGED <<worker, mIsEstablished, socket, base, sent, read, mReceiveQueue, packet,
                     heard, lastHeard, mExtraSamples, mLastExtraSample,
                     mMinQueuePackets, dropped, raced>>
      /\ audio = "advance" /\ audio' = "play" /\ reg' = 0
      /\ mNextExtraSample' = At(reg, 1)
  BY DEF Advance, At
<1>2. SocketType'
  <2>1. reg \in Ring /\ 1 \in 0 .. RingSize
    BY <1>0, UnitsAssumption DEF SocketType
  <2>2. At(reg, 1) \in Ring
    BY <2>1, AtInRing
  <2> QED BY <1>0, <1>1, <2>2, ZeroInRing DEF SocketType
<1>3. StreamInv'
  BY <1>0, <1>1 DEF StreamInv
<1>4. ASSUME ~raced' PROVE Core'
  <2>1. Core
    BY <1>0, <1>1, <1>4
  <2>2. reg = mNextExtraSample /\ mNextExtraSample # mLastExtraSample /\ packet = Nothing
        /\ worker # "resetLast"
    BY <1>1, <2>1 DEF Core, PlacesInv
  <2>3. mNextExtraSample \in Ring /\ mLastExtraSample \in Ring
    BY <1>0 DEF SocketType
  <2>4. /\ InRing \in 1 .. RingSize - 1
        /\ Gap(At(mNextExtraSample, 1), mLastExtraSample) = InRing - 1
        /\ \A k \in 0 .. RingSize - 1 : At(At(mNextExtraSample, 1), k) = At(mNextExtraSample, k + 1)
    BY <2>2, <2>3, NextPosition DEF InRing
  <2>5. ToCome' = ToCome /\ BeingPlayed = 1 /\ BeingPlayed' = 0 /\ InRing' = InRing - 1
    BY <1>1, <2>2, <2>4 DEF ToCome, BeingPlayed, InRing
  <2>6. \A k \in 0 .. RingSize - 1 : Extras(k)' = Extras(k + 1)
    BY <1>1, <2>2, <2>4 DEF Extras
  <2>7. PlacesInv'
    BY <1>1, <2>1, <2>2 DEF Core, PlacesInv
  <2>8. QueueInv'
    BY <1>1, <2>1, <2>5 DEF Core, QueueInv
  <2>9. ExtrasInv'
    <3>1. ASSUME NEW k \in 0 .. (InRing - 1) - 1
          PROVE  k + 1 \in 1 .. InRing - 1 /\ Extras(k)' = Extras(k + 1)
      <4>1. k \in 0 .. RingSize - 1 /\ k + 1 \in 1 .. InRing - 1
        BY <2>4, UnitsAssumption
      <4> QED BY <2>6, <4>1
    <3>2. ASSUME NEW k \in 0 .. (InRing - 1) - 1
          PROVE  /\ lastHeard < Extras(k)' /\ Extras(k)' < ToCome
                 /\ \A i \in 1 .. Len(mReceiveQueue) : Extras(k)' < mReceiveQueue[i].first
      BY <2>1, <2>2, <2>5, <3>1 DEF Core, ExtrasInv
    <3>3. ASSUME NEW j \in 0 .. (InRing - 1) - 1, NEW k \in 0 .. (InRing - 1) - 1, j < k
          PROVE  Extras(j)' < Extras(k)'
      <4>1. j + 1 < k + 1
        BY <3>3, <2>4
      <4> QED BY <2>1, <2>2, <2>5, <3>1, <4>1 DEF Core, ExtrasInv
    <3> QED BY <1>1, <2>5, <3>2, <3>3 DEF ExtrasInv
  <2>10. AccountsInv'
    <3>1. (InRing - 1) - 0 = InRing - 1
      BY <2>4
    <3> QED BY <1>1, <2>1, <2>2, <2>5, <3>1 DEF Core, AccountsInv
  <2> QED BY <2>7, <2>8, <2>9, <2>10 DEF Core
<1> QED BY <1>2, <1>3, <1>4

\* A packet leaves the queue for the ring ...
LEMMA PopStep ==
  ASSUME SocketInv, PopPacket
  PROVE  SocketType' /\ StreamInv' /\ (~raced' => Core')
<1> USE DEF flags, link, peer, stream, queues, audioVars, call, ring, stats
<1> DEFINE q == mReceiveQueue
           L == Len(q)
<1>0. SocketType /\ StreamInv /\ (~raced => Core)
  BY DEF SocketInv, Core
<1>1. /\ UNCHANGED <<worker, mIsEstablished, socket, base, sent, read, heard, lastHeard, ring,
                     mMinQueuePackets, dropped, raced>>
      /\ audio = "play" /\ audio' = "fill" /\ mNextExtraSample = mLastExtraSample
      /\ q # << >> /\ packet' = Head(q) /\ q' = Tail(q) /\ reg' = mLastExtraSample
  BY DEF PopPacket
<1>2. q \in Seq(Packets)
  BY <1>0 DEF SocketType
<1>3. /\ Head(q) \in Packets /\ Head(q) = q[1] /\ Tail(q) \in Seq(Packets)
      /\ L >= 1 /\ Len(Tail(q)) = L - 1
      /\ \A k \in 1 .. L - 1 : Tail(q)[k] = q[k + 1]
      /\ SamplesOf(q) = Head(q).n + SamplesOf(Tail(q)) /\ SamplesOf(Tail(q)) \in Nat
  BY <1>1, <1>2, TailSamples
<1>4. PICK p \in Packets : p = q[1] /\ packet' = p
  BY <1>1, <1>3
<1>5. SocketType'
  <2>1. reg' \in Ring /\ packet' \in Packets \cup {Nothing} /\ q' \in Seq(Packets)
    BY <1>0, <1>1, <1>3 DEF SocketType
  <2> QED BY <1>0, <1>1, <2>1 DEF SocketType
<1>6. StreamInv'
  BY <1>0, <1>1 DEF StreamInv
<1>7. ASSUME ~raced' PROVE Core'
  <2>1. Core
    BY <1>0, <1>1, <1>7
  <2>2. packet = Nothing /\ packet.n = 0 /\ worker # "resetLast"
    BY <1>1, <2>1 DEF Core, PlacesInv, Nothing
  <2>3. InRing = 0 /\ InRing' = 0 /\ BeingPlayed = 0 /\ BeingPlayed' = 0 /\ ToCome' = ToCome
    <3>1. Gap(mNextExtraSample, mLastExtraSample) = 0
      BY <1>0, <1>1, AtGap DEF SocketType
    <3> QED BY <1>1, <3>1 DEF InRing, BeingPlayed, ToCome
  <2>4. L \in Nat /\ Len(q') = L - 1 /\ \A i \in 1 .. L - 1 : i + 1 \in 1 .. L /\ q'[i] = q[i + 1]
    BY <1>1, <1>2, <1>3
  <2>5. /\ lastHeard \in Nat /\ lastHeard < ToCome
        /\ \A i \in 1 .. L : lastHeard < q[i].first /\ q[i].first + q[i].n <= ToCome
        /\ \A i, j \in 1 .. L : i < j => q[i].first + q[i].n <= q[j].first
    BY <2>1 DEF Core, QueueInv
  <2>6. PlacesInv'
    BY <1>1, <1>3, <2>2 DEF PlacesInv
  <2>7. QueueInv'
    <3>1. lastHeard < p.first /\ p.first + p.n <= ToCome
      BY <1>3, <1>4, <2>4, <2>5
    <3>2. ASSUME NEW i \in 1 .. L - 1
          PROVE  /\ lastHeard < q'[i].first /\ q'[i].first + q'[i].n <= ToCome
                 /\ p.first + p.n <= q'[i].first
      <4>1. i + 1 \in 1 .. L /\ 1 \in 1 .. L /\ 1 < i + 1
        BY <2>4
      <4>2. q[1].first + q[1].n <= q[i + 1].first
        BY <2>5, <4>1
      <4> QED BY <1>4, <2>4, <2>5, <4>1, <4>2
    <3>3. ASSUME NEW i \in 1 .. L - 1, NEW j \in 1 .. L - 1, i < j
          PROVE  q'[i].first + q'[i].n <= q'[j].first
      <4>1. i + 1 \in 1 .. L /\ j + 1 \in 1 .. L /\ i + 1 < j + 1
        BY <2>4, <3>3
      <4>2. q[i + 1].first + q[i + 1].n <= q[j + 1].first
        BY <2>5, <4>1
      <4> QED BY <2>4, <4>2
    <3>4. lastHeard' = lastHeard /\ packet' = p
      BY <1>1, <1>4
    <3>5. lastHeard' \in Nat /\ lastHeard' < ToCome'
      BY <2>3, <2>5, <3>4
    <3>6. packet'.n > 0 => lastHeard' < packet'.first /\ packet'.first + packet'.n <= ToCome'
      BY <2>3, <3>1, <3>4
    <3>7. \A i \in 1 .. Len(q') :
            /\ lastHeard' < q'[i].first /\ q'[i].first + q'[i].n <= ToCome'
            /\ packet'.n > 0 => packet'.first + packet'.n <= q'[i].first
      BY <2>3, <2>4, <3>2, <3>4
    <3>8. \A i, j \in 1 .. Len(q') : i < j => q'[i].first + q'[i].n <= q'[j].first
      BY <2>4, <3>3
    <3> QED BY <3>5, <3>6, <3>7, <3>8 DEF QueueInv
  <2>8. ExtrasInv'
    BY <2>3 DEF ExtrasInv
  <2>9. AccountsInv'
    <3>1. PICK h \in Int, n \in Nat, t \in Int, d \in Int :
            h = heard /\ n = p.n /\ t = SamplesOf(q') /\ d = dropped
      <4>1. heard \in Int /\ dropped \in Int
        BY <1>0 DEF SocketType
      <4>2. p.n \in Nat /\ SamplesOf(q') \in Int
        BY <1>1, <1>3, PacketFields
      <4> QED BY <4>1, <4>2
    <3>2. SamplesOf(q) = n + t
      BY <1>1, <1>3, <1>4, <3>1
    <3>3. h + (0 - 0) + 0 + (n + t) + d = ToCome - 1
      BY <2>1, <2>2, <2>3, <3>1, <3>2 DEF Core, AccountsInv
    <3>4. h + (0 - 0) + n + t + d = ToCome - 1
      BY <3>1, <3>3
    <3> QED BY <1>1, <1>4, <2>2, <2>3, <3>1, <3>4 DEF AccountsInv
  <2> QED BY <2>6, <2>7, <2>8, <2>9 DEF Core
<1> QED BY <1>5, <1>6, <1>7

\* ... and fills it.
LEMMA FillStep ==
  ASSUME SocketInv, FillRing
  PROVE  SocketType' /\ StreamInv' /\ (~raced' => Core')
<1> USE DEF flags, link, peer, stream, queues, audioVars, call, ring, stats
<1>0. SocketType /\ StreamInv /\ (~raced => Core)
  BY DEF SocketInv, Core
<1>1. /\ UNCHANGED <<worker, mIsEstablished, socket, base, sent, read, mReceiveQueue, heard,
                     lastHeard, mNextExtraSample, mMinQueuePackets, raced>>
      /\ audio = "fill" /\ audio' = "play" /\ packet' = Nothing /\ reg' = 0
      /\ mLastExtraSample' = (reg + packet.n) % RingSize
      /\ dropped' = IF packet.n = RingSize THEN dropped + packet.n ELSE dropped
  BY DEF FillRing
<1>2. mExtraSamples' = [i \in Ring |-> IF Gap(reg, i) >= packet.n THEN mExtraSamples[i]
                                       ELSE IF packet.first = Torn THEN Torn
                                       ELSE packet.first + Gap(reg, i)]
  BY DEF FillRing, Gap
<1>3. /\ packet.first \in Int /\ packet.n \in 0 .. RingSize /\ reg \in Ring
      /\ mExtraSamples \in [Ring -> Int]
  <2>1. packet.first \in Int /\ packet.n \in 0 .. RingSize
    BY <1>0, PacketFields, UnitsAssumption DEF SocketType, Nothing
  <2> QED BY <1>0, <2>1 DEF SocketType
<1>4. mLastExtraSample' = At(reg, packet.n)
  BY <1>1 DEF At
<1>5. SocketType'
  <2>1. mExtraSamples' \in [Ring -> Int]
    <3>1. \A i \in Ring : Gap(reg, i) \in Int /\ mExtraSamples[i] \in Int
      BY <1>3, GapInRing
    <3>2. \A i \in Ring : (IF Gap(reg, i) >= packet.n THEN mExtraSamples[i]
                           ELSE IF packet.first = Torn THEN Torn
                           ELSE packet.first + Gap(reg, i)) \in Int
      BY <1>3, <3>1 DEF Torn
    <3> QED BY <1>2, <3>2
  <2>2. mLastExtraSample' \in Ring
    BY <1>3, <1>4, AtInRing
  <2>3. dropped' \in Int
    BY <1>0, <1>1, <1>3 DEF SocketType
  <2>4. packet' \in Packets \cup {Nothing} /\ reg' \in Ring
    BY <1>1, ZeroInRing
  <2> QED BY <1>0, <1>1, <2>1, <2>2, <2>3, <2>4 DEF SocketType
<1>6. StreamInv'
  BY <1>0, <1>1 DEF StreamInv
<1>7. ASSUME ~raced' PROVE Core'
  <2>1. Core
    BY <1>0, <1>1, <1>7
  <2>2. /\ reg = mLastExtraSample /\ mNextExtraSample = mLastExtraSample /\ packet \in Packets
        /\ worker # "resetLast"
    BY <1>1, <2>1 DEF Core, PlacesInv
  <2>3. PICK n \in 1 .. RingSize, a \in Int : n = packet.n /\ a = packet.first
    BY <2>2, PacketFields
  <2>4. /\ a > lastHeard /\ a + n <= ToCome /\ lastHeard \in Nat /\ ToCome \in Int
        /\ \A i \in 1 .. Len(mReceiveQueue) : a + n <= mReceiveQueue[i].first
    <3>1. n > 0
      OBVIOUS
    <3>2. ToCome \in Int
      BY <1>0, ToComeInt
    <3> QED BY <2>1, <2>3, <3>1, <3>2 DEF Core, QueueInv
  <2>5. \A k \in 0 .. RingSize - 1 : Gap(reg, At(reg, k)) = k /\ At(reg, k) \in Ring
    <3> SUFFICES ASSUME NEW k \in 0 .. RingSize - 1
                 PROVE  Gap(reg, At(reg, k)) = k /\ At(reg, k) \in Ring
      OBVIOUS
    <3>1. k \in 0 .. RingSize
      BY UnitsAssumption
    <3>2. At(reg, k) \in Ring
      BY <1>3, <3>1, AtInRing
    <3> QED BY <1>3, <3>2, AtGap
  <2>6. InRing = 0 /\ BeingPlayed = 0 /\ BeingPlayed' = 0 /\ ToCome' = ToCome
    <3>1. Gap(reg, reg) = 0
      BY <1>3, AtGap
    <3> QED BY <1>1, <2>2, <3>1 DEF InRing, BeingPlayed, ToCome
  <2>7. InRing' = IF n = RingSize THEN 0 ELSE n
    <3>1. InRing' = Gap(reg, At(reg, n))
      BY <1>1, <1>4, <2>2, <2>3 DEF InRing
    <3>2. CASE n = RingSize
      <4>1. At(reg, n) = reg /\ Gap(reg, reg) = 0
        BY <1>3, <3>2, AtGap
      <4> QED BY <3>1, <3>2, <4>1
    <3>3. CASE n # RingSize
      <4>1. n \in 0 .. RingSize - 1
        BY <3>3, UnitsAssumption
      <4> QED BY <2>5, <3>1, <3>3, <4>1
    <3> QED BY <3>2, <3>3
  <2>8. ASSUME NEW k \in 0 .. n - 1
        PROVE  Extras(k)' = a + k
    <3>1. k \in 0 .. RingSize - 1
      BY UnitsAssumption
    <3>2. PICK i \in Ring : i = At(reg, k) /\ Gap(reg, i) = k
      BY <2>5, <3>1
    <3>3. ~(k >= n)
      OBVIOUS
    <3>4. a # Torn
      BY <2>4 DEF Torn
    <3>5. mExtraSamples'[i] = a + k
      BY <1>2, <2>3, <3>2, <3>3, <3>4
    <3> QED BY <1>1, <2>2, <3>2, <3>5 DEF Extras
  <2>9. PlacesInv'
    BY <1>1, <2>2 DEF PlacesInv
  <2>10. QueueInv'
    BY <1>1, <2>1, <2>6 DEF Core, QueueInv, Nothing
  <2>11. ExtrasInv'
    <3>1. \A k \in 0 .. InRing' - 1 : k \in 0 .. n - 1
      BY <2>7
    <3>2. ASSUME NEW k \in 0 .. InRing' - 1
          PROVE  /\ lastHeard < Extras(k)' /\ Extras(k)' < ToCome
                 /\ \A i \in 1 .. Len(mReceiveQueue) : Extras(k)' < mReceiveQueue[i].first
      <4>1. k \in 0 .. n - 1 /\ Extras(k)' = a + k
        BY <2>8, <3>1
      <4>2. lastHeard < a + k /\ a + k < a + n /\ a + k < ToCome
        BY <2>4, <4>1
      <4>3. ASSUME NEW i \in 1 .. Len(mReceiveQueue)
            PROVE  a + k < mReceiveQueue[i].first
        <5>1. PICK f \in Int : f = mReceiveQueue[i].first
          BY <1>0, NumbersHeld
        <5>2. a + n <= f
          BY <2>4, <5>1
        <5> QED BY <4>1, <5>1, <5>2
      <4> QED BY <4>1, <4>2, <4>3
    <3>3. ASSUME NEW j \in 0 .. InRing' - 1, NEW k \in 0 .. InRing' - 1, j < k
          PROVE  Extras(j)' < Extras(k)'
      <4>1. Extras(j)' = a + j /\ Extras(k)' = a + k /\ k \in 0 .. n - 1 /\ j \in 0 .. n - 1
        BY <2>8, <3>1
      <4> QED BY <3>3, <4>1
    <3> QED BY <1>1, <2>6, <3>2, <3>3 DEF ExtrasInv
  <2>12. AccountsInv'
    <3>1. PICK h \in Int, t \in Int, d \in Int :
            h = heard /\ t = SamplesOf(mReceiveQueue) /\ d = dropped
      BY <1>0, SamplesCount DEF SocketType
    <3>2. h + (0 - 0) + n + t + d = ToCome - 1
      BY <2>1, <2>2, <2>3, <2>6, <3>1 DEF Core, AccountsInv
    <3>3. PICK r \in Int : r = InRing'
      BY <2>7
    <3>4. h + (r - 0) + 0 + t + dropped' = ToCome - 1
      BY <1>1, <2>3, <2>7, <3>1, <3>2, <3>3
    <3>5. packet'.n = 0
      BY <1>1 DEF Nothing
    <3> QED BY <1>1, <2>2, <2>6, <3>1, <3>3, <3>4, <3>5 DEF AccountsInv
  <2> QED BY <2>9, <2>10, <2>11, <2>12 DEF Core
<1> QED BY <1>5, <1>6, <1>7

\* A callback's end: a check may be due.
LEMMA CheckStep ==
  ASSUME SocketInv, UpdateQueueStats
  PROVE  SocketType' /\ StreamInv' /\ (~raced' => Core')
<1> USE DEF flags, link, peer, stream, queues, audioVars, call, ring, stats
<1>0. SocketType /\ StreamInv /\ (~raced => Core)
  BY DEF SocketInv, Core
<1>1. /\ UNCHANGED <<worker, mIsEstablished, socket, base, sent, read, reg, packet, heard,
                     lastHeard, ring, mReceiveQueue, dropped, raced>>
      /\ audio = "play" /\ audio' \in {"idle", "drain"}
  BY DEF UpdateQueueStats
<1>2. mMinQueuePackets' \in Nat
  <2>1. mMinQueuePackets \in Nat /\ Len(mReceiveQueue) \in Nat /\ QueueSize + 1 \in Nat
    BY <1>0, UnitsAssumption DEF SocketType
  <2> QED BY <2>1 DEF UpdateQueueStats, resetQueueStats
<1>3. SocketType'
  BY <1>0, <1>1, <1>2 DEF SocketType
<1>4. StreamInv'
  BY <1>0, <1>1 DEF StreamInv
<1>5. ToCome' = ToCome
  BY <1>1 DEF ToCome
<1>6. ASSUME ~raced' PROVE Core'
  <2>1. Core /\ worker # "resetLast"
    BY <1>0, <1>1, <1>6 DEF Core, PlacesInv
  <2> QED BY <1>0, <1>1, <1>5, <2>1, SamplesKept
<1> QED BY <1>3, <1>4, <1>6

\* One packet that it drops.
LEMMA DrainStep ==
  ASSUME SocketInv, DrainQueue
  PROVE  SocketType' /\ StreamInv' /\ (~raced' => Core')
<1> USE DEF flags, link, peer, stream, queues, audioVars, call, ring, stats
<1> DEFINE q == mReceiveQueue
           L == Len(q)
           least == IF q = << >> THEN 0 ELSE 1
<1>0. SocketType /\ StreamInv /\ (~raced => Core)
  BY DEF SocketInv, Core
<1>1. /\ UNCHANGED <<worker, mIsEstablished, socket, base, sent, read, reg, packet, heard,
                     lastHeard, ring, raced>>
      /\ audio = "drain" /\ audio' \in {"drain", "idle"}
  BY DEF DrainQueue
<1>2. mMinQueuePackets' \in Nat
  <2>1. mMinQueuePackets \in Nat /\ QueueSize + 1 \in Nat
    BY <1>0, UnitsAssumption DEF SocketType
  <2> QED BY <2>1 DEF DrainQueue, resetQueueStats
<1>3. /\ q' = SubSeq(q, least + 1, L)
      /\ dropped' = dropped + SamplesOf(SubSeq(q, 1, least))
  BY DEF DrainQueue
<1>4. q \in Seq(Packets) /\ least \in 0 .. L /\ least \in Nat
  <2>1. q \in Seq(Packets)
    BY <1>0 DEF SocketType
  <2>2. L \in Nat /\ (q # << >> => L >= 1)
    BY <2>1
  <2> HIDE DEF L
  <2> QED BY <2>1, <2>2
<1> HIDE DEF least
<1>5. StreamInv'
  BY <1>0, <1>1 DEF StreamInv
<1>6. /\ SubSeq(q, least + 1, L) \in Seq(Packets)
      /\ Len(SubSeq(q, least + 1, L)) = L - least
      /\ \A k \in 1 .. L - least : SubSeq(q, least + 1, L)[k] = q[least + k]
      /\ SamplesOf(q) = SamplesOf(SubSeq(q, 1, least)) + SamplesOf(SubSeq(q, least + 1, L))
      /\ SamplesOf(SubSeq(q, 1, least)) \in Nat /\ SamplesOf(SubSeq(q, least + 1, L)) \in Nat
  BY <1>4, SplitSamples
<1>7. PICK gone \in Nat, kept \in Nat :
        /\ gone = SamplesOf(SubSeq(q, 1, least)) /\ kept = SamplesOf(q')
        /\ SamplesOf(q) = gone + kept /\ dropped' = dropped + gone
  BY <1>3, <1>6
<1>8. SocketType'
  <2>1. q' \in Seq(Packets)
    BY <1>3, <1>6
  <2>2. dropped' \in Int
    BY <1>0, <1>7 DEF SocketType
  <2> QED BY <1>0, <1>1, <1>2, <2>1, <2>2 DEF SocketType
<1>9. ASSUME ~raced' PROVE Core'
  <2>1. Core
    BY <1>0, <1>1, <1>9
  <2>2. /\ ToCome' = ToCome /\ InRing' = InRing /\ BeingPlayed = 0 /\ BeingPlayed' = 0
        /\ \A k : Extras(k)' = Extras(k)
    BY <1>1 DEF ToCome, InRing, BeingPlayed, Extras
  <2>3. packet = Nothing /\ packet.n = 0 /\ worker # "resetLast"
    BY <1>1, <2>1 DEF Core, PlacesInv, Nothing
  <2>4. L \in Nat /\ Len(q') = L - least
    BY <1>4, <1>3, <1>6
  <2>5. ASSUME NEW i \in 1 .. Len(q') PROVE least + i \in 1 .. L /\ q'[i] = q[least + i]
    <3>1. i \in 1 .. L - least /\ least + i \in 1 .. L
      BY <1>4, <2>4
    <3> QED BY <1>3, <1>6, <3>1
  <2>6. /\ \A i \in 1 .. L : lastHeard < q[i].first /\ q[i].first + q[i].n <= ToCome
        /\ \A i, j \in 1 .. L : i < j => q[i].first + q[i].n <= q[j].first
        /\ lastHeard \in Nat /\ lastHeard < ToCome
    BY <2>1 DEF Core, QueueInv
  <2>7. PlacesInv'
    BY <1>1, <2>1, <2>3 DEF Core, PlacesInv
  <2>8. QueueInv'
    <3>1. \A i \in 1 .. Len(q') : lastHeard < q'[i].first /\ q'[i].first + q'[i].n <= ToCome
      BY <2>5, <2>6
    <3>2. ASSUME NEW i \in 1 .. Len(q'), NEW j \in 1 .. Len(q'), i < j
          PROVE  q'[i].first + q'[i].n <= q'[j].first
      <4>1. least + i < least + j
        BY <1>4, <2>4, <3>2
      <4> QED BY <2>5, <2>6, <4>1
    <3>3. lastHeard' = lastHeard /\ packet'.n = 0
      BY <1>1, <2>3
    <3> HIDE DEF q
    <3> QED BY <2>2, <2>6, <3>1, <3>2, <3>3 DEF QueueInv, q
  <2>9. ExtrasInv'
    <3>1. \A k \in 0 .. InRing - 1 :
            /\ lastHeard < Extras(k) /\ Extras(k) < ToCome
            /\ \A i \in 1 .. L : Extras(k) < q[i].first
      BY <2>1, <2>2, <2>3 DEF Core, ExtrasInv
    <3>2. \A j, k \in 0 .. InRing - 1 : j < k => Extras(j) < Extras(k)
      BY <2>1, <2>2, <2>3 DEF Core, ExtrasInv
    <3>3. \A k \in 0 .. InRing - 1 : \A i \in 1 .. Len(q') : Extras(k) < q'[i].first
      BY <2>5, <3>1
    <3> QED BY <1>1, <2>2, <3>1, <3>2, <3>3 DEF ExtrasInv
  <2>10. AccountsInv'
    <3>1. PICK h \in Int, r \in Int, d \in Int : h = heard /\ r = InRing /\ d = dropped
      <4>1. heard \in Int /\ dropped \in Int
        BY <1>0 DEF SocketType
      <4>2. InRing \in Int
        BY <1>0, NumbersHeld
      <4> QED BY <4>1, <4>2
    <3>2. h + (r - 0) + 0 + (gone + kept) + d = ToCome - 1
      BY <1>7, <2>1, <2>2, <2>3, <3>1 DEF Core, AccountsInv
    <3>3. h + (r - 0) + 0 + kept + (d + gone) = ToCome - 1
      BY <3>2
    <3> QED BY <1>1, <1>7, <2>2, <2>3, <3>1, <3>3 DEF AccountsInv
  <2> QED BY <2>7, <2>8, <2>9, <2>10 DEF Core
<1> QED BY <1>5, <1>8, <1>9

LEMMA NextSocketInv == SocketInv /\ [SocketNext]_socketVars => SocketInv'
<1> SUFFICES ASSUME SocketInv, [SocketNext]_socketVars PROVE SocketInv'
  OBVIOUS
<1>0. SocketType /\ StreamInv /\ (~raced => Core)
  BY DEF SocketInv, Core
<1>1. CASE UNCHANGED socketVars
  <2> USE <1>1 DEF socketVars, flags, link, peer, stream, queues, audioVars, call, ring, stats
  <2>1. SocketType'
    BY <1>0 DEF SocketType
  <2>2. StreamInv'
    BY <1>0 DEF StreamInv
  <2>3. ToCome' = ToCome
    BY DEF ToCome
  <2>4. ASSUME ~raced' PROVE Core'
    <3>1. Core
      BY <1>0, <2>4
    <3>2. worker = "resetLast" => audio' \in {"idle", "check"}
      BY <3>1 DEF Core, PlacesInv
    <3> QED BY <1>0, <2>3, <3>1, <3>2, SamplesKept
  <2> QED BY <2>1, <2>2, <2>4 DEF SocketInv, Core
<1>2. CASE SocketNext
  <2>1. SocketType' /\ StreamInv' /\ (~raced' => Core')
    <3>1. CASE PeerListens \/ PeerReads \/ PeerSendsHeader \/ PeerCloses \/ Stop
               \/ \E n \in Chunks : PeerSendsAudio(n)
      BY <3>1, PeerStep
    <3>2. CASE RunEnds \/ HeaderWritten \/ ResetCheck \/ SendAudio \/ SendNext
      BY <3>2, WorkerStep
    <3>3. CASE Dial
      BY <3>3, DialStep
    <3>4. CASE ReadAudioHeader
      BY <3>4, HeaderStep
    <3>5. CASE ResetNext
      BY <3>5, ResetNextStep
    <3>6. CASE ResetLast
      BY <3>6, ResetLastStep
    <3>7. CASE ReceiveAudio
      BY <3>7, ReceiveStep
    <3>8. CASE ComputeTo \/ ComputeFrom
      BY <3>8, ComputeStep
    <3>9. CASE PlayExtra
      BY <3>9, PlayStep
    <3>10. CASE Advance
      BY <3>10, AdvanceStep
    <3>11. CASE PopPacket
      BY <3>11, PopStep
    <3>12. CASE FillRing
      BY <3>12, FillStep
    <3>13. CASE UpdateQueueStats
      BY <3>13, CheckStep
    <3>14. CASE DrainQueue
      BY <3>14, DrainStep
    <3> QED BY <1>2, <3>1, <3>2, <3>3, <3>4, <3>5, <3>6, <3>7, <3>8, <3>9, <3>10, <3>11, <3>12,
               <3>13, <3>14 DEF SocketNext, Worker, Audio
  <2> QED BY <2>1 DEF SocketInv, Core
<1> QED BY <1>1, <1>2

LEMMA SocketInvariance == SocketSpec => []SocketInv
BY InitSocketInv, NextSocketInv, PTL DEF SocketSpec

-----------------------------------------------------------------------------
(* What the invariant says of the samples that wait *)

LEMMA ExtraSamples ==
  ASSUME SocketType, PlacesInv
  PROVE  LET n == InRing - BeingPlayed
         IN  /\ n \in Nat /\ Extra \in Seq(Int) /\ Len(Extra) = n
             /\ \A k \in 1 .. n : /\ BeingPlayed + k - 1 \in BeingPlayed .. InRing - 1
                                  /\ Extra[k] = Extras(BeingPlayed + k - 1)
<1> DEFINE i == mNextExtraSample
           j == mLastExtraSample
           n == InRing - BeingPlayed
           at(k) == (i + BeingPlayed + k - 1) % RingSize
<1>0. i \in Ring /\ j \in Ring /\ mExtraSamples \in [Ring -> Int] /\ RingSize \in Nat \ {0}
  BY UnitsAssumption DEF SocketType
<1>1. i \in Int /\ BeingPlayed \in {0, 1} /\ InRing \in 0 .. RingSize - 1
  BY <1>0, NumbersHeld, ZeroInRing
<1>2. (j - (i + BeingPlayed)) % RingSize = n /\ n \in Nat
  <2>1. CASE audio = "advance"
    <3>1. i # j
      BY <2>1 DEF PlacesInv
    <3>2. (j - (i + 1)) % RingSize = Gap(i, j) - 1 /\ Gap(i, j) \in 1 .. RingSize - 1
      BY <1>0, <3>1, NextPosition
    <3> QED BY <2>1, <3>2 DEF BeingPlayed, InRing
  <2>2. CASE audio # "advance"
    <3>1. BeingPlayed = 0 /\ i + 0 = i
      BY <1>1, <2>2 DEF BeingPlayed
    <3> QED BY <1>1, <3>1 DEF InRing, Gap
  <2> QED BY <2>1, <2>2
<1>3. ASSUME NEW k \in 1 .. n
      PROVE  /\ BeingPlayed + k - 1 \in BeingPlayed .. InRing - 1
             /\ mExtraSamples[at(k)] = Extras(BeingPlayed + k - 1)
             /\ Extras(BeingPlayed + k - 1) \in Int
  <2>1. BeingPlayed + k - 1 \in BeingPlayed .. InRing - 1 /\ BeingPlayed + k - 1 \in 0 .. RingSize
    BY <1>0, <1>1
  <2>2. i + BeingPlayed + k - 1 = i + (BeingPlayed + k - 1)
    BY <1>1
  <2>3. Extras(BeingPlayed + k - 1) \in Int
    BY <2>1, NumbersHeld
  <2> QED BY <2>1, <2>2, <2>3 DEF Extras, At
<1>4. Extra = [k \in 1 .. n |-> mExtraSamples[at(k)]]
  <2>1. Extra = [k \in 1 .. (j - (i + BeingPlayed)) % RingSize |->
                   mExtraSamples[(i + BeingPlayed + k - 1) % RingSize]]
    BY DEF Extra, BeingPlayed
  <2> QED BY <1>2, <2>1
<1>5. PICK m \in Nat : m = n
  BY <1>2
<1> HIDE DEF n, at
<1>6. \A k \in 1 .. m : mExtraSamples[at(k)] \in Int
  BY <1>3, <1>5
<1>7. Extra \in Seq(Int) /\ Len(Extra) = m /\ \A k \in 1 .. m : Extra[k] = mExtraSamples[at(k)]
  <2>1. Extra = [k \in 1 .. m |-> mExtraSamples[at(k)]]
    BY <1>4, <1>5
  <2>2. Extra \in [1 .. m -> Int]
    BY <1>6, <2>1
  <2>3. \A k \in 1 .. m : Extra[k] = mExtraSamples[at(k)]
    BY <2>1
  <2> HIDE DEF at
  <2> QED BY <2>2, <2>3
<1> QED BY <1>2, <1>3, <1>5, <1>7 DEF n

\* What is held waits in order, and is newer than what was heard.
LEMMA WaitingInOrder ==
  ASSUME SocketInv, Undisturbed
  PROVE  /\ Held \in Seq(Int) /\ Rising(Held)
         /\ \A i \in 1 .. Len(Held) : lastHeard < Held[i]
         /\ Len(Held) = InRing - BeingPlayed + packet.n + SamplesOf(mReceiveQueue)
<1> DEFINE q == mReceiveQueue
<1>0. SocketType /\ PlacesInv /\ QueueInv /\ ExtrasInv /\ worker # "resetLast"
  BY DEF SocketInv, Undisturbed
<1>1. lastHeard \in Nat /\ q \in Seq(Packets) /\ packet \in Packets \cup {Nothing}
  BY <1>0 DEF SocketType, QueueInv
<1>2. PICK e \in Seq(Int), n \in Nat :
        /\ e = Extra /\ n = InRing - BeingPlayed /\ Len(e) = n
        /\ \A k \in 1 .. n : /\ BeingPlayed + k - 1 \in BeingPlayed .. InRing - 1
                             /\ e[k] = Extras(BeingPlayed + k - 1)
  BY <1>0, ExtraSamples
<1>3. /\ Rising(e)
      /\ \A k \in 1 .. Len(e) : lastHeard < e[k] /\ \A i \in 1 .. Len(q) : e[k] < q[i].first
  <2>1. ASSUME NEW k \in 1 .. n
        PROVE  lastHeard < e[k] /\ \A i \in 1 .. Len(q) : e[k] < q[i].first
    BY <1>0, <1>2 DEF ExtrasInv
  <2>2. ASSUME NEW j \in 1 .. n, NEW k \in 1 .. n, j < k
        PROVE  e[j] < e[k]
    <3>1. BeingPlayed + j - 1 < BeingPlayed + k - 1
      BY <1>0, <2>2, NumbersHeld
    <3> QED BY <1>0, <1>2, <3>1 DEF ExtrasInv
  <2> QED BY <1>2, <2>1, <2>2 DEF Rising
<1>4. \A i \in 1 .. Len(q) : /\ q[i].first \in Int /\ q[i].n \in Int /\ lastHeard < q[i].first
                             /\ packet.n > 0 => packet.first + packet.n <= q[i].first
  BY <1>0, NumbersHeld DEF QueueInv
<1>5. Follow(q)
  <2>1. \A i \in 1 .. Len(q) : q[i].first >= 0
    BY <1>1, <1>4
  <2> QED BY <1>0, <2>1 DEF QueueInv, Follow
<1>6. PICK u \in Seq(Int) :
        u = Queued(q) /\ Len(u) = SamplesOf(q) /\ Rising(u) /\ From(u, q, Len(q))
  BY <1>1, <1>5, QueuedSamples
<1>7. \A k \in 1 .. Len(u) : \E i \in 1 .. Len(q) : q[i].first <= u[k]
  BY <1>6 DEF From
<1>8. \A k \in 1 .. Len(u) : lastHeard < u[k] /\ \A l \in 1 .. Len(e) : e[l] < u[k]
  <2> SUFFICES ASSUME NEW k \in 1 .. Len(u)
               PROVE  lastHeard < u[k] /\ \A l \in 1 .. Len(e) : e[l] < u[k]
    OBVIOUS
  <2>1. PICK i \in 1 .. Len(q) : q[i].first <= u[k]
    BY <1>7
  <2>2. PICK f \in Int : f = q[i].first /\ lastHeard < f /\ f <= u[k]
    BY <1>4, <2>1
  <2>3. u[k] \in Int /\ lastHeard < u[k]
    BY <1>1, <2>2
  <2>4. ASSUME NEW l \in 1 .. Len(e) PROVE e[l] < u[k]
    <3>1. e[l] \in Int /\ e[l] < f
      BY <1>3, <2>2
    <3> QED BY <2>2, <2>3, <3>1
  <2> QED BY <2>3, <2>4
<1>9. PICK p \in Seq(Int) :
        /\ p = Samples(packet) /\ Len(p) = packet.n /\ Rising(p)
        /\ \A k \in 1 .. Len(p) :
             /\ lastHeard < p[k]
             /\ \A l \in 1 .. Len(e) : e[l] < p[k]
             /\ \A l \in 1 .. Len(u) : p[k] < u[l]
  <2>1. CASE packet = Nothing
    <3>1. Samples(packet) \in Seq(Int) /\ Len(Samples(packet)) = 0 /\ packet.n = 0
      BY <2>1, NothingSamples DEF Nothing
    <3>2. PICK p \in Seq(Int) : p = Samples(packet) /\ Len(p) = 0
      BY <3>1
    <3>3. 1 .. Len(p) = {}
      BY <3>2
    <3>4. Rising(p)
      BY <3>3 DEF Rising
    <3>5. \A k \in 1 .. Len(p) : FALSE
      BY <3>3
    <3>6. Len(p) = packet.n
      BY <3>1, <3>2
    <3>7. \A k \in 1 .. Len(p) : /\ lastHeard < p[k]
                                 /\ \A l \in 1 .. Len(e) : e[l] < p[k]
                                 /\ \A l \in 1 .. Len(u) : p[k] < u[l]
      BY <3>5
    <3> WITNESS p \in Seq(Int)
    <3> QED BY <3>2, <3>4, <3>6, <3>7
  <2>2. CASE packet \in Packets
    <3>1. PICK f \in Int, c \in 1 .. RingSize : f = packet.first /\ c = packet.n
      BY <2>2, PacketFields
    <3>2. lastHeard < f /\ f >= 0 /\ \A i \in 1 .. Len(q) : f + c <= q[i].first
      BY <1>0, <1>1, <3>1 DEF QueueInv
    <3>3. PICK p \in Seq(Int) : /\ p = Samples(packet) /\ Len(p) = packet.n /\ Rising(p)
                                /\ \A k \in 1 .. Len(p) : p[k] = f + k - 1
      BY <2>2, <3>1, <3>2, PacketSamples
    <3>4. Len(e) = 0
      <4>1. audio = "fill"
        BY <1>0, <2>2, PacketFields DEF PlacesInv, Nothing
      <4>2. mNextExtraSample = mLastExtraSample /\ BeingPlayed = 0
        BY <1>0, <4>1 DEF PlacesInv, BeingPlayed
      <4>3. InRing = 0
        BY <1>0, <4>2, AtGap DEF SocketType, InRing
      <4> QED BY <1>2, <4>2, <4>3
    <3>5. ASSUME NEW k \in 1 .. Len(p)
          PROVE  lastHeard < p[k] /\ \A l \in 1 .. Len(u) : p[k] < u[l]
      <4>1. p[k] = f + k - 1 /\ k \in 1 .. c
        BY <3>1, <3>3
      <4>2. lastHeard < p[k] /\ p[k] < f + c /\ p[k] \in Int
        BY <1>1, <3>2, <4>1
      <4>3. ASSUME NEW l \in 1 .. Len(u) PROVE p[k] < u[l]
        <5>1. PICK i \in 1 .. Len(q) : q[i].first <= u[l]
          BY <1>7
        <5>2. PICK g \in Int : g = q[i].first /\ f + c <= g /\ g <= u[l]
          BY <1>4, <3>2, <5>1
        <5>3. u[l] \in Int
          OBVIOUS
        <5> QED BY <4>2, <5>2, <5>3
      <4> QED BY <4>2, <4>3
    <3> QED BY <3>3, <3>4, <3>5
  <2> QED BY <1>1, <2>1, <2>2
<1>10. PICK a \in Seq(Int) : a = e \o p /\ Len(a) = Len(e) + Len(p) /\ Rising(a)
  <2>1. Rising(e \o p)
    BY <1>3, <1>9, RisingJoined
  <2>2. e \o p \in Seq(Int) /\ Len(e \o p) = Len(e) + Len(p)
    OBVIOUS
  <2> QED BY <2>1, <2>2
<1>11. ASSUME NEW i \in 1 .. Len(a)
       PROVE  lastHeard < a[i] /\ \A j \in 1 .. Len(u) : a[i] < u[j]
  <2>1. (\E k \in 1 .. Len(e) : a[i] = e[k]) \/ (\E k \in 1 .. Len(p) : a[i] = p[k])
    BY <1>10, JoinedMembers
  <2> QED BY <1>3, <1>8, <1>9, <2>1
<1>12. PICK h \in Seq(Int) : h = a \o u /\ Len(h) = Len(a) + Len(u) /\ Rising(h)
  <2>1. Rising(a \o u)
    BY <1>6, <1>10, <1>11, RisingJoined
  <2>2. a \o u \in Seq(Int) /\ Len(a \o u) = Len(a) + Len(u)
    OBVIOUS
  <2> QED BY <2>1, <2>2
<1>13. ASSUME NEW i \in 1 .. Len(h)
       PROVE  lastHeard < h[i]
  <2>1. (\E k \in 1 .. Len(a) : h[i] = a[k]) \/ (\E k \in 1 .. Len(u) : h[i] = u[k])
    BY <1>12, JoinedMembers
  <2> QED BY <1>8, <1>11, <2>1
<1>14. h = Held
  BY <1>2, <1>6, <1>9, <1>10, <1>12 DEF Held
<1>15. Len(h) = InRing - BeingPlayed + packet.n + SamplesOf(q)
  BY <1>2, <1>6, <1>9, <1>10, <1>12
<1> QED BY <1>12, <1>13, <1>14, <1>15

\* For every size of the ring, the queue and a sample: FromAudioSocketPlugin::compute
\* (lines 190 to 229) plays the peer's samples once each and in the order they were
\* sent, over connections that break and come back, unless a callback runs while the
\* worker resets the ring's indices.
THEOREM SocketPlaysInOrder == SocketSpec => []PlayedInOrder
<1>1. ASSUME SocketInv PROVE PlayedInOrder
  <2> SUFFICES ASSUME Undisturbed
               PROVE  LET all == <<lastHeard>> \o Held
                      IN  \A i, j \in DOMAIN all : i < j => all[i] < all[j]
    BY DEF PlayedInOrder
  <2>1. PICK h \in Seq(Int) : h = Held /\ Rising(h) /\ \A i \in 1 .. Len(h) : lastHeard < h[i]
    BY <1>1, WaitingInOrder
  <2>2. PICK s \in Seq(Int) : s = <<lastHeard>> /\ Len(s) = 1 /\ s[1] = lastHeard
    <3>1. lastHeard \in Int
      BY <1>1 DEF SocketInv, SocketType
    <3>2. \A x \in Int : <<x>> \in Seq(Int) /\ Len(<<x>>) = 1 /\ <<x>>[1] = x
      OBVIOUS
    <3> QED BY <3>1, <3>2
  <2>3. Rising(s)
    BY <2>2 DEF Rising
  <2>4. \A i \in 1 .. Len(s), j \in 1 .. Len(h) : s[i] < h[j]
    BY <2>1, <2>2
  <2>5. Rising(s \o h)
    BY <2>1, <2>3, <2>4, RisingJoined
  <2>6. DOMAIN (s \o h) = 1 .. Len(s \o h)
    OBVIOUS
  <2>7. \A i, j \in DOMAIN (s \o h) : i < j => (s \o h)[i] < (s \o h)[j]
    BY <2>5, <2>6 DEF Rising
  <2> QED BY <2>1, <2>2, <2>7
<1> QED BY <1>1, SocketInvariance, PTL

\* For every size of the ring, the queue and a sample: each sample that
\* AudioSocketWorker::receiveAudio (line 537) has read is played, waits, or was dropped
\* where the code drops it.
THEOREM SocketAccountsForSamples == SocketSpec => []SamplesAccounted
<1>1. ASSUME SocketInv PROVE SamplesAccounted
  <2> SUFFICES ASSUME Undisturbed
               PROVE  heard + Len(Held) + dropped = base - 1 + Whole(read)
    BY DEF SamplesAccounted
  <2>1. SocketType /\ StreamInv /\ AccountsInv /\ worker # "resetLast"
    BY <1>1 DEF SocketInv, Undisturbed
  <2>2. Len(Held) = InRing - BeingPlayed + packet.n + SamplesOf(mReceiveQueue)
    BY <1>1, WaitingInOrder
  <2>3. PICK r \in Int, n \in Int, t \in Int, w \in Int :
          /\ r = InRing - BeingPlayed /\ n = packet.n
          /\ t = SamplesOf(mReceiveQueue) /\ w = Whole(read)
    <3>1. SamplesOf(mReceiveQueue) \in Int
      BY <2>1, SamplesCount DEF SocketType
    <3>2. Whole(read) \in Int
      BY <2>1, WholeRead DEF StreamInv
    <3> QED BY <2>1, <3>1, <3>2, NumbersHeld
  <2>4. PICK h \in Int, d \in Int, b \in Int : h = heard /\ d = dropped /\ b = base
    BY <2>1 DEF SocketType
  <2>5. h + r + n + t + d = b + w - 1
    BY <2>1, <2>3, <2>4 DEF AccountsInv, ToCome
  <2>6. h + (r + n + t) + d = b - 1 + w
    BY <2>5
  <2> QED BY <2>2, <2>3, <2>4, <2>6
<1> QED BY <1>1, SocketInvariance, PTL
=============================================================================
