------------------------------ MODULE RingBuffer ------------------------------
(***************************************************************************)
(* src/src/RingBuffer.cpp and RingBufferWavetable.h: the send buffer of    *)
(* every session, which the sender's thread reads with readSlotBlocking,   *)
(* and the receive buffer of buffer strategy -1, which the audio callback  *)
(* reads with readSlotNonBlocking.  Both are filled by                     *)
(* insertSlotNonBlocking; insertSlotBlocking is called by nobody.  Every   *)
(* operation holds mMutex to its end, so that it is one action; only       *)
(* readSlotBlocking gives the mutex up, in its wait.                       *)
(*                                                                         *)
(* Positions count slots where the code counts bytes.  Packets are named   *)
(* by counting insertSlotNonBlocking, 0 is silence.  Left out: the level   *)
(* statistics, which are floating-point averages.                          *)
(***************************************************************************)
EXTENDS Integers

CONSTANTS
  NumSlots,    \* mNumSlots
  LostCounts,  \* packets the protocol reports lost before one it inserts
  Garbage,     \* what a counter that is not initialised may hold
  MaxInserts,  \* bound: packets inserted
  MaxReads     \* bound: slots asked for

ASSUME RingBufferAssumption ==
  /\ NumSlots \in Nat \ {0}
  /\ LostCounts \subseteq Nat /\ Garbage \subseteq Nat
  /\ MaxInserts \in Nat /\ MaxReads \in Nat

VARIABLES
  kind,      \* "send", read by the sender's thread; "zeros" or "wavetable", by the audio's
  mReadPosition, mWritePosition, mFullSlots, mRingBuffer, mLastReadSlot,
  mReadsNew, mUnderrunsNew,                            \* since the last insert
  mUnderruns, mOverflows, mSkewRaw, mBufDecPktLoss,    \* since the last reset
  waiting,   \* the sender is in mBufferIsNotEmpty.wait
  given,     \* what the last read gave its caller
  inserts, reads

dataVars == <<mReadPosition, mWritePosition, mFullSlots, mRingBuffer>>
statVars == <<mUnderruns, mOverflows, mSkewRaw, mBufDecPktLoss>>
vars == <<kind, dataVars, mLastReadSlot, mReadsNew, mUnderrunsNew, statVars, waiting, given,
          inserts, reads>>

Silence == 0

Slots == 0 .. NumSlots - 1

\* The constructor: half of the slots are full, of silence.  It leaves the two
\* counters of the next insert as it finds them (RingBuffer.h:182-183).
Init ==
  /\ kind \in {"send", "zeros", "wavetable"}
  /\ mReadPosition = 0
  /\ mWritePosition = (NumSlots \div 2) % NumSlots
  /\ mFullSlots = NumSlots \div 2
  /\ mRingBuffer = [s \in Slots |-> Silence]
  /\ mLastReadSlot = Silence
  /\ mReadsNew \in Garbage /\ mUnderrunsNew \in Garbage
  /\ mUnderruns = 0 /\ mOverflows = 0 /\ mSkewRaw = 0 /\ mBufDecPktLoss = 0
  /\ waiting = FALSE /\ given = Silence
  /\ inserts = 0 /\ reads = 0

\* The position d slots behind p.
Ahead(p, d) == (p + d) % NumSlots

\* updateReadStats, with the lost packets of insertSlotNonBlocking.
UpdateReadStats(lostCount) ==
  /\ mBufDecPktLoss' = mBufDecPktLoss + lostCount
  /\ mSkewRaw' = mSkewRaw - lostCount - 1 + mReadsNew
  /\ mReadsNew' = 0
  /\ mUnderruns' = mUnderruns + mUnderrunsNew
  /\ mUnderrunsNew' = 0

\* MUTANT the count is moved and the position is not
OverflowResetCountOnly ==
  LET d == NumSlots \div 2
  IN  /\ mFullSlots' = mFullSlots - d
      /\ mOverflows' = mOverflows + d + 1
      /\ UNCHANGED <<mReadPosition, mWritePosition, mRingBuffer>>

\* MUTANT the packet that did not fit is not counted
OverflowResetMiscounts ==
  LET d == NumSlots \div 2
  IN  /\ mReadPosition' = Ahead(mReadPosition, d)
      /\ mFullSlots' = mFullSlots - d
      /\ mOverflows' = mOverflows + d
      /\ UNCHANGED <<mWritePosition, mRingBuffer>>

OverflowReset ==
  LET d == NumSlots \div 2
  IN  /\ mReadPosition' = Ahead(mReadPosition, d)
      /\ mFullSlots' = mFullSlots - d
      /\ mOverflows' = mOverflows + d + 1
      /\ UNCHANGED <<mWritePosition, mRingBuffer>>

\* insertSlotNonBlocking: a packet that finds the buffer full is dropped, and
\* with it the older half of the buffer.
InsertSlotNonBlocking(lostCount) ==
  /\ inserts < MaxInserts
  /\ inserts' = inserts + 1
  /\ UpdateReadStats(lostCount)
  /\ \/ /\ mFullSlots = NumSlots
        /\ OverflowReset
     \/ /\ mFullSlots < NumSlots
        /\ mRingBuffer' = [mRingBuffer EXCEPT ![mWritePosition] = inserts + 1]
        /\ mWritePosition' = Ahead(mWritePosition, 1)
        /\ mFullSlots' = mFullSlots + 1
        /\ UNCHANGED <<mReadPosition, mOverflows>>
  /\ UNCHANGED <<kind, mLastReadSlot, waiting, given, reads>>

\* The slot at mReadPosition is copied out, for both ways to read.
TakeSlot ==
  /\ mFullSlots > 0
  /\ given' = mRingBuffer[mReadPosition]
  /\ mLastReadSlot' = mRingBuffer[mReadPosition]
  /\ mReadPosition' = Ahead(mReadPosition, 1)
  /\ mFullSlots' = mFullSlots - 1
  /\ UNCHANGED <<mWritePosition, mRingBuffer>>

\* setUnderrunReadSlot and underrunReset.
UnderrunReset ==
  /\ given' = IF kind = "wavetable" THEN mLastReadSlot ELSE Silence
  /\ mRingBuffer' = [s \in Slots |-> Silence]
  /\ mUnderrunsNew' = mUnderrunsNew + 1
  /\ UNCHANGED <<mReadPosition, mWritePosition, mFullSlots, mLastReadSlot>>

ReadSlotNonBlocking ==
  /\ kind # "send"
  /\ reads < MaxReads
  /\ reads' = reads + 1
  /\ mReadsNew' = mReadsNew + 1
  /\ \/ mFullSlots <= 0 /\ UnderrunReset
     \/ TakeSlot /\ UNCHANGED mUnderrunsNew
  /\ UNCHANGED <<kind, statVars, waiting, inserts>>

\* readSlotBlocking up to its wait, or to its end when a slot is there.
ReadSlotBlocking ==
  /\ kind = "send" /\ ~waiting
  /\ reads < MaxReads
  /\ reads' = reads + 1
  /\ mReadsNew' = mReadsNew + 1
  /\ \/ TakeSlot /\ UNCHANGED waiting
     \/ /\ mFullSlots = 0
        /\ waiting' = TRUE
        /\ UNCHANGED <<dataVars, mLastReadSlot, given>>
  /\ UNCHANGED <<kind, mUnderrunsNew, statVars, inserts>>

\* The wait ends with a slot, after wakeAll or 200 ms.
ReadSlotWoken ==
  /\ waiting
  /\ TakeSlot
  /\ waiting' = FALSE
  /\ UNCHANGED <<kind, mReadsNew, mUnderrunsNew, statVars, inserts, reads>>

\* The wait ends because JackTrip::sAudioStopped is set, and no slot is read.
ReadSlotAborted ==
  /\ waiting
  /\ waiting' = FALSE
  /\ UNCHANGED <<kind, dataVars, mLastReadSlot, mReadsNew, mUnderrunsNew, statVars, given,
                 inserts, reads>>

\* getStats(stat, true), by the statistics' timer; what has happened since the
\* last insert is not reset.
ResetStats ==
  /\ mUnderruns' = 0 /\ mOverflows' = 0 /\ mSkewRaw' = 0 /\ mBufDecPktLoss' = 0
  /\ UNCHANGED <<kind, dataVars, mLastReadSlot, mReadsNew, mUnderrunsNew, waiting, given,
                 inserts, reads>>

Next ==
  \/ \E lostCount \in LostCounts : InsertSlotNonBlocking(lostCount)
  \/ ReadSlotNonBlocking
  \/ ReadSlotBlocking \/ ReadSlotWoken \/ ReadSlotAborted
  \/ ResetStats

Spec == Init /\ [][Next]_vars

-----------------------------------------------------------------------------
\* The positions and the count are in range, and the slots hold packets that
\* were inserted.
TypeOK ==
  /\ mReadPosition \in Slots /\ mWritePosition \in Slots
  /\ mFullSlots \in 0 .. NumSlots
  /\ inserts \in Nat /\ reads \in Nat
  /\ mRingBuffer \in [Slots -> 0 .. inserts]
  /\ mLastReadSlot \in 0 .. inserts /\ given \in 0 .. inserts
  /\ mReadsNew \in Nat /\ mUnderrunsNew \in Nat
  /\ mUnderruns \in Nat /\ mOverflows \in Nat /\ mBufDecPktLoss \in Nat /\ mSkewRaw \in Int
  /\ kind \in {"send", "zeros", "wavetable"}
  /\ waiting \in BOOLEAN /\ (waiting => kind = "send")

\* The packet read after i others.
Nth(i) == mRingBuffer[Ahead(mReadPosition, i)]

\* The full slots lie between mReadPosition and mWritePosition and hold, behind
\* the silence the buffer begins with, packets in the order they were inserted,
\* none of which was read before: overflowReset, which jumps over half of them,
\* and underrunReset, which erases the buffer, disturb neither.
HeldInOrder ==
  /\ mWritePosition = Ahead(mReadPosition, mFullSlots)
  /\ \A i \in 0 .. mFullSlots - 1 :
       \/ Nth(i) = Silence /\ mLastReadSlot = Silence
       \/ Nth(i) > mLastReadSlot
  /\ \A i, j \in 0 .. mFullSlots - 1 :
       i < j => Nth(i) < Nth(j) \/ (Nth(i) = Silence /\ Nth(j) = Silence)

\* A read that waits is booked and has taken nothing yet.
Outstanding == IF waiting THEN 1 ELSE 0

\* The slots held, and what the statistics have booked since they were reset.
Balance ==
  mFullSlots + mOverflows - mUnderruns - mUnderrunsNew + mSkewRaw + mBufDecPktLoss
    + mReadsNew - Outstanding

\* The statistics explain every slot: what is held is what was held when they
\* were reset, plus the packets that came, less those read, lost and dropped.
\* Only a reset, which keeps what was counted since the last insert, and a
\* read that is given up change the balance (RingBuffer.cpp:282-331).
BooksBalance == [][Balance' = Balance \/ ResetStats \/ ReadSlotAborted]_vars
=============================================================================
