----------------------------- MODULE JitterBuffer -----------------------------
(***************************************************************************)
(* src/src/JitterBuffer.cpp: the receive buffer of buffer strategies 0 and *)
(* 1, and the broadcast copy of strategies 3 and 4.  The receiver's        *)
(* thread writes at mWritePosition, the audio callback reads at            *)
(* mReadPosition and, when there is a broadcast port, behind it at         *)
(* mBroadcastPosition.  Every operation holds mMutex to its end and is one *)
(* action.                                                                 *)
(*                                                                         *)
(* Positions are uint32_t counts of bytes in the code; here they count     *)
(* units (one sample of all channels) and keep counting, and Cell reduces  *)
(* them as the code's types do.  A cell of the buffer holds the position   *)
(* it was written for, be it with audio or with the zeros of a lost        *)
(* packet.  The tests of mLevelCur, a floating-point average, cannot fail  *)
(* in strategies 0 and 1, whose tolerances exceed every level that         *)
(* LatencyBounded allows.  Left out: strategy 2 and the auto queue, which  *)
(* do depend on mLevelCur, the statistics, and the interpolation of the    *)
(* broadcast.                                                              *)
(***************************************************************************)
EXTENDS Integers, Sequences

CONSTANTS
  SlotSize,          \* mSlotSize
  TotalSize,         \* mTotalSize, 2 s of audio
  PositionRange,     \* 2^32: where the positions wrap
  Strategy,          \* 0 or 1
  QueueLength,       \* qlen, in slots
  BroadcastLatency,  \* mBroadcastLatency
  ResetFactor,       \* 10: behind by that many mMaxLatency, the positions are reset
  PacketSizes,       \* sizes of the peer's packets
  LostSizes,         \* what the protocol may report lost before a packet
  MaxPosition        \* bound: how far the positions count

ASSUME JitterAssumption ==
  /\ SlotSize \in Nat \ {0} /\ TotalSize \in Nat \ {0}
  /\ PositionRange \in Nat \ {0}
  /\ Strategy \in {0, 1}
  /\ QueueLength \in Nat \ {0}
  /\ BroadcastLatency \in Nat
  /\ ResetFactor \in Nat \ {0}
  /\ PacketSizes \subseteq 1 .. TotalSize
  /\ LostSizes \subseteq Nat
  /\ MaxPosition \in Nat

VARIABLES
  mWritePosition, mReadPosition, mBroadcastPosition,
  mRingBuffer,   \* for each cell the position it was written for
  mMaxLatency,
  mActive,       \* a packet has come
  heard,         \* the last read: its position, and what each of its units gave
  played         \* the newest position that was played

vars == <<mWritePosition, mReadPosition, mBroadcastPosition, mRingBuffer, mMaxLatency,
          mActive, heard, played>>

Quiet == -1      \* zeros that are no position's

Cells == 0 .. TotalSize - 1

\* The constructor.
InitialLatency == QueueLength * SlotSize
OverflowDropStep == IF Strategy = 0 THEN InitialLatency \div 2 ELSE SlotSize

Smaller(a, b) == IF a < b THEN a ELSE b
Larger(a, b) == IF a < b THEN b ELSE a

Available == mWritePosition - mReadPosition

\* pos % mTotalSize of a uint32_t.
Cell(p) == (p % PositionRange) % TotalSize

\* MUTANT what does not fit before the buffer's end is not written
WrittenUnsplit(buffer, p, n) ==
  [c \in Cells |-> LET i == c - Cell(p) IN IF 0 <= i /\ i < n THEN p + i ELSE buffer[c]]

\* n units written from position p on; the writing wraps at the buffer's end.
Written(buffer, p, n) ==
  [c \in Cells |-> LET i == (c - Cell(p)) % TotalSize IN IF i < n THEN p + i ELSE buffer[c]]

\* n units read from position p on, and zeros up to len.
ReadUnits(p, n, len) ==
  [i \in 1 .. len |-> IF i <= n THEN mRingBuffer[(Cell(p) + i - 1) % TotalSize] ELSE Quiet]

\* qBound(0, available, len).
Bound(available, len) == Larger(0, Smaller(available, len))

Init ==
  /\ mWritePosition = InitialLatency
  /\ mReadPosition = 0 /\ mBroadcastPosition = 0
  /\ mRingBuffer = Written([c \in Cells |-> Quiet], 0, InitialLatency)
  /\ mMaxLatency = InitialLatency
  /\ mActive = FALSE
  /\ heard = [at |-> 0, units |-> << >>]
  /\ played = -1

-----------------------------------------------------------------------------
\* processPacketLoss: what remains of the lost units is written as zeros; the
\* buffer must not grow past the latency, and loses a slot when it is well filled.
LostKept(lost, len, latency) ==
  LET excess == Smaller(Available + len + lost - latency, lost)
  IN  IF excess > 0 THEN lost - excess
      ELSE IF SlotSize < Available + lost THEN lost - Smaller(lost, SlotSize)
      ELSE lost

\* MUTANT the reader always steps back a whole slot
CorrectionWholeSlot(available, len, latency) ==
  IF available < -(ResetFactor * latency) THEN available
  ELSE IF available + len > latency THEN OverflowDropStep
  ELSE IF available < 0 THEN -SlotSize
  ELSE 0

\* MUTANT nothing is dropped when the buffer overflows
CorrectionNoDrop(available, len, latency) ==
  IF available < -(ResetFactor * latency) THEN available
  ELSE IF available < 0 THEN -Smaller(-available, SlotSize)
  ELSE 0

\* How far insertSlotNonBlocking moves the read position: back to the writer
\* after a long silence, forward in an overflow, back by up to a slot after an
\* underrun.
Correction(available, len, latency) ==
  IF available < -(ResetFactor * latency) THEN available
  ELSE IF available + len > latency THEN OverflowDropStep
  ELSE IF available < 0 THEN -Smaller(-available, SlotSize)
  ELSE 0

InsertSlotNonBlocking(len, lost) ==
  LET latency   == Larger(mMaxLatency, len + SlotSize)
      kept      == IF lost > 0 THEN LostKept(lost, len, latency) ELSE 0
      from      == mWritePosition + kept
      zeroed    == IF kept >= TotalSize THEN Written(mRingBuffer, from - TotalSize, TotalSize)
                                        ELSE Written(mRingBuffer, mWritePosition, kept)
  IN  /\ from + len <= MaxPosition
      /\ mActive' = TRUE
      /\ mMaxLatency' = latency
      /\ mRingBuffer' = Written(zeroed, from, len)
      /\ mWritePosition' = from + len
      /\ mReadPosition' = mReadPosition + Correction(from - mReadPosition, len, latency)
      /\ heard' = [at |-> 0, units |-> << >>]
      /\ UNCHANGED <<mBroadcastPosition, played>>

ReadSlotNonBlocking ==
  /\ mActive
  /\ mReadPosition + SlotSize <= MaxPosition
  /\ LET n == Bound(Available, SlotSize)
     IN  /\ heard' = [at |-> mReadPosition, units |-> ReadUnits(mReadPosition, n, SlotSize)]
         /\ played' = IF n > 0 THEN Larger(played, mReadPosition + n - 1) ELSE played
  /\ mReadPosition' = mReadPosition + SlotSize
  /\ UNCHANGED <<mWritePosition, mBroadcastPosition, mRingBuffer, mMaxLatency, mActive>>

Abs(d) == IF d < 0 THEN -d ELSE d
Sign(d) == IF d < 0 THEN -1 ELSE IF d > 0 THEN 1 ELSE 0

BroadcastReady == BroadcastLatency + SlotSize <= mReadPosition % PositionRange

\* readBroadcastSlot: it stays mBroadcastLatency behind the reader; far off it
\* jumps there, otherwise it now and then moves by a unit towards it.
ReadBroadcastSlot ==
  /\ BroadcastLatency > 0
  /\ BroadcastReady
  /\ LET target == mReadPosition - BroadcastLatency - SlotSize
         d      == target - mBroadcastPosition
     IN  \E from \in (IF Abs(d) > BroadcastLatency \div 2 THEN {target}
                      ELSE {mBroadcastPosition, mBroadcastPosition + Sign(d)}) :
           /\ heard' = [at |-> from,
                        units |-> ReadUnits(from, Bound(mWritePosition - from, SlotSize), SlotSize)]
           /\ mBroadcastPosition' = from + SlotSize
  /\ UNCHANGED <<mWritePosition, mReadPosition, mRingBuffer, mMaxLatency, mActive, played>>

Next ==
  \/ \E len \in PacketSizes, lost \in LostSizes : InsertSlotNonBlocking(len, lost)
  \/ ReadSlotNonBlocking
  \/ ReadBroadcastSlot

Spec == Init /\ [][Next]_vars

-----------------------------------------------------------------------------
\* The variables are in range.
TypeOK ==
  /\ mWritePosition \in Nat /\ mReadPosition \in Nat /\ mBroadcastPosition \in Nat
  /\ mRingBuffer \in [Cells -> Int]
  /\ mMaxLatency \in Nat \ {0}
  /\ mActive \in BOOLEAN
  /\ heard.at \in Nat /\ \A i \in DOMAIN heard.units : heard.units[i] \in Int
  /\ played \in Int

\* pos % mTotalSize jumps where the uint32_t wraps, mTotalSize being no divisor of
\* 2^32: a packet or a read across it is not where the other side looks for it.
AtWrap(p) == p >= PositionRange /\ \E n \in PacketSizes \cup {SlotSize} : p % PositionRange < n

\* Each unit that is read, for the audio and for the broadcast, is the one that
\* was written for its position, or the silence behind the last one: no unit of
\* an earlier or a later lap, whatever the corrections and the losses did to
\* the positions.  Only in the slot after the positions wrap it may be another.
PlaysWhatWasWritten ==
  \A i \in DOMAIN heard.units :
    LET p == heard.at + i - 1 IN heard.units[i] \in {p, Quiet} \/ AtWrap(p)

\* The audio callback never plays a unit twice: the read position steps back
\* only over what was silence (JitterBuffer.cpp:160-165).
NeverReplays ==
  [][mReadPosition' # mReadPosition
       => \A i \in DOMAIN heard'.units : heard'.at + i - 1 > played \/ heard'.units[i] = Quiet]_vars

\* No more than mMaxLatency waits to be played, the latency the user asked for
\* (raised to what the peer's packets need), as long as a packet is no longer
\* than what one overflow drops.
LatencyBounded == (\A len \in PacketSizes : len <= OverflowDropStep) => Available <= mMaxLatency
=============================================================================
