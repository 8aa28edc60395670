-------------------------- MODULE JitterBufferProofs --------------------------
(* Proofs about JitterBuffer, for every slot size, buffer size, queue       *)
(* length, broadcast latency and every sizes of packets and losses.         *)
EXTENDS JitterBuffer, TLAPS

\* What has been played is behind the reader and behind the writer, so that
\* neither a step back of the reader nor its reset to the writer replays it.
PlayedBehind == played < mReadPosition /\ played < mWritePosition

PositionTypes ==
  /\ mWritePosition \in Nat /\ mReadPosition \in Nat /\ mBroadcastPosition \in Nat
  /\ mMaxLatency \in Nat /\ played \in Int

\* The inductive invariant of the positions.
PositionInv == PositionTypes /\ PlayedBehind /\ LatencyBounded

-----------------------------------------------------------------------------
(* The positions *)

\* The constructor's sizes are natural numbers.
LEMMA Sizes ==
  /\ InitialLatency \in Nat /\ OverflowDropStep \in Nat
  /\ SlotSize \in Nat \ {0} /\ TotalSize \in Nat \ {0} /\ PositionRange \in Nat \ {0}
  /\ BroadcastLatency \in Nat /\ BroadcastLatency \div 2 \in 0 .. BroadcastLatency
  /\ \A len \in PacketSizes : len \in Nat \ {0} /\ len <= TotalSize
  /\ \A lost \in LostSizes : lost \in Nat
<1>1. InitialLatency \in Nat
  BY JitterAssumption DEF InitialLatency
<1>2. \A n \in Nat : n \div 2 \in 0 .. n
  OBVIOUS
<1> QED BY <1>1, <1>2, JitterAssumption DEF OverflowDropStep

\* Of the lost units no more are kept than were lost, and they do not fill the
\* buffer beyond the latency.
LEMMA LostKeptInRange ==
  ASSUME PositionTypes, NEW len \in Nat, NEW lost \in Nat, NEW latency \in Nat
  PROVE  /\ LostKept(lost, len, latency) \in 0 .. lost
         /\ \/ LostKept(lost, len, latency) = 0
            \/ Available + LostKept(lost, len, latency) + len <= latency
BY Sizes DEF LostKept, Smaller, PositionTypes, Available

\* What the correction does to the level, for every reset threshold: the reader
\* does not pass over the writer backwards, and unless a packet is larger than
\* the drop no more than the latency is left to play.
LEMMA CorrectedLevel ==
  ASSUME NEW a \in Int, NEW len \in Nat, NEW latency \in Nat, len <= latency
  PROVE  /\ Correction(a, len, latency) \in Int
         /\ \/ Correction(a, len, latency) >= 0
            \/ a - Correction(a, len, latency) <= 0
         /\ len <= OverflowDropStep /\ a <= latency
               => a + len - Correction(a, len, latency) <= latency
         /\ a + len <= latency => a + len - Correction(a, len, latency) <= latency
<1>1. PICK r \in Int : r = -(ResetFactor * latency) /\ r <= 0
  BY JitterAssumption
<1> QED BY <1>1, Sizes DEF Correction, Smaller

\* The invariant holds when the buffer is constructed.
LEMMA InitPositionInv == Init => PositionInv
BY Sizes DEF Init, PositionInv, PositionTypes, PlayedBehind, LatencyBounded, Available

\* What insertSlotNonBlocking computes on its way, as numbers.
LEMMA Insertion ==
  ASSUME PositionInv, NEW len \in PacketSizes, NEW lost \in LostSizes,
         InsertSlotNonBlocking(len, lost)
  PROVE  \E kept \in 0 .. lost, from \in Nat :
           /\ from = mWritePosition + kept
           /\ from + len <= MaxPosition
           /\ mMaxLatency' = Larger(mMaxLatency, len + SlotSize)
           /\ mMaxLatency' \in Nat /\ len <= mMaxLatency'
           /\ kept = 0 \/ from - mReadPosition + len <= mMaxLatency'
           /\ mWritePosition' = from + len
           /\ mReadPosition' = mReadPosition
                                 + Correction(from - mReadPosition, len, mMaxLatency')
           /\ mRingBuffer' =
                Written(IF kept >= TotalSize THEN Written(mRingBuffer, from - TotalSize, TotalSize)
                                             ELSE Written(mRingBuffer, mWritePosition, kept),
                        from, len)
<1> DEFINE latency == Larger(mMaxLatency, len + SlotSize)
           kept == IF lost > 0 THEN LostKept(lost, len, latency) ELSE 0
           from == mWritePosition + kept
<1>1. len \in Nat /\ lost \in Nat /\ latency \in Nat /\ len <= latency
  BY Sizes DEF Larger, PositionInv, PositionTypes
<1>2. mMaxLatency' = latency /\ mWritePosition' = from + len /\ from + len <= MaxPosition
  BY DEF InsertSlotNonBlocking
<1>3. mReadPosition' = mReadPosition + Correction(from - mReadPosition, len, latency)
  BY DEF InsertSlotNonBlocking
<1>4. mRingBuffer' =
        Written(IF kept >= TotalSize THEN Written(mRingBuffer, from - TotalSize, TotalSize)
                                     ELSE Written(mRingBuffer, mWritePosition, kept),
                from, len)
  BY DEF InsertSlotNonBlocking
<1> HIDE DEF latency
<1>5. kept \in 0 .. lost /\ (kept = 0 \/ Available + kept + len <= latency)
  <2>1. /\ LostKept(lost, len, latency) \in 0 .. lost
        /\ \/ LostKept(lost, len, latency) = 0
           \/ Available + LostKept(lost, len, latency) + len <= latency
    BY <1>1, LostKeptInRange DEF PositionInv
  <2> QED BY <1>1, <2>1
<1> HIDE DEF kept
<1>6. from \in Nat /\ from - mReadPosition = Available + kept
  BY <1>1, <1>5 DEF PositionInv, PositionTypes, Available
<1>7. kept = 0 \/ from - mReadPosition + len <= latency
  BY <1>1, <1>5 DEF PositionInv, PositionTypes, Available
<1>8. from = mWritePosition + kept
  OBVIOUS
<1> HIDE DEF from
<1> QED BY <1>1, <1>2, <1>3, <1>4, <1>5, <1>6, <1>7, <1>8 DEF latency

\* Every operation preserves the invariant.
LEMMA NextPositionInv == PositionInv /\ [Next]_vars => PositionInv'
<1> SUFFICES ASSUME PositionInv, [Next]_vars
             PROVE  PositionInv'
  OBVIOUS
<1>1. ASSUME NEW len \in PacketSizes, NEW lost \in LostSizes, InsertSlotNonBlocking(len, lost)
      PROVE  PositionInv'
  <2>1. PICK kept \in 0 .. lost, from \in Nat :
          /\ from = mWritePosition + kept
          /\ mMaxLatency' = Larger(mMaxLatency, len + SlotSize)
          /\ mMaxLatency' \in Nat /\ len <= mMaxLatency'
          /\ kept = 0 \/ from - mReadPosition + len <= mMaxLatency'
          /\ mWritePosition' = from + len
          /\ mReadPosition' = mReadPosition
                                + Correction(from - mReadPosition, len, mMaxLatency')
    BY <1>1, Insertion
  <2> DEFINE a == from - mReadPosition
             step == Correction(a, len, mMaxLatency')
  <2>2. len \in Nat /\ lost \in Nat /\ kept \in Nat /\ from >= mWritePosition /\ a \in Int
    BY <2>1, Sizes DEF PositionInv, PositionTypes
  <2>3. mMaxLatency <= mMaxLatency'
    BY <2>1, <2>2, Sizes DEF Larger, PositionInv, PositionTypes
  <2>4. a = from - mReadPosition /\ mReadPosition' = mReadPosition + step
    BY <2>1
  <2> HIDE DEF a
  <2>5. /\ step \in Int
        /\ step >= 0 \/ a - step <= 0
        /\ len <= OverflowDropStep /\ a <= mMaxLatency' => a + len - step <= mMaxLatency'
        /\ a + len <= mMaxLatency' => a + len - step <= mMaxLatency'
    BY <2>1, <2>2, CorrectedLevel
  <2> HIDE DEF step
  <2>6. UNCHANGED <<mBroadcastPosition, played>>
    BY <1>1 DEF InsertSlotNonBlocking
  <2>7. PositionTypes' /\ PlayedBehind'
    BY <2>1, <2>2, <2>4, <2>5, <2>6 DEF PositionInv, PositionTypes, PlayedBehind
  <2>8. ASSUME \A l \in PacketSizes : l <= OverflowDropStep
        PROVE  Available' <= mMaxLatency'
    <3>1. len <= OverflowDropStep /\ mWritePosition - mReadPosition <= mMaxLatency
      BY <2>8 DEF PositionInv, LatencyBounded, Available
    <3>2. a <= mMaxLatency' \/ a + len <= mMaxLatency'
      BY <2>1, <2>2, <2>3, <2>4, <3>1 DEF PositionInv, PositionTypes
    <3>3. a + len - step <= mMaxLatency'
      BY <2>5, <3>1, <3>2
    <3>4. Available' = a + len - step
      BY <2>1, <2>2, <2>4, <2>5 DEF PositionInv, PositionTypes, Available
    <3> QED BY <3>3, <3>4
  <2> QED BY <2>7, <2>8 DEF PositionInv, LatencyBounded
<1>2. CASE ReadSlotNonBlocking
  <2> DEFINE n == Bound(Available, SlotSize)
  <2>1. n \in Nat /\ n <= SlotSize /\ (n > 0 => n <= mWritePosition - mReadPosition)
    BY Sizes DEF Bound, Larger, Smaller, Available, PositionInv, PositionTypes
  <2>2. played' = IF n > 0 THEN Larger(played, mReadPosition + n - 1) ELSE played
    BY <1>2 DEF ReadSlotNonBlocking
  <2> HIDE DEF n
  <2>3. /\ mReadPosition' = mReadPosition + SlotSize
        /\ UNCHANGED <<mWritePosition, mBroadcastPosition, mMaxLatency>>
    BY <1>2 DEF ReadSlotNonBlocking
  <2> QED BY <2>1, <2>2, <2>3, Sizes
          DEF PositionInv, PositionTypes, PlayedBehind, LatencyBounded, Available, Larger
<1>3. CASE ReadBroadcastSlot
  <2>1. mBroadcastPosition' \in Nat
    <3> DEFINE target == mReadPosition - BroadcastLatency - SlotSize
    <3>1. target \in Nat
      <4>1. mReadPosition % PositionRange <= mReadPosition
        BY Sizes DEF PositionInv, PositionTypes
      <4>2. BroadcastLatency + SlotSize <= mReadPosition % PositionRange
        BY <1>3 DEF ReadBroadcastSlot, BroadcastReady
      <4>3. mReadPosition % PositionRange \in Int
        BY Sizes DEF PositionInv, PositionTypes
      <4> QED BY <4>1, <4>2, <4>3, Sizes DEF PositionInv, PositionTypes
    <3> HIDE DEF target
    <3>2. PICK from \in {target, mBroadcastPosition,
                         mBroadcastPosition + Sign(target - mBroadcastPosition)} :
            mBroadcastPosition' = from + SlotSize
      BY <1>3 DEF ReadBroadcastSlot, target
    <3>3. from \in Nat
      BY <3>1, <3>2 DEF PositionInv, PositionTypes, Sign
    <3> QED BY <3>2, <3>3, Sizes
  <2> QED BY <1>3, <2>1
          DEF ReadBroadcastSlot, PositionInv, PositionTypes, PlayedBehind, LatencyBounded,
              Available
<1>4. CASE UNCHANGED vars
  BY <1>4 DEF vars, PositionInv, PositionTypes, PlayedBehind, LatencyBounded, Available
<1> QED BY <1>1, <1>2, <1>3, <1>4 DEF Next

\* Every step of the specification starts from the invariant.
LEMMA PositionInvariant == Spec => []PositionInv
BY InitPositionInv, NextPositionInv, PTL DEF Spec

\* However packets come and get lost, no more than mMaxLatency waits to be
\* played if no packet is larger than what an overflow drops (processPacketLoss,
\* JitterBuffer.cpp:315-342, and the corrections of insertSlotNonBlocking).
THEOREM LatencyIsBounded == Spec => []LatencyBounded
<1>1. PositionInv => LatencyBounded
  BY DEF PositionInv
<1> QED BY <1>1, PositionInvariant, PTL

\* What is read is ahead of all that was played.
LEMMA ReadsAhead ==
  ASSUME PositionInv, [Next]_vars, mReadPosition' # mReadPosition,
         NEW i \in DOMAIN heard'.units
  PROVE  heard'.at + i - 1 > played
<1>1. ASSUME NEW len \in PacketSizes, NEW lost \in LostSizes, InsertSlotNonBlocking(len, lost)
      PROVE  FALSE
  <2>1. DOMAIN heard'.units = DOMAIN << >>
    BY <1>1 DEF InsertSlotNonBlocking
  <2> QED BY <2>1
<1>2. CASE ReadSlotNonBlocking
  <2>1. heard'.at = mReadPosition /\ DOMAIN heard'.units = 1 .. SlotSize
    BY <1>2 DEF ReadSlotNonBlocking, ReadUnits
  <2> QED BY <2>1, Sizes DEF PositionInv, PositionTypes, PlayedBehind
<1>3. ~ReadBroadcastSlot /\ ~UNCHANGED vars
  BY DEF ReadBroadcastSlot, vars
<1> QED BY <1>1, <1>2, <1>3 DEF Next

\* The audio callback never plays a unit twice: the steps back of the reader are
\* over silence only (JitterBuffer.cpp:146-165).
THEOREM NothingIsReplayed == Spec => NeverReplays
<1>1. PositionInv /\ [Next]_vars
        => [mReadPosition' # mReadPosition
              => \A i \in DOMAIN heard'.units :
                   heard'.at + i - 1 > played \/ heard'.units[i] = Quiet]_vars
  BY ReadsAhead
<1> QED BY <1>1, PositionInvariant, PTL DEF Spec, NeverReplays
-----------------------------------------------------------------------------
(* The contents of the buffer, before the uint32_t positions wrap *)

\* How far behind the reader the broadcast reads.
BroadcastLag == IF BroadcastLatency = 0 THEN 0
                ELSE BroadcastLatency + BroadcastLatency \div 2 + SlotSize

\* The positions stay below 2^32, and the buffer has room for the latency and
\* for the broadcast behind it, packets being no larger than an overflow drops.
RoomBeforeWrap ==
  /\ MaxPosition <= PositionRange /\ TotalSize <= PositionRange
  /\ InitialLatency + BroadcastLag <= TotalSize
  /\ \A len \in PacketSizes : /\ len <= OverflowDropStep
                              /\ len + SlotSize + BroadcastLag <= TotalSize

\* Every cell of a buffer that was written up to position p is untouched or
\* holds the one position of the last lap that belongs there.
Belongs(v, c, p) == \/ v = Quiet
                    \/ /\ v \in Int /\ v % TotalSize = c
                       /\ p - TotalSize <= v /\ v < p
Holds(buffer, p) == \A c \in Cells : Belongs(buffer[c], c, p)

\* The inductive invariant of the contents.
ContentsInv ==
  /\ PositionInv
  /\ Holds(mRingBuffer, mWritePosition)
  /\ mWritePosition <= PositionRange
  /\ mMaxLatency + BroadcastLag <= TotalSize
  /\ PlaysWhatWasWritten

\* Multiplication distributes.
LEMMA Distributes ==
  ASSUME NEW a \in Int, NEW b \in Int, NEW c \in Int
  PROVE  a * (b + c) = a * b + a * c /\ a * (b - c) = a * b - a * c
OBVIOUS

\* Division with remainder.
LEMMA Division ==
  ASSUME NEW M \in Nat \ {0}, NEW x \in Int
  PROVE  \E q \in Int, r \in 0 .. M - 1 : r = x % M /\ x = M * q + r
<1>1. x \div M \in Int /\ x % M \in 0 .. M - 1 /\ x = M * (x \div M) + (x % M)
  OBVIOUS
<1> QED BY <1>1

\* A number is determined by quotient and remainder.
LEMMA ModUnique ==
  ASSUME NEW M \in Nat \ {0}, NEW p \in Int, NEW q \in Int,
         NEW r \in 0 .. M - 1, NEW s \in 0 .. M - 1, M * p + r = M * q + s
  PROVE  r = s
<1>1. \A t \in Int : t >= 1 => M * t >= M
  OBVIOUS
<1>2. M * (p - q) = s - r /\ M * (q - p) = r - s
  OBVIOUS
<1>3. ~(p - q >= 1) /\ ~(q - p >= 1)
  BY <1>1, <1>2
<1> QED BY <1>2, <1>3

\* Two positions of one lap that have the same cell are the same.
LEMMA OneLap ==
  ASSUME NEW M \in Nat \ {0}, NEW x \in Int, NEW y \in Int,
         x % M = y % M, x - y < M, y - x < M
  PROVE  x = y
<1>1. PICK p \in Int, r \in 0 .. M - 1 : r = x % M /\ x = M * p + r
  BY Division
<1>2. PICK q \in Int, s \in 0 .. M - 1 : s = y % M /\ y = M * q + s
  BY Division
<1>3. M * (p - q) = x - y /\ M * (q - p) = y - x
  BY <1>1, <1>2
<1>4. \A t \in Int : t >= 1 => M * t >= M
  OBVIOUS
<1>5. ~(p - q >= 1) /\ ~(q - p >= 1)
  BY <1>3, <1>4
<1>6. p = q
  BY <1>5
<1> QED BY <1>1, <1>2, <1>6

\* The cell i units after that of position p is the cell of position p + i.
LEMMA CellAfter ==
  ASSUME NEW M \in Nat \ {0}, NEW p \in Int, NEW i \in Int
  PROVE  ((p % M) + i) % M = (p + i) % M
<1>1. PICK q \in Int, r \in 0 .. M - 1 : r = p % M /\ p = M * q + r
  BY Division
<1>a. PICK y \in Int, z \in Int : y = r + i /\ z = p + i
  OBVIOUS
<1>2. PICK t \in Int, u \in 0 .. M - 1 : u = y % M /\ y = M * t + u
  BY <1>a, Division
<1>3. PICK v \in Int, w \in 0 .. M - 1 : w = z % M /\ z = M * v + w
  BY <1>a, Division
<1>4. M * (q + t) + u = M * v + w /\ q + t \in Int
  <2>1. M * (q + t) = M * q + M * t
    <3>1. M \in Int
      OBVIOUS
    <3>2. M * (q + t) = M * q + M * t /\ M * (q - t) = M * q - M * t
      BY <3>1, Distributes
    <3> QED BY <3>2
  <2>2. PICK a \in Int, b \in Int, d \in Int : a = M * q /\ b = M * t /\ d = M * v
    OBVIOUS
  <2>3. p = a + r /\ y = b + u /\ z = d + w
    BY <1>1, <1>2, <1>3, <2>2
  <2>4. a + b + u = d + w
    BY <1>a, <2>3
  <2>5. M * (q + t) + u = M * v + w
    BY <2>1, <2>2, <2>4, Zenon
  <2> QED BY <2>5
<1>b. PICK x \in Int : x = q + t
  OBVIOUS
<1>5. u = w
  BY <1>4, <1>b, ModUnique
<1> QED BY <1>1, <1>2, <1>3, <1>5, <1>a

\* Cell c is the one of position p + i, i being its distance from p's cell.
LEMMA CellOffset ==
  ASSUME NEW M \in Nat \ {0}, NEW p \in Int, NEW c \in 0 .. M - 1
  PROVE  \E i \in 0 .. M - 1 : i = (c - (p % M)) % M /\ (p + i) % M = c
<1>1. PICK q \in Int, r \in 0 .. M - 1 : r = p % M /\ p = M * q + r
  BY Division
<1>a. PICK y \in Int : y = c - r
  OBVIOUS
<1>2. PICK t \in Int, i \in 0 .. M - 1 : i = y % M /\ y = M * t + i
  BY <1>a, Division
<1>b. PICK z \in Int : z = p + i
  OBVIOUS
<1>3. PICK v \in Int, w \in 0 .. M - 1 : w = z % M /\ z = M * v + w
  BY <1>b, Division
<1>c. PICK x \in Int : x = q - t
  OBVIOUS
<1>4. M * x + c = M * v + w
  <2>1. M * x = M * q - M * t
    <3>1. M \in Int
      OBVIOUS
    <3>2. M * (q + t) = M * q + M * t /\ M * (q - t) = M * q - M * t
      BY <3>1, Distributes
    <3> QED BY <1>c, <3>2
  <2>2. PICK a \in Int, b \in Int, d \in Int : a = M * q /\ b = M * t /\ d = M * v
    OBVIOUS
  <2>3. p = a + r /\ y = b + i /\ z = d + w
    BY <1>1, <1>2, <1>3, <2>2
  <2>4. a - b + c = d + w
    BY <1>a, <1>b, <2>3
  <2> QED BY <2>1, <2>2, <2>4, Zenon
<1>5. c = w
  BY <1>4, ModUnique
<1> QED BY <1>1, <1>2, <1>3, <1>5, <1>a, <1>b

\* Before the wrap a position has the cell of its remainder.
LEMMA CellBeforeWrap ==
  ASSUME NEW p \in Nat, p < PositionRange
  PROVE  Cell(p) = p % TotalSize
<1>1. p % PositionRange = p
  BY Sizes
<1> QED BY <1>1 DEF Cell

\* Writing n units at the writer's position, before the wrap, keeps Holds.
LEMMA WrittenHolds ==
  ASSUME NEW buffer, NEW p \in Nat, NEW n \in 0 .. TotalSize, Holds(buffer, p),
         p + n <= PositionRange
  PROVE  Holds(Written(buffer, p, n), p + n)
<1> SUFFICES ASSUME NEW c \in Cells
             PROVE  Belongs(Written(buffer, p, n)[c], c, p + n)
  BY DEF Holds
<1>1. p \in Int /\ n \in Nat /\ TotalSize \in Nat \ {0} /\ c \in 0 .. TotalSize - 1
  BY Sizes DEF Cells
<1>2. Written(buffer, p, n)[c] = IF (c - Cell(p)) % TotalSize < n
                                 THEN p + ((c - Cell(p)) % TotalSize) ELSE buffer[c]
  BY DEF Written
<1>3. CASE n = 0
  <2>1. Cell(p) \in Int
    BY <1>1, Sizes DEF Cell
  <2>2. \A x \in Int : ~(x % TotalSize < 0)
    BY <1>1
  <2>4. c - Cell(p) \in Int
    BY <1>1, <2>1
  <2>5. ~((c - Cell(p)) % TotalSize < n)
    BY <1>3, <2>2, <2>4
  <2>3. Written(buffer, p, n)[c] = buffer[c]
    BY <1>2, <2>5
  <2> QED BY <1>1, <1>3, <2>3 DEF Holds
<1>4. CASE n > 0
  <2>1. p < PositionRange
    BY <1>1, <1>4, Sizes
  <2>2. PICK i \in 0 .. TotalSize - 1 : i = (c - (p % TotalSize)) % TotalSize
                                         /\ (p + i) % TotalSize = c
    BY <1>1, CellOffset, Zenon
  <2>3. Written(buffer, p, n)[c] = IF i < n THEN p + i ELSE buffer[c]
    BY <1>2, <2>1, <2>2, CellBeforeWrap
  <2>4. CASE i < n
    BY <1>1, <2>2, <2>3, <2>4 DEF Belongs
  <2>5. CASE ~(i < n) /\ buffer[c] # Quiet
    <3>1. PICK v \in Int : v = buffer[c] /\ v % TotalSize = c /\ p - TotalSize <= v /\ v < p
      BY <2>5 DEF Holds, Belongs
    <3>2. PICK x \in Int, y \in Int : x = p + i - TotalSize /\ y = p + i
      BY <1>1
    <3>3. x % TotalSize = c
      <4>1. PICK q \in Int, r \in 0 .. TotalSize - 1 :
              r = x % TotalSize /\ x = TotalSize * q + r
        BY <1>1, Division
      <4>2. PICK t \in Int, u \in 0 .. TotalSize - 1 :
              u = y % TotalSize /\ y = TotalSize * t + u
        BY <1>1, Division
      <4>3. PICK z \in Int : z = q + 1
        OBVIOUS
      <4>4. TotalSize * z + r = TotalSize * t + u
        <5>1. TotalSize * z = TotalSize * q + TotalSize * 1
          BY <1>1, <4>3, Distributes
        <5> QED BY <1>1, <3>2, <4>1, <4>2, <5>1
      <4>5. r = u
        BY <1>1, <4>4, ModUnique
      <4> QED BY <2>2, <3>2, <4>1, <4>2, <4>5
    <3>4. x - v < TotalSize /\ v - x < TotalSize
      BY <1>1, <2>2, <3>1, <3>2
    <3>5. v = x
      BY <1>1, <3>1, <3>3, <3>4, OneLap
    <3> QED BY <1>1, <2>2, <2>3, <2>5, <3>1, <3>2, <3>5 DEF Belongs
  <2> QED BY <2>3, <2>4, <2>5 DEF Belongs
<1> QED BY <1>1, <1>3, <1>4

\* Writing a whole lap leaves nothing of what was there.
LEMMA LapHolds ==
  ASSUME NEW buffer, NEW p \in Nat, p < PositionRange
  PROVE  Holds(Written(buffer, p, TotalSize), p + TotalSize)
<1> SUFFICES ASSUME NEW c \in Cells
             PROVE  Belongs(Written(buffer, p, TotalSize)[c], c, p + TotalSize)
  BY DEF Holds
<1>1. p \in Int /\ TotalSize \in Nat \ {0} /\ c \in 0 .. TotalSize - 1
  BY Sizes DEF Cells
<1>2. PICK i \in 0 .. TotalSize - 1 : i = (c - (p % TotalSize)) % TotalSize
                                       /\ (p + i) % TotalSize = c
  BY <1>1, CellOffset, Zenon
<1>3. Written(buffer, p, TotalSize)[c] = p + i
  BY <1>1, <1>2, CellBeforeWrap DEF Written
<1> QED BY <1>1, <1>2, <1>3 DEF Belongs

\* What is read from a position of the last lap is what was written for it.
LEMMA ReadsWhatWasWritten ==
  ASSUME Holds(mRingBuffer, mWritePosition), mWritePosition \in Nat,
         mWritePosition <= PositionRange, NEW p \in Nat,
         mWritePosition - TotalSize <= p,
         NEW i \in 1 .. SlotSize
  PROVE  ReadUnits(p, Bound(mWritePosition - p, SlotSize), SlotSize)[i] \in {p + i - 1, Quiet}
<1> DEFINE n == Bound(mWritePosition - p, SlotSize)
<1>1. n \in Nat /\ (n > 0 => n <= mWritePosition - p)
  BY Sizes DEF Bound, Larger, Smaller
<1>2. ReadUnits(p, n, SlotSize)[i] = IF i <= n THEN mRingBuffer[(Cell(p) + i - 1) % TotalSize]
                                               ELSE Quiet
  BY DEF ReadUnits
<1> HIDE DEF n
<1>3. ASSUME i <= n
      PROVE  mRingBuffer[(Cell(p) + i - 1) % TotalSize] \in {p + i - 1, Quiet}
  <2>1. PICK j \in Nat, x \in Int : j = i - 1 /\ x = p + j
    BY Sizes
  <2>2. x < mWritePosition /\ p < PositionRange /\ mWritePosition - TotalSize <= x
    BY <1>1, <1>3, <2>1, Sizes
  <2>3. PICK c \in Cells : c = (Cell(p) + i - 1) % TotalSize /\ c = x % TotalSize
    <3>1. p % TotalSize \in Int /\ Cell(p) = p % TotalSize
      BY <2>2, CellBeforeWrap, Sizes
    <3>2. Cell(p) + i - 1 = (p % TotalSize) + j
      BY <2>1, <3>1
    <3>3. ((p % TotalSize) + j) % TotalSize = (p + j) % TotalSize
      <4>1. p \in Int /\ j \in Int /\ TotalSize \in Nat \ {0}
        BY <2>1, Sizes
      <4> QED BY <4>1, CellAfter, Zenon
    <3>4. x % TotalSize \in Cells
      BY <2>1, Sizes DEF Cells
    <3> QED BY <2>1, <3>2, <3>3, <3>4
  <2>4. Belongs(mRingBuffer[c], c, mWritePosition)
    BY <2>3 DEF Holds
  <2>5. CASE mRingBuffer[c] # Quiet
    <3>1. PICK v \in Int : /\ v = mRingBuffer[c] /\ v % TotalSize = c
                           /\ mWritePosition - TotalSize <= v /\ v < mWritePosition
      BY <2>4, <2>5 DEF Belongs
    <3>2. v - x < TotalSize /\ x - v < TotalSize
      BY <2>2, <3>1, Sizes
    <3>3. v = x
      BY <2>3, <3>1, <3>2, OneLap, Sizes
    <3> QED BY <2>1, <2>3, <3>1, <3>3
  <2> QED BY <2>3, <2>5
<1> QED BY <1>2, <1>3 DEF n

\* The invariant holds when the buffer is constructed.
LEMMA InitContentsInv == ASSUME RoomBeforeWrap PROVE Init => ContentsInv
<1> SUFFICES ASSUME Init PROVE ContentsInv
  OBVIOUS
<1>1. BroadcastLag \in Nat
  BY Sizes DEF BroadcastLag
<1>2. Holds(mRingBuffer, mWritePosition)
  <2> DEFINE empty == [c \in Cells |-> Quiet]
  <2>1. Holds(empty, 0)
    BY DEF Holds, Belongs
  <2>2. InitialLatency \in 0 .. TotalSize /\ 0 + InitialLatency <= PositionRange
        /\ 0 + InitialLatency = InitialLatency
    BY <1>1, Sizes DEF RoomBeforeWrap
  <2> HIDE DEF empty
  <2>3. Holds(Written(empty, 0, InitialLatency), 0 + InitialLatency)
    BY <2>1, <2>2, WrittenHolds
  <2> QED BY <2>2, <2>3 DEF Init, empty
<1>3. PlaysWhatWasWritten
  BY DEF Init, PlaysWhatWasWritten
<1> QED BY <1>1, <1>2, <1>3, InitPositionInv, Sizes DEF Init, ContentsInv, RoomBeforeWrap

\* An insertion preserves the contents: the zeros of the lost packets, then the
\* packet.
LEMMA InsertionHolds ==
  ASSUME RoomBeforeWrap, ContentsInv, NEW len \in PacketSizes, NEW lost \in LostSizes,
         InsertSlotNonBlocking(len, lost)
  PROVE  Holds(mRingBuffer, mWritePosition)' /\ mWritePosition' <= PositionRange
<1>1. PICK kept \in 0 .. lost, from \in Nat :
        /\ from = mWritePosition + kept
        /\ from + len <= MaxPosition
        /\ mWritePosition' = from + len
        /\ mRingBuffer' =
             Written(IF kept >= TotalSize THEN Written(mRingBuffer, from - TotalSize, TotalSize)
                                          ELSE Written(mRingBuffer, mWritePosition, kept),
                     from, len)
  BY Insertion DEF ContentsInv
<1>2. len \in 0 .. TotalSize /\ kept \in Nat /\ mWritePosition \in Nat
      /\ TotalSize \in Nat \ {0}
  BY Sizes DEF ContentsInv, PositionInv, PositionTypes
<1>3. from + len <= PositionRange /\ from <= PositionRange
  BY <1>1, <1>2, Sizes, JitterAssumption DEF RoomBeforeWrap
<1>4. PICK zeroed : /\ Holds(zeroed, from)
                    /\ mRingBuffer' = Written(zeroed, from, len)
  <2>1. CASE kept >= TotalSize
    <3>1. PICK p \in Nat : p = from - TotalSize /\ p + TotalSize = from /\ p < PositionRange
      BY <1>1, <1>2, <1>3, <2>1, Sizes
    <3>2. Holds(Written(mRingBuffer, p, TotalSize), from)
      BY <3>1, LapHolds
    <3> QED BY <1>1, <2>1, <3>1, <3>2
  <2>2. CASE ~(kept >= TotalSize)
    <3>1. kept \in 0 .. TotalSize /\ mWritePosition + kept <= PositionRange
      BY <1>1, <1>2, <1>3, <2>2
    <3>2. Holds(Written(mRingBuffer, mWritePosition, kept), from)
      BY <1>1, <1>2, <3>1, WrittenHolds DEF ContentsInv
    <3> QED BY <1>1, <2>2, <3>2
  <2> QED BY <2>1, <2>2
<1>5. Holds(Written(zeroed, from, len), from + len)
  BY <1>2, <1>3, <1>4, WrittenHolds
<1>6. Holds(mRingBuffer', mWritePosition')
  BY <1>1, <1>4, <1>5
<1> QED BY <1>1, <1>3, <1>6 DEF Holds, Belongs

\* Every operation preserves the invariant.
LEMMA NextContentsInv ==
  ASSUME RoomBeforeWrap PROVE ContentsInv /\ [Next]_vars => ContentsInv'
<1> SUFFICES ASSUME ContentsInv, [Next]_vars
             PROVE  ContentsInv'
  OBVIOUS
<1>1. PositionInv' /\ PositionInv
  BY NextPositionInv DEF ContentsInv
<1>2. BroadcastLag \in Nat
  BY Sizes DEF BroadcastLag
<1>3. mWritePosition - mReadPosition <= mMaxLatency
  BY <1>1 DEF RoomBeforeWrap, PositionInv, LatencyBounded, Available
<1>4. mWritePosition - mReadPosition + BroadcastLag <= TotalSize
  BY <1>1, <1>2, <1>3, Sizes DEF ContentsInv, PositionInv, PositionTypes
<1>5. ASSUME NEW len \in PacketSizes, NEW lost \in LostSizes, InsertSlotNonBlocking(len, lost)
      PROVE  ContentsInv'
  <2>1. mMaxLatency' = Larger(mMaxLatency, len + SlotSize)
    BY <1>1, <1>5, Insertion
  <2>2. mMaxLatency' + BroadcastLag <= TotalSize
    BY <1>1, <1>2, <2>1, Sizes DEF Larger, ContentsInv, PositionInv, PositionTypes, RoomBeforeWrap
  <2>3. PlaysWhatWasWritten'
    <3>1. DOMAIN heard'.units = DOMAIN << >>
      BY <1>5 DEF InsertSlotNonBlocking
    <3>2. DOMAIN heard'.units = {}
      BY <3>1
    <3> QED BY <3>2, Zenon DEF PlaysWhatWasWritten
  <2> QED BY <1>1, <1>5, <2>2, <2>3, InsertionHolds DEF ContentsInv, BroadcastLag
<1>6. CASE ReadSlotNonBlocking
  <2>1. heard' = [at |-> mReadPosition,
                  units |-> ReadUnits(mReadPosition, Bound(Available, SlotSize), SlotSize)]
    BY <1>6 DEF ReadSlotNonBlocking
  <2>2. ASSUME NEW i \in 1 .. SlotSize
        PROVE  heard'.units[i] \in {mReadPosition + i - 1, Quiet}
    <3>1. mWritePosition - TotalSize <= mReadPosition
      BY <1>1, <1>2, <1>4, Sizes DEF PositionInv, PositionTypes
    <3> QED BY <1>1, <2>1, <3>1, ReadsWhatWasWritten
            DEF ContentsInv, PositionInv, PositionTypes, Available
  <2>3. DOMAIN heard'.units = 1 .. SlotSize
    BY <2>1 DEF ReadUnits
  <2>4. PlaysWhatWasWritten'
    BY <2>1, <2>2, <2>3 DEF PlaysWhatWasWritten
  <2>5. UNCHANGED <<mWritePosition, mRingBuffer, mMaxLatency>>
    BY <1>6 DEF ReadSlotNonBlocking
  <2> QED BY <1>1, <2>4, <2>5 DEF ContentsInv, Holds, Belongs, BroadcastLag
<1>7. CASE ReadBroadcastSlot
  <2> DEFINE target == mReadPosition - BroadcastLatency - SlotSize
             d == target - mBroadcastPosition
  <2>1. PICK from \in (IF Abs(d) > BroadcastLatency \div 2 THEN {target}
                       ELSE {mBroadcastPosition, mBroadcastPosition + Sign(d)}) :
          heard' = [at |-> from,
                    units |-> ReadUnits(from, Bound(mWritePosition - from, SlotSize), SlotSize)]
    BY <1>7 DEF ReadBroadcastSlot
  <2>2. target \in Nat
    <3>1. mReadPosition % PositionRange <= mReadPosition
      BY <1>1, Sizes DEF PositionInv, PositionTypes
    <3>2. BroadcastLatency + SlotSize <= mReadPosition % PositionRange
      BY <1>7 DEF ReadBroadcastSlot, BroadcastReady
    <3>3. mReadPosition % PositionRange \in Int
      BY <1>1, Sizes DEF PositionInv, PositionTypes
    <3> QED BY <1>1, <3>1, <3>2, <3>3, Sizes DEF PositionInv, PositionTypes
  <2>3. BroadcastLag = BroadcastLatency + BroadcastLatency \div 2 + SlotSize
    BY <1>7, Sizes DEF ReadBroadcastSlot, BroadcastLag
  <2>4. target = mReadPosition - BroadcastLatency - SlotSize
    OBVIOUS
  <2> HIDE DEF target
  <2>5. from \in Nat /\ target - from <= BroadcastLatency \div 2
    BY <1>1, <2>1, <2>2, Sizes DEF PositionInv, PositionTypes, Abs, Sign
  <2>6. mWritePosition - TotalSize <= from
    BY <1>1, <1>4, <2>2, <2>3, <2>4, <2>5, Sizes DEF PositionInv, PositionTypes
  <2>7. ASSUME NEW i \in 1 .. SlotSize
        PROVE  heard'.units[i] \in {from + i - 1, Quiet}
    BY <1>1, <2>1, <2>5, <2>6, ReadsWhatWasWritten DEF ContentsInv, PositionInv, PositionTypes
  <2>8. DOMAIN heard'.units = 1 .. SlotSize /\ heard'.at = from
    BY <2>1 DEF ReadUnits
  <2>9. PlaysWhatWasWritten'
    BY <2>7, <2>8 DEF PlaysWhatWasWritten
  <2>10. UNCHANGED <<mWritePosition, mRingBuffer, mMaxLatency>>
    BY <1>7 DEF ReadBroadcastSlot
  <2> QED BY <1>1, <2>9, <2>10 DEF ContentsInv, Holds, Belongs, BroadcastLag
<1>8. CASE UNCHANGED vars
  <2>1. PlaysWhatWasWritten'
    BY <1>8 DEF vars, ContentsInv, PlaysWhatWasWritten, AtWrap
  <2> QED BY <1>1, <1>8, <2>1 DEF vars, ContentsInv, Holds, Belongs, BroadcastLag
<1> QED BY <1>5, <1>6, <1>7, <1>8 DEF Next

\* In the first 2^32 bytes of a session each unit read for the audio and for the
\* broadcast is the one that was written for its position or silence, whatever
\* the corrections and the losses did to the positions, if the buffer has room
\* for the latency and the broadcast (readSlotNonBlocking, readBroadcastSlot and
\* processPacketLoss; JitterBuffer.cpp).
THEOREM WrittenIsPlayed == ASSUME RoomBeforeWrap PROVE Spec => []PlaysWhatWasWritten
<1>1. Init => ContentsInv
  BY InitContentsInv
<1>2. ContentsInv /\ [Next]_vars => ContentsInv'
  BY NextContentsInv
<1>3. ContentsInv => PlaysWhatWasWritten
  BY DEF ContentsInv
<1> QED BY <1>1, <1>2, <1>3, PTL DEF Spec
=============================================================================
