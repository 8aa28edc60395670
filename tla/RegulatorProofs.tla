---------------------------- MODULE RegulatorProofs ----------------------------
(* Proofs about Regulator, for every number of slots, every jitter, loss and *)
(* tolerance, and a peer that is restarted, as long as a datagram revives    *)
(* nothing: revived packets share a slot (UdpDataProtocol.cpp:1019).         *)
EXTENDS Regulator, WellFoundedInduction, TLAPS

\* A datagram brings one packet, and fewer are lost in a row than half a lap.
ShortLosses == Revived = 0 /\ MaxLost + 1 < NumSlots - (NumSlots \div 2)

-----------------------------------------------------------------------------
(* Slots *)

\* A lap and half a lap are in range.
LEMMA LapSizes == NumSlots \in Nat \ {0} /\ NumSlots \div 2 \in 0 .. NumSlots - 1
BY RegulatorAssumption

\* So is a remainder.
LEMMA Remainders ==
  /\ \A x \in Int : x % NumSlots \in Slots
  /\ \A x \in Slots : x % NumSlots = x
BY LapSizes DEF Slots

\* A number is determined by quotient and remainder.
LEMMA ModUnique ==
  ASSUME NEW M \in Nat \ {0}, NEW p \in Int, NEW q \in Int,
         NEW r \in 0 .. M - 1, NEW s \in 0 .. M - 1, M * p + r = M * q + s
  PROVE  r = s
<1>1. \A t \in Int : t >= 1 => M * t >= M
  OBVIOUS
<1>2. M * (p - q) = s - r /\ M * (q - p) = r - s
  OBVIOUS
<1>3. ~(p - q >= 1) /\ ~(q - p >= 1)
  BY <1>1, <1>2
<1> QED BY <1>2, <1>3

\* A multiple of the modulus makes no difference.
LEMMA ModMultiple ==
  ASSUME NEW M \in Nat \ {0}, NEW y \in Int, NEW t \in Int
  PROVE  (y + M * t) % M = y % M
<1> DEFINE x == y + M * t
<1>0. x \in Int /\ x = y + M * t
  OBVIOUS
<1> HIDE DEF x
<1>1. x % M \in 0 .. M - 1 /\ y % M \in 0 .. M - 1
  BY <1>0
<1>2. x \div M \in Int /\ x = M * (x \div M) + (x % M)
  BY <1>0
<1>3. y \div M \in Int /\ y = M * (y \div M) + (y % M)
  OBVIOUS
<1>4. M * ((x \div M) - t) = M * (x \div M) - M * t
  BY <1>2
<1>5. M * ((x \div M) - t) + (x % M) = M * (y \div M) + (y % M)
  BY <1>0, <1>1, <1>2, <1>3, <1>4
<1>6. (x \div M) - t \in Int
  BY <1>2
<1>7. x % M = y % M
  BY <1>1, <1>3, <1>5, <1>6, ModUnique
<1> QED BY <1>7 DEF x

\* What is equal but for multiples stays so when the same is added.
LEMMA ModShift ==
  ASSUME NEW M \in Nat \ {0}, NEW x \in Int, NEW y \in Int, x % M = y % M, NEW c \in Int
  PROVE  (x + c) % M = (y + c) % M
<1>1. x \div M \in Int /\ x = M * (x \div M) + (x % M) /\ x % M \in Int
  OBVIOUS
<1>2. y \div M \in Int /\ y = M * (y \div M) + (y % M)
  OBVIOUS
<1>3. PICK p \in Int, q \in Int, m \in Int : x = M * p + m /\ y = M * q + m
  BY <1>1, <1>2
<1>4. M * (p - q) = M * p - M * q
  OBVIOUS
<1> DEFINE a == x + c
           b == y + c
           t == p - q
<1>5. a \in Int /\ b \in Int /\ t \in Int /\ a = b + M * t
  BY <1>3, <1>4
<1> HIDE DEF a, b, t
<1>6. (b + M * t) % M = b % M
  BY <1>5, ModMultiple
<1>7. a % M = b % M
  BY <1>5, <1>6
<1> QED BY <1>7 DEF a, b

\* A number and the one a whole multiple further on are the same slot.
LEMMA ModLap ==
  ASSUME NEW M \in Nat \ {0}, NEW x \in Int
  PROVE  (x - M) % M = x % M
<1> DEFINE b == x - M
           t == 1
<1>1. b \in Int /\ t \in Int /\ x = b + M * t
  OBVIOUS
<1> HIDE DEF b, t
<1>2. x % M = b % M
  BY <1>1, ModMultiple
<1> QED BY <1>2 DEF b

\* The same but for whole laps.
Congruent(x, y) == x % NumSlots = y % NumSlots

\* Congruent numbers stay so when the same is added, and when a lap is taken off.
LEMMA CongruentShift ==
  ASSUME NEW a \in Int, NEW c \in Int, NEW j \in Int, Congruent(a, c)
  PROVE  Congruent(a + j, c + j) /\ Congruent(a - NumSlots, a)
<1>1. \A M \in Nat \ {0} : a % M = c % M => (a + j) % M = (c + j) % M
  BY ModShift
<1>2. \A M \in Nat \ {0} : (a - M) % M = a % M
  BY ModLap
<1> QED BY <1>1, <1>2, LapSizes DEF Congruent

\* The slot of the j-th packet after another: further on, or one lap back.
LEMMA NextSlot ==
  ASSUME streamStart \in Int, NEW n \in Int, NEW j \in 0 .. NumSlots,
         NEW p, p = Slot(n), NEW s, s = Slot(n + j)
  PROVE  p \in Slots /\ s \in Slots /\ (s = p + j \/ s = p + j - NumSlots)
<1>1. PICK x \in Int : x = n - streamStart /\ n + j - streamStart = x + j
  OBVIOUS
<1>2. p = x % NumSlots /\ s = (x + j) % NumSlots
  BY <1>1 DEF Slot
<1>3. p \in Slots /\ p \in Int /\ s \in Slots /\ j \in Int
  BY <1>1, <1>2, Remainders, LapSizes DEF Slots
<1>4. Congruent(x, p)
  BY <1>2, <1>3, Remainders DEF Congruent
<1>5. PICK a, b : a = p + j /\ b = p + j - NumSlots
  OBVIOUS
<1>6. a \in Int /\ b \in Int /\ b = a - NumSlots
  BY <1>3, <1>5, LapSizes
<1>7. Congruent(x + j, a)
  BY <1>3, <1>4, <1>5, CongruentShift
<1>8. Congruent(b, a)
  BY <1>6, CongruentShift DEF Congruent
<1>9. s = a % NumSlots /\ s = b % NumSlots
  BY <1>2, <1>7, <1>8 DEF Congruent
<1>10. a \in Slots \/ b \in Slots
  BY <1>3, <1>5, LapSizes DEF Slots
<1>11. s = a \/ s = b
  BY <1>9, <1>10, Remainders
<1> QED BY <1>3, <1>5, <1>11

-----------------------------------------------------------------------------
(* How long the Regulator may be deaf *)

\* Packet n found mLastSeqNumIn at most half a lap ahead, and so did all packets
\* since mLastSeqNumIn moved: no more than there are slots behind n in this half.
Heard(n) ==
  LET s == Slot(n)
  IN  /\ mLastSeqNumIn \in Slots /\ s <= mLastSeqNumIn
      /\ ignored <= s - mLastSeqNumIn + (NumSlots \div 2) + 1
      /\ mLastSeqNumIn - s <= NumSlots \div 2

DeafTypes ==
  /\ newest \in Nat /\ streamStart \in 0 .. newest /\ ignored \in Nat
  /\ push \in [step : {"idle", "timing", "copying"}, slot : Slots, left : Seq(Nat)]
  /\ mLastSeqNumIn \in SlotOrNone

\* The packet on its way is the newest, one of those that follow a packet that was
\* heard, or the first of its stream.
OnItsWay ==
  /\ push.slot = Slot(newest) /\ Len(push.left) = 1 /\ push.left = <<newest>>
  /\ mLastSeqNumIn # None =>
       \/ newest = streamStart /\ ignored = 0
       \/ \E j \in 1 .. MaxLost + 1 : streamStart <= newest - j /\ Heard(newest - j)

\* The inductive invariant: until the peer is restarted no packet is ignored.
DeafInv ==
  /\ DeafTypes
  /\ mLastSeqNumIn = None => push.step # "idle" /\ streamStart = 0
  /\ IF push.step = "idle" THEN Heard(newest) ELSE OnItsWay
  /\ streamStart = 0 => /\ ignored = 0
                        /\ push.step = "idle" => mLastSeqNumIn = Slot(newest)
                        /\ push.step # "idle" /\ mLastSeqNumIn # None =>
                             \E j \in 1 .. MaxLost + 1 : /\ mLastSeqNumIn = Slot(newest - j)
                                                          /\ Heard(newest - j)

\* What a pull and a tick leave alone.
deafVars == <<newest, streamStart, push, ignored, mLastSeqNumIn>>

\* The Regulator has heard nothing at first, and ignored nothing.
LEMMA InitDeafInv == Init => DeafInv
<1> SUFFICES ASSUME Init PROVE DeafInv
  OBVIOUS
<1>1. newest \in Slots /\ streamStart = 0 /\ newest - streamStart = newest
  BY RegulatorAssumption DEF Init, Slots
<1>2. Slot(newest) = newest
  BY <1>1, Remainders DEF Slot
<1>3. /\ push = [step |-> "timing", slot |-> newest, left |-> <<newest>>]
      /\ mLastSeqNumIn = None /\ ignored = 0
  BY DEF Init
<1>4. OnItsWay
  BY <1>2, <1>3 DEF OnItsWay
<1> QED BY <1>1, <1>3, <1>4 DEF DeafInv, DeafTypes, SlotOrNone, Slots

\* The packet that follows one that was heard moves mLastSeqNumIn, unless it is
\* further on in the half lap behind it.
LEMMA HeardNext ==
  ASSUME ShortLosses, DeafTypes, NEW j \in 1 .. MaxLost + 1, Heard(newest - j)
  PROVE  /\ ~IsNewer(Slot(newest)) =>
                /\ Slot(newest) <= mLastSeqNumIn
                /\ mLastSeqNumIn - Slot(newest) <= NumSlots \div 2
                /\ ignored + 1 <= Slot(newest) - mLastSeqNumIn + (NumSlots \div 2) + 1
         /\ mLastSeqNumIn = Slot(newest - j) => IsNewer(Slot(newest))
<1>1. j \in Nat /\ j > 0 /\ j < NumSlots - (NumSlots \div 2) /\ j \in 0 .. NumSlots
  BY LapSizes, RegulatorAssumption DEF ShortLosses
<1>2. PICK p, s : p = Slot(newest - j) /\ s = Slot(newest)
  OBVIOUS
<1>3. PICK n \in Int : n = newest - j /\ newest = n + j /\ streamStart \in Int
  BY <1>1 DEF DeafTypes
<1>4. p = Slot(n) /\ s = Slot(n + j)
  BY <1>2, <1>3
<1>5. p \in Slots /\ s \in Slots /\ (s = p + j \/ s = p + j - NumSlots)
  BY <1>1, <1>3, <1>4, NextSlot
<1>6. /\ mLastSeqNumIn \in Slots /\ p <= mLastSeqNumIn
      /\ ignored <= p - mLastSeqNumIn + (NumSlots \div 2) + 1
      /\ mLastSeqNumIn - p <= NumSlots \div 2
  BY <1>2 DEF Heard
<1>7. ignored \in Nat /\ mLastSeqNumIn # None
  BY <1>6 DEF DeafTypes, None, Slots
<1>8. PICK h \in Nat : h = NumSlots \div 2
  BY LapSizes
<1>9. IsNewer(s) <=> s > mLastSeqNumIn \/ mLastSeqNumIn - s > h
  BY <1>7, <1>8 DEF IsNewer
<1>10. /\ ~IsNewer(s) => /\ s <= mLastSeqNumIn /\ mLastSeqNumIn - s <= h
                         /\ ignored + 1 <= s - mLastSeqNumIn + h + 1
       /\ mLastSeqNumIn = p => IsNewer(s)
  BY <1>1, <1>5, <1>6, <1>7, <1>8, <1>9, LapSizes DEF Slots
<1> QED BY <1>2, <1>8, <1>10

\* Publishing the packet on its way.
LEMMA PublishDeafInv ==
  ASSUME ShortLosses, DeafInv, PushPublish
  PROVE  DeafInv'
<1>1. /\ push.step = "copying" /\ OnItsWay /\ DeafTypes
      /\ push.slot = Slot(newest) /\ Len(push.left) = 1
  BY DEF PushPublish, DeafInv, OnItsWay
<1>2. /\ push' \in [step : {"idle", "timing", "copying"}, slot : Slots, left : Seq(Nat)]
      /\ push'.step = "idle" /\ UNCHANGED <<newest, streamStart>>
  <2>1. Tail(push.left) \in Seq(Nat) /\ push.slot \in Slots
    <3>1. PICK q \in Seq(Nat) : q = push.left /\ Len(q) = 1
      BY <1>1 DEF DeafTypes
    <3>2. q # << >>
      BY <3>1
    <3> QED BY <1>1, <3>1, <3>2 DEF DeafTypes
  <2>2. push' = [push EXCEPT !.left = Tail(push.left), !.step = "idle"]
    BY <1>1 DEF PushPublish, DeafTypes
  <2> QED BY <1>1, <2>1, <2>2 DEF PushPublish, peerVars, DeafTypes
<1>3. PICK s : s = Slot(newest) /\ s = Slot(newest)' /\ s \in Slots
  BY <1>1, <1>2, LapSizes DEF Slot, DeafTypes
<1>4. CASE IsNewer(s)
  <2>1. mLastSeqNumIn' = s /\ ignored' = 0
    BY <1>1, <1>3, <1>4 DEF PushPublish
  <2>2. Heard(newest)'
    BY <1>3, <2>1, LapSizes DEF Heard, Slots
  <2>3. (mLastSeqNumIn = Slot(newest))' /\ mLastSeqNumIn' # None
    BY <1>3, <2>1 DEF Slots, None
  <2> QED BY <1>1, <1>2, <1>3, <2>1, <2>2, <2>3 DEF DeafInv, DeafTypes, SlotOrNone
<1>5. CASE ~IsNewer(s)
  <2>1. mLastSeqNumIn' = mLastSeqNumIn /\ ignored' = ignored + 1 /\ mLastSeqNumIn # None
    BY <1>1, <1>3, <1>5 DEF PushPublish, IsNewer
  <2>2. ASSUME NEW j \in 1 .. MaxLost + 1, Heard(newest - j)
        PROVE  Heard(newest)' /\ mLastSeqNumIn # Slot(newest - j)
    <3>1. s <= mLastSeqNumIn /\ mLastSeqNumIn - s <= NumSlots \div 2
          /\ ignored + 1 <= s - mLastSeqNumIn + (NumSlots \div 2) + 1
          /\ mLastSeqNumIn # Slot(newest - j)
      BY <1>1, <1>3, <1>5, <2>2, HeardNext
    <3>2. mLastSeqNumIn \in Slots
      BY <2>2 DEF Heard
    <3> QED BY <1>3, <2>1, <3>1, <3>2 DEF Heard
  <2>3. streamStart # 0
    BY <1>1, <2>1, <2>2 DEF DeafInv
  <2>4. Heard(newest)'
    <3>1. CASE newest = streamStart /\ ignored = 0
      <4>1. s = 0
        BY <1>1, <1>3, <3>1, LapSizes DEF Slot, DeafTypes, Slots
      <4>2. mLastSeqNumIn \in Slots /\ mLastSeqNumIn - s <= NumSlots \div 2
        BY <1>1, <1>3, <1>5, <2>1, <4>1, LapSizes DEF IsNewer, DeafTypes, SlotOrNone, Slots
      <4> QED BY <1>3, <2>1, <3>1, <4>1, <4>2, LapSizes DEF Heard, Slots
    <3> QED BY <1>1, <2>1, <2>2, <3>1 DEF OnItsWay
  <2> QED BY <1>1, <1>2, <1>3, <2>1, <2>3, <2>4 DEF DeafInv, DeafTypes
<1> QED BY <1>4, <1>5

\* Every step keeps the invariant.
LEMMA NextDeafInv == ASSUME ShortLosses PROVE DeafInv /\ [Next]_vars => DeafInv'
<1> SUFFICES ASSUME DeafInv, [Next]_vars PROVE DeafInv'
  OBVIOUS
<1>0. DeafTypes
  BY DEF DeafInv
<1>1. CASE UNCHANGED deafVars
  BY <1>1 DEF deafVars, DeafInv, DeafTypes, OnItsWay, Heard, Slot
<1>2. CASE Arrive
  <2>1. PICK n \in newest + 1 .. newest + 1 + MaxLost :
          /\ newest' = n /\ push' = [step |-> "timing", slot |-> Slot(n), left |-> <<n>>]
    <3>1. PICK n \in newest + 1 .. newest + 1 + MaxLost, r \in 0 .. Revived :
            /\ newest' = n
            /\ push' = [step |-> "timing", slot |-> Slot(n),
                        left |-> [i \in 1 .. r + 1 |-> n - r + i - 1]]
      BY <1>2 DEF Arrive
    <3>2. r = 0 /\ n \in Int
      BY <1>0, <3>1, RegulatorAssumption DEF ShortLosses, DeafTypes
    <3>3. [i \in 1 .. r + 1 |-> n - r + i - 1] = <<n>>
      BY <3>2
    <3> QED BY <3>1, <3>3
  <2>2. push.step = "idle" /\ UNCHANGED <<streamStart, ignored, mLastSeqNumIn>>
    BY <1>2 DEF Arrive
  <2>3. PICK j \in 1 .. MaxLost + 1 : j = n - newest /\ newest = newest' - j
    BY <1>0, <2>1, RegulatorAssumption DEF DeafTypes
  <2>4. Heard(newest) /\ (streamStart = 0 => ignored = 0 /\ mLastSeqNumIn = Slot(newest))
    BY <2>2 DEF DeafInv
  <2>5. PICK m : m = newest /\ m = n - j /\ n = newest'
    BY <2>1, <2>3
  <2>6. Slot(newest)' = Slot(n) /\ Slot(m)' = Slot(m) /\ Heard(m)'
    BY <2>1, <2>2, <2>4, <2>5 DEF Slot, Heard
  <2>7. newest' \in Nat /\ streamStart <= newest' - j /\ streamStart' \in 0 .. newest'
        /\ Slot(n) \in Slots /\ newest' - j = m
    <3>1. n \in Int /\ n - streamStart \in Int
      BY <1>0, RegulatorAssumption DEF DeafTypes
    <3>2. Slot(n) \in Slots
      BY <3>1, Remainders DEF Slot
    <3> QED BY <1>0, <2>1, <2>2, <2>3, <2>5, <3>1, <3>2, RegulatorAssumption DEF DeafTypes
  <2>8. \E i \in 1 .. MaxLost + 1 : /\ (streamStart <= newest - i)' /\ Heard(newest - i)'
                                   /\ (streamStart = 0 => mLastSeqNumIn = Slot(newest - i))'
    BY <2>2, <2>4, <2>5, <2>6, <2>7
  <2>9. OnItsWay'
    BY <2>1, <2>2, <2>6, <2>8 DEF OnItsWay
  <2>10. DeafTypes'
    BY <1>0, <2>1, <2>2, <2>7 DEF DeafTypes
  <2> QED BY <2>1, <2>2, <2>4, <2>8, <2>9, <2>10 DEF DeafInv
<1>3. CASE PeerRestarts
  <2>1. /\ push.step = "idle" /\ streamStart = 0 /\ ignored = 0 /\ ignored' = ignored
        /\ mLastSeqNumIn' = mLastSeqNumIn
        /\ newest' = newest + 1 /\ streamStart' = newest + 1
        /\ push' = [step |-> "timing", slot |-> 0, left |-> <<newest + 1>>]
    BY <1>3 DEF PeerRestarts, DeafInv
  <2>2. newest' \in Nat /\ newest' = streamStart' /\ streamStart' # 0
        /\ newest' - streamStart' = 0
    BY <1>0, <2>1 DEF DeafTypes
  <2>3. Slot(newest)' = 0 /\ 0 \in Slots
    <3>1. 0 \in Slots
      BY LapSizes DEF Slots
    <3>2. 0 % NumSlots = 0
      BY <3>1, LapSizes
    <3> QED BY <2>2, <3>1, <3>2 DEF Slot
  <2>4. OnItsWay'
    BY <2>1, <2>2, <2>3 DEF OnItsWay
  <2>5. DeafTypes'
    BY <1>0, <2>1, <2>2, <2>3 DEF DeafTypes
  <2> QED BY <1>0, <2>1, <2>2, <2>4, <2>5 DEF DeafInv
<1>4. CASE PushTiming
  <2>1. /\ push.step = "timing" /\ push'.step = "copying" /\ push'.slot = push.slot
        /\ push'.left = push.left
        /\ UNCHANGED <<newest, streamStart, ignored, mLastSeqNumIn>>
    BY <1>4 DEF PushTiming, peerVars, DeafInv, DeafTypes
  <2>2. push' \in [step : {"idle", "timing", "copying"}, slot : Slots, left : Seq(Nat)]
    BY <1>0, <1>4 DEF PushTiming, DeafTypes
  <2>3. \A n : Slot(n)' = Slot(n) /\ (Heard(n)' <=> Heard(n))
    BY <2>1 DEF Heard, Slot
  <2>4. OnItsWay'
    BY <2>1, <2>3 DEF DeafInv, OnItsWay
  <2>5. DeafTypes'
    BY <1>0, <2>1, <2>2 DEF DeafTypes
  <2> QED BY <2>1, <2>3, <2>4, <2>5 DEF DeafInv
<1>5. CASE PushPublish
  BY <1>5, PublishDeafInv
<1>6. Tick \/ Pull \/ UNCHANGED vars => UNCHANGED deafVars
  BY DEF Tick, Pull, PullSilence, PullStashed, PullUnderrun, PullDeferred, PullGlitch, PullNext,
     PullCopied, NoPacket, deafVars, vars, peerVars, receiverVars
<1> QED BY <1>1, <1>2, <1>3, <1>4, <1>5, <1>6 DEF Next, Push

\* A restarted peer is heard within half a lap of its packets, whatever is lost and
\* late and wherever in the lap its former process stopped (Regulator.cpp:622-625).
THEOREM DeafnessIsBounded == ASSUME ShortLosses PROVE Spec => []DeafForHalfALap
<1>1. DeafInv => DeafForHalfALap
  <2> SUFFICES ASSUME DeafInv PROVE DeafForHalfALap
    OBVIOUS
  <2>1. ASSUME NEW n, Heard(n), n \in {newest} \cup {newest - j : j \in 1 .. MaxLost + 1}
        PROVE  DeafForHalfALap
    <3>1. PICK s, h : s = Slot(n) /\ h = NumSlots \div 2
      OBVIOUS
    <3>2. n - streamStart \in Int
      BY <2>1, RegulatorAssumption DEF DeafInv, DeafTypes
    <3>3. s \in Slots /\ h \in Nat
      BY <3>1, <3>2, LapSizes, Remainders DEF Slot
    <3>4. /\ s <= mLastSeqNumIn /\ ignored <= s - mLastSeqNumIn + h + 1
          /\ mLastSeqNumIn \in Slots
      BY <2>1, <3>1 DEF Heard
    <3>5. ignored <= h + 1
      BY <3>3, <3>4 DEF DeafInv, DeafTypes, Slots
    <3> QED BY <3>1, <3>5 DEF DeafForHalfALap
  <2>2. CASE ignored = 0
    BY <2>2, LapSizes DEF DeafForHalfALap
  <2> QED BY <2>1, <2>2 DEF DeafInv, OnItsWay
<1> QED BY <1>1, InitDeafInv, NextDeafInv, PTL DEF Spec

-----------------------------------------------------------------------------
(* Types *)

PushRecords == [step : {"idle", "timing", "copying"}, slot : Slots, left : Seq(Nat)]

\* TypeOK, and what is left of a datagram while it is pushed.
RegulatorTypes ==
  /\ TypeOK
  /\ push \in PushRecords /\ (push.step # "idle" => push.left # << >>)

\* A set of natural numbers that is not empty has a least element.
LEMMA Least ==
  ASSUME NEW S \in SUBSET Nat, S # {}
  PROVE  \E n \in S : \A m \in S : n <= m
<1>1. PICK n \in S : \A m \in S : ~(<<m, n>> \in OpToRel(<, Nat))
  BY NatLessThanWellFounded, WFMin
<1>2. \A m \in S : ~(m < n)
  BY <1>1 DEF OpToRel
<1> QED BY <1>2

\* A set of numbers up to a bound has a greatest element, and Max finds it.
LEMMA Greatest ==
  ASSUME NEW d \in Int, NEW S \in SUBSET (0 .. d), S # {}
  PROVE  Max(S) \in S /\ \A y \in S : y <= Max(S)
<1> DEFINE B == {d - x : x \in S}
<1>1. B \in SUBSET Nat /\ B # {}
  OBVIOUS
<1> HIDE DEF B
<1>2. PICK n \in B : \A m \in B : n <= m
  BY <1>1, Least
<1>3. PICK x \in S : n = d - x
  BY <1>2 DEF B
<1>4. \A y \in S : d - y \in B
  BY DEF B
<1>5. \A y \in S : x >= y
  BY <1>2, <1>3, <1>4
<1>6. \E z \in S : \A y \in S : z >= y
  BY <1>5
<1>7. Max(S) \in S /\ \A y \in S : Max(S) >= y
  BY <1>6 DEF Max
<1> QED BY <1>7

\* The packets behind mLastSeqNumOut, by their distance from the newest, are in
\* slots; there is a candidate whenever one is viable.
LEMMA Distances ==
  ASSUME mLastSeqNumIn \in Slots, mLastSeqNumOut \in SlotOrNone
  PROVE  /\ NewPackets \in 0 .. NumSlots
         /\ Viable \subseteq Candidates /\ Candidates \subseteq 0 .. NewPackets - 1
         /\ GoodSkipped \subseteq Candidates
         /\ \A i \in 0 .. NumSlots - 1 : At(i) \in Slots
<1>1. NewPackets \in 0 .. NumSlots
  BY LapSizes DEF NewPackets, Slots, SlotOrNone, None
<1>2. \A i \in 0 .. NumSlots - 1 : At(i) \in Slots
  BY LapSizes DEF At, Slots
<1> QED BY <1>1, <1>2 DEF Viable, Candidates, GoodSkipped

\* What pullPacket settles on is the oldest viable packet, in a slot.
LEMMA BestFound ==
  ASSUME mLastSeqNumIn \in Slots, mLastSeqNumOut \in SlotOrNone, Viable # {}
  PROVE  /\ Max(Viable) \in Viable /\ Max(Viable) \in 0 .. NewPackets - 1
         /\ Max(Viable) \in 0 .. NumSlots - 1
         /\ Best = At(Max(Viable)) /\ Best \in Slots
         /\ GoodSkipped # {} => /\ Max(GoodSkipped) \in Max(Viable) + 1 .. NewPackets - 1
                                /\ At(Max(GoodSkipped)) \in Slots
<1>1. PICK d \in Int : d = NewPackets - 1 /\ d <= NumSlots - 1
  BY Distances, LapSizes
<1>2. Viable \in SUBSET (0 .. d) /\ GoodSkipped \in SUBSET (0 .. d)
  BY <1>1, Distances
<1>3. Max(Viable) \in Viable
  BY <1>2, Greatest
<1>4. GoodSkipped # {} => Max(GoodSkipped) \in GoodSkipped
  BY <1>2, Greatest
<1>5. \A i \in GoodSkipped : i > Max(Viable)
  BY DEF GoodSkipped
<1>6. PICK m : m = Max(Viable)
  OBVIOUS
<1>7. m \in 0 .. d /\ m \in 0 .. NumSlots - 1 /\ At(m) \in Slots
  <2>1. m \in 0 .. d
    BY <1>2, <1>3, <1>6
  <2>2. m \in 0 .. NumSlots - 1
    BY <1>1, <2>1, LapSizes
  <2> QED BY <2>1, <2>2, Distances
<1>8. ASSUME GoodSkipped # {}
      PROVE  Max(GoodSkipped) \in m + 1 .. d /\ At(Max(GoodSkipped)) \in Slots
  <2>1. PICK g : g = Max(GoodSkipped)
    OBVIOUS
  <2>2. g \in 0 .. d /\ g > m
    BY <1>2, <1>4, <1>5, <1>6, <1>8, <2>1
  <2>3. g \in 0 .. NumSlots - 1 /\ g \in m + 1 .. d
    BY <1>1, <1>7, <2>2, LapSizes
  <2> QED BY <2>1, <2>3, Distances
<1> QED BY <1>1, <1>3, <1>6, <1>7, <1>8 DEF Best

\* The buffer is empty when the first packet arrives.
LEMMA InitTypes == Init => RegulatorTypes
<1> SUFFICES ASSUME Init PROVE RegulatorTypes
  OBVIOUS
<1>1. newest \in Slots /\ newest \in Nat /\ sendStart \in Int
  BY RegulatorAssumption DEF Init, Slots
<1>2. push \in PushRecords /\ push.left # << >>
  BY <1>1 DEF Init, PushRecords
<1>3. push.step \in {"idle", "timing", "copying"} /\ push.slot \in Slots /\ push.left \in Seq(Nat)
  BY <1>2 DEF PushRecords
<1> QED BY <1>1, <1>2, <1>3 DEF Init, RegulatorTypes, TypeOK, SlotOrNone, Numbers

\* Pushing keeps the types.
LEMMA PushTypes == RegulatorTypes /\ (Push \/ Arrive \/ PeerRestarts \/ Tick) => RegulatorTypes'
<1> SUFFICES ASSUME RegulatorTypes, Push \/ Arrive \/ PeerRestarts \/ Tick PROVE RegulatorTypes'
  OBVIOUS
<1> USE DEF RegulatorTypes
<1>0. TypeOK /\ push \in PushRecords /\ push.slot \in Slots /\ push.left \in Seq(Nat)
  BY DEF PushRecords
<1>1. ASSUME pull' = pull, mLastSeqNumOut' = mLastSeqNumOut, mStashedPacket' = mStashedPacket,
             mSkipped' = mSkipped, firstTaken' = firstTaken, lastTaken' = lastTaken,
             taken' = taken, calls' = calls, mMsecTolerance' \in Tolerances,
             now' \in Nat, sendStart' \in Int, streamStart' \in Nat, newest' \in Nat,
             ignored' \in Nat, mIncomingTiming' \in [Slots -> Nat],
             mSlots' \in [Slots -> Numbers], mLastSeqNumIn' \in SlotOrNone,
             push' \in PushRecords, push'.step # "idle" => push'.left # << >>
      PROVE  RegulatorTypes'
  BY <1>0, <1>1 DEF TypeOK, PushRecords
<1>2. CASE Tick
  BY <1>0, <1>1, <1>2 DEF Tick, peerVars, receiverVars, TypeOK
<1>3. CASE Arrive
  <2>1. PICK n \in newest + 1 .. newest + 1 + MaxLost, r \in 0 .. Revived :
          /\ newest' = n
          /\ push' = [step |-> "timing", slot |-> Slot(n),
                      left |-> [i \in 1 .. r + 1 |-> n - r + i - 1]]
          /\ n - r > newest
    BY <1>3 DEF Arrive
  <2>2. n \in Nat /\ r \in Nat /\ n - streamStart \in Int /\ n - r \in Nat
    BY <1>0, <2>1, RegulatorAssumption DEF TypeOK
  <2>3. Slot(n) \in Slots
    BY <2>2, Remainders DEF Slot
  <2> DEFINE q == [i \in 1 .. r + 1 |-> n - r + i - 1]
  <2>4. q \in Seq(Nat) /\ Len(q) = r + 1 /\ q # << >>
    BY <2>2
  <2> HIDE DEF q
  <2>5. push' \in PushRecords /\ push'.left # << >>
    BY <2>1, <2>3, <2>4 DEF PushRecords, q
  <2> QED BY <1>0, <1>1, <1>3, <2>1, <2>2, <2>5 DEF Arrive, TypeOK, pullVars
<1>4. CASE PeerRestarts
  <2>1. /\ newest' = newest + 1 /\ streamStart' = newest + 1 /\ sendStart' = now
        /\ push' = [step |-> "timing", slot |-> 0, left |-> <<newest + 1>>]
    BY <1>4 DEF PeerRestarts
  <2>2. newest + 1 \in Nat /\ 0 \in Slots /\ <<newest + 1>> \in Seq(Nat)
    BY <1>0, LapSizes DEF TypeOK, Slots
  <2>3. push' \in PushRecords /\ push'.left # << >>
    BY <2>1, <2>2 DEF PushRecords
  <2> QED BY <1>0, <1>1, <1>4, <2>1, <2>2, <2>3 DEF PeerRestarts, TypeOK, pullVars
<1>5. CASE PushTiming
  <2>1. push' \in PushRecords /\ push'.left # << >>
    BY <1>0, <1>5 DEF PushTiming, PushRecords
  <2>2. mIncomingTiming' \in [Slots -> Nat] /\ mSlots' \in [Slots -> Numbers]
    BY <1>0, <1>5 DEF PushTiming, TypeOK, Numbers
  <2> QED BY <1>0, <1>1, <1>5, <2>1, <2>2 DEF PushTiming, TypeOK, pullVars, peerVars
<1>6. CASE PushPublish
  <2>1. push.left # << >> /\ Head(push.left) \in Nat /\ Tail(push.left) \in Seq(Nat)
        /\ (Tail(push.left) = << >> => Len(push.left) = 1)
    <3>1. PICK q \in Seq(Nat) : q = push.left /\ q # << >>
      BY <1>0, <1>6 DEF PushPublish
    <3>2. PICK t, n : t = Tail(q) /\ n = Len(q)
      OBVIOUS
    <3>3. Head(q) \in Nat /\ t \in Seq(Nat) /\ n \in Nat /\ Len(t) = n - 1
      BY <3>1, <3>2
    <3>4. t = << >> => n = 1
      BY <3>3
    <3> QED BY <3>1, <3>2, <3>3, <3>4
  <2>2. push' \in PushRecords /\ (push'.step # "idle" => push'.left # << >>)
    BY <1>0, <1>6, <2>1 DEF PushPublish, PushRecords
  <2>3. mSlots' \in [Slots -> Numbers]
    BY <1>0, <1>6, <2>1 DEF PushPublish, TypeOK, Numbers
  <2>4. mLastSeqNumIn' \in SlotOrNone /\ ignored' \in Nat
    <3>1. ignored \in Nat /\ mLastSeqNumIn \in SlotOrNone /\ push.slot \in SlotOrNone
      BY <1>0 DEF TypeOK, SlotOrNone
    <3>2. \/ mLastSeqNumIn' = push.slot /\ ignored' = 0
          \/ mLastSeqNumIn' = mLastSeqNumIn /\ ignored' = ignored + 1
      BY <1>6 DEF PushPublish
    <3> QED BY <3>1, <3>2
  <2> QED BY <1>0, <1>1, <1>6, <2>2, <2>3, <2>4 DEF PushPublish, TypeOK, pullVars, peerVars
<1> QED BY <1>2, <1>3, <1>4, <1>5, <1>6 DEF Push

\* Pulling keeps the types.
LEMMA PullTypes == RegulatorTypes /\ Pull => RegulatorTypes'
<1> SUFFICES ASSUME RegulatorTypes, Pull PROVE RegulatorTypes'
  OBVIOUS
<1>0. TypeOK /\ mLastSeqNumOut \in SlotOrNone /\ mStashedPacket \in SlotOrNone
  BY DEF RegulatorTypes, TypeOK
<1>1. ASSUME UNCHANGED <<now, peerVars, receiverVars, mMsecTolerance>>,
             pull' \in [step : {"idle", "copying"}, slot : SlotOrNone, was : Numbers],
             mLastSeqNumOut' \in SlotOrNone, mStashedPacket' \in SlotOrNone,
             mSkipped' \in Nat, calls' \in Nat, taken' \in Nat,
             firstTaken' \in Numbers, lastTaken' \in Numbers
      PROVE  RegulatorTypes'
  BY <1>0, <1>1 DEF RegulatorTypes, TypeOK, PushRecords, peerVars, receiverVars
<1>2. Fresh => mLastSeqNumIn \in Slots
  BY <1>0 DEF Fresh, Silent, TypeOK, SlotOrNone
<1>3. ASSUME NEW s \in Slots, Copy(s)
      PROVE  pull' \in [step : {"idle", "copying"}, slot : SlotOrNone, was : Numbers]
  BY <1>0, <1>3 DEF Copy, TypeOK, SlotOrNone
<1>4. calls \in Nat /\ calls + 1 \in Nat /\ mSkipped \in Nat /\ taken \in Nat
      /\ firstTaken \in Numbers /\ lastTaken \in Numbers
      /\ pull \in [step : {"idle", "copying"}, slot : SlotOrNone, was : Numbers]
  BY <1>0 DEF TypeOK
<1>5. CASE PullSilence \/ PullUnderrun
  BY <1>0, <1>1, <1>4, <1>5 DEF PullSilence, PullUnderrun, NoPacket
<1>6. CASE PullStashed
  <2>1. mStashedPacket \in Slots /\ Copy(mStashedPacket)
    BY <1>0, <1>6 DEF PullStashed, SlotOrNone
  <2>2. None \in SlotOrNone
    BY DEF SlotOrNone
  <2> QED BY <1>0, <1>1, <1>3, <1>4, <1>6, <2>1, <2>2 DEF PullStashed, NoPacket
<1>7. ASSUME Found
      PROVE  /\ Best \in Slots /\ Best \in SlotOrNone /\ Skipped \in Nat
             /\ GoodSkipped # {} => At(Max(GoodSkipped)) \in Slots
  <2>1. mLastSeqNumIn \in Slots /\ Viable # {}
    BY <1>2, <1>7 DEF Found
  <2>2. Best \in Slots /\ (GoodSkipped # {} => At(Max(GoodSkipped)) \in Slots)
    BY <1>0, <2>1, BestFound
  <2>3. Skipped \in Nat
    BY <1>0, <2>2, LapSizes DEF Skipped, SlotOrNone, Slots
  <2> QED BY <2>2, <2>3 DEF SlotOrNone
<1>8. CASE PullDeferred
  BY <1>0, <1>1, <1>3, <1>4, <1>7, <1>8 DEF PullDeferred, NoPacket
<1>9. CASE PullGlitch
  <2>1. mSkipped + Skipped \in Nat
    BY <1>4, <1>7, <1>9 DEF PullGlitch
  <2> QED BY <1>0, <1>1, <1>4, <1>7, <1>9, <2>1 DEF PullGlitch, NoPacket
<1>10. CASE PullNext
  BY <1>0, <1>1, <1>3, <1>4, <1>7, <1>10 DEF PullNext, NoPacket
<1>11. CASE PullCopied
  <2>1. pull.slot \in SlotOrNone /\ pull.was \in Numbers /\ Torn \in Numbers
        /\ None \in SlotOrNone /\ None \in Numbers
    BY <1>4 DEF SlotOrNone, Numbers
  <2>2. lastTaken' \in Numbers /\ firstTaken' \in Numbers
    BY <1>4, <1>11, <2>1 DEF PullCopied
  <2> QED BY <1>0, <1>1, <1>4, <1>11, <2>1, <2>2 DEF PullCopied
<1> QED BY <1>5, <1>6, <1>8, <1>9, <1>10, <1>11 DEF Pull

\* Every step keeps the types.
LEMMA NextTypes == RegulatorTypes /\ [Next]_vars => RegulatorTypes'
<1>1. RegulatorTypes /\ UNCHANGED vars => RegulatorTypes'
  BY DEF RegulatorTypes, TypeOK, vars, peerVars, receiverVars, pullVars
<1> QED BY <1>1, PushTypes, PullTypes DEF Next

\* Whatever the constants, the variables stay in range: the slots pullPacket
\* computes by going round the lap, too (Regulator.cpp:654-698).
THEOREM RegulatorTypeCorrect == Spec => []TypeOK
<1>1. RegulatorTypes => TypeOK
  BY DEF RegulatorTypes
<1> QED BY <1>1, InitTypes, NextTypes, PTL DEF Spec

-----------------------------------------------------------------------------
(* What is skipped *)

\* The first packets are of the first lap, and a peer is not restarted before the
\* first one was played.
StartsInFirstLap ==
  /\ \A n \in FirstNumbers, t \in Tolerances : n + t + Jitter + MaxStall + 2 <= NumSlots
  /\ \A t \in Tolerances : t + Jitter + MaxStall + 1 < RestartGap

\* Packet n may have arrived before the first one was played.
Early(n) == n \in Nat /\ sendStart + n <= now

\* The time before the first packet is played.
StartTimes ==
  /\ streamStart = 0
  /\ \E t \in Tolerances : calls <= t + 1
  /\ now <= calls + MaxStall
  /\ \E n \in FirstNumbers : sendStart >= -n - Jitter
  /\ -Jitter <= sendStart + newest /\ Early(newest)

\* Until then a slot is untouched or holds the packet of its number, but for the
\* one that is written.
StartSlots ==
  /\ \A s \in Slots : \/ mSlots[s] \in {None, s}
                      \/ mSlots[s] = Torn /\ push.step = "copying" /\ s = newest
  /\ \A s \in Slots : mSlots[s] = None => mIncomingTiming[s] = 0
  /\ mLastSeqNumIn = None => now = 0 /\ push.step # "idle"
  /\ mLastSeqNumIn # None => /\ mSlots[mLastSeqNumIn] = mLastSeqNumIn
                             /\ mLastSeqNumIn <= newest
  /\ push.step # "idle" => /\ push.slot = newest /\ push.left = <<newest>>
                           /\ mLastSeqNumIn < newest

\* Nothing was played or skipped; what is copied is a packet.
StartPull ==
  /\ mLastSeqNumOut = None /\ mStashedPacket = None /\ mSkipped = 0
  /\ pull.step = "copying" =>
       /\ pull.slot \in Slots /\ pull.slot <= mLastSeqNumIn
       /\ mSlots[pull.slot] = pull.slot /\ pull.was = pull.slot

Starting == StartTimes /\ StartSlots /\ StartPull

\* Slot s is accounted for when n packets were taken.
Accounted(s, n) == Congruent(s - firstTaken, n - 1 + mSkipped)

\* The inductive invariant of the accounts: a packet that is being copied counts.
Accounts ==
  /\ firstTaken \in Nat /\ mLastSeqNumOut \in Slots
  /\ pull.step = "idle" =>
       IF mStashedPacket = None THEN Accounted(mLastSeqNumOut, taken)
                                ELSE Accounted(mStashedPacket - 1, taken)
  /\ pull.step = "copying" =>
       /\ pull.slot \in Slots /\ Accounted(pull.slot, taken + 1)
       /\ mStashedPacket # None => Accounted(mStashedPacket - 1, taken + 1)

SkipInv == RegulatorTypes /\ (taken = 0 => Starting) /\ (taken > 0 => Accounts)

\* Only packets of the first lap arrive before the first one is played.
LEMMA EarlySlots ==
  ASSUME StartsInFirstLap, RegulatorTypes, StartTimes, NEW n, Early(n)
  PROVE  n \in Slots /\ Slot(n) = n
<1>1. PICK t \in Tolerances : calls <= t + 1
  BY DEF StartTimes
<1>2. PICK f \in FirstNumbers : sendStart >= -f - Jitter
  BY DEF StartTimes
<1>3. t \in Nat /\ f \in Nat /\ Jitter \in Nat /\ MaxStall \in Nat
      /\ f + t + Jitter + MaxStall + 2 <= NumSlots
  BY <1>1, <1>2, RegulatorAssumption DEF StartsInFirstLap
<1>4. now \in Nat /\ calls \in Nat /\ sendStart \in Int /\ n \in Nat /\ sendStart + n <= now
      /\ now <= calls + MaxStall
  BY DEF RegulatorTypes, TypeOK, Early, StartTimes
<1>5. n \in Slots
  BY <1>1, <1>2, <1>3, <1>4, LapSizes DEF Slots
<1>6. n - streamStart = n
  BY <1>4 DEF StartTimes
<1> QED BY <1>5, <1>6, Remainders DEF Slot

\* The peer is not restarted before the first packet is played.
LEMMA NoEarlyRestart ==
  ASSUME StartsInFirstLap, RegulatorTypes, StartTimes, PeerRestarts
  PROVE  FALSE
<1>1. PICK t \in Tolerances : calls <= t + 1
  BY DEF StartTimes
<1>2. t \in Nat /\ t + Jitter + MaxStall + 1 < RestartGap /\ Jitter \in Nat /\ MaxStall \in Nat
      /\ RestartGap \in Nat
  BY <1>1, RegulatorAssumption DEF StartsInFirstLap
<1>3. now \in Nat /\ calls \in Nat /\ sendStart \in Int /\ newest \in Nat
      /\ now <= calls + MaxStall /\ -Jitter <= sendStart + newest /\ streamStart = 0
  BY DEF RegulatorTypes, TypeOK, StartTimes
<1>4. now >= sendStart + newest - streamStart + RestartGap
  BY DEF PeerRestarts, DueAt
<1> QED BY <1>1, <1>2, <1>3, <1>4

\* The first packet that pullPacket takes is there, and nothing is skipped for it.
LEMMA FirstFound ==
  ASSUME RegulatorTypes, Starting, Fresh
  PROVE  /\ mLastSeqNumIn \in Slots /\ Viable # {} /\ Skipped = 0
         /\ Best \in Slots /\ Best <= mLastSeqNumIn /\ mSlots[Best] = Best
<1>1. /\ mLastSeqNumIn \in Slots /\ now > mMsecTolerance /\ now \in Nat /\ mMsecTolerance \in Nat
      /\ newest \in Nat /\ mIncomingTiming \in [Slots -> Nat]
  BY RegulatorAssumption DEF RegulatorTypes, TypeOK, SlotOrNone, Fresh, Silent
<1>2. /\ mLastSeqNumOut = None /\ mLastSeqNumIn # None
      /\ mSlots[mLastSeqNumIn] = mLastSeqNumIn /\ mLastSeqNumIn <= newest
  <2>1. mLastSeqNumIn # None
    BY <1>1 DEF None, Slots
  <2>2. mSlots[mLastSeqNumIn] = mLastSeqNumIn /\ mLastSeqNumIn <= newest
    BY <2>1 DEF Starting, StartSlots
  <2> QED BY <2>1, <2>2 DEF Starting, StartPull
<1>3. NewPackets = mLastSeqNumIn + 1
  BY <1>1, <1>2, LapSizes DEF NewPackets, None, Slots
<1>4. 0 \in Viable
  BY <1>1, <1>2, <1>3, LapSizes DEF Viable, Candidates, Missing, WithinTolerance, Slots
<1>5. PICK m, b : m = Max(Viable) /\ b = Best
  OBVIOUS
<1>6. m \in Viable /\ m \in 0 .. mLastSeqNumIn /\ b = At(m) /\ b \in Slots
  <2>1. mLastSeqNumOut \in SlotOrNone /\ Viable # {}
    BY <1>2, <1>4 DEF SlotOrNone
  <2>2. NewPackets - 1 = mLastSeqNumIn
    BY <1>1, <1>3, LapSizes DEF Slots
  <2> QED BY <1>1, <1>5, <2>1, <2>2, BestFound
<1>7. b = mLastSeqNumIn - m
  BY <1>1, <1>6, LapSizes DEF At, Slots
<1>8. mSlots[b] = b
  <2>1. CASE m = 0
    <3>1. b = mLastSeqNumIn
      BY <1>1, <1>7, <2>1, LapSizes DEF Slots
    <3> QED BY <1>2, <3>1
  <2>2. CASE m # 0
    <3>1. now - mIncomingTiming[b] <= mMsecTolerance
      BY <1>6, <2>2 DEF Viable, WithinTolerance
    <3>2. mIncomingTiming[b] # 0
      BY <1>1, <1>6, <3>1
    <3>3. b # newest
      BY <1>1, <1>2, <1>6, <1>7, <2>2, LapSizes DEF Slots
    <3> QED BY <1>6, <3>2, <3>3 DEF Starting, StartSlots
  <2> QED BY <2>1, <2>2
<1>9. Skipped = 0
  BY <1>2 DEF Skipped
<1>10. b <= mLastSeqNumIn
  BY <1>1, <1>6, <1>7, LapSizes DEF Slots
<1> QED BY <1>1, <1>4, <1>5, <1>6, <1>8, <1>9, <1>10

\* Nothing of the time before the first packet changes.
startVars == <<now, sendStart, streamStart, newest, push, mIncomingTiming, mSlots, mLastSeqNumIn,
               pull, mLastSeqNumOut, mStashedPacket, mSkipped, calls, taken>>

\* Before the first packet is played, the network and the receiver's thread.
LEMMA StartPush ==
  ASSUME StartsInFirstLap, Revived = 0, RegulatorTypes, RegulatorTypes', taken = 0, Starting,
         Push \/ Arrive \/ PeerRestarts \/ Tick
  PROVE  taken' = 0 /\ Starting'
<1>0. /\ TypeOK /\ StartTimes /\ StartSlots /\ StartPull
      /\ push \in PushRecords /\ (push.step # "idle" => push.left # << >>)
  BY DEF RegulatorTypes, Starting
<1>1. newest \in Slots
  BY <1>0, EarlySlots DEF StartTimes
<1>2. CASE Tick
  <2>1. /\ now' = now + 1 /\ now - calls < MaxStall /\ push.step = "idle" /\ pull.step = "idle"
        /\ UNCHANGED <<peerVars, receiverVars, pull, mLastSeqNumOut, mStashedPacket, mSkipped,
                       calls, taken>>
    BY <1>2 DEF Tick
  <2>2. now \in Nat /\ calls \in Nat /\ sendStart \in Int /\ newest \in Nat /\ MaxStall \in Nat
    BY <1>0, RegulatorAssumption DEF TypeOK
  <2>3. StartTimes'
    BY <1>0, <2>1, <2>2 DEF StartTimes, Early, peerVars
  <2>4. StartSlots' /\ StartPull'
    BY <1>0, <2>1 DEF StartSlots, StartPull, peerVars, receiverVars
  <2> QED BY <2>1, <2>3, <2>4 DEF Starting
<1>3. CASE Arrive
  <2>1. PICK n \in newest + 1 .. newest + 1 + MaxLost :
          /\ newest' = n /\ push' = [step |-> "timing", slot |-> Slot(n), left |-> <<n>>]
          /\ DueAt(n) <= now
    <3>1. PICK n \in newest + 1 .. newest + 1 + MaxLost, r \in 0 .. Revived :
            /\ newest' = n /\ DueAt(n) <= now
            /\ push' = [step |-> "timing", slot |-> Slot(n),
                        left |-> [i \in 1 .. r + 1 |-> n - r + i - 1]]
      BY <1>3 DEF Arrive
    <3>2. r = 0 /\ n \in Int
      BY <1>0, <3>1, RegulatorAssumption DEF TypeOK
    <3>3. [i \in 1 .. r + 1 |-> n - r + i - 1] = <<n>>
      BY <3>2
    <3> QED BY <3>1, <3>3
  <2>2. /\ push.step = "idle" /\ newest \in Nat /\ sendStart \in Int /\ now \in Nat
        /\ UNCHANGED <<now, sendStart, streamStart, mIncomingTiming, mSlots, mLastSeqNumIn, pull,
                       mLastSeqNumOut, mStashedPacket, mSkipped, calls, taken>>
    BY <1>0, <1>3 DEF Arrive, pullVars, TypeOK
  <2>3. n \in Nat /\ n > newest /\ Early(n)
    BY <1>0, <2>1, <2>2, RegulatorAssumption DEF Early, DueAt, StartTimes
  <2>4. n \in Slots /\ Slot(n) = n
    BY <1>0, <2>3, EarlySlots
  <2>5. StartTimes'
    BY <1>0, <2>1, <2>2, <2>3, RegulatorAssumption DEF StartTimes, Early
  <2>6. mLastSeqNumIn # None /\ mLastSeqNumIn < n /\ mLastSeqNumIn <= n
    <3>1. mLastSeqNumIn # None /\ mLastSeqNumIn <= newest
      BY <1>0, <2>2 DEF StartSlots
    <3>2. mLastSeqNumIn \in Slots
      BY <1>0, <3>1 DEF TypeOK, SlotOrNone
    <3>3. mLastSeqNumIn \in Nat
      BY <3>2, LapSizes DEF Slots
    <3> QED BY <2>2, <2>3, <3>1, <3>3
  <2>7. push'.step = "timing" /\ push'.slot = n /\ push'.left = <<n>>
    BY <2>1, <2>4
  <2>8. StartSlots'
    BY <1>0, <2>1, <2>2, <2>6, <2>7 DEF StartSlots
  <2>9. StartPull'
    BY <1>0, <2>2 DEF StartPull
  <2> QED BY <2>2, <2>5, <2>8, <2>9 DEF Starting
<1>4. CASE PeerRestarts
  BY <1>0, <1>4, NoEarlyRestart
<1>5. ASSUME push.step # "idle",
             UNCHANGED <<now, sendStart, streamStart, newest, pull, mLastSeqNumOut,
                         mStashedPacket, mSkipped, calls, taken>>,
             NEW v, mSlots' = [mSlots EXCEPT ![newest] = v],
             mLastSeqNumIn' = None => mLastSeqNumIn = None,
             mLastSeqNumIn' # None => mLastSeqNumIn <= mLastSeqNumIn',
             StartSlots'
      PROVE  taken' = 0 /\ Starting'
  <2>1. StartTimes'
    BY <1>0, <1>5 DEF StartTimes, Early
  <2>2. ASSUME pull.step = "copying"
        PROVE  /\ pull.slot <= mLastSeqNumIn' /\ mSlots'[pull.slot] = pull.slot
    <3>1. PICK s, l, k : s = pull.slot /\ l = mLastSeqNumIn /\ k = mLastSeqNumIn'
      OBVIOUS
    <3>2. /\ s \in Slots /\ s <= l /\ mSlots[s] = s /\ l < newest /\ l \in SlotOrNone
          /\ k \in SlotOrNone
      BY <1>0, <1>5, <2>2, <3>1 DEF StartPull, StartSlots, TypeOK, RegulatorTypes
    <3>3. l # None /\ s # newest /\ newest \in Nat /\ l \in Slots
      BY <1>1, <3>2, LapSizes DEF Slots, SlotOrNone, None
    <3>4. k # None /\ l <= k /\ k \in Slots
      BY <1>5, <3>1, <3>2, <3>3 DEF SlotOrNone
    <3>5. s <= k
      BY <3>2, <3>3, <3>4, LapSizes DEF Slots
    <3>6. mSlots'[s] = s
      BY <1>0, <1>5, <3>2, <3>3 DEF TypeOK
    <3> QED BY <3>1, <3>5, <3>6
  <2>3. StartPull'
    BY <1>0, <1>5, <2>2 DEF StartPull
  <2> QED BY <1>5, <2>1, <2>3 DEF Starting
<1>6. /\ newest \in Nat /\ mSlots \in [Slots -> Numbers] /\ mIncomingTiming \in [Slots -> Nat]
      /\ mLastSeqNumIn \in SlotOrNone
  BY <1>0 DEF TypeOK
<1>7. CASE PushTiming
  <2>1. /\ push.step = "timing" /\ push.slot = newest /\ push.left = <<newest>>
        /\ mLastSeqNumIn < newest
    BY <1>0, <1>7 DEF PushTiming, StartSlots
  <2>2. /\ mIncomingTiming' = [mIncomingTiming EXCEPT ![newest] = now]
        /\ mSlots' = [mSlots EXCEPT ![newest] = Torn]
        /\ push'.step = "copying" /\ push'.slot = newest /\ push'.left = <<newest>>
        /\ UNCHANGED <<now, sendStart, streamStart, newest, pull, mLastSeqNumOut,
                       mStashedPacket, mSkipped, calls, taken, mLastSeqNumIn>>
    BY <1>0, <1>7, <2>1 DEF PushTiming, pullVars, peerVars, PushRecords
  <2>3. StartSlots'
    <3>1. mLastSeqNumIn # None => mLastSeqNumIn \in Slots /\ mLastSeqNumIn # newest
      BY <1>1, <1>6, <2>1, LapSizes DEF SlotOrNone, Slots
    <3>2. Torn # None
      BY DEF Torn, None
    <3>3. mLastSeqNumIn # None => mSlots'[mLastSeqNumIn] = mLastSeqNumIn
      BY <1>0, <1>6, <2>2, <3>1 DEF StartSlots
    <3>4. ASSUME NEW s \in Slots
          PROVE  /\ mSlots'[s] \in {None, s} \/ (mSlots'[s] = Torn /\ s = newest)
                 /\ mSlots'[s] = None => mIncomingTiming'[s] = 0
      BY <1>0, <1>1, <1>6, <2>1, <2>2, <3>2, <3>4 DEF StartSlots
    <3> QED BY <1>0, <2>1, <2>2, <3>3, <3>4 DEF StartSlots
  <2>4. mLastSeqNumIn # None => mLastSeqNumIn <= mLastSeqNumIn
    BY <1>6, LapSizes DEF SlotOrNone, Slots
  <2> QED BY <1>5, <2>1, <2>2, <2>3, <2>4
<1>8. CASE PushPublish
  <2>1. /\ push.step = "copying" /\ push.slot = newest /\ push.left = <<newest>>
        /\ mLastSeqNumIn < newest
    BY <1>0, <1>8 DEF PushPublish, StartSlots
  <2>2. Len(push.left) = 1 /\ Head(push.left) = newest /\ IsNewer(newest)
    BY <1>6, <2>1, LapSizes DEF IsNewer, SlotOrNone, Slots
  <2>3. /\ mSlots' = [mSlots EXCEPT ![newest] = newest]
        /\ mLastSeqNumIn' = newest /\ push'.step = "idle"
        /\ UNCHANGED <<now, sendStart, streamStart, newest, pull, mLastSeqNumOut,
                       mStashedPacket, mSkipped, calls, taken, mIncomingTiming>>
    BY <1>0, <1>8, <2>1, <2>2 DEF PushPublish, pullVars, peerVars, PushRecords
  <2>4. StartSlots'
    <3>1. newest # None /\ newest <= newest
      BY <1>6 DEF None
    <3>2. ASSUME NEW s \in Slots
          PROVE  /\ mSlots'[s] \in {None, s}
                 /\ mSlots'[s] = None => mIncomingTiming'[s] = 0
      BY <1>0, <1>1, <1>6, <2>1, <2>3, <3>1, <3>2 DEF StartSlots
    <3>3. mSlots'[newest] = newest
      BY <1>1, <1>6, <2>3
    <3> QED BY <2>3, <3>1, <3>2, <3>3 DEF StartSlots
  <2>5. newest # None /\ mLastSeqNumIn <= newest
    BY <1>6, <2>1, LapSizes DEF None, SlotOrNone, Slots
  <2> QED BY <1>5, <2>1, <2>3, <2>4, <2>5
<1> QED BY <1>2, <1>3, <1>4, <1>7, <1>8 DEF Push

\* Counting on by k, within the lap or into the next.
LEMMA CountOn ==
  ASSUME NEW f \in Int, NEW x \in Int, NEW y \in Int, NEW c \in Int, NEW k \in Int, NEW d \in Int,
         Congruent(x - f, c), y = x + k \/ y = x + k - NumSlots, d = c + k
  PROVE  Congruent(y - f, d)
<1>1. PICK a \in Int, b \in Int, e \in Int : a = x - f /\ b = a + k /\ e = y - f
  OBVIOUS
<1>2. (e = b \/ e = b - NumSlots) /\ Congruent(a, c)
  BY <1>1, LapSizes
<1>3. Congruent(a + k, c + k)
  BY <1>2, CongruentShift
<1>4. Congruent(b, d)
  BY <1>1, <1>3
<1>5. Congruent(b - NumSlots, b)
  BY CongruentShift DEF Congruent
<1>6. Congruent(e, d)
  BY <1>2, <1>4, <1>5 DEF Congruent
<1> QED BY <1>1, <1>6

\* Once a packet was taken, Skipped is the distance of what pullPacket settles on
\* from the next packet; when it is 1, the oldest good packet is the next one.
LEMMA SearchDistances ==
  ASSUME RegulatorTypes, Found, mLastSeqNumOut \in Slots
  PROVE  /\ Best \in Slots /\ Skipped \in Nat
         /\ \/ Best = mLastSeqNumOut + 1 + Skipped
            \/ Best = mLastSeqNumOut + 1 + Skipped - NumSlots
         /\ Skipped = 1 /\ GoodSkipped # {} =>
              \/ At(Max(GoodSkipped)) = mLastSeqNumOut + 1
              \/ At(Max(GoodSkipped)) = mLastSeqNumOut + 1 - NumSlots
<1>1. /\ mLastSeqNumIn \in Slots /\ mLastSeqNumIn # mLastSeqNumOut /\ Viable # {}
      /\ mLastSeqNumOut \in SlotOrNone /\ mLastSeqNumOut # None /\ NumSlots \in Nat \ {0}
  <2>1. /\ mLastSeqNumIn \in SlotOrNone /\ mLastSeqNumOut \in SlotOrNone
        /\ mLastSeqNumIn # None /\ mLastSeqNumIn # mLastSeqNumOut /\ Viable # {}
    BY DEF RegulatorTypes, TypeOK, Found, Fresh, Silent
  <2>2. mLastSeqNumOut # None
    BY LapSizes DEF None, Slots
  <2> QED BY <2>1, <2>2, LapSizes DEF SlotOrNone
<1>2. PICK b, m, k, o, p :
        b = Best /\ m = Max(Viable) /\ k = Skipped /\ o = mLastSeqNumOut /\ p = NewPackets
  OBVIOUS
<1>3. /\ m \in 0 .. p - 1 /\ m \in 0 .. NumSlots - 1 /\ b = At(m) /\ b \in Slots
      /\ GoodSkipped # {} => Max(GoodSkipped) \in m + 1 .. p - 1
  BY <1>1, <1>2, BestFound
<1>4. k = IF b - o - 1 < 0 THEN b - o - 1 + NumSlots ELSE b - o - 1
  BY <1>1, <1>2 DEF Skipped
<1>5. o \in Slots /\ k \in Nat /\ (b = o + 1 + k \/ b = o + 1 + k - NumSlots)
  BY <1>1, <1>2, <1>3, <1>4 DEF Slots
<1>6. ASSUME k = 1, GoodSkipped # {}
      PROVE  \/ At(Max(GoodSkipped)) = o + 1
             \/ At(Max(GoodSkipped)) = o + 1 - NumSlots
  <2>1. PICK g : g = Max(GoodSkipped)
    OBVIOUS
  <2>2. PICK l \in Slots : l = mLastSeqNumIn
    BY <1>1
  <2>3. g \in m + 1 .. p - 1
    BY <1>3, <1>6, <2>1
  <2>4. l # o /\ p = IF l - o < 0 THEN l - o + NumSlots ELSE l - o
    BY <1>1, <1>2, <2>2 DEF NewPackets
  <2>5. b = IF l - m < 0 THEN l - m + NumSlots ELSE l - m
    BY <1>3, <2>2 DEF At
  <2>6. p = m + 2
    BY <1>1, <1>3, <1>5, <1>6, <2>2, <2>4, <2>5 DEF Slots
  <2>7. g = m + 1
    BY <1>1, <1>3, <2>3, <2>6
  <2>8. At(g) = IF l - g < 0 THEN l - g + NumSlots ELSE l - g
    BY <2>2 DEF At
  <2>9. At(g) = o + 1 \/ At(g) = o + 1 - NumSlots
    BY <1>1, <1>3, <1>5, <2>2, <2>4, <2>6, <2>7, <2>8 DEF Slots
  <2> QED BY <2>1, <2>9
<1> QED BY <1>2, <1>3, <1>5, <1>6

\* Once a packet was taken, every step keeps the accounts.
LEMMA AccountsStep ==
  ASSUME RegulatorTypes, taken > 0, Accounts, Next
  PROVE  taken' > 0 /\ Accounts'
<1>0. /\ taken \in Nat /\ mSkipped \in Nat /\ firstTaken \in Nat /\ mLastSeqNumOut \in Slots
      /\ pull \in [step : {"idle", "copying"}, slot : SlotOrNone, was : Numbers]
      /\ mStashedPacket \in SlotOrNone /\ mLastSeqNumIn \in SlotOrNone
  BY DEF RegulatorTypes, TypeOK, Accounts
<1>1. CASE UNCHANGED <<pull, mLastSeqNumOut, mStashedPacket, mSkipped, firstTaken, taken>>
  BY <1>1 DEF Accounts, Accounted
<1>2. CASE Tick \/ Arrive \/ PeerRestarts \/ Push \/ PullSilence \/ PullUnderrun
  BY <1>1, <1>2
  DEF Tick, Arrive, PeerRestarts, Push, PushTiming, PushPublish, PullSilence, PullUnderrun,
      NoPacket, pullVars
<1>3. \A s \in Slots : s \in Int /\ s # None
  BY LapSizes DEF Slots, None
<1>4. ASSUME NEW x \in Int, NEW c \in Int, NEW k \in Int, NEW y \in Int, NEW d \in Int,
             Congruent(x - firstTaken, c), y = x + k \/ y = x + k - NumSlots, d = c + k
      PROVE  Congruent(y - firstTaken, d)
  <2>1. PICK f \in Int : f = firstTaken
    BY <1>0
  <2>2. Congruent(x - f, c)
    BY <1>4, <2>1
  <2>3. Congruent(y - f, d)
    BY <1>4, <2>2, CountOn
  <2> QED BY <2>1, <2>3
\* A packet on, when one more is taken; k packets on, when they are skipped.
<1>5. ASSUME NEW x \in Int, NEW y \in Int, Accounted(x, taken),
              y = x + 1 \/ y = x + 1 - NumSlots
       PROVE  Accounted(y, taken + 1)
  <2>1. PICK c \in Int, d \in Int, k \in Int :
          c = taken - 1 + mSkipped /\ d = taken + 1 - 1 + mSkipped /\ k = 1
    <3>1. taken - 1 + mSkipped \in Int /\ taken + 1 - 1 + mSkipped \in Int
      BY <1>0
    <3> QED BY <3>1
  <2>2. d = c + k /\ (y = x + k \/ y = x + k - NumSlots)
    BY <1>0, <1>5, <2>1
  <2>3. Congruent(x - firstTaken, c)
    BY <1>5, <2>1 DEF Accounted
  <2>4. Congruent(y - firstTaken, d)
    BY <1>4, <1>5, <2>2, <2>3
  <2> QED BY <1>0, <2>1, <2>4 DEF Accounted
<1>6. CASE PullStashed
  <2>1. /\ pull.step = "idle" /\ mStashedPacket \in Slots
        /\ pull' = [step |-> "copying", slot |-> mStashedPacket, was |-> mSlots[mStashedPacket]]
        /\ mStashedPacket' = None
        /\ UNCHANGED <<mLastSeqNumOut, mSkipped, firstTaken, taken>>
    BY <1>0, <1>6 DEF PullStashed, MayPull, Copy, NoPacket, SlotOrNone
  <2>2. PICK s \in Slots : s = mStashedPacket
    BY <2>1
  <2>3. PICK x \in Int : x = s - 1
    BY <1>3
  <2>4. Accounted(x, taken)
    BY <1>3, <2>1, <2>2, <2>3 DEF Accounts
  <2>5. s = x + 1 /\ s \in Int
    BY <1>3, <2>3
  <2>6. Accounted(s, taken + 1)
    BY <1>5, <2>4, <2>5
  <2> QED BY <1>0, <2>1, <2>2, <2>6 DEF Accounts, Accounted
<1>7. ASSUME Found
      PROVE  /\ pull.step = "idle" /\ mStashedPacket = None
             /\ Accounted(mLastSeqNumOut, taken)
  BY <1>7 DEF Found, Fresh, MayPull, Accounts
<1>8. CASE PullDeferred
  <2>1. /\ Found /\ Skipped = 1 /\ GoodSkipped # {} /\ mStashedPacket' = Best
        /\ pull' = [step |-> "copying", slot |-> At(Max(GoodSkipped)),
                    was |-> mSlots[At(Max(GoodSkipped))]]
        /\ UNCHANGED <<mLastSeqNumOut, mSkipped, firstTaken, taken>>
    BY <1>8 DEF PullDeferred, Copy, NoPacket
  <2>2. PICK s, b : s = At(Max(GoodSkipped)) /\ b = Best
    OBVIOUS
  <2>3. /\ b \in Slots /\ (s = mLastSeqNumOut + 1 \/ s = mLastSeqNumOut + 1 - NumSlots)
        /\ (b = mLastSeqNumOut + 1 + 1 \/ b = mLastSeqNumOut + 1 + 1 - NumSlots)
    BY <1>0, <2>1, <2>2, SearchDistances
  <2>4. s \in Slots
    <3>1. mLastSeqNumIn \in Slots /\ mLastSeqNumOut \in SlotOrNone /\ Viable # {}
      BY <1>0, <2>1 DEF Found, Fresh, Silent, SlotOrNone
    <3> QED BY <2>1, <2>2, <3>1, BestFound
  <2>5. PICK x \in Int : x = b - 1
    BY <1>3, <2>3
  <2>6. x = mLastSeqNumOut + 1 \/ x = mLastSeqNumOut + 1 - NumSlots
    BY <1>0, <1>3, <2>3, <2>5, LapSizes
  <2>7. Accounted(s, taken + 1) /\ Accounted(x, taken + 1)
    BY <1>0, <1>3, <1>5, <1>7, <2>1, <2>3, <2>4, <2>6
  <2>8. Accounted(b - 1, taken + 1)
    BY <2>5, <2>7
  <2> QED BY <1>0, <2>1, <2>2, <2>4, <2>7, <2>8 DEF Accounts, Accounted
<1>9. CASE PullGlitch
  <2>1. /\ Found /\ mStashedPacket' = Best /\ mSkipped' = mSkipped + Skipped
        /\ UNCHANGED <<pull, mLastSeqNumOut, firstTaken, taken>>
    BY <1>9 DEF PullGlitch, NoPacket
  <2>2. PICK b, k : b = Best /\ k = Skipped
    OBVIOUS
  <2>3. /\ b \in Slots /\ k \in Nat
        /\ b = mLastSeqNumOut + 1 + k \/ b = mLastSeqNumOut + 1 + k - NumSlots
    BY <1>0, <2>1, <2>2, SearchDistances
  <2>4. PICK x \in Int : x = b - 1
    BY <1>3, <2>3
  <2>5. x = mLastSeqNumOut + k \/ x = mLastSeqNumOut + k - NumSlots
    <3>1. PICK o \in Int, N \in Int : o = mLastSeqNumOut /\ N = NumSlots
      BY <1>0, <1>3, LapSizes
    <3> QED BY <1>3, <2>3, <2>4, <3>1
  <2>6. Congruent(x - firstTaken, taken - 1 + (mSkipped + k))
    <3>1. PICK c \in Int, d \in Int : c = taken - 1 + mSkipped /\ d = taken - 1 + (mSkipped + k)
      BY <1>0, <2>3
    <3>2. d = c + k /\ mLastSeqNumOut \in Int /\ k \in Int
      BY <1>0, <1>3, <2>3, <3>1
    <3>3. Congruent(mLastSeqNumOut - firstTaken, c)
      BY <1>7, <2>1, <3>1 DEF Accounted
    <3>4. Congruent(x - firstTaken, d)
      BY <1>4, <2>4, <2>5, <3>1, <3>2, <3>3
    <3> QED BY <3>1, <3>4
  <2>7. Congruent(b - 1 - firstTaken, taken - 1 + (mSkipped + k))
    BY <2>4, <2>6
  <2>8. b # None
    BY <1>3, <2>3
  <2> QED BY <1>0, <1>7, <2>1, <2>2, <2>7, <2>8 DEF Accounts, Accounted, Congruent
<1>10. CASE PullNext
  <2>1. /\ Found /\ Skipped = 0
        /\ pull' = [step |-> "copying", slot |-> Best, was |-> mSlots[Best]]
        /\ UNCHANGED <<mLastSeqNumOut, mStashedPacket, mSkipped, firstTaken, taken>>
    BY <1>10 DEF PullNext, Copy, NoPacket
  <2>2. PICK b : b = Best
    OBVIOUS
  <2>3. /\ b \in Slots
        /\ b = mLastSeqNumOut + 1 + 0 \/ b = mLastSeqNumOut + 1 + 0 - NumSlots
    BY <1>0, <2>1, <2>2, SearchDistances
  <2>4. b = mLastSeqNumOut + 1 \/ b = mLastSeqNumOut + 1 - NumSlots
    <3>1. mLastSeqNumOut \in Int
      BY <1>0, <1>3
    <3> QED BY <2>3, <3>1, LapSizes
  <2>5. Accounted(b, taken + 1)
    BY <1>0, <1>3, <1>5, <1>7, <2>1, <2>3, <2>4
  <2> QED BY <1>0, <1>7, <2>1, <2>2, <2>3, <2>5 DEF Accounts, Accounted
<1>11. CASE PullCopied
  <2>1. /\ pull.step = "copying" /\ taken' = taken + 1 /\ taken # 0 /\ firstTaken' = firstTaken
        /\ mLastSeqNumOut' = pull.slot
        /\ pull' = [step |-> "idle", slot |-> None, was |-> None]
        /\ UNCHANGED <<mStashedPacket, mSkipped>>
    BY <1>0, <1>11 DEF PullCopied
  <2> QED BY <1>0, <2>1 DEF Accounts, Accounted
<1> QED
  <2>1. taken' = taken \/ taken' = taken + 1
    BY DEF Next, Tick, Arrive, PeerRestarts, Push, PushTiming, PushPublish, Pull, PullSilence,
           PullStashed, PullUnderrun, PullDeferred, PullGlitch, PullNext, PullCopied, NoPacket,
           pullVars
  <2>2. taken' > 0
    BY <1>0, <2>1
  <2> QED BY <1>2, <1>6, <1>8, <1>9, <1>10, <1>11, <2>2 DEF Next, Pull

\* Before the first packet is played, the pulling thread; then its number is where
\* the accounts begin.
LEMMA StartPulling ==
  ASSUME StartsInFirstLap, RegulatorTypes, taken = 0, Starting, Pull
  PROVE  (taken' = 0 /\ Starting') \/ (taken' > 0 /\ Accounts')
<1>0. /\ TypeOK /\ StartTimes /\ StartSlots /\ StartPull
      /\ now \in Nat /\ calls \in Nat /\ mMsecTolerance \in Tolerances /\ Tolerances \subseteq Nat
      /\ mLastSeqNumOut = None /\ mStashedPacket = None /\ mSkipped = 0
  BY RegulatorAssumption DEF RegulatorTypes, Starting, TypeOK, StartPull
<1>1. ASSUME UNCHANGED <<now, peerVars, receiverVars>>, calls' = calls
      PROVE  StartTimes' /\ StartSlots'
  BY <1>0, <1>1 DEF StartTimes, StartSlots, Early, peerVars, receiverVars
<1>2. CASE PullSilence
  <2>1. /\ calls <= now /\ Silent /\ calls' = calls + 1
        /\ UNCHANGED <<pull, mLastSeqNumOut, mStashedPacket, mSkipped>> /\ NoPacket
    BY <1>2 DEF PullSilence, MayPull
  <2>2. calls + 1 <= mMsecTolerance + 1
    BY <1>0, <2>1 DEF Silent, StartSlots
  <2>3. now <= calls + 1 + MaxStall
    BY <1>0, RegulatorAssumption DEF StartTimes
  <2>4. StartTimes'
    BY <1>0, <2>1, <2>2, <2>3 DEF StartTimes, Early, NoPacket, peerVars
  <2>5. StartSlots' /\ StartPull' /\ taken' = 0
    BY <1>0, <2>1 DEF StartSlots, StartPull, NoPacket, peerVars, receiverVars
  <2> QED BY <2>4, <2>5 DEF Starting
<1>3. ~PullStashed
  BY <1>0 DEF PullStashed
<1>4. ASSUME Fresh
      PROVE  /\ mLastSeqNumIn # mLastSeqNumOut /\ Viable # {} /\ Skipped = 0
             /\ Best \in Slots /\ Best <= mLastSeqNumIn /\ mSlots[Best] = Best
  BY <1>0, <1>4, FirstFound DEF Fresh, Silent
<1>5. ~PullUnderrun /\ ~PullDeferred /\ ~PullGlitch
  BY <1>4 DEF PullUnderrun, PullDeferred, PullGlitch, Found
<1>6. CASE PullNext
  <2>1. /\ Fresh /\ pull' = [step |-> "copying", slot |-> Best, was |-> mSlots[Best]]
        /\ UNCHANGED <<mLastSeqNumOut, mStashedPacket, mSkipped, calls>> /\ NoPacket
    BY <1>6 DEF PullNext, Found, Copy
  <2>2. PICK b : b = Best
    OBVIOUS
  <2>3. StartPull'
    BY <1>0, <1>4, <2>1, <2>2 DEF StartPull, NoPacket, receiverVars
  <2>4. StartTimes' /\ StartSlots' /\ taken' = 0
    BY <1>1, <2>1 DEF NoPacket
  <2> QED BY <2>3, <2>4 DEF Starting
<1>7. CASE PullCopied
  <2>1. /\ pull.step = "copying" /\ mLastSeqNumOut' = pull.slot /\ taken' = 1
        /\ firstTaken' = IF mSlots[pull.slot] = pull.was THEN pull.was ELSE Torn
        /\ pull' = [step |-> "idle", slot |-> None, was |-> None]
        /\ UNCHANGED <<mStashedPacket, mSkipped>>
    BY <1>7 DEF PullCopied
  <2>2. PICK s \in Slots : s = pull.slot /\ mSlots[s] = s /\ pull.was = s
    BY <1>0, <2>1 DEF StartPull
  <2>3. firstTaken' = s /\ mLastSeqNumOut' = s /\ s \in Nat
    BY <2>1, <2>2, LapSizes DEF Slots
  <2>4. Accounted(mLastSeqNumOut, taken)'
    <3>1. s - s = 0 /\ 1 - 1 + 0 = 0
      BY <2>3
    <3>2. Congruent(s - s, 1 - 1 + 0)
      BY <3>1 DEF Congruent
    <3> QED BY <1>0, <2>1, <2>3, <3>2 DEF Accounted, Congruent
  <2>5. pull'.step = "idle" /\ mStashedPacket' = None
    BY <1>0, <2>1
  <2> QED BY <2>1, <2>3, <2>4, <2>5 DEF Accounts
<1> QED BY <1>2, <1>3, <1>5, <1>6, <1>7 DEF Pull

\* Nothing is in the slots when the first packet arrives.
LEMMA InitSkips == Init => SkipInv
<1> SUFFICES ASSUME Init PROVE SkipInv
  OBVIOUS
<1>1. RegulatorTypes
  BY InitTypes
<1>2. PICK f \in FirstNumbers, d \in 0 .. Jitter : sendStart = -f - d
  BY DEF Init
<1>3. /\ f \in Nat /\ newest \in Nat /\ mMsecTolerance \in Tolerances /\ Tolerances \subseteq Nat
      /\ Jitter \in Nat /\ MaxStall \in Nat /\ sendStart + newest \in -Jitter .. 0
  BY <1>2, RegulatorAssumption DEF Init
<1>4. sendStart >= -f - Jitter
  BY <1>2, <1>3
<1>5. 0 <= mMsecTolerance + 1 /\ sendStart + newest <= 0 /\ -Jitter <= sendStart + newest
  BY <1>3
<1>6. StartTimes
  BY <1>3, <1>4, <1>5 DEF Init, StartTimes, Early
<1>7. StartSlots /\ StartPull
  BY <1>3 DEF Init, StartSlots, StartPull, None
<1> QED BY <1>1, <1>6, <1>7 DEF Init, SkipInv, Starting

\* Every step keeps the inductive invariant.
LEMMA NextSkips ==
  ASSUME StartsInFirstLap, Revived = 0, SkipInv, [Next]_vars
  PROVE  SkipInv'
<1>1. RegulatorTypes' /\ taken \in Nat
  BY NextTypes DEF SkipInv, RegulatorTypes, TypeOK
<1>2. CASE UNCHANGED vars
  BY <1>1, <1>2 DEF vars, peerVars, receiverVars, pullVars, SkipInv, Starting, StartTimes,
     StartSlots, StartPull, Early, Accounts, Accounted
<1>3. CASE Next /\ taken > 0
  <2>1. taken' > 0 /\ Accounts'
    BY <1>3, AccountsStep DEF SkipInv
  <2> QED BY <1>1, <2>1 DEF SkipInv
<1>4. CASE Next /\ taken = 0
  <2>1. (taken' = 0 /\ Starting') \/ (taken' > 0 /\ Accounts')
    BY <1>1, <1>4, StartPush, StartPulling DEF SkipInv, Next
  <2> QED BY <1>1, <2>1 DEF SkipInv
<1> QED BY <1>1, <1>2, <1>3, <1>4

\* Every packet between the first one played and the last one was played or is counted
\* in mSkipped, a stashed packet is yet to be played: pullPacket's search, which goes
\* back over the laps, and its two ways over a gap agree (Regulator.cpp:644-703).
\* The first packets must be of the first lap: until one was played the search takes
\* a slot before the end of the lap for an older packet than one behind it.
THEOREM SkipsAreAccounted ==
  ASSUME Revived = 0, StartsInFirstLap
  PROVE  Spec => []SkipsAccounted
<1>1. Init => SkipInv
  BY InitSkips
<1>2. SkipInv /\ [Next]_vars => SkipInv'
  BY NextSkips
<1>3. SkipInv => SkipsAccounted
  <2> SUFFICES ASSUME SkipInv, taken > 0, pull.step = "idle" PROVE SkipsAccounted
    BY DEF SkipsAccounted
  <2>1. Accounts
    BY DEF SkipInv
  <2> QED BY <2>1 DEF Accounts, Accounted, Congruent, SkipsAccounted
<1> QED BY <1>1, <1>2, <1>3, PTL DEF Spec
===============================================================================
