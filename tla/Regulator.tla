------------------------------ MODULE Regulator ------------------------------
(***************************************************************************)
(* src/src/Regulator.cpp and Regulator.h: the receive buffer of buffer     *)
(* strategies 3 and 4.  The receiver's thread files each packet under its  *)
(* sequence number modulo NumSlots; the audio callback takes the oldest    *)
(* packet that is within mMsecTolerance, predicts audio for what it skips  *)
(* (a glitch) and stashes a packet it found behind a gap for the next      *)
(* callback.                                                               *)
(*                                                                         *)
(* Packets are named by counting what the peer sends.  One tick is the     *)
(* time of a packet.  A tolerance of n stands for a time between n and     *)
(* n + 1 ticks, so that no difference of times equals it; it changes as    *)
(* updateTolerance and setQueueBufferLength may change it.  Left out are   *)
(* the prediction itself, the statistics, the broadcast copy, packets of   *)
(* another size than the callback's, and who pulls: a RegulatorWorker that *)
(* pulls in the callback's place does so through a queue, which            *)
(* WaitFreeRingBuffer models.                                              *)
(*                                                                         *)
(* The search (lines 644-707) reads the clock, mLastSeqNumIn and all       *)
(* arrival times at one instant; the code reads them one after the other   *)
(* while the receiver may write.  Only what is copied is split in two.     *)
(***************************************************************************)
EXTENDS Integers, Sequences, FiniteSetsExt

CONSTANTS
  NumSlots,     \* 4096
  FirstNumbers, \* numbers the first packet may have
  Tolerances,   \* what mMsecTolerance may be
  Revived,      \* packets a datagram may revive, UdpDataProtocol's redundancy
  Jitter,       \* bound: how late a packet arrives
  LossFrom,     \* bound: packets sent before this time are not lost
  MaxLost,      \* bound: packets lost in a row
  MaxTroubles,  \* bound: how often packets are lost or late
  AutoPeriod,   \* bound: how seldom the tolerance changes, 1 s in the code
  RestartGap,   \* bound: how long a peer takes to restart
  MaxStall,     \* bound: callbacks that are late
  MaxTime       \* bound: ticks

ASSUME RegulatorAssumption ==
  /\ NumSlots \in Nat /\ NumSlots > 1
  /\ FirstNumbers \subseteq 0 .. NumSlots - 1
  /\ Tolerances \subseteq Nat
  /\ Revived \in Nat
  /\ Jitter \in Nat /\ LossFrom \in Nat /\ MaxLost \in Nat /\ MaxTroubles \in Nat
  /\ AutoPeriod \in Nat \ {0}
  /\ RestartGap \in Nat /\ MaxStall \in Nat /\ MaxTime \in Nat

VARIABLES
  now,             \* mIncomingTimer
  sendStart,       \* when packet streamStart was sent
  streamStart,     \* the packet the peer's process would have numbered 0
  newest,          \* the newest packet that arrived
  troubles,        \* how often packets were lost or late
  push,            \* where the receiver's thread is in pushPacket
  ignored,         \* packets pushed since mLastSeqNumIn moved
  mIncomingTiming, \* arrival times
  mSlots,          \* the packets
  mLastSeqNumIn,
  pull,            \* where the pulling thread is in pullPacket
  mLastSeqNumOut, mStashedPacket, mMsecTolerance, mSkipped,
  calls,           \* audio callbacks so far
  firstTaken, taken, lastTaken  \* packets copied by pullPacket

peerVars == <<sendStart, streamStart, newest, troubles>>
receiverVars == <<push, ignored, mIncomingTiming, mSlots, mLastSeqNumIn>>
pullVars == <<pull, mLastSeqNumOut, mStashedPacket, mMsecTolerance, mSkipped, calls,
              firstTaken, taken, lastTaken>>
vars == <<now, peerVars, receiverVars, pullVars>>

None == -1       \* no slot, no packet
Torn == -2       \* a slot in the middle of a memcpy

Slots == 0 .. NumSlots - 1

\* The slot of packet n: its sequence number % NumSlots.
Slot(n) == (n - streamStart) % NumSlots

\* The first packet arrives: setFPPratio, and then pushPacket from its start.
Init ==
  /\ now = 0
  /\ sendStart \in {-n - d : n \in FirstNumbers, d \in 0 .. Jitter}
  /\ streamStart = 0
  /\ newest \in {n \in FirstNumbers : sendStart + n \in -Jitter .. 0}
  /\ push = [step |-> "timing", slot |-> newest, left |-> <<newest>>]
  /\ troubles = 0 /\ ignored = 0
  /\ mIncomingTiming = [s \in Slots |-> 0]
  /\ mSlots = [s \in Slots |-> None]
  /\ mLastSeqNumIn = None
  /\ pull = [step |-> "idle", slot |-> None, was |-> None]
  /\ mLastSeqNumOut = None /\ mStashedPacket = None
  /\ mMsecTolerance \in Tolerances
  /\ mSkipped = 0
  /\ calls = 0
  /\ firstTaken = None /\ taken = 0 /\ lastTaken = None

-----------------------------------------------------------------------------
(* The peer and the network *)

\* Packet n is sent at DueAt(n) and arrives within Jitter ticks, or is lost.
DueAt(n) == sendStart + n - streamStart

\* Time goes on, and updateTolerance or setQueueBufferLength may have been called.
Tick ==
  /\ now < MaxTime
  /\ now - calls < MaxStall
  /\ push.step = "idle" /\ pull.step = "idle"
  /\ DueAt(newest + 1) < LossFrom => now < DueAt(newest + 1) + Jitter
  /\ now' = now + 1
  /\ \/ UNCHANGED mMsecTolerance
     \/ now % AutoPeriod = 0 /\ mMsecTolerance' \in Tolerances \ {mMsecTolerance}
  /\ UNCHANGED <<peerVars, receiverVars, pull, mLastSeqNumOut, mStashedPacket, mSkipped,
                 calls, firstTaken, taken, lastTaken>>

\* A datagram with packet n, and what it revives: the protocol hands all of
\* them over with the number of the newest (UdpDataProtocol.cpp:1019).
Arrive ==
  /\ push.step = "idle"
  /\ \E n \in newest + 1 .. newest + 1 + MaxLost :
       /\ DueAt(n) <= now /\ now <= DueAt(n) + Jitter
       /\ n = newest + 1 \/ DueAt(newest + 1) >= LossFrom
       /\ (n = newest + 1 /\ now = DueAt(n)) \/ troubles < MaxTroubles
       /\ \E r \in 0 .. Revived :
            /\ n - r > newest
            /\ push' = [step |-> "timing", slot |-> Slot(n),
                        left |-> [i \in 1 .. r + 1 |-> n - r + i - 1]]
       /\ newest' = n
       /\ troubles' = IF n = newest + 1 /\ now = DueAt(n) THEN troubles ELSE troubles + 1
  /\ UNCHANGED <<now, sendStart, streamStart, ignored, mIncomingTiming, mSlots,
                 mLastSeqNumIn, pullVars>>

\* A peer that was restarted counts from 0 again; its packets reach the
\* Regulator when the protocol has given in (UdpRedundancy).
PeerRestarts ==
  /\ streamStart = 0
  /\ push.step = "idle"
  /\ now >= DueAt(newest) + RestartGap
  /\ streamStart' = newest + 1 /\ newest' = newest + 1 /\ sendStart' = now
  /\ push' = [step |-> "timing", slot |-> 0, left |-> <<newest + 1>>]
  /\ UNCHANGED <<now, troubles, ignored, mIncomingTiming, mSlots, mLastSeqNumIn, pullVars>>

-----------------------------------------------------------------------------
(* pushPacket, in the receiver's thread *)

\* Line 618, and the memcpy of line 619 begins.
PushTiming ==
  /\ push.step = "timing"
  /\ mIncomingTiming' = [mIncomingTiming EXCEPT ![push.slot] = now]
  /\ mSlots' = [mSlots EXCEPT ![push.slot] = Torn]
  /\ push' = [push EXCEPT !.step = "copying"]
  /\ UNCHANGED <<now, peerVars, ignored, mLastSeqNumIn, pullVars>>

\* MUTANT a number behind the last one is never taken for a new lap
IsNewerSameLap(s) == mLastSeqNumIn = None \/ s > mLastSeqNumIn

\* Lines 623-624.
IsNewer(s) == \/ mLastSeqNumIn = None
              \/ s > mLastSeqNumIn
              \/ mLastSeqNumIn - s > NumSlots \div 2

\* The memcpy ends; lines 622-626; and on with the next revived packet.
PushPublish ==
  /\ push.step = "copying"
  /\ mSlots' = [mSlots EXCEPT ![push.slot] = Head(push.left)]
  /\ IF IsNewer(push.slot)
     THEN mLastSeqNumIn' = push.slot /\ ignored' = 0
     ELSE ignored' = ignored + 1 /\ UNCHANGED mLastSeqNumIn
  /\ push' = [push EXCEPT !.left = Tail(@),
                          !.step = IF Len(push.left) = 1 THEN "idle" ELSE "timing"]
  /\ UNCHANGED <<now, peerVars, mIncomingTiming, pullVars>>

-----------------------------------------------------------------------------
(* readSlotNonBlocking and pullPacket, in the audio thread *)

\* The callback comes once in a tick, give or take MaxStall of them; neither it
\* nor pushPacket takes a tick.
MayPull == pull.step = "idle" /\ calls <= now

\* Startup (lines 637-643): silence until the time of the tolerance is over.
Silent == mLastSeqNumIn = None \/ now <= mMsecTolerance

\* Lines 654-664: the packets behind mLastSeqNumOut, the newest has distance 0.
NewPackets ==
  LET d == mLastSeqNumIn - mLastSeqNumOut IN IF d < 0 THEN d + NumSlots ELSE d
At(i) == IF mLastSeqNumIn - i < 0 THEN mLastSeqNumIn - i + NumSlots
                                  ELSE mLastSeqNumIn - i

\* MUTANT missing packets are taken for packets
NothingIsMissing(s) == FALSE

\* Lines 665-670: the slot still holds what came a lap ago.
Missing(s) ==
  /\ mLastSeqNumOut # None
  /\ mIncomingTiming[mLastSeqNumOut] - mIncomingTiming[s] > mMsecTolerance

\* Line 683.
WithinTolerance(i) == now - mIncomingTiming[At(i)] <= mMsecTolerance \/ i = 0

Candidates == {i \in 0 .. NewPackets - 1 : ~Missing(At(i))}
Viable == {i \in Candidates : WithinTolerance(i)}

\* The packet pullPacket settles on, the slots it passes over to get there, and
\* the oldest of those that holds a packet (firstGoodSkipped).
Best == At(Max(Viable))
Skipped ==
  IF mLastSeqNumOut = None THEN 0
  ELSE LET d == Best - mLastSeqNumOut - 1 IN IF d < 0 THEN d + NumSlots ELSE d
GoodSkipped == {i \in Candidates : i > Max(Viable)}

\* The copy of a slot into mXfrBuffer begins.
Copy(s) == pull' = [step |-> "copying", slot |-> s, was |-> mSlots[s]]

\* What a pull without a packet leaves alone.
NoPacket ==
  UNCHANGED <<now, peerVars, receiverVars, mMsecTolerance, firstTaken, taken, lastTaken>>

PullSilence ==
  /\ MayPull /\ Silent
  /\ calls' = calls + 1
  /\ UNCHANGED <<pull, mLastSeqNumOut, mStashedPacket, mSkipped>>
  /\ NoPacket

\* Lines 644-650.
PullStashed ==
  /\ MayPull /\ ~Silent /\ mStashedPacket # None
  /\ Copy(mStashedPacket)
  /\ mStashedPacket' = None
  /\ UNCHANGED <<mLastSeqNumOut, mSkipped, calls>>
  /\ NoPacket

Fresh == MayPull /\ ~Silent /\ mStashedPacket = None

\* Lines 651-652, 710-711 and underrun(): a prediction, or silence when nothing
\* has come for gUdpWaitTimeout.
PullUnderrun ==
  /\ Fresh
  /\ mLastSeqNumIn = mLastSeqNumOut \/ Viable = {}
  /\ calls' = calls + 1
  /\ UNCHANGED <<pull, mLastSeqNumOut, mStashedPacket, mSkipped>>
  /\ NoPacket

Found == Fresh /\ mLastSeqNumIn # mLastSeqNumOut /\ Viable # {}

\* Lines 684-689: one good packet would be skipped; it is played, and the one
\* behind it next time.
PullDeferred ==
  /\ Found /\ Skipped = 1 /\ GoodSkipped # {}
  /\ mStashedPacket' = Best
  /\ Copy(At(Max(GoodSkipped)))
  /\ UNCHANGED <<mLastSeqNumOut, mSkipped, calls>>
  /\ NoPacket

\* MUTANT the packet found behind the gap is not stashed
PullGlitchUnstashed ==
  /\ Found /\ Skipped > 0 /\ ~(Skipped = 1 /\ GoodSkipped # {})
  /\ mSkipped' = mSkipped + Skipped
  /\ calls' = calls + 1
  /\ UNCHANGED <<pull, mLastSeqNumOut, mStashedPacket>>
  /\ NoPacket

\* Lines 690-698: one prediction for all that is skipped.
PullGlitch ==
  /\ Found /\ Skipped > 0 /\ ~(Skipped = 1 /\ GoodSkipped # {})
  /\ mSkipped' = mSkipped + Skipped
  /\ mStashedPacket' = Best
  /\ calls' = calls + 1
  /\ UNCHANGED <<pull, mLastSeqNumOut>>
  /\ NoPacket

\* Lines 699-703.
PullNext ==
  /\ Found /\ Skipped = 0
  /\ Copy(Best)
  /\ UNCHANGED <<mLastSeqNumOut, mStashedPacket, mSkipped, calls>>
  /\ NoPacket

\* The memcpy ends; the packet is torn if the slot was written meanwhile.
PullCopied ==
  /\ pull.step = "copying"
  /\ LET item == IF mSlots[pull.slot] = pull.was THEN pull.was ELSE Torn
     IN  /\ lastTaken' = item
         /\ firstTaken' = IF taken = 0 THEN item ELSE firstTaken
  /\ taken' = taken + 1 /\ calls' = calls + 1
  /\ mLastSeqNumOut' = pull.slot
  /\ pull' = [step |-> "idle", slot |-> None, was |-> None]
  /\ UNCHANGED <<now, peerVars, receiverVars, mStashedPacket, mMsecTolerance, mSkipped>>

-----------------------------------------------------------------------------
Push == PushTiming \/ PushPublish

Pull == \/ PullSilence \/ PullStashed \/ PullUnderrun \/ PullDeferred
        \/ PullGlitch \/ PullNext \/ PullCopied

Next == \/ Tick \/ Arrive \/ PeerRestarts \/ Push \/ Pull

Spec == Init /\ [][Next]_vars

-----------------------------------------------------------------------------
Numbers == Nat \cup {None, Torn}
SlotOrNone == Slots \cup {None}

\* The variables are in range.
TypeOK ==
  /\ now \in Nat /\ sendStart \in Int /\ streamStart \in Nat /\ newest \in Nat
  /\ push.step \in {"idle", "timing", "copying"}
  /\ push.slot \in Slots /\ push.left \in Seq(Nat)
  /\ ignored \in Nat
  /\ mIncomingTiming \in [Slots -> Nat]
  /\ mSlots \in [Slots -> Numbers]
  /\ mLastSeqNumIn \in SlotOrNone
  /\ pull \in [step : {"idle", "copying"}, slot : SlotOrNone, was : Numbers]
  /\ mLastSeqNumOut \in SlotOrNone /\ mStashedPacket \in SlotOrNone
  /\ mMsecTolerance \in Tolerances /\ mSkipped \in Nat
  /\ calls \in Nat
  /\ firstTaken \in Numbers /\ lastTaken \in Numbers /\ taken \in Nat

\* What is played is a packet, whole, and newer than all that was played before:
\* neither a packet of the last lap, nor one never written, nor one being
\* written, nor one a second time, though only mLastSeqNumIn is atomic
\* (Regulator.cpp:665-670).
PlayedInOrder == [][taken' # taken => lastTaken' > lastTaken]_<<taken, lastTaken>>

\* Every packet between the first and the last one taken was taken or is
\* counted as skipped, a stashed one is yet to be taken.
SkipsAccounted ==
  taken > 0 /\ pull.step = "idle" =>
    LET upTo == IF mStashedPacket = None THEN mLastSeqNumOut ELSE mStashedPacket - 1
    IN  (upTo - firstTaken) % NumSlots = (taken - 1 + mSkipped) % NumSlots

\* The Regulator is not deaf for long when its peer was restarted: of half a
\* lap of packets one at least moves mLastSeqNumIn.
DeafForHalfALap == ignored <= NumSlots \div 2 + 1
=============================================================================
