---------------------------- MODULE UdpRedundancy ----------------------------
(***************************************************************************)
(* src/src/UdpDataProtocol.cpp: the redundant audio stream between a       *)
(* sender and a receiver thread.  Each datagram carries the newest packet  *)
(* and the PeerRedundancy - 1 packets before it; the receiver hands the    *)
(* packets it has not had yet to the audio buffer, oldest first, tells the *)
(* buffer how many it must conceal, and drops late and repeated datagrams. *)
(*                                                                         *)
(* Datagrams are numbered by the order in which they are sent; a packet's  *)
(* payload is the number of the datagram that carried it first.  The       *)
(* network delivers any of the last Window datagrams, in any order, any    *)
(* number of times or never.  All packets have the format the receiver     *)
(* checked in the first one, so the stride test never fails and            *)
(* writeAudioBuffer never refuses.  The counters that getStats reports are *)
(* left out.                                                               *)
(***************************************************************************)
EXTENDS Integers, Sequences

CONSTANTS
  SeqMod,           \* 2^16: the sequence number is a uint16_t
  MaxGap,           \* 1000: a longer gap is taken for an out-of-order packet
  ResyncAfter,      \* 5: so many out-of-order packets in a row are tolerated
  LocalRedundancy,  \* mUdpRedundancyFactor of the receiver
  PeerRedundancy,   \* mUdpRedundancyFactor of the sender
  Window,           \* how far the network delays a datagram
  MaxSend           \* bound: datagrams sent

ASSUME StreamAssumption ==
  /\ SeqMod \in Nat /\ MaxGap \in Nat /\ 2 * MaxGap < SeqMod - 1
  /\ ResyncAfter \in Nat
  /\ LocalRedundancy \in Nat \ {0} /\ PeerRedundancy \in Nat \ {0}
  /\ PeerRedundancy < SeqMod  \* a datagram has less than 64 KiB
  /\ Window \in Nat \ {0} /\ MaxSend \in Nat

VARIABLES
  sent,                  \* datagrams sent
  restartAt,             \* the first datagram of the sender's current process
  connected,             \* the receiver had its first datagram
  last_seq_num,          \* the newest sequence number accepted
  mInitialState,         \* the next datagram is accepted whatever its number
  mLastOutOfOrderCount,  \* datagrams dropped since one was accepted
  firstSeq,              \* sequence number of playout[1]
  playout                \* what the audio buffer was given since then

receiverVars == <<last_seq_num, mInitialState, mLastOutOfOrderCount, firstSeq, playout>>
vars == <<sent, restartAt, connected, receiverVars>>

Silent == -1     \* a packet of the sender's zeroed array
Concealed == -2  \* a packet the buffer fills in (processPacketLoss)
Garbage == -3    \* what follows a datagram in the receiver's array

Init ==
  /\ sent = 0 /\ restartAt = 0
  /\ connected = FALSE
  /\ last_seq_num = 0 /\ mInitialState = TRUE /\ mLastOutOfOrderCount = 0
  /\ firstSeq = 0 /\ playout = << >>

-----------------------------------------------------------------------------
(* The sender *)

\* The sender's process that sent datagram d counted its packets from here.
RunStart(d) == IF d >= restartAt THEN restartAt ELSE 0

\* SeqNumber of the newest packet of datagram d.
SeqOf(d) == (d - RunStart(d)) % SeqMod

\* SeqNumber in the header of d's i-th packet; the array starts zeroed.
HeaderSeq(d, i) == IF d - i >= RunStart(d) THEN SeqOf(d - i) ELSE 0

\* The payload of d's i-th packet, named by its sequence number.
Payload(d, i) == CASE i >= PeerRedundancy -> Garbage
                   [] d - i >= RunStart(d) -> SeqOf(d - i)
                   [] OTHER -> Silent

\* sendPacketRedundancy: shift the array, put the newest packet first, send it.
Send == /\ sent < MaxSend
        /\ sent' = sent + 1
        /\ UNCHANGED <<restartAt, connected, receiverVars>>

\* The peer's process dies without its exit packet and is started again.
RestartSender == /\ restartAt = 0 /\ sent > 0
                 /\ restartAt' = sent
                 /\ UNCHANGED <<sent, connected, receiverVars>>

\* What the network may deliver next.
Deliverable == {d \in 0 .. sent - 1 : d >= sent - Window}

-----------------------------------------------------------------------------
(* The receiver *)

\* run(), lines 661-732: the first datagram only shows who the peer is.
ReceiveFirst == /\ ~connected
                /\ Deliverable # {}
                /\ connected' = TRUE
                /\ UNCHANGED <<sent, restartAt, receiverVars>>

\* Line 944: newer - last - 1 as an int16_t.
Lost(newer) ==
  LET d == (newer - last_seq_num - 1) % SeqMod
  IN  IF 2 * d >= SeqMod THEN d - SeqMod ELSE d

\* Line 945.
OutOfOrder(newer) == ~mInitialState /\ (Lost(newer) < 0 \/ Lost(newer) > MaxGap)

\* Line 967: both sides are promoted to int, so 65535 + 1 is not 0.
IsNextExpected(seq) == seq = last_seq_num + 1

\* The packets of a datagram the receiver looks at: its own redundancy factor,
\* clamped to the datagram by lines 991-995.
Copies == IF LocalRedundancy <= PeerRedundancy THEN LocalRedundancy
                                               ELSE PeerRedundancy

\* MUTANT only the newest packet is handed over.
RedunLastIndexNone(d) == 0

\* Lines 963-975: the oldest packet to hand over, if there is one to stop at.
RedunLastIndex(d) ==
  LET hits == {i \in 0 .. Copies - 1 : IsNextExpected(HeaderSeq(d, i))}
  IN  IF hits = {} THEN Copies - 1
                   ELSE CHOOSE i \in hits : \A j \in hits : i <= j

\* Lines 1004-1027: the packets from index i down to the newest.
Handed(d, i) == [k \in 1 .. i + 1 |-> Payload(d, i + 1 - k)]

\* MUTANT the gap counts the revived packets as lost
GapOfNewest(d, i) == Lost(SeqOf(d))

\* Line 998: packets to conceal before the first one (the sinks ignore a
\* negative number; mInitialState, already reset, is no longer what it was).
Gap(d, i) == (IF mInitialState THEN 0 ELSE Lost(SeqOf(d))) - i

\* MUTANT the receiver never falls back to its initial state
DropOnly(d) ==
  /\ OutOfOrder(SeqOf(d))
  /\ mLastOutOfOrderCount' = mLastOutOfOrderCount + 1
  /\ UNCHANGED <<sent, restartAt, connected, last_seq_num, mInitialState, firstSeq, playout>>

\* Lines 945-953: a late or repeated datagram, or one after a jump.
DropOutOfOrder(d) ==
  /\ OutOfOrder(SeqOf(d))
  /\ mLastOutOfOrderCount' = mLastOutOfOrderCount + 1
  /\ mInitialState' = (mLastOutOfOrderCount + 1 > ResyncAfter)
  /\ UNCHANGED <<sent, restartAt, connected, last_seq_num, firstSeq, playout>>

\* Lines 954-1027: hand the packets of datagram d to the audio buffer.
Accept(d) ==
  /\ ~OutOfOrder(SeqOf(d))
  /\ LET i == RedunLastIndex(d)
         concealed == [k \in 1 .. Gap(d, i) |-> Concealed]
     IN  IF mInitialState
         THEN /\ firstSeq' = (SeqOf(d) - i) % SeqMod
              /\ playout' = Handed(d, i)
         ELSE /\ firstSeq' = firstSeq
              /\ playout' = playout \o concealed \o Handed(d, i)
  /\ last_seq_num' = SeqOf(d)
  /\ mInitialState' = FALSE
  /\ mLastOutOfOrderCount' = 0
  /\ UNCHANGED <<sent, restartAt, connected>>

Receive == /\ connected
           /\ \E d \in Deliverable : DropOutOfOrder(d) \/ Accept(d)

Next == Send \/ RestartSender \/ ReceiveFirst \/ Receive

Spec == Init /\ [][Next]_vars

-----------------------------------------------------------------------------
SeqNumbers == 0 .. SeqMod - 1

\* The receiver's variables are in range.
TypeOK ==
  /\ sent \in 0 .. MaxSend /\ restartAt \in 0 .. MaxSend
  /\ connected \in BOOLEAN
  /\ last_seq_num \in SeqNumbers /\ firstSeq \in SeqNumbers
  /\ mInitialState \in BOOLEAN
  /\ mLastOutOfOrderCount \in Nat
  /\ playout \in Seq(SeqNumbers \cup {Silent, Concealed})

\* The k-th packet given to the audio buffer since the receiver synchronised is
\* the k-th packet of the sender's stream, or its concealment: whatever was
\* lost, late, repeated or revived, nothing is played twice, skipped without
\* being concealed, or moved in time ("it sends it to the soundcard one by
\* one", UdpDataProtocol.cpp:1136-1140).
Timeline ==
  /\ \A k \in 1 .. Len(playout) :
        playout[k] \in {(firstSeq + k - 1) % SeqMod, Silent, Concealed}
  /\ connected /\ playout # << >> =>
        (firstSeq + Len(playout) - 1) % SeqMod = last_seq_num

\* Redundancy revives all it can: what ends a run of concealed packets is
\* always as many packets as a datagram carries, so no packet is concealed that
\* the accepted datagram still held (NetworkProtocol.md:151-153).
ConcealedOnlyBeyondRedundancy ==
  \A k \in 1 .. Len(playout) - 1 :
     playout[k] = Concealed /\ playout[k + 1] # Concealed =>
        /\ k + Copies <= Len(playout)
        /\ \A n \in k + 1 .. k + Copies : playout[n] # Concealed

\* A receiver is never deaf for long: of any ResyncAfter + 2 datagrams that
\* arrive one after the other it plays at least one, also when its peer was
\* restarted and counts from 0 again (lines 948-952).
DeafnessBounded == mLastOutOfOrderCount <= ResyncAfter + 1
=============================================================================
