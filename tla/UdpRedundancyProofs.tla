------------------------- MODULE UdpRedundancyProofs -------------------------
(* Proofs about UdpRedundancy, for every modulus, gap, redundancy, network  *)
(* window and number of datagrams.                                          *)
EXTENDS UdpRedundancy, SequenceTheorems, WellFoundedInduction, TLAPS

\* The inductive invariant behind DeafnessBounded: as long as the receiver
\* insists on the order, it has not dropped more than ResyncAfter datagrams.
ResyncInv ==
  /\ mLastOutOfOrderCount \in Nat
  /\ ~mInitialState => mLastOutOfOrderCount <= ResyncAfter
  /\ DeafnessBounded

\* The invariant holds when the receiver's loop starts.
LEMMA InitResyncInv == Init => ResyncInv
BY StreamAssumption DEF Init, ResyncInv, DeafnessBounded

\* Only a dropped datagram counts, and none is dropped in the initial state.
LEMMA NextResyncInv == ResyncInv /\ [Next]_vars => ResyncInv'
<1> SUFFICES ASSUME ResyncInv, [Next]_vars
             PROVE  ResyncInv'
  OBVIOUS
<1> USE StreamAssumption DEF ResyncInv, DeafnessBounded
<1>1. CASE Send
  BY <1>1 DEF Send, receiverVars
<1>2. CASE RestartSender
  BY <1>2 DEF RestartSender, receiverVars
<1>3. CASE ReceiveFirst
  BY <1>3 DEF ReceiveFirst, receiverVars
<1>4. ASSUME NEW d \in Deliverable, DropOutOfOrder(d)
      PROVE  ResyncInv'
  <2>1. ~mInitialState
    BY <1>4 DEF DropOutOfOrder, OutOfOrder
  <2>2. mLastOutOfOrderCount' = mLastOutOfOrderCount + 1
    BY <1>4 DEF DropOutOfOrder
  <2>3. ~mInitialState' => ~(mLastOutOfOrderCount + 1 > ResyncAfter)
    BY <1>4, Zenon DEF DropOutOfOrder
  <2>4. ~mInitialState' => mLastOutOfOrderCount' <= ResyncAfter
    BY <2>2, <2>3
  <2>5. mLastOutOfOrderCount' \in Nat /\ mLastOutOfOrderCount' <= ResyncAfter + 1
    BY <2>1, <2>2
  <2> QED BY <2>4, <2>5
<1>5. ASSUME NEW d \in Deliverable, Accept(d)
      PROVE  ResyncInv'
  <2>1. mLastOutOfOrderCount' = 0
    BY <1>5 DEF Accept
  <2> QED BY <2>1
<1>6. CASE UNCHANGED vars
  BY <1>6 DEF vars, receiverVars
<1> QED
  BY <1>1, <1>2, <1>3, <1>4, <1>5, <1>6 DEF Next, Receive

\* Whatever the network does and however often the peer restarts, the receiver
\* never drops more than ResyncAfter + 1 datagrams in a row (lines 945-953 of
\* UdpDataProtocol.cpp): the one after them is played.
THEOREM DeafnessIsBounded == Spec => []DeafnessBounded
<1>1. ResyncInv => DeafnessBounded
  BY DEF ResyncInv
<1> QED BY <1>1, InitResyncInv, NextResyncInv, PTL DEF Spec
-----------------------------------------------------------------------------
(* Arithmetic of sequence numbers *)

\* A set of natural numbers that is not empty has a least element.
LEMMA Least ==
  ASSUME NEW S \in SUBSET Nat, S # {}
  PROVE  \E n \in S : \A m \in S : n <= m
<1>1. PICK n \in S : \A m \in S : ~(<<m, n>> \in OpToRel(<, Nat))
  BY NatLessThanWellFounded, WFMin
<1>2. \A m \in S : ~(m < n)
  BY <1>1 DEF OpToRel
<1> QED BY <1>2

\* A number is determined by quotient and remainder.
LEMMA ModUnique ==
  ASSUME NEW M \in Nat \ {0}, NEW p \in Int, NEW q \in Int,
         NEW r \in 0 .. M - 1, NEW s \in 0 .. M - 1, M * p + r = M * q + s
  PROVE  r = s
<1>1. \A t \in Int : t >= 1 => M * t >= M
  OBVIOUS
<1>2. M * (p - q) = s - r /\ M * (q - p) = r - s
  OBVIOUS
<1>3. ~(p - q >= 1) /\ ~(q - p >= 1)
  BY <1>1, <1>2
<1> QED BY <1>2, <1>3

\* A multiple of the modulus makes no difference.
LEMMA ModMultiple ==
  ASSUME NEW M \in Nat \ {0}, NEW x \in Int, NEW y \in Int, NEW t \in Int, x = y + M * t
  PROVE  x % M = y % M
<1>1. x % M \in 0 .. M - 1 /\ y % M \in 0 .. M - 1
  OBVIOUS
<1>2. x \div M \in Int /\ x = M * (x \div M) + (x % M)
  OBVIOUS
<1>3. y \div M \in Int /\ y = M * (y \div M) + (y % M)
  OBVIOUS
<1>4. M * ((x \div M) - t) = M * (x \div M) - M * t
  BY <1>2
<1>5. M * ((x \div M) - t) + (x % M) = M * (y \div M) + (y % M)
  BY <1>1, <1>2, <1>3, <1>4
<1>6. (x \div M) - t \in Int
  BY <1>2
<1> QED BY <1>1, <1>3, <1>5, <1>6, ModUnique

\* Remainders may be taken before adding and subtracting.
LEMMA ModAdd ==
  ASSUME NEW M \in Nat \ {0}, NEW x \in Int, NEW y \in Int
  PROVE  /\ ((x % M) + y) % M = (x + y) % M
         /\ (y - (x % M)) % M = (y - x) % M
<1>1. x \div M \in Int /\ x = M * (x \div M) + (x % M) /\ x % M \in Int
  OBVIOUS
<1>2. PICK r \in Int, q \in Int : r = x % M /\ q = x \div M /\ x = M * q + r
  BY <1>1
<1>3. M * q \in Int
  BY <1>2
<1>4. x + y = (r + y) + M * q /\ y - r = (y - x) + M * q
  BY <1>2, <1>3
<1> DEFINE a == x + y
           b == r + y
           c == y - r
           d == y - x
<1>7. a \in Int /\ b \in Int /\ c \in Int /\ d \in Int /\ a = b + M * q /\ c = d + M * q
  BY <1>2, <1>3, <1>4
<1> HIDE DEF a, b, c, d
<1>8. a % M = b % M /\ c % M = d % M
  BY <1>7, <1>2, ModMultiple
<1>5. (x + y) % M = (r + y) % M
  BY <1>8 DEF a, b
<1>6. (y - r) % M = (y - x) % M
  BY <1>8 DEF c, d
<1> QED BY <1>2, <1>5, <1>6

\* The constants are in range.
LEMMA Sizes ==
  /\ SeqMod \in Nat \ {0} /\ Copies \in Nat \ {0}
  /\ Copies <= PeerRedundancy /\ PeerRedundancy \in Nat
BY StreamAssumption DEF Copies

\* Remainders are in range, and that of a small number is the number.
LEMMA ModSmall ==
  /\ \A x \in Int : x % SeqMod \in 0 .. SeqMod - 1
  /\ \A x \in 0 .. SeqMod - 1 : x % SeqMod = x
  /\ \A x \in Nat : x % SeqMod <= x
<1> USE Sizes
<1>1. \A x \in Int : x % SeqMod \in 0 .. SeqMod - 1
  OBVIOUS
<1>2. \A x \in 0 .. SeqMod - 1 : x % SeqMod = x
  OBVIOUS
<1>3. \A x \in Nat : x % SeqMod <= x
  <2> SUFFICES ASSUME NEW x \in Nat PROVE x % SeqMod <= x
    OBVIOUS
  <2>1. CASE x < SeqMod
    BY <2>1
  <2>2. CASE x >= SeqMod
    BY <2>2
  <2> QED BY <2>1, <2>2
<1> QED BY <1>1, <1>2, <1>3

-----------------------------------------------------------------------------
(* Datagrams *)

Payloads == SeqNumbers \cup {Silent, Concealed}

\* The variables are in range, and a receiver that insists on the order has been
\* given something.
StreamInv ==
  /\ sent \in 0 .. MaxSend /\ restartAt \in 0 .. MaxSend
  /\ last_seq_num \in SeqNumbers /\ firstSeq \in SeqNumbers
  /\ playout \in Seq(Payloads)
  /\ ~mInitialState => playout # << >>

\* The i-th packet of a datagram is i numbers before the newest.
LEMMA SeqOfBack ==
  ASSUME StreamInv, NEW d \in Deliverable, NEW i \in Nat
  PROVE  /\ d \in 0 .. MaxSend - 1 /\ RunStart(d) \in 0 .. d
         /\ SeqOf(d) \in SeqNumbers /\ SeqOf(d) <= d
         /\ d - i >= RunStart(d) => SeqOf(d - i) = (SeqOf(d) - i) % SeqMod
         /\ d - i < RunStart(d) /\ i < SeqMod => SeqOf(d) = d - RunStart(d)
<1>1. d \in 0 .. MaxSend - 1 /\ RunStart(d) \in 0 .. d
  BY StreamAssumption DEF Deliverable, StreamInv, RunStart
<1> DEFINE x == d - RunStart(d)
<1>2. x \in Nat /\ x <= d /\ SeqOf(d) = x % SeqMod
  BY <1>1 DEF SeqOf
<1>3. SeqOf(d) \in SeqNumbers /\ SeqOf(d) <= d
  <2> HIDE DEF x
  <2>1. x % SeqMod \in 0 .. SeqMod - 1 /\ x % SeqMod <= x
    <3>1. \A y \in Nat : y % SeqMod \in 0 .. SeqMod - 1 /\ y % SeqMod <= y
      BY Sizes, ModSmall
    <3> QED BY <1>2, <3>1
  <2> QED BY <1>1, <1>2, <2>1 DEF SeqNumbers
<1>4. ASSUME d - i >= RunStart(d)
      PROVE  SeqOf(d - i) = (SeqOf(d) - i) % SeqMod
  <2>1. RunStart(d - i) = RunStart(d)
    BY <1>1, <1>4 DEF RunStart, StreamInv
  <2>2. (d - i) - RunStart(d) = x - i
    BY <1>1
  <2>3. SeqOf(d - i) = (x - i) % SeqMod
    BY <2>1, <2>2 DEF SeqOf
  <2> DEFINE y == -i
  <2>4. y \in Int /\ x - i = x + y /\ SeqOf(d) - i = SeqOf(d) + y /\ x \in Int
    BY <1>2, <1>3 DEF SeqNumbers
  <2> HIDE DEF x, y
  <2>5. ((x % SeqMod) + y) % SeqMod = (x + y) % SeqMod
    BY <2>4, Sizes, ModAdd
  <2> QED BY <2>3, <2>4, <2>5, <1>2
<1>5. ASSUME d - i < RunStart(d), i < SeqMod PROVE SeqOf(d) = d - RunStart(d)
  <2>1. x \in 0 .. SeqMod - 1
    BY <1>1, <1>5, Sizes
  <2> QED BY <2>1, <1>2, Sizes, ModSmall
<1> QED BY <1>1, <1>3, <1>4, <1>5

\* What is lost before a datagram is the distance of the sequence numbers, in a
\* signed 16-bit integer.
LEMMA LostRange ==
  ASSUME NEW s \in SeqNumbers, last_seq_num \in SeqNumbers
  PROVE  LET m == (s - last_seq_num - 1) % SeqMod
         IN  /\ m \in SeqNumbers /\ Lost(s) \in Int
             /\ Lost(s) >= 0 => Lost(s) = m
             /\ Lost(s) <= m
<1> DEFINE m == (s - last_seq_num - 1) % SeqMod
<1>1. m \in SeqNumbers
  BY Sizes, ModSmall DEF SeqNumbers
<1> QED BY <1>1, Sizes DEF Lost, SeqNumbers

\* The index where the receiver starts is in the datagram, and where it is not the
\* last one nothing is left to conceal.
LEMMA LastIndex ==
  ASSUME StreamInv, NEW d \in Deliverable
  PROVE  LET i == RedunLastIndex(d)
             m == (SeqOf(d) - last_seq_num - 1) % SeqMod
         IN  /\ i \in 0 .. Copies - 1
             /\ \/ d - i >= RunStart(d) /\ m = i % SeqMod
                \/ i = Copies - 1 /\ \A j \in 0 .. Copies - 1 : HeaderSeq(d, j) # last_seq_num + 1
<1> DEFINE hits == {i \in 0 .. Copies - 1 : IsNextExpected(HeaderSeq(d, i))}
           m == (SeqOf(d) - last_seq_num - 1) % SeqMod
<1>1. CASE hits = {}
  <2>1. RedunLastIndex(d) = Copies - 1
    BY <1>1 DEF RedunLastIndex
  <2> QED BY <1>1, <2>1, Sizes DEF IsNextExpected
<1>2. CASE hits # {}
  <2>1. \A i \in hits : i \in Nat
    BY Sizes
  <2>2. \E i \in hits : \A j \in hits : i <= j
    BY <1>2, <2>1, Least
  <2> DEFINE i == RedunLastIndex(d)
  <2>3. i \in hits
    BY <1>2, <2>2 DEF RedunLastIndex
  <2>4. i \in 0 .. Copies - 1 /\ HeaderSeq(d, i) = last_seq_num + 1
    BY <2>3 DEF IsNextExpected
  <2> HIDE DEF i, hits
  <2>5. i \in Nat /\ last_seq_num \in Nat
    BY <2>4, Sizes DEF StreamInv, SeqNumbers
  <2>6. d - i >= RunStart(d) /\ SeqOf(d - i) = last_seq_num + 1
    BY <2>4, <2>5 DEF HeaderSeq
  <2>7. (SeqOf(d) - i) % SeqMod = last_seq_num + 1 /\ SeqOf(d) \in Int
    BY <2>5, <2>6, SeqOfBack DEF SeqNumbers
  <2> DEFINE s == SeqOf(d)
             x == s - i
  <2>8. s \in Int /\ x \in Int /\ s - x = i /\ s - last_seq_num - 1 = s - (last_seq_num + 1)
    BY <2>5, <2>7
  <2>9. x % SeqMod = last_seq_num + 1
    BY <2>7
  <2> HIDE DEF x, s
  <2>10. (s - (x % SeqMod)) % SeqMod = (s - x) % SeqMod
    BY <2>8, Sizes, ModAdd
  <2>11. (SeqOf(d) - last_seq_num - 1) % SeqMod = i % SeqMod
    BY <2>8, <2>9, <2>10 DEF s
  <2> QED BY <2>4, <2>6, <2>11 DEF i
<1> QED BY <1>1, <1>2

-----------------------------------------------------------------------------
(* What an accepted datagram adds to the playout *)

\* A function on 1 .. n is a sequence.
LEMMA FcnIsSeq ==
  ASSUME NEW S, NEW n \in Nat, NEW f \in [1 .. n -> S]
  PROVE  f \in Seq(S) /\ Len(f) = n
OBVIOUS

\* A sequence p, a run of g times c, and m more elements h.
Grown(q, S, p, c, g, h, m) ==
  /\ q \in Seq(S) /\ Len(q) = Len(p) + g + m
  /\ \A k \in 1 .. Len(p) : q[k] = p[k]
  /\ \A k \in Len(p) + 1 .. Len(p) + g : q[k] = c
  /\ \A k \in 1 .. m : q[Len(p) + g + k] = h[k]

\* The concatenation has its parts in place.
LEMMA Appended ==
  ASSUME NEW S, NEW p \in Seq(S), NEW c \in S, NEW g \in Nat, NEW m \in Nat,
         NEW r \in [1 .. g -> {c}], NEW h \in [1 .. m -> S],
         NEW q, q = p \o r \o h
  PROVE  Grown(q, S, p, c, g, h, m)
<1>2. r \in [1 .. g -> S] /\ \A k \in 1 .. g : r[k] = c
  OBVIOUS
<1>3. r \in Seq(S) /\ Len(r) = g
  BY <1>2, FcnIsSeq
<1>4. h \in Seq(S) /\ Len(h) = m
  BY FcnIsSeq
<1>5. PICK t : t = p \o r
  OBVIOUS
<1>6. t \in Seq(S) /\ Len(t) = Len(p) + Len(r)
      /\ \A k \in 1 .. Len(p) + Len(r) : t[k] = IF k <= Len(p) THEN p[k] ELSE r[k - Len(p)]
  BY <1>3, <1>5, ConcatProperties
<1>7. q \in Seq(S) /\ Len(q) = Len(t) + Len(h)
      /\ \A k \in 1 .. Len(t) + Len(h) : q[k] = IF k <= Len(t) THEN t[k] ELSE h[k - Len(t)]
  <2>1. q = t \o h
    BY <1>5
  <2> QED BY <1>4, <1>6, <2>1, ConcatProperties
<1>8. Len(p) \in Nat /\ Len(t) = Len(p) + g
  BY <1>3, <1>6
<1>9. q \in Seq(S) /\ Len(q) = Len(p) + g + m
  BY <1>4, <1>7, <1>8
<1>10. \A k \in 1 .. Len(p) : q[k] = p[k]
  <2> SUFFICES ASSUME NEW k \in 1 .. Len(p) PROVE q[k] = p[k]
    OBVIOUS
  <2>1. k \in 1 .. Len(t) + Len(h) /\ k <= Len(t) /\ k <= Len(p) /\ k \in 1 .. Len(p) + Len(r)
    BY <1>3, <1>4, <1>8
  <2> QED BY <1>6, <1>7, <2>1
<1>11. \A k \in Len(p) + 1 .. Len(p) + g : q[k] = c
  <2> SUFFICES ASSUME NEW k \in Len(p) + 1 .. Len(p) + g PROVE q[k] = c
    OBVIOUS
  <2>1. k - Len(p) \in 1 .. g /\ k \in 1 .. Len(t) + Len(h) /\ k <= Len(t) /\ ~(k <= Len(p))
        /\ k \in 1 .. Len(p) + Len(r)
    BY <1>3, <1>4, <1>8
  <2>2. q[k] = t[k] /\ t[k] = r[k - Len(p)]
    BY <1>6, <1>7, <2>1
  <2> QED BY <1>2, <2>1, <2>2
<1>12. \A k \in 1 .. m : q[Len(p) + g + k] = h[k]
  <2> SUFFICES ASSUME NEW k \in 1 .. m PROVE q[Len(p) + g + k] = h[k]
    OBVIOUS
  <2>1. PICK j : j = Len(t) + k
    OBVIOUS
  <2>2. j \in 1 .. Len(t) + Len(h) /\ ~(j <= Len(t)) /\ j - Len(t) = k /\ j = Len(p) + g + k
    BY <1>4, <1>8, <2>1
  <2>3. q[j] = h[j - Len(t)]
    BY <1>7, <2>2
  <2> QED BY <2>2, <2>3
<1> QED BY <1>9, <1>10, <1>11, <1>12 DEF Grown

\* The packets of a datagram that are handed over: numbers in order, or zeros.
LEMMA HandedPackets ==
  ASSUME StreamInv, NEW d \in Deliverable, NEW i \in 0 .. Copies - 1
  PROVE  /\ Handed(d, i) \in [1 .. i + 1 -> Payloads]
         /\ \A k \in 1 .. i + 1 :
               Handed(d, i)[k] \in {(SeqOf(d) - (i + 1 - k)) % SeqMod, Silent}
<1> SUFFICES ASSUME NEW k \in 1 .. i + 1
             PROVE  /\ Payload(d, i + 1 - k) \in Payloads
                    /\ Payload(d, i + 1 - k) \in {(SeqOf(d) - (i + 1 - k)) % SeqMod, Silent}
  BY DEF Handed
<1> DEFINE j == i + 1 - k
<1>1. j \in Nat /\ j < PeerRedundancy /\ SeqOf(d) \in Int /\ SeqOf(d) - j \in Int
  BY Sizes, SeqOfBack DEF SeqNumbers
<1> HIDE DEF j
<1>2. (SeqOf(d) - j) % SeqMod \in SeqNumbers
  BY <1>1, Sizes, ModSmall DEF SeqNumbers
<1>3. Payload(d, j) \in {(SeqOf(d) - j) % SeqMod, Silent}
  BY <1>1, Sizes, SeqOfBack DEF Payload
<1> QED BY <1>2, <1>3 DEF Payloads, j

\* The playout after datagram d: what it was, g packets to conceal, and the packets
\* from index i down; before the order was known, these alone.
Extends(d, i, g) ==
  /\ playout' \in Seq(Payloads)
  /\ Len(playout') = Len(playout) + g + i + 1
  /\ \A k \in 1 .. Len(playout) : playout'[k] = playout[k]
  /\ \A k \in Len(playout) + 1 .. Len(playout) + g : playout'[k] = Concealed
  /\ \A k \in 1 .. i + 1 :
        playout'[Len(playout) + g + k] \in {(SeqOf(d) - (i + 1 - k)) % SeqMod, Silent}

\* Packets are concealed only if the whole datagram is handed over, and the gap and
\* the packets make up for what was lost: always, if the datagram has one packet to
\* look at, and otherwise unless the numbers have wrapped.
LEMMA AcceptExtends ==
  ASSUME StreamInv, NEW d \in Deliverable, Accept(d), ~mInitialState
  PROVE  \E i \in 0 .. Copies - 1, g \in Nat :
           /\ Extends(d, i, g)
           /\ g > 0 => i = Copies - 1
           /\ Copies = 1 \/ (last_seq_num < MaxSend /\ MaxSend + MaxGap < SeqMod)
                => g + i = (SeqOf(d) - last_seq_num - 1) % SeqMod
<1> DEFINE i == RedunLastIndex(d)
           s == SeqOf(d)
           L == Lost(s)
           m == (s - last_seq_num - 1) % SeqMod
           g == IF L - i > 0 THEN L - i ELSE 0
<1>1. s \in SeqNumbers /\ s <= d /\ d \in 0 .. MaxSend - 1 /\ i \in 0 .. Copies - 1
  BY SeqOfBack, LastIndex, Sizes
<1>2. m \in SeqNumbers /\ L \in Int /\ L >= 0 /\ L <= MaxGap /\ L = m
  <2>1. ~OutOfOrder(s)
    BY DEF Accept
  <2>2. L >= 0 /\ L <= MaxGap
    BY <1>1, <2>1, LostRange, StreamAssumption DEF OutOfOrder, StreamInv
  <2> QED BY <1>1, <2>2, LostRange DEF StreamInv
<1>3. \/ d - i >= RunStart(d) /\ m = i % SeqMod
      \/ i = Copies - 1 /\ \A j \in 0 .. Copies - 1 : HeaderSeq(d, j) # last_seq_num + 1
  BY LastIndex
<1>4. L - i \in Int /\ Gap(d, i) = L - i
  BY <1>1, <1>2, Sizes DEF Gap
<1>5. playout' = playout \o [k \in 1 .. L - i |-> Concealed] \o Handed(d, i)
  BY <1>4 DEF Accept
<1>6. Handed(d, i) \in [1 .. i + 1 -> Payloads] /\ i + 1 \in Nat
      /\ \A k \in 1 .. i + 1 : Handed(d, i)[k] \in {(s - (i + 1 - k)) % SeqMod, Silent}
  BY <1>1, HandedPackets, Sizes
<1> HIDE DEF i, L, m
<1>7. g \in Nat /\ Extends(d, i, g)
  <2> DEFINE h == Handed(d, i)
             n == L - i
             e == i + 1
             r == [k \in 1 .. n |-> Concealed]
  <2>1. h \in [1 .. e -> Payloads] /\ e \in Nat /\ Concealed \in Payloads
        /\ playout \in Seq(Payloads)
    BY <1>6 DEF StreamInv, Payloads
  <2>2. n \in Int /\ g = IF n > 0 THEN n ELSE 0
    BY <1>4
  <2>3. playout' = playout \o r \o h
    BY <1>5
  <2> HIDE DEF h, n, e, g
  <2>5. g \in Nat /\ 1 .. n = 1 .. g
    BY <2>2
  <2>4. r \in [1 .. g -> {Concealed}]
    BY <2>5
  <2> HIDE DEF r
  <2>6. /\ playout' \in Seq(Payloads)
        /\ Len(playout') = Len(playout) + g + e
        /\ \A k \in 1 .. Len(playout) : playout'[k] = playout[k]
        /\ \A k \in Len(playout) + 1 .. Len(playout) + g : playout'[k] = Concealed
        /\ \A k \in 1 .. e : playout'[Len(playout) + g + k] = h[k]
    <3>1. Grown(playout', Payloads, playout, Concealed, g, h, e)
      BY <2>1, <2>3, <2>4, <2>5, Appended
    <3> QED BY <3>1 DEF Grown
  <2>7. Len(playout') = Len(playout) + g + i + 1
    <3>1. Len(playout) \in Nat /\ i \in Int
      BY <1>1, <2>1, Sizes
    <3> QED BY <2>5, <2>6, <3>1 DEF e
  <2>8. \A k \in 1 .. i + 1 :
          playout'[Len(playout) + g + k] \in {(s - (i + 1 - k)) % SeqMod, Silent}
    BY <1>6, <2>6 DEF e, h
  <2> QED BY <2>5, <2>6, <2>7, <2>8 DEF Extends
<1>8. g > 0 => i = Copies - 1
  <2>1. ASSUME d - i >= RunStart(d), m = i % SeqMod PROVE ~(g > 0)
    <3>1. i \in Nat
      BY <1>1, Sizes
    <3>2. i % SeqMod <= i
      BY <3>1, Sizes, ModSmall
    <3> QED BY <1>2, <2>1, <3>1, <3>2
  <2> QED BY <1>3, <2>1
<1>9. ASSUME Copies = 1 \/ (last_seq_num < MaxSend /\ MaxSend + MaxGap < SeqMod)
      PROVE  g + i = m
  <2>1. CASE d - i >= RunStart(d) /\ m = i % SeqMod
    <3>1. i \in 0 .. SeqMod - 1
      BY <1>1, Sizes, StreamAssumption
    <3>2. m = i
      BY <2>1, <3>1, Sizes, ModSmall
    <3> QED BY <3>2, <1>1, <1>2, Sizes
  <2>2. CASE i = Copies - 1 /\ \A j \in 0 .. Copies - 1 : HeaderSeq(d, j) # last_seq_num + 1
    <3>1. CASE Copies = 1
      BY <2>2, <3>1, <1>2
    <3>2. CASE last_seq_num < MaxSend /\ MaxSend + MaxGap < SeqMod
      <4>1. last_seq_num \in Nat /\ MaxSend \in Nat /\ MaxGap \in Nat /\ m \in Nat /\ m <= MaxGap
        BY <1>2, StreamAssumption, Sizes DEF StreamInv, SeqNumbers
      <4>2. s - last_seq_num - 1 \in -SeqMod .. SeqMod - 1 /\ s \in Nat
        BY <1>1, <4>1, Sizes, <3>2 DEF SeqNumbers
      <4>3. s - last_seq_num - 1 >= 0
        <5>1. ASSUME s - last_seq_num - 1 < 0 PROVE FALSE
          <6> DEFINE x == s - last_seq_num - 1
          <6>1. x \in -SeqMod .. -1 /\ x \in Int /\ x + SeqMod > MaxGap
            BY <5>1, <4>1, <4>2, <3>2, Sizes
          <6>2. x + SeqMod \in 0 .. SeqMod - 1 /\ x + SeqMod = x + SeqMod * 1
            BY <6>1, Sizes
          <6> DEFINE y == x + SeqMod
          <6>3. y \in Int /\ y = x + SeqMod * 1 /\ y \in 0 .. SeqMod - 1 /\ 1 \in Int
            BY <6>2, <6>1, Sizes
          <6>4. m = x % SeqMod
            BY DEF m
          <6>5. y > MaxGap
            BY <6>1
          <6> HIDE DEF x, y
          <6>6. y % SeqMod = x % SeqMod
            BY <6>1, <6>3, Sizes, ModMultiple
          <6>7. y % SeqMod = y
            BY <6>3, Sizes, ModSmall
          <6> QED BY <4>1, <6>3, <6>4, <6>5, <6>6, <6>7
        <5> QED BY <5>1, <4>2, Sizes
      <4>4. m = s - last_seq_num - 1
        BY <4>2, <4>3, Sizes, ModSmall DEF m
      <4>5. ASSUME m < Copies PROVE FALSE
        <5>1. m \in 0 .. Copies - 1 /\ s - m = last_seq_num + 1
          BY <4>1, <4>2, <4>4, <4>5, Sizes
        <5>2. CASE d - m >= RunStart(d)
          <6>1. HeaderSeq(d, m) = (s - m) % SeqMod
            BY <4>1, <5>2, SeqOfBack DEF HeaderSeq
          <6>2. last_seq_num + 1 \in 0 .. SeqMod - 1
            BY <4>1, <3>2, Sizes
          <6>3. HeaderSeq(d, m) = last_seq_num + 1
            BY <5>1, <6>1, <6>2, Sizes, ModSmall
          <6> QED BY <2>2, <5>1, <6>3
        <5>3. CASE d - m < RunStart(d)
          <6>0. m < SeqMod
            BY <1>2, <4>1, Sizes DEF SeqNumbers
          <6>1. s = d - RunStart(d)
            BY <4>1, <5>3, <6>0, SeqOfBack
          <6>2. RunStart(d) \in Nat /\ d \in Nat
            BY SeqOfBack
          <6> QED BY <6>1, <6>2, <5>1, <5>3, <4>1
        <5> QED BY <5>2, <5>3, <1>1, <4>1, SeqOfBack
      <4> QED BY <4>5, <2>2, <1>2, <4>1, Sizes
    <3> QED BY <1>9, <3>1, <3>2
  <2> QED BY <2>1, <2>2, <1>3
<1> QED BY <1>1, <1>7, <1>8, <1>9 DEF m

\* Until the order is known the packets of the datagram are all there is.
LEMMA FirstAccept ==
  ASSUME StreamInv, NEW d \in Deliverable, Accept(d), mInitialState
  PROVE  \E i \in 0 .. Copies - 1 :
           /\ playout' \in Seq(Payloads) /\ Len(playout') = i + 1
           /\ firstSeq' = (SeqOf(d) - i) % SeqMod
           /\ \A k \in 1 .. i + 1 : playout'[k] \in {(SeqOf(d) - (i + 1 - k)) % SeqMod, Silent}
<1> DEFINE i == RedunLastIndex(d)
<1>1. i \in 0 .. Copies - 1
  BY LastIndex
<1>2. playout' = Handed(d, i) /\ firstSeq' = (SeqOf(d) - i) % SeqMod
  BY DEF Accept
<1>3. Handed(d, i) \in [1 .. i + 1 -> Payloads] /\ i + 1 \in Nat
      /\ \A k \in 1 .. i + 1 : Handed(d, i)[k] \in {(SeqOf(d) - (i + 1 - k)) % SeqMod, Silent}
  BY <1>1, HandedPackets, Sizes
<1> HIDE DEF i
<1>4. playout' \in Seq(Payloads) /\ Len(playout') = i + 1
  BY <1>2, <1>3
<1> QED BY <1>1, <1>2, <1>3, <1>4

-----------------------------------------------------------------------------
(* The invariants of the playout *)

\* What a step does to the playout: nothing, or what an accepted datagram does.
LEMMA PlayoutSteps ==
  ASSUME StreamInv, [Next]_vars
  PROVE  \/ UNCHANGED <<last_seq_num, firstSeq, playout>> /\ (~mInitialState' => ~mInitialState)
         \/ \E d \in Deliverable : Accept(d)
BY DEF Next, Send, RestartSender, ReceiveFirst, Receive, DropOutOfOrder, OutOfOrder, vars,
       receiverVars

\* The receiver starts in range.
LEMMA InitStreamInv == Init => StreamInv
BY StreamAssumption, Sizes DEF Init, StreamInv, SeqNumbers

\* Every step keeps the variables in range.
LEMMA NextStreamInv == StreamInv /\ [Next]_vars => StreamInv'
<1> SUFFICES ASSUME StreamInv, [Next]_vars PROVE StreamInv'
  OBVIOUS
<1>1. sent' \in 0 .. MaxSend /\ restartAt' \in 0 .. MaxSend
  <2>1. CASE Send
    BY <2>1, StreamAssumption DEF StreamInv, Send
  <2>2. CASE RestartSender
    BY <2>2, StreamAssumption DEF StreamInv, RestartSender
  <2>3. CASE ReceiveFirst \/ Receive \/ UNCHANGED vars
    <3>1. UNCHANGED <<sent, restartAt>>
      BY <2>3 DEF ReceiveFirst, Receive, DropOutOfOrder, Accept, vars
    <3> QED BY <3>1 DEF StreamInv
  <2> QED BY <2>1, <2>2, <2>3 DEF Next
<1>3. CASE UNCHANGED <<last_seq_num, firstSeq, playout>> /\ (~mInitialState' => ~mInitialState)
  BY <1>1, <1>3 DEF StreamInv
<1>4. ASSUME NEW d \in Deliverable, Accept(d) PROVE StreamInv'
  <2>1. last_seq_num' \in SeqNumbers
    BY <1>4, SeqOfBack DEF Accept
  <2>2. firstSeq' \in SeqNumbers /\ playout' \in Seq(Payloads) /\ playout' # << >>
    <3>1. CASE mInitialState
      <4>1. PICK i \in 0 .. Copies - 1 :
              /\ playout' \in Seq(Payloads) /\ Len(playout') = i + 1
              /\ firstSeq' = (SeqOf(d) - i) % SeqMod
        BY <1>4, <3>1, FirstAccept
      <4>2. SeqOf(d) - i \in Int
        <5>1. SeqOf(d) \in Int
          BY <1>4, SeqOfBack, 0 \in Nat DEF SeqNumbers
        <5>2. i \in Int
          BY Sizes
        <5> QED BY <5>1, <5>2
      <4>3. firstSeq' \in SeqNumbers
        BY <4>1, <4>2, ModSmall DEF SeqNumbers
      <4>4. i + 1 # 0 /\ Len(<< >>) = 0
        BY Sizes
      <4> QED BY <4>1, <4>3, <4>4
    <3>2. CASE ~mInitialState
      <4>1. PICK i \in 0 .. Copies - 1, g \in Nat : Extends(d, i, g)
        BY <1>4, <3>2, AcceptExtends
      <4>2. firstSeq' = firstSeq
        BY <1>4, <3>2 DEF Accept
      <4>3. Len(playout) \in Nat
        BY DEF StreamInv
      <4> QED BY <4>1, <4>2, <4>3, Sizes DEF Extends, StreamInv
    <3> QED BY <3>1, <3>2
  <2> QED BY <1>1, <2>1, <2>2 DEF StreamInv
<1> QED BY <1>3, <1>4, PlayoutSteps

\* A playout ends with a packet that was received.
RevivalInv ==
  /\ StreamInv
  /\ playout # << >> => playout[Len(playout)] # Concealed
  /\ ConcealedOnlyBeyondRedundancy

\* Only an accepted datagram adds to the playout, its gap before all of its packets.
LEMMA NextRevivalInv == RevivalInv /\ [Next]_vars => RevivalInv'
<1> SUFFICES ASSUME RevivalInv, [Next]_vars PROVE RevivalInv'
  OBVIOUS
<1>1. StreamInv /\ StreamInv'
  BY NextStreamInv DEF RevivalInv
<1>2. CASE UNCHANGED <<last_seq_num, firstSeq, playout>>
  BY <1>1, <1>2 DEF RevivalInv, ConcealedOnlyBeyondRedundancy
<1>3. ASSUME NEW d \in Deliverable, Accept(d) PROVE RevivalInv'
  <2>1. \A x \in Int : x % SeqMod # Concealed /\ Silent # Concealed
    BY Sizes, ModSmall DEF Concealed, Silent
  <2>2. SeqOf(d) \in Int
    BY <1>1, SeqOfBack DEF SeqNumbers
  <2>3. CASE mInitialState
    <3>1. PICK i \in 0 .. Copies - 1 :
            /\ playout' \in Seq(Payloads) /\ Len(playout') = i + 1
            /\ \A k \in 1 .. i + 1 : playout'[k] \in {(SeqOf(d) - (i + 1 - k)) % SeqMod, Silent}
      BY <1>1, <1>3, <2>3, FirstAccept
    <3>2. \A k \in 1 .. i + 1 : playout'[k] # Concealed
      <4> SUFFICES ASSUME NEW k \in 1 .. i + 1 PROVE playout'[k] # Concealed
        OBVIOUS
      <4>1. SeqOf(d) - (i + 1 - k) \in Int
        BY <2>2, Sizes
      <4> QED BY <2>1, <3>1, <4>1
    <3> QED BY <1>1, <3>1, <3>2, Sizes DEF RevivalInv, ConcealedOnlyBeyondRedundancy
  <2>4. CASE ~mInitialState
    <3>1. PICK i \in 0 .. Copies - 1, g \in Nat : Extends(d, i, g) /\ (g > 0 => i = Copies - 1)
      BY <1>1, <1>3, <2>4, AcceptExtends
    <3> DEFINE n == Len(playout)
    <3>2. n \in Nat /\ n > 0 /\ playout[n] # Concealed
      BY <1>1, <2>4 DEF RevivalInv, StreamInv
    <3>3. \A k \in 1 .. i + 1 : playout'[n + g + k] # Concealed
      <4> SUFFICES ASSUME NEW k \in 1 .. i + 1 PROVE playout'[n + g + k] # Concealed
        OBVIOUS
      <4>1. SeqOf(d) - (i + 1 - k) \in Int
        BY <2>2, Sizes
      <4> QED BY <2>1, <3>1, <4>1 DEF Extends
    <3>4. /\ Len(playout') = n + g + i + 1
          /\ \A k \in 1 .. n : playout'[k] = playout[k]
          /\ \A k \in n + 1 .. n + g : playout'[k] = Concealed
      BY <3>1 DEF Extends
    <3> HIDE DEF n
    <3>5. ASSUME NEW k \in 1 .. Len(playout') - 1,
                 playout'[k] = Concealed, playout'[k + 1] # Concealed
          PROVE  /\ k + Copies <= Len(playout')
                 /\ \A j \in k + 1 .. k + Copies : playout'[j] # Concealed
      <4>0. i \in Nat /\ Copies \in Nat \ {0}
        BY Sizes
      <4>1. CASE k < n
        <5>1. k \in 1 .. n - 1 /\ playout[k] = Concealed /\ playout[k + 1] # Concealed
          BY <3>2, <3>4, <3>5, <4>1
        <5>2. k + Copies <= n /\ \A j \in k + 1 .. k + Copies : playout[j] # Concealed
          BY <5>1 DEF RevivalInv, ConcealedOnlyBeyondRedundancy, n
        <5> QED BY <5>1, <5>2, <3>2, <3>4, <4>0
      <4>2. CASE k = n
        BY <4>2, <3>2, <3>4, <3>5
      <4>3. CASE k > n /\ k <= n + g
        <5>1. k = n + g /\ g > 0
          BY <4>3, <3>2, <3>4, <3>5, <4>0
        <5>2. i = Copies - 1
          BY <5>1, <3>1
        <5>3. \A j \in k + 1 .. k + Copies : j = n + g + (j - k) /\ j - k \in 1 .. i + 1
          <6> SUFFICES ASSUME NEW j \in k + 1 .. k + Copies
                       PROVE  j = n + g + (j - k) /\ j - k \in 1 .. i + 1
            OBVIOUS
          <6>1. k \in Nat /\ n \in Nat /\ g \in Nat
            BY <5>1, <3>2
          <6> QED BY <6>1, <5>1, <5>2, <4>0
        <5>4. \A j \in k + 1 .. k + Copies : playout'[j] # Concealed
          BY <5>3, <3>3
        <5> QED BY <5>1, <5>2, <5>4, <3>2, <3>4, <4>0
      <4>4. CASE k > n + g
        <5>1. k = n + g + (k - n - g) /\ k - n - g \in 1 .. i + 1
          BY <4>4, <3>2, <3>4, <4>0
        <5> QED BY <5>1, <3>3, <3>5
      <4> QED BY <4>1, <4>2, <4>3, <4>4, <3>2, <3>4, <4>0
    <3>6. playout'[Len(playout')] # Concealed
      BY <3>1, <3>2, <3>3, <3>4, Sizes
    <3> QED BY <1>1, <3>5, <3>6 DEF RevivalInv, ConcealedOnlyBeyondRedundancy
  <2> QED BY <2>3, <2>4
<1> QED BY <1>2, <1>3, PlayoutSteps DEF RevivalInv

\* For every redundancy, on both sides, every network and every restart of the peer:
\* no packet is concealed that the accepted datagram still held, wrapped numbers or
\* not (UdpDataProtocol.cpp:963-1027).
THEOREM RedundancyIsUsed == Spec => []ConcealedOnlyBeyondRedundancy
<1>1. Init => RevivalInv
  <2> SUFFICES ASSUME Init PROVE RevivalInv
    OBVIOUS
  <2>1. StreamInv /\ playout = << >> /\ Len(playout) = 0
    BY InitStreamInv DEF Init
  <2> QED BY <2>1 DEF RevivalInv, ConcealedOnlyBeyondRedundancy
<1>2. RevivalInv => ConcealedOnlyBeyondRedundancy
  BY DEF RevivalInv
<1> QED BY <1>1, <1>2, NextRevivalInv, PTL DEF Spec

-----------------------------------------------------------------------------
(* The order of the playout *)

\* The number of the last packet of the playout is that of the last datagram.
TimelineInv ==
  /\ StreamInv
  /\ playout # << >> => /\ (firstSeq + Len(playout) - 1) % SeqMod = last_seq_num
                        /\ last_seq_num < MaxSend
  /\ \A k \in 1 .. Len(playout) :
        playout[k] \in {(firstSeq + k - 1) % SeqMod, Silent, Concealed}

\* Numbers counted back from a datagram are numbers counted on from the last one.
LEMMA CountedOn ==
  ASSUME NEW s \in SeqNumbers, NEW l \in SeqNumbers, NEW f \in Int, f % SeqMod = l,
         NEW m, m = (s - l - 1) % SeqMod, NEW j \in Int
  PROVE  (s - j) % SeqMod = (f + (m + 1 - j)) % SeqMod
<1>1. s \in Int /\ l \in Int /\ m \in Int
  BY ModSmall, Sizes DEF SeqNumbers
<1> DEFINE x == s - l - 1
           y == l + 1 - j
           z == m + 1 - j
<1>2. x \in Int /\ y \in Int /\ z \in Int /\ m = x % SeqMod /\ x + y = s - j /\ m + y = l + z
  BY <1>1
<1> HIDE DEF x, y, z
<1>3. ((x % SeqMod) + y) % SeqMod = (x + y) % SeqMod
  BY <1>2, Sizes, ModAdd
<1>4. ((f % SeqMod) + z) % SeqMod = (f + z) % SeqMod
  BY <1>2, Sizes, ModAdd
<1>5. (s - j) % SeqMod = (f + z) % SeqMod
  BY <1>2, <1>3, <1>4
<1> QED BY <1>5 DEF z

\* An accepted datagram adds as much as was lost, and itself.
LEMMA NextTimelineInv ==
  ASSUME Copies = 1 \/ MaxSend + MaxGap < SeqMod
  PROVE  TimelineInv /\ [Next]_vars => TimelineInv'
<1> SUFFICES ASSUME TimelineInv, [Next]_vars PROVE TimelineInv'
  OBVIOUS
<1>1. StreamInv /\ StreamInv'
  BY NextStreamInv DEF TimelineInv
<1>2. CASE UNCHANGED <<last_seq_num, firstSeq, playout>>
  BY <1>1, <1>2 DEF TimelineInv
<1>3. ASSUME NEW d \in Deliverable, Accept(d) PROVE TimelineInv'
  <2> DEFINE s == SeqOf(d)
  <2>1. s \in SeqNumbers /\ s \in Int /\ s < MaxSend /\ s % SeqMod = s /\ last_seq_num' = s
    <3>1. s \in SeqNumbers /\ s <= d /\ d \in 0 .. MaxSend - 1
      BY <1>1, 0 \in Nat, SeqOfBack
    <3>2. s \in Int /\ s % SeqMod = s
      BY <3>1, Sizes, ModSmall DEF SeqNumbers
    <3>3. last_seq_num' = s
      BY <1>3 DEF Accept
    <3> QED BY <3>1, <3>2, <3>3, StreamAssumption
  <2> HIDE DEF s
  <2>2. CASE mInitialState
    <3>1. PICK i \in 0 .. Copies - 1 :
            /\ playout' \in Seq(Payloads) /\ Len(playout') = i + 1
            /\ firstSeq' = (s - i) % SeqMod
            /\ \A k \in 1 .. i + 1 : playout'[k] \in {(s - (i + 1 - k)) % SeqMod, Silent}
      BY <1>1, <1>3, <2>2, FirstAccept DEF s
    <3> DEFINE x == s - i
    <3>2. i \in Int /\ x \in Int /\ firstSeq' = x % SeqMod
      BY <2>1, <3>1, Sizes
    <3>3. \A y \in Int : (firstSeq' + y) % SeqMod = (x + y) % SeqMod
      <4> HIDE DEF x
      <4> QED BY <3>2, Sizes, ModAdd
    <3>4. \A k \in Int : (firstSeq' + k - 1) % SeqMod = (s - (i + 1 - k)) % SeqMod
      <4> SUFFICES ASSUME NEW k \in Int
                   PROVE  (firstSeq' + k - 1) % SeqMod = (s - (i + 1 - k)) % SeqMod
        OBVIOUS
      <4>1. k - 1 \in Int /\ firstSeq' \in Int
        BY <1>1, Sizes DEF StreamInv, SeqNumbers
      <4>2. firstSeq' + k - 1 = firstSeq' + (k - 1) /\ s - (i + 1 - k) = x + (k - 1)
        BY <2>1, <3>2, <4>1
      <4> QED BY <3>3, <4>1, <4>2
    <3>5. (firstSeq' + Len(playout') - 1) % SeqMod = last_seq_num'
      <4>1. i + 1 \in Int /\ s - (i + 1 - (i + 1)) = s
        BY <2>1, <3>2
      <4>2. (firstSeq' + (i + 1) - 1) % SeqMod = s
        BY <2>1, <3>4, <4>1
      <4> QED BY <2>1, <3>1, <4>2
    <3>6. \A k \in 1 .. Len(playout') :
            playout'[k] \in {(firstSeq' + k - 1) % SeqMod, Silent, Concealed}
      BY <3>1, <3>2, <3>4
    <3> QED BY <1>1, <2>1, <3>5, <3>6 DEF TimelineInv
  <2>3. CASE ~mInitialState
    <3> DEFINE n == Len(playout)
               l == last_seq_num
               m == (s - l - 1) % SeqMod
               f == firstSeq + n - 1
    <3>1. firstSeq' = firstSeq /\ playout # << >> /\ firstSeq \in Int /\ l \in SeqNumbers
      BY <1>1, <1>3, <2>3, Sizes DEF Accept, StreamInv, SeqNumbers
    <3>2. n \in Nat /\ f \in Int /\ f % SeqMod = l /\ l < MaxSend
      BY <1>1, <3>1 DEF TimelineInv, StreamInv
    <3>3. PICK i \in 0 .. Copies - 1, g \in Nat : Extends(d, i, g) /\ g + i = m
      BY <1>1, <1>3, <2>3, <3>2, AcceptExtends DEF s
    <3>4. i \in Int
      BY <3>3, Sizes
    <3>5. /\ Len(playout') = n + g + i + 1
          /\ \A k \in 1 .. n : playout'[k] = playout[k]
          /\ \A k \in n + 1 .. n + g : playout'[k] = Concealed
          /\ \A k \in 1 .. i + 1 : playout'[n + g + k] \in {(s - (i + 1 - k)) % SeqMod, Silent}
      BY <3>3 DEF Extends, s
    <3> HIDE DEF n, l, m, f
    <3>6. \A k \in Int : (s - (i + 1 - k)) % SeqMod = (firstSeq + (n + g + k) - 1) % SeqMod
      <4> SUFFICES ASSUME NEW k \in Int
                   PROVE  (s - (i + 1 - k)) % SeqMod = (firstSeq + (n + g + k) - 1) % SeqMod
        OBVIOUS
      <4> DEFINE j == i + 1 - k
      <4>1. j \in Int /\ f + (m + 1 - j) = firstSeq + (n + g + k) - 1
        BY <3>1, <3>2, <3>3, <3>4 DEF f
      <4> HIDE DEF j
      <4>2. (s - j) % SeqMod = (f + (m + 1 - j)) % SeqMod
        BY <2>1, <3>1, <3>2, <4>1, CountedOn DEF m
      <4> QED BY <4>1, <4>2 DEF j
    <3>7. (firstSeq' + Len(playout') - 1) % SeqMod = last_seq_num'
      <4>1. i + 1 \in Int /\ s - (i + 1 - (i + 1)) = s /\ n + g + (i + 1) = n + g + i + 1
        BY <2>1, <3>2, <3>3, <3>4
      <4>2. s % SeqMod = (firstSeq + (n + g + (i + 1)) - 1) % SeqMod
        BY <3>6, <4>1
      <4> QED BY <2>1, <3>1, <3>5, <4>1, <4>2
    <3>8. ASSUME NEW k \in 1 .. Len(playout')
          PROVE  playout'[k] \in {(firstSeq' + k - 1) % SeqMod, Silent, Concealed}
      <4>1. CASE k <= n
        <5>1. k \in 1 .. n /\ k \in 1 .. Len(playout)
          BY <3>2, <3>5, <3>4, <4>1 DEF n
        <5> QED BY <3>1, <3>5, <5>1 DEF TimelineInv
      <4>2. CASE k > n /\ k <= n + g
        <5>1. k \in n + 1 .. n + g
          BY <3>2, <3>5, <3>4, <4>2
        <5> QED BY <3>5, <5>1
      <4>3. CASE k > n + g
        <5> DEFINE j == k - n - g
        <5>1. j \in 1 .. i + 1 /\ k = n + g + j /\ j \in Int
          BY <3>2, <3>3, <3>5, <3>4, <4>3
        <5> HIDE DEF j
        <5>2. playout'[k] \in {(s - (i + 1 - j)) % SeqMod, Silent}
          BY <3>5, <5>1
        <5> QED BY <3>1, <3>6, <5>1, <5>2
      <4>4. k \in Int /\ n \in Int /\ g \in Int
        BY <3>2, <3>3, <3>5, <3>4
      <4> QED BY <4>1, <4>2, <4>3, <4>4
    <3> QED BY <1>1, <2>1, <3>7, <3>8 DEF TimelineInv
  <2> QED BY <2>2, <2>3
<1> QED BY <1>2, <1>3, PlayoutSteps DEF TimelineInv

\* For every network and every restart of the peer, what is played is the sender's
\* stream in its order and in its time: always, if the datagrams carry one packet or
\* the receiver looks at one, and with redundancy as long as the sequence numbers have
\* not come near their wrap (UdpDataProtocol.cpp:944-1027), where IsNextExpected fails
\* and the run redundancy_wrap shows packets played twice.
THEOREM PlayoutKeepsTheTimeline ==
  ASSUME Copies = 1 \/ MaxSend + MaxGap < SeqMod
  PROVE  Spec => []Timeline
<1>1. Init => TimelineInv
  <2> SUFFICES ASSUME Init PROVE TimelineInv
    OBVIOUS
  <2>1. StreamInv /\ playout = << >> /\ Len(playout) = 0
    BY InitStreamInv DEF Init
  <2> QED BY <2>1 DEF TimelineInv
<1>2. TimelineInv => Timeline
  BY DEF TimelineInv, Timeline
<1> QED BY <1>1, <1>2, NextTimelineInv, PTL DEF Spec
=============================================================================
