-------------------------- MODULE HubListenerProofs --------------------------
(* Proofs about HubListener, for every number of slots, clients and         *)
(* endpoints.  The calls that handlers make are functions of the hub's      *)
(* state, a record; the lemmas say what each does to its fields, and the    *)
(* invariants are predicates of that record.                                *)
EXTENDS HubListener, FiniteSetTheorems, WellFoundedInduction, TLAPS

\* A name that JACK has run out of is an unspecified value, not an error.
AnyName == Names \cup {NoName, Min({})}

AnyWorker ==
  [life : {"unborn", "alive", "deleted"}, mID : Slots,
   mSpawning : BOOLEAN, mRunning : BOOLEAN, mPatched : BOOLEAN,
   mAssignedClientName : AnyName, mClientPort : Endpoints \cup {NoEndpoint},
   listening : BOOLEAN, jackTrip : {"none", "ready", "waiting", "audio", "stopped"},
   socket : BOOLEAN, name : AnyName, channel : {"none", "new", "open"},
   icePorts : SUBSET Slots, reported : SUBSET RtcSignals]

Event == [what : Events, to : Workers]

\* The hub's states as records.
HubType ==
  [slot : [Slots -> Workers \cup {NoWorker}], total : Int, worker : [Workers -> AnyWorker],
   clients : SUBSET AnyName, posted : Seq(Event), stopped : BOOLEAN,
   fatal : {"none", "bind", "releaseThread", "completeConnection"}]

\* The events that wait to be delivered.
Elements(q) == {q[k] : k \in 1 .. Len(q)}
Queued(h) == {h.posted[k] : k \in 1 .. Len(h.posted)}

-----------------------------------------------------------------------------
(* What the calls do to the fields of the hub *)

\* g is h but for the worker w, the patcher's clients and the events posted.
OnlyWorker(h, g, w) ==
  /\ g \in HubType
  /\ g.slot = h.slot /\ g.total = h.total
  /\ g.stopped = h.stopped /\ g.fatal = h.fatal
  /\ \A v \in Workers \ {w} : g.worker[v] = h.worker[v]

\* The hub with another record of worker w.
With(h, w, r) == [h EXCEPT !.worker[w] = r]

\* The records of a worker whose JackTrip has been stopped, and that the patcher
\* has forgotten.
JackTripStopped(r) == [r EXCEPT !.jackTrip = "stopped", !.socket = (r.jackTrip = "waiting"),
                                !.name = NoName]
Unpatched(r) == [r EXCEPT !.mPatched = FALSE]

LEMMA NoNameAny == NoName \in AnyName
BY DEF AnyName

\* A worker whose mRunning is cleared.
LEMMA ClearedRunning ==
  ASSUME NEW r \in AnyWorker, NEW x, x = [r EXCEPT !.mRunning = FALSE]
  PROVE  /\ x \in AnyWorker /\ x.life = r.life /\ x.channel = r.channel
         /\ x.listening = r.listening /\ ~x.mRunning
<1>1. x \in AnyWorker
  BY DEF AnyWorker
<1>2. x.life = r.life /\ x.channel = r.channel
  BY DEF AnyWorker
<1>3. x.listening = r.listening /\ ~x.mRunning
  BY DEF AnyWorker
<1> QED BY <1>1, <1>2, <1>3

\* A field set in a worker.
LEMMA SetWorker ==
  ASSUME NEW h \in HubType, NEW w \in Workers, NEW r \in AnyWorker,
         NEW g, g = With(h, w, r)
  PROVE  /\ OnlyWorker(h, g, w)
         /\ g.worker[w] = r /\ g.posted = h.posted /\ g.clients = h.clients
<1>1. g \in HubType
  BY DEF HubType, With
<1>2. g.slot = h.slot /\ g.total = h.total /\ g.stopped = h.stopped /\ g.fatal = h.fatal
  BY DEF HubType, With
<1>3. g.posted = h.posted /\ g.clients = h.clients
  BY DEF HubType, With
<1>4. g.worker[w] = r /\ \A v \in Workers \ {w} : g.worker[v] = h.worker[v]
  BY DEF HubType, With
<1> QED BY <1>1, <1>2, <1>3, <1>4 DEF OnlyWorker

\* g is h with one more event.
Posted(h, g, e) ==
  /\ g \in HubType /\ g.slot = h.slot /\ g.total = h.total
  /\ g.stopped = h.stopped /\ g.fatal = h.fatal /\ g.worker = h.worker
  /\ g.clients = h.clients
  /\ g.posted = Append(h.posted, e)
  /\ Queued(g) = Queued(h) \cup {e}

\* A posted event.
LEMMA Posting ==
  ASSUME NEW h \in HubType, NEW what \in Events, NEW w \in Workers,
         NEW g, g = Post(h, what, w)
  PROVE  Posted(h, g, [what |-> what, to |-> w])
<1> DEFINE e == [what |-> what, to |-> w]
<1>1. e \in Event
  BY DEF Event
<1>2. g = [h EXCEPT !.posted = Append(h.posted, e)]
  BY DEF Post, HubType
<1> HIDE DEF e
<1>3. h.posted \in Seq(Event)
  BY DEF HubType
<1>4. Append(h.posted, e) \in Seq(Event)
  BY <1>1, <1>3
<1>5. g \in HubType
  BY <1>2, <1>4 DEF HubType
<1>6. g.slot = h.slot /\ g.total = h.total /\ g.stopped = h.stopped /\ g.fatal = h.fatal
  BY <1>2 DEF HubType
<1>7. g.worker = h.worker /\ g.clients = h.clients /\ g.posted = Append(h.posted, e)
  BY <1>2 DEF HubType
<1>8. Queued(g) = Queued(h) \cup {e}
  <2>1. Len(g.posted) = Len(h.posted) + 1 /\ Len(h.posted) \in Nat
    BY <1>1, <1>3, <1>7
  <2>2. \A k \in 1 .. Len(h.posted) : g.posted[k] = h.posted[k]
    BY <1>1, <1>3, <1>7
  <2>3. g.posted[Len(h.posted) + 1] = e
    BY <1>1, <1>3, <1>7
  <2>4. 1 .. Len(g.posted) = (1 .. Len(h.posted)) \cup {Len(h.posted) + 1}
    BY <2>1
  <2>5. Queued(g) = {g.posted[k] : k \in 1 .. Len(h.posted)} \cup {g.posted[Len(h.posted) + 1]}
    BY <2>4, Zenon DEF Queued
  <2>6. {g.posted[k] : k \in 1 .. Len(h.posted)} = Queued(h)
    BY <2>2, Zenon DEF Queued
  <2> QED BY <2>3, <2>5, <2>6
<1> QED BY <1>5, <1>6, <1>7, <1>8 DEF e, Posted

\* JackTrip::stop.
LEMMA StoppingJackTrip ==
  ASSUME NEW h \in HubType, NEW w \in Workers, NEW g, g = StopJackTrip(h, w)
  PROVE  /\ OnlyWorker(h, g, w)
         /\ g.clients = h.clients
         /\ \/ /\ g = h /\ h.worker[w].jackTrip \notin {"waiting", "audio"}
            \/ /\ h.worker[w].jackTrip \in {"waiting", "audio"}
               /\ g.posted = Append(h.posted, [what |-> "jacktripStopped", to |-> w])
               /\ Queued(g) = Queued(h) \cup {[what |-> "jacktripStopped", to |-> w]}
               /\ g.worker[w] = JackTripStopped(h.worker[w])
<1> DEFINE r == [h.worker[w] EXCEPT !.jackTrip = "stopped",
                        !.socket = (h.worker[w].jackTrip = "waiting"), !.name = NoName]
           f == With(h, w, r)
<1>1. CASE h.worker[w].jackTrip \notin {"waiting", "audio"}
  <2>1. g = h
    BY <1>1 DEF StopJackTrip
  <2> QED BY <1>1, <2>1 DEF OnlyWorker
<1>2. CASE h.worker[w].jackTrip \in {"waiting", "audio"}
  <2>1. h.worker[w] \in AnyWorker
    BY DEF HubType
  <2>2. r \in AnyWorker
    <3>1. PICK b \in BOOLEAN : b = (h.worker[w].jackTrip = "waiting")
      BY Zenon
    <3>2. [h.worker[w] EXCEPT !.jackTrip = "stopped", !.socket = b, !.name = NoName] \in AnyWorker
      BY <2>1, NoNameAny DEF AnyWorker
    <3> QED BY <3>1, <3>2
  <2>3. g = Post(f, "jacktripStopped", w)
    <3>1. f = [h EXCEPT !.worker[w].jackTrip = "stopped",
                        !.worker[w].socket = (h.worker[w].jackTrip = "waiting"),
                        !.worker[w].name = NoName]
      BY DEF HubType, AnyWorker, With
    <3> QED BY <1>2, <3>1 DEF StopJackTrip
  <2>a. f = With(h, w, r)
    OBVIOUS
  <2> HIDE DEF r, f
  <2>4. OnlyWorker(h, f, w) /\ f.worker[w] = r /\ f.posted = h.posted /\ f.clients = h.clients
    BY <2>2, <2>a, SetWorker
  <2>5. "jacktripStopped" \in Events /\ f \in HubType
    BY <2>4 DEF Events, OnlyWorker
  <2>6. Posted(f, g, [what |-> "jacktripStopped", to |-> w])
    BY <2>3, <2>5, Posting
  <2>7. Queued(f) = Queued(h)
    BY <2>4 DEF Queued
  <2>8. OnlyWorker(h, g, w)
    BY <2>4, <2>6 DEF OnlyWorker, Posted
  <2> QED BY <1>2, <2>4, <2>6, <2>7, <2>8 DEF r, JackTripStopped, Posted
<1> QED BY <1>1, <1>2

\* unregisterClientWithPatcher.
LEMMA Unpatching ==
  ASSUME NEW h \in HubType, NEW w \in Workers, NEW g, g = Unpatch(h, w)
  PROVE  /\ OnlyWorker(h, g, w) /\ g.posted = h.posted
         /\ g.worker[w] = Unpatched(h.worker[w])
         /\ g.clients = IF h.worker[w].mPatched
                        THEN h.clients \ {h.worker[w].mAssignedClientName} ELSE h.clients
<1>0. h.worker[w] \in AnyWorker
  BY DEF HubType
<1>1. CASE h.worker[w].mPatched
  <2> DEFINE r == [h.worker[w] EXCEPT !.mPatched = FALSE]
             f == With(h, w, r)
             c == h.clients \ {h.worker[w].mAssignedClientName}
  <2>1. r \in AnyWorker
    BY <1>0 DEF AnyWorker
  <2>2. g = [f EXCEPT !.clients = c]
    BY <1>1 DEF Unpatch, With, HubType, AnyWorker
  <2>3. f = With(h, w, r) /\ c \in SUBSET AnyName
    BY DEF HubType
  <2>4. c = h.clients \ {h.worker[w].mAssignedClientName} /\ r = [h.worker[w] EXCEPT !.mPatched = FALSE]
    OBVIOUS
  <2> HIDE DEF r, f, c
  <2>5. OnlyWorker(h, f, w) /\ f.worker[w] = r /\ f.posted = h.posted
    BY <2>1, <2>3, SetWorker
  <2>6. f \in HubType
    BY <2>5 DEF OnlyWorker
  <2>7. g \in HubType /\ g.slot = f.slot /\ g.total = f.total /\ g.stopped = f.stopped
    BY <2>2, <2>3, <2>6 DEF HubType
  <2>8. g.fatal = f.fatal /\ g.worker = f.worker /\ g.posted = f.posted /\ g.clients = c
    BY <2>2, <2>3, <2>6 DEF HubType
  <2>9. OnlyWorker(h, g, w)
    BY <2>5, <2>7, <2>8 DEF OnlyWorker
  <2> QED BY <1>1, <2>4, <2>5, <2>8, <2>9 DEF Unpatched
<1>2. CASE ~h.worker[w].mPatched
  <2>1. g = h
    BY <1>2 DEF Unpatch
  <2>2. h.worker[w] = Unpatched(h.worker[w])
    BY <1>0, <1>2 DEF AnyWorker, Unpatched
  <2> QED BY <1>2, <2>1, <2>2 DEF OnlyWorker
<1> QED BY <1>1, <1>2

\* The records have the same JACK client and the same registration.
SameClient(r, q) ==
  /\ r.jackTrip = q.jackTrip /\ r.name = q.name
  /\ r.mPatched = q.mPatched /\ r.mAssignedClientName = q.mAssignedClientName

\* A worker that runs stops its JackTrip and is unregistered.
Unregistered(h, g, w) ==
  /\ ~h.worker[w].mRunning => /\ SameClient(h.worker[w], g.worker[w])
                              /\ g.clients = h.clients /\ g.posted = h.posted
  /\ h.worker[w].mRunning =>
       /\ ~g.worker[w].mPatched
       /\ g.clients = IF h.worker[w].mPatched
                      THEN h.clients \ {h.worker[w].mAssignedClientName} ELSE h.clients
       /\ \/ /\ h.worker[w].jackTrip \notin {"waiting", "audio"} /\ g.posted = h.posted
             /\ g.worker[w].jackTrip = h.worker[w].jackTrip
             /\ g.worker[w].name = h.worker[w].name
          \/ /\ h.worker[w].jackTrip \in {"waiting", "audio"}
             /\ g.posted = Append(h.posted, [what |-> "jacktripStopped", to |-> w])
             /\ g.worker[w].jackTrip = "stopped" /\ g.worker[w].name = NoName

\* What stopThread leaves of a worker.
Stopped(h, g, w) ==
  /\ OnlyWorker(h, g, w)
  /\ g.worker[w].life = h.worker[w].life /\ g.worker[w].mID = h.worker[w].mID
  /\ g.worker[w].mClientPort = h.worker[w].mClientPort
  /\ ~g.worker[w].mRunning /\ g.worker[w].channel = "none"
  /\ h.worker[w].mRunning => /\ g.worker[w].listening = h.worker[w].listening
                             /\ g.worker[w].mSpawning = h.worker[w].mSpawning
  /\ ~h.worker[w].mRunning => ~g.worker[w].listening /\ ~g.worker[w].mSpawning
  /\ \/ Queued(g) = Queued(h)
     \/ Queued(g) = Queued(h) \cup {[what |-> "jacktripStopped", to |-> w]}
  /\ Unregistered(h, g, w)

\* JackTripWorker::stopThread.
LEMMA StoppingThread ==
  ASSUME NEW h \in HubType, NEW w \in Workers, NEW g, g = StopThread(h, w)
  PROVE  Stopped(h, g, w)
<1>0. h.worker[w] \in AnyWorker
  BY DEF HubType
<1>1. CASE h.worker[w].mRunning
  <2> DEFINE r1 == [h.worker[w] EXCEPT !.mRunning = FALSE]
             h1 == With(h, w, r1)
             h2 == StopJackTrip(h1, w)
             h3 == Unpatch(h2, w)
             r4 == [h3.worker[w] EXCEPT !.channel = "none"]
  <2>1. r1 \in AnyWorker /\ h1 = With(h, w, r1)
    BY <1>0 DEF AnyWorker
  <2>2. h3 = Unpatch(h2, w) /\ h2 = StopJackTrip(h1, w)
    OBVIOUS
  <2>3. g = [h3 EXCEPT !.worker[w].channel = "none"]
    BY <1>1 DEF StopThread, With, HubType, AnyWorker
  <2>4. /\ r1.life = h.worker[w].life /\ r1.mID = h.worker[w].mID
        /\ r1.mClientPort = h.worker[w].mClientPort /\ ~r1.mRunning
        /\ r1.listening = h.worker[w].listening /\ r1.mSpawning = h.worker[w].mSpawning
    BY <1>0 DEF AnyWorker
  <2>5. r4 = [h3.worker[w] EXCEPT !.channel = "none"]
    OBVIOUS
  <2>a. r1 = [h.worker[w] EXCEPT !.mRunning = FALSE]
    OBVIOUS
  <2> HIDE DEF r1, h1, h2, h3, r4
  <2>6. OnlyWorker(h, h1, w) /\ h1.worker[w] = r1 /\ h1.posted = h.posted /\ h1.clients = h.clients
    BY <2>1, SetWorker
  <2>7. h1 \in HubType /\ Queued(h1) = Queued(h)
    BY <2>6 DEF OnlyWorker, Queued
  <2>8. /\ OnlyWorker(h1, h2, w)
        /\ h2.clients = h1.clients
        /\ \/ h2 = h1 /\ h1.worker[w].jackTrip \notin {"waiting", "audio"}
           \/ /\ h1.worker[w].jackTrip \in {"waiting", "audio"}
              /\ h2.posted = Append(h1.posted, [what |-> "jacktripStopped", to |-> w])
              /\ Queued(h2) = Queued(h1) \cup {[what |-> "jacktripStopped", to |-> w]}
              /\ h2.worker[w] = JackTripStopped(h1.worker[w])
    BY <2>2, <2>7, StoppingJackTrip
  <2>9. h2 \in HubType
    BY <2>8 DEF OnlyWorker
  <2>10. OnlyWorker(h2, h3, w) /\ h3.posted = h2.posted
         /\ h3.worker[w] = Unpatched(h2.worker[w])
         /\ h3.clients = IF h2.worker[w].mPatched
                         THEN h2.clients \ {h2.worker[w].mAssignedClientName} ELSE h2.clients
    BY <2>2, <2>9, Unpatching
  <2>11. h3 \in HubType /\ h3.worker[w] \in AnyWorker
    BY <2>10 DEF OnlyWorker, HubType
  <2>12. g = With(h3, w, r4) /\ r4 \in AnyWorker
    BY <2>3, <2>5, <2>11 DEF With, HubType, AnyWorker
  <2>13. OnlyWorker(h3, g, w) /\ g.worker[w] = r4 /\ g.posted = h3.posted /\ g.clients = h3.clients
    BY <2>11, <2>12, SetWorker
  <2>14. Queued(g) = Queued(h2)
    BY <2>10, <2>13 DEF Queued
  <2>15. \/ Queued(g) = Queued(h)
         \/ Queued(g) = Queued(h) \cup {[what |-> "jacktripStopped", to |-> w]}
    BY <2>7, <2>8, <2>14
  <2>16. OnlyWorker(h, g, w)
    BY <2>6, <2>8, <2>10, <2>13 DEF OnlyWorker
  <2>17. h2.worker[w] \in AnyWorker /\ h1.worker[w] \in AnyWorker
    BY <2>7, <2>9 DEF HubType
  <2>18. /\ h2.worker[w].life = r1.life /\ h2.worker[w].mID = r1.mID
         /\ h2.worker[w].mClientPort = r1.mClientPort /\ h2.worker[w].mRunning = r1.mRunning
         /\ h2.worker[w].listening = r1.listening /\ h2.worker[w].mSpawning = r1.mSpawning
    BY <2>6, <2>8, <2>17 DEF AnyWorker, JackTripStopped
  <2>19. /\ r4.life = h2.worker[w].life /\ r4.mID = h2.worker[w].mID
         /\ r4.mClientPort = h2.worker[w].mClientPort /\ r4.mRunning = h2.worker[w].mRunning
         /\ r4.listening = h2.worker[w].listening /\ r4.mSpawning = h2.worker[w].mSpawning
         /\ r4.channel = "none"
    BY <2>5, <2>10, <2>11, <2>17 DEF AnyWorker, Unpatched
  <2>20. SameClient(h.worker[w], r1)
    BY <1>0, <2>1, <2>a DEF AnyWorker, SameClient
  <2>21. /\ h2.worker[w].mPatched = r1.mPatched
         /\ h2.worker[w].mAssignedClientName = r1.mAssignedClientName
         /\ \/ SameClient(h2.worker[w], r1)
            \/ h2.worker[w].jackTrip = "stopped" /\ h2.worker[w].name = NoName
    BY <2>6, <2>8, <2>17 DEF AnyWorker, JackTripStopped, SameClient
  <2>22. /\ r4.jackTrip = h2.worker[w].jackTrip /\ r4.name = h2.worker[w].name
         /\ ~r4.mPatched
    BY <2>5, <2>10, <2>11, <2>17 DEF AnyWorker, Unpatched
  <2>23. g.clients = IF h.worker[w].mPatched
                     THEN h.clients \ {h.worker[w].mAssignedClientName} ELSE h.clients
    BY <2>6, <2>8, <2>10, <2>13, <2>20, <2>21 DEF SameClient
  <2>24. \/ /\ h.worker[w].jackTrip \notin {"waiting", "audio"} /\ g.posted = h.posted
            /\ g.worker[w].jackTrip = h.worker[w].jackTrip
            /\ g.worker[w].name = h.worker[w].name
         \/ /\ h.worker[w].jackTrip \in {"waiting", "audio"}
            /\ g.posted = Append(h.posted, [what |-> "jacktripStopped", to |-> w])
            /\ g.worker[w].jackTrip = "stopped" /\ g.worker[w].name = NoName
    <3>1. CASE h2 = h1 /\ h1.worker[w].jackTrip \notin {"waiting", "audio"}
      BY <2>6, <2>10, <2>13, <2>20, <2>22, <3>1 DEF SameClient
    <3>2. CASE /\ h1.worker[w].jackTrip \in {"waiting", "audio"}
               /\ h2.posted = Append(h1.posted, [what |-> "jacktripStopped", to |-> w])
               /\ h2.worker[w] = JackTripStopped(h1.worker[w])
      <4>1. h2.worker[w].jackTrip = "stopped" /\ h2.worker[w].name = NoName
        BY <2>17, <3>2 DEF AnyWorker, JackTripStopped
      <4>2. g.posted = Append(h.posted, [what |-> "jacktripStopped", to |-> w])
        BY <2>6, <2>10, <2>13, <3>2, Zenon
      <4> QED BY <2>6, <2>13, <2>20, <2>22, <3>2, <4>1, <4>2 DEF SameClient
    <3> QED BY <2>8, <3>1, <3>2
  <2>25. Unregistered(h, g, w)
    BY <1>1, <2>13, <2>22, <2>23, <2>24 DEF Unregistered
  <2> QED BY <1>1, <2>4, <2>13, <2>15, <2>16, <2>18, <2>19, <2>25 DEF Stopped
<1>2. CASE ~h.worker[w].mRunning
  <2> DEFINE r == [h.worker[w] EXCEPT !.mSpawning = FALSE, !.listening = FALSE,
                                      !.channel = "none"]
  <2>1. r \in AnyWorker
    BY <1>0 DEF AnyWorker
  <2>2. g = With(h, w, r)
    BY <1>2 DEF StopThread, With, HubType, AnyWorker
  <2>3. /\ r.life = h.worker[w].life /\ r.mID = h.worker[w].mID
        /\ r.mClientPort = h.worker[w].mClientPort /\ r.mRunning = h.worker[w].mRunning
        /\ ~r.listening /\ ~r.mSpawning /\ r.channel = "none"
    BY <1>0 DEF AnyWorker
  <2>6. SameClient(h.worker[w], r)
    BY <1>0 DEF AnyWorker, SameClient
  <2> HIDE DEF r
  <2>4. OnlyWorker(h, g, w) /\ g.worker[w] = r /\ g.posted = h.posted /\ g.clients = h.clients
    BY <2>1, <2>2, SetWorker
  <2>5. Queued(g) = Queued(h)
    BY <2>4 DEF Queued
  <2>7. Unregistered(h, g, w)
    BY <1>2, <2>4, <2>6 DEF Unregistered
  <2> QED BY <1>2, <2>3, <2>4, <2>5, <2>7 DEF Stopped
<1> QED BY <1>1, <1>2

\* g is h with v to be deleted.
DeletePosted(h, g, v) ==
  /\ g.posted = Append(h.posted, [what |-> "delete", to |-> v])
  /\ Queued(g) = Queued(h) \cup {[what |-> "delete", to |-> v]}

\* releaseThread empties a slot and counts, whether there is a worker or not.
Emptied(h, id) == [h EXCEPT !.slot[id] = NoWorker, !.total = @ - 1]

LEMMA Emptying ==
  ASSUME NEW h \in HubType, NEW id \in Slots, NEW f, f = Emptied(h, id)
  PROVE  /\ f \in HubType
         /\ f.slot = [h.slot EXCEPT ![id] = NoWorker] /\ f.total = h.total - 1
         /\ f.worker = h.worker /\ f.clients = h.clients
         /\ f.stopped = h.stopped /\ f.fatal = h.fatal /\ f.posted = h.posted
<1>1. f \in HubType
  <2>1. PICK t \in Int : t = h.total - 1
    BY DEF HubType
  <2>2. PICK S \in [Slots -> Workers \cup {NoWorker}] : S = [h.slot EXCEPT ![id] = NoWorker]
    BY DEF HubType
  <2>3. f = [h EXCEPT !.slot = S, !.total = t]
    BY <2>1, <2>2 DEF Emptied, HubType
  <2> QED BY <2>3 DEF HubType
<1>2. /\ f.slot = [h.slot EXCEPT ![id] = NoWorker] /\ f.total = h.total - 1
      /\ f.worker = h.worker /\ f.clients = h.clients
  BY DEF Emptied, HubType
<1>3. f.stopped = h.stopped /\ f.fatal = h.fatal /\ f.posted = h.posted
  BY DEF Emptied, HubType
<1> QED BY <1>1, <1>2, <1>3

\* What releaseThread does for a slot that has a worker.
LEMMA Releasing ==
  ASSUME NEW h \in HubType, NEW id \in Slots, h.slot[id] # NoWorker,
         NEW g, g = ReleaseThread(h, id)
  PROVE  /\ g \in HubType
         /\ g.slot = [h.slot EXCEPT ![id] = NoWorker] /\ g.total = h.total - 1
         /\ g.worker = h.worker /\ g.clients = h.clients
         /\ g.stopped = h.stopped /\ g.fatal = h.fatal
         /\ DeletePosted(h, g, h.slot[id])
<1>1. PICK f : f = Emptied(h, id)
  OBVIOUS
<1>2. /\ f \in HubType
      /\ f.slot = [h.slot EXCEPT ![id] = NoWorker] /\ f.total = h.total - 1
      /\ f.worker = h.worker /\ f.clients = h.clients
      /\ f.stopped = h.stopped /\ f.fatal = h.fatal /\ f.posted = h.posted
  BY <1>1, Emptying
<1>3. PICK v \in Workers : v = h.slot[id]
  BY DEF HubType
<1>4. g = Post(f, "delete", v) /\ "delete" \in Events
  <2>1. g = Post(Emptied(h, id), "delete", h.slot[id])
    BY DEF ReleaseThread, Emptied
  <2> QED BY <1>1, <1>3, <2>1 DEF Events
<1>5. Posted(f, g, [what |-> "delete", to |-> v])
  BY <1>2, <1>4, Posting
<1>6. Queued(f) = Queued(h)
  BY <1>2 DEF Queued
<1> QED BY <1>2, <1>3, <1>5, <1>6 DEF Posted, DeletePosted

\* A process that dies does nothing else.
LEMMA Dying ==
  ASSUME NEW h \in HubType, NEW call \in {"bind", "releaseThread", "completeConnection"},
         NEW g, g = Die(h, call)
  PROVE  /\ g \in HubType /\ g.slot = h.slot /\ g.total = h.total /\ g.worker = h.worker
         /\ g.clients = h.clients /\ g.posted = h.posted /\ g.stopped = h.stopped
         /\ g.fatal = call
<1>1. g \in HubType /\ g.slot = h.slot /\ g.total = h.total /\ g.worker = h.worker
  BY DEF Die, HubType
<1>2. g.clients = h.clients /\ g.posted = h.posted /\ g.stopped = h.stopped /\ g.fatal = call
  BY DEF Die, HubType
<1> QED BY <1>1, <1>2

-----------------------------------------------------------------------------
(* Loops over the slots *)

\* A set of natural numbers that is not empty has a least element.
LEMMA Least ==
  ASSUME NEW S \in SUBSET Nat, S # {}
  PROVE  \E n \in S : \A m \in S : n <= m
<1>1. PICK n \in S : \A m \in S : ~(<<m, n>> \in OpToRel(<, Nat))
  BY NatLessThanWellFounded, WFMin
<1>2. \A m \in S : ~(m < n)
  BY <1>1 DEF OpToRel
<1> QED BY <1>2

\* Induction up to a bound, for a set of numbers.
LEMMA CountUp ==
  ASSUME NEW N \in Nat, NEW G, 0 \in G, \A n \in 0 .. N - 1 : n \in G => n + 1 \in G
  PROVE  \A n \in 0 .. N : n \in G
<1> DEFINE Bad == {n \in 0 .. N : n \notin G}
<1> SUFFICES ASSUME Bad # {} PROVE FALSE
  OBVIOUS
<1>1. PICK k \in Bad : \A m \in Bad : k <= m
  <2>1. Bad \in SUBSET Nat
    OBVIOUS
  <2> HIDE DEF Bad
  <2> QED BY <2>1, Least
<1>2. k \in 1 .. N
  BY <1>1
<1>3. k - 1 \in 0 .. N - 1 /\ k - 1 \in 0 .. N /\ (k - 1) + 1 = k
  BY <1>2
<1>4. k - 1 \notin Bad
  BY <1>1, <1>2
<1> QED BY <1>1, <1>3, <1>4

\* The states of a loop from s on, of which step n takes the n-th slot.
IsLoop(f, N, P, s, B) ==
  f \in [0 .. N -> P] /\ f[0] = s /\ \A n \in 1 .. N : f[n] = B[f[n - 1]][n - 1]

\* A loop whose body keeps a set computes a sequence of states in the set.
LEMMA LoopExists ==
  ASSUME NEW N \in Nat, NEW P, NEW s \in P, NEW B \in [P -> [0 .. N - 1 -> P]]
  PROVE  \E f : IsLoop(f, N, P, s, B)
<1> DEFINE Upto(k) == \E f \in [0 .. k -> P] : /\ f[0] = s
                                               /\ \A n \in 1 .. k : f[n] = B[f[n - 1]][n - 1]
           G == {k \in 0 .. N : Upto(k)}
<1>1. 0 \in G
  <2> DEFINE f == [n \in 0 .. 0 |-> s]
  <2>1. f \in [0 .. 0 -> P] /\ f[0] = s /\ 1 .. 0 = {}
    OBVIOUS
  <2> HIDE DEF f
  <2>2. Upto(0)
    BY <2>1
  <2> QED BY <2>2
<1>2. ASSUME NEW k \in 0 .. N - 1, k \in G
      PROVE  k + 1 \in G
  <2>1. PICK f \in [0 .. k -> P] : /\ f[0] = s
                                   /\ \A n \in 1 .. k : f[n] = B[f[n - 1]][n - 1]
    BY <1>2
  <2>2. f[k] \in P /\ B[f[k]][k] \in P
    BY <2>1
  <2> DEFINE g == [n \in 0 .. k + 1 |-> IF n = k + 1 THEN B[f[k]][k] ELSE f[n]]
  <2>3. g \in [0 .. k + 1 -> P]
    BY <2>1, <2>2
  <2>4. g[0] = s
    BY <2>1
  <2>5. ASSUME NEW n \in 1 .. k + 1
        PROVE  g[n] = B[g[n - 1]][n - 1]
    <3>1. CASE n = k + 1
      BY <3>1
    <3>2. CASE n # k + 1
      BY <2>1, <3>2
    <3> QED BY <3>1, <3>2
  <2> HIDE DEF g
  <2>6. Upto(k + 1)
    BY <2>3, <2>4, <2>5
  <2>7. k + 1 \in 0 .. N
    OBVIOUS
  <2> HIDE DEF Upto
  <2> QED BY <2>6, <2>7
<1>3. N \in 0 .. N
  OBVIOUS
<1> HIDE DEF G
<1>4. N \in G
  BY <1>1, <1>2, <1>3, CountUp
<1> QED BY <1>4 DEF G, IsLoop

\* A loop that follows the body of one stays in its set.
LEMMA LoopStays ==
  ASSUME NEW N \in Nat, NEW P, NEW B \in [P -> [0 .. N - 1 -> P]], NEW f, f[0] \in P,
         \A n \in 1 .. N : f[n - 1] \in P => f[n] = B[f[n - 1]][n - 1]
  PROVE  \A n \in 0 .. N : f[n] \in P
<1> DEFINE G == {n \in 0 .. N : f[n] \in P}
<1>1. 0 \in G
  OBVIOUS
<1>2. ASSUME NEW n \in 0 .. N - 1, n \in G
      PROVE  n + 1 \in G
  <2>1. n + 1 \in 1 .. N /\ n + 1 \in 0 .. N /\ (n + 1) - 1 = n
    OBVIOUS
  <2>2. f[n + 1] = B[f[n]][n]
    BY <1>2, <2>1
  <2> QED BY <1>2, <2>1, <2>2
<1> HIDE DEF G
<1>3. \A n \in 0 .. N : n \in G
  BY <1>1, <1>2, CountUp
<1> QED BY <1>3 DEF G

LEMMA SlotBounds == MaxThreads \in Nat /\ Slots = 0 .. MaxThreads - 1
BY PoolAssumption DEF Slots

\* A duplicate in a slot is stopped, then released.
LEMMA ReleasingDuplicate ==
  ASSUME NEW h \in HubType, NEW i \in Slots, NEW e, NEW g, g = ReleaseDuplicate(h, i, e)
  PROVE  /\ g \in HubType
         /\ \/ g = h /\ ~IsDuplicate(h, i, e)
            \/ /\ IsDuplicate(h, i, e)
               /\ \E f \in HubType : /\ Stopped(h, f, h.slot[i])
                                     /\ g = ReleaseThread(f, i)
<1>1. CASE ~IsDuplicate(h, i, e)
  BY <1>1 DEF ReleaseDuplicate
<1>2. CASE IsDuplicate(h, i, e)
  <2>1. PICK v \in Workers : v = h.slot[i]
    BY <1>2 DEF IsDuplicate, HubType
  <2>2. PICK f : f = StopThread(h, v)
    OBVIOUS
  <2>3. Stopped(h, f, v)
    BY <2>1, <2>2, StoppingThread
  <2>4. f \in HubType /\ f.slot = h.slot
    BY <2>3 DEF Stopped, OnlyWorker
  <2>5. g = ReleaseThread(f, i)
    BY <1>2, <2>1, <2>2 DEF ReleaseDuplicate
  <2>6. f.slot[i] # NoWorker
    BY <1>2, <2>4 DEF IsDuplicate
  <2>7. g \in HubType
    BY <2>4, <2>5, <2>6, Releasing
  <2> QED BY <1>2, <2>1, <2>3, <2>4, <2>5, <2>7
<1> QED BY <1>1, <1>2

\* The states of releaseDuplicateThreads, slot by slot.
LEMMA DuplicatesLoop ==
  ASSUME NEW h \in HubType, NEW e
  PROVE  \E f \in [0 .. MaxThreads -> HubType] :
           /\ f[0] = h
           /\ \A n \in 1 .. MaxThreads : f[n] = ReleaseDuplicate(f[n - 1], n - 1, e)
           /\ ReleaseDuplicates(h, e) = f[MaxThreads]
<1> DEFINE B == [t \in HubType |-> [i \in 0 .. MaxThreads - 1 |-> ReleaseDuplicate(t, i, e)]]
           Steps(f) == f = [n \in 0 .. MaxThreads |->
                              IF n = 0 THEN h ELSE ReleaseDuplicate(f[n - 1], n - 1, e)]
<1>0. MaxThreads \in Nat /\ Slots = 0 .. MaxThreads - 1
  BY SlotBounds
<1>1. B \in [HubType -> [0 .. MaxThreads - 1 -> HubType]]
  <2>1. \A t \in HubType, i \in 0 .. MaxThreads - 1 : ReleaseDuplicate(t, i, e) \in HubType
    BY <1>0, ReleasingDuplicate
  <2> QED BY <2>1
<1>2. \A t \in HubType, i \in 0 .. MaxThreads - 1 : B[t][i] = ReleaseDuplicate(t, i, e)
  OBVIOUS
<1> HIDE DEF B
<1>3. PICK b \in [0 .. MaxThreads -> HubType] :
        b[0] = h /\ \A n \in 1 .. MaxThreads : b[n] = B[b[n - 1]][n - 1]
  <2>1. \E b : IsLoop(b, MaxThreads, HubType, h, B)
    BY <1>0, <1>1, LoopExists
  <2> QED BY <2>1 DEF IsLoop
<1>4. Steps(b)
  <2>1. ASSUME NEW n \in 1 .. MaxThreads
        PROVE  b[n] = ReleaseDuplicate(b[n - 1], n - 1, e)
    <3>1. n - 1 \in 0 .. MaxThreads - 1 /\ n - 1 \in 0 .. MaxThreads
      BY <1>0
    <3>2. b[n - 1] \in HubType
      BY <3>1
    <3> QED BY <1>2, <1>3, <3>1, <3>2
  <2>2. \A n \in 0 .. MaxThreads :
          b[n] = IF n = 0 THEN h ELSE ReleaseDuplicate(b[n - 1], n - 1, e)
    <3> SUFFICES ASSUME NEW n \in 0 .. MaxThreads
                 PROVE  b[n] = IF n = 0 THEN h ELSE ReleaseDuplicate(b[n - 1], n - 1, e)
      OBVIOUS
    <3>1. n = 0 \/ n \in 1 .. MaxThreads
      BY <1>0
    <3> QED BY <1>3, <2>1, <3>1
  <2> QED BY <2>2
<1> DEFINE f == CHOOSE f : Steps(f)
<1>5. Steps(f)
  BY <1>4
<1>6. ReleaseDuplicates(h, e) = f[MaxThreads]
  BY DEF ReleaseDuplicates
<1> HIDE DEF f
<1>7. /\ f[0] = h
      /\ \A n \in 1 .. MaxThreads : f[n] = ReleaseDuplicate(f[n - 1], n - 1, e)
  BY <1>0, <1>5
<1>8. \A n \in 0 .. MaxThreads : f[n] \in HubType
  <2>1. ASSUME NEW n \in 1 .. MaxThreads, f[n - 1] \in HubType
        PROVE  f[n] = B[f[n - 1]][n - 1]
    <3>1. n - 1 \in 0 .. MaxThreads - 1
      BY <1>0
    <3> QED BY <1>2, <1>7, <2>1, <3>1
  <2>2. f[0] \in HubType
    BY <1>7
  <2> QED BY <1>0, <1>1, <2>1, <2>2, LoopStays
<1>9. f \in [0 .. MaxThreads -> HubType]
  BY <1>5, <1>8
<1> QED BY <1>6, <1>7, <1>9

\* A worker in a slot is stopped.
LEMMA StoppingWorkerIn ==
  ASSUME NEW h \in HubType, NEW i \in Slots, NEW g, g = StopWorkerIn(h, i)
  PROVE  /\ g \in HubType
         /\ g = h \/ (h.slot[i] \in Workers /\ Stopped(h, g, h.slot[i]))
<1>1. CASE h.slot[i] = NoWorker
  BY <1>1 DEF StopWorkerIn
<1>2. CASE h.slot[i] # NoWorker
  <2>1. PICK v \in Workers : v = h.slot[i]
    BY <1>2 DEF HubType
  <2>2. Stopped(h, g, v)
    BY <1>2, <2>1, StoppingThread DEF StopWorkerIn
  <2> QED BY <2>1, <2>2 DEF Stopped, OnlyWorker
<1> QED BY <1>1, <1>2

\* The states of stopAllThreads, slot by slot.
LEMMA StopLoop ==
  ASSUME NEW h \in HubType
  PROVE  \E f \in [0 .. MaxThreads -> HubType] :
           /\ f[0] = h
           /\ \A n \in 1 .. MaxThreads : f[n] = StopWorkerIn(f[n - 1], n - 1)
           /\ StopAllThreads(h) = f[MaxThreads]
<1> DEFINE B == [t \in HubType |-> [i \in 0 .. MaxThreads - 1 |-> StopWorkerIn(t, i)]]
           Steps(f) == f = [n \in 0 .. MaxThreads |->
                              IF n = 0 THEN h ELSE StopWorkerIn(f[n - 1], n - 1)]
<1>0. MaxThreads \in Nat /\ Slots = 0 .. MaxThreads - 1
  BY SlotBounds
<1>1. B \in [HubType -> [0 .. MaxThreads - 1 -> HubType]]
  <2>1. \A t \in HubType, i \in 0 .. MaxThreads - 1 : StopWorkerIn(t, i) \in HubType
    BY <1>0, StoppingWorkerIn
  <2> QED BY <2>1
<1>2. \A t \in HubType, i \in 0 .. MaxThreads - 1 : B[t][i] = StopWorkerIn(t, i)
  OBVIOUS
<1> HIDE DEF B
<1>3. PICK b \in [0 .. MaxThreads -> HubType] :
        b[0] = h /\ \A n \in 1 .. MaxThreads : b[n] = B[b[n - 1]][n - 1]
  <2>1. \E b : IsLoop(b, MaxThreads, HubType, h, B)
    BY <1>0, <1>1, LoopExists
  <2> QED BY <2>1 DEF IsLoop
<1>4. Steps(b)
  <2>1. ASSUME NEW n \in 1 .. MaxThreads
        PROVE  b[n] = StopWorkerIn(b[n - 1], n - 1)
    <3>1. n - 1 \in 0 .. MaxThreads - 1 /\ n - 1 \in 0 .. MaxThreads
      BY <1>0
    <3>2. b[n - 1] \in HubType
      BY <3>1
    <3> QED BY <1>2, <1>3, <3>1, <3>2
  <2>2. \A n \in 0 .. MaxThreads :
          b[n] = IF n = 0 THEN h ELSE StopWorkerIn(b[n - 1], n - 1)
    <3> SUFFICES ASSUME NEW n \in 0 .. MaxThreads
                 PROVE  b[n] = IF n = 0 THEN h ELSE StopWorkerIn(b[n - 1], n - 1)
      OBVIOUS
    <3>1. n = 0 \/ n \in 1 .. MaxThreads
      BY <1>0
    <3> QED BY <1>3, <2>1, <3>1
  <2> QED BY <2>2
<1> DEFINE f == CHOOSE f : Steps(f)
<1>5. Steps(f)
  BY <1>4
<1>6. StopAllThreads(h) = f[MaxThreads]
  BY DEF StopAllThreads
<1> HIDE DEF f
<1>7. /\ f[0] = h
      /\ \A n \in 1 .. MaxThreads : f[n] = StopWorkerIn(f[n - 1], n - 1)
  BY <1>0, <1>5
<1>8. \A n \in 0 .. MaxThreads : f[n] \in HubType
  <2>1. ASSUME NEW n \in 1 .. MaxThreads, f[n - 1] \in HubType
        PROVE  f[n] = B[f[n - 1]][n - 1]
    <3>1. n - 1 \in 0 .. MaxThreads - 1
      BY <1>0
    <3> QED BY <1>2, <1>7, <2>1, <3>1
  <2>2. f[0] \in HubType
    BY <1>7
  <2> QED BY <1>0, <1>1, <2>1, <2>2, LoopStays
<1>9. f \in [0 .. MaxThreads -> HubType]
  BY <1>5, <1>8
<1> QED BY <1>6, <1>7, <1>9

\* The events among the first n that Qt keeps when the worker w is deleted.
Kept(q, w, n) == {e \in {q[k] : k \in 1 .. n} : e.to # w}

\* f[n] is what the filter has kept of the first n events.
IsFilter(f, q, w) ==
  /\ f[0] = << >>
  /\ \A n \in 1 .. Len(q) : f[n] = IF q[n].to = w THEN f[n - 1] ELSE Append(f[n - 1], q[n])
  /\ \A n \in 0 .. Len(q) : f[n] \in Seq(Event) /\ Elements(f[n]) = Kept(q, w, n)
  /\ Undelivered(q, w) = f[Len(q)]

LEMMA FilterExists ==
  ASSUME NEW q \in Seq(Event), NEW w
  PROVE  \E f : IsFilter(f, q, w)
<1> DEFINE N == Len(q)
           P == Seq(Event)
           Body(t, i) == IF q[i + 1].to = w THEN t ELSE Append(t, q[i + 1])
           B == [t \in P |-> [i \in 0 .. N - 1 |-> Body(t, i)]]
           Steps(f) == f = [n \in 0 .. N |-> IF n = 0 THEN << >>
                                             ELSE IF q[n].to = w THEN f[n - 1]
                                             ELSE Append(f[n - 1], q[n])]
<1>0. N \in Nat /\ \A n \in 1 .. N : q[n] \in Event
  OBVIOUS
<1>a. Len(q) = N
  OBVIOUS
<1> HIDE DEF N
<1>1. \A t \in P, i \in 0 .. N - 1 : Body(t, i) \in P
  <2> SUFFICES ASSUME NEW t \in P, NEW i \in 0 .. N - 1 PROVE Body(t, i) \in P
    OBVIOUS
  <2>1. i + 1 \in 1 .. N
    BY <1>0
  <2>2. q[i + 1] \in Event
    BY <1>0, <2>1
  <2>3. Append(t, q[i + 1]) \in P
    BY <2>2
  <2> QED BY <2>3
<1>2. B \in [P -> [0 .. N - 1 -> P]]
  BY <1>1
<1>3. \A t \in P, i \in 0 .. N - 1 : B[t][i] = Body(t, i)
  OBVIOUS
<1>4. << >> \in P
  OBVIOUS
<1> HIDE DEF B, P, Body
<1>5. PICK b \in [0 .. N -> P] :
        b[0] = << >> /\ \A n \in 1 .. N : b[n] = B[b[n - 1]][n - 1]
  <2>1. \E b : IsLoop(b, N, P, << >>, B)
    BY <1>0, <1>2, <1>4, LoopExists
  <2> QED BY <2>1 DEF IsLoop
<1>6. Steps(b)
  <2>1. ASSUME NEW n \in 1 .. N
        PROVE  b[n] = IF q[n].to = w THEN b[n - 1] ELSE Append(b[n - 1], q[n])
    <3>1. n - 1 \in 0 .. N - 1 /\ n - 1 \in 0 .. N /\ (n - 1) + 1 = n
      BY <1>0
    <3>2. b[n - 1] \in P
      BY <3>1
    <3>3. b[n] = Body(b[n - 1], n - 1)
      BY <1>3, <1>5, <3>1, <3>2
    <3> QED BY <3>1, <3>3 DEF Body
  <2>2. \A n \in 0 .. N : b[n] = IF n = 0 THEN << >>
                                 ELSE IF q[n].to = w THEN b[n - 1]
                                 ELSE Append(b[n - 1], q[n])
    <3> SUFFICES ASSUME NEW n \in 0 .. N
                 PROVE  b[n] = IF n = 0 THEN << >>
                               ELSE IF q[n].to = w THEN b[n - 1]
                               ELSE Append(b[n - 1], q[n])
      OBVIOUS
    <3>1. n = 0 \/ n \in 1 .. N
      BY <1>0
    <3> QED BY <1>0, <1>5, <2>1, <3>1
  <2> QED BY <2>2
<1> DEFINE f == CHOOSE f : Steps(f)
<1>7. Steps(f)
  BY <1>6
<1>8. Undelivered(q, w) = f[N]
  BY <1>a DEF Undelivered
<1> HIDE DEF f
<1>9. /\ f[0] = << >>
      /\ \A n \in 1 .. N : f[n] = IF q[n].to = w THEN f[n - 1] ELSE Append(f[n - 1], q[n])
  <2>1. 0 \in 0 .. N /\ \A n \in 1 .. N : n \in 0 .. N /\ n # 0
    BY <1>0
  <2>2. \A n \in 0 .. N : f[n] = IF n = 0 THEN << >>
                                 ELSE IF q[n].to = w THEN f[n - 1]
                                 ELSE Append(f[n - 1], q[n])
    BY <1>7, Zenon
  <2> HIDE DEF Steps
  <2>3. f[0] = << >>
    BY <2>1, <2>2
  <2>4. ASSUME NEW n \in 1 .. N
        PROVE  f[n] = IF q[n].to = w THEN f[n - 1] ELSE Append(f[n - 1], q[n])
    BY <2>1, <2>2
  <2> QED BY <2>3, <2>4
<1> HIDE DEF Steps
<1>10. \A n \in 0 .. N : f[n] \in P
  <2>1. ASSUME NEW n \in 1 .. N, f[n - 1] \in P
        PROVE  f[n] = B[f[n - 1]][n - 1]
    <3>1. n - 1 \in 0 .. N - 1 /\ (n - 1) + 1 = n
      BY <1>0
    <3>2. B[f[n - 1]][n - 1] = Body(f[n - 1], n - 1)
      BY <1>3, <2>1, <3>1
    <3>3. f[n] = IF q[n].to = w THEN f[n - 1] ELSE Append(f[n - 1], q[n])
      BY <1>9
    <3> QED BY <3>1, <3>2, <3>3 DEF Body
  <2>2. f[0] \in P
    BY <1>4, <1>9
  <2> QED BY <1>0, <1>2, <2>1, <2>2, LoopStays
<1>11. \A n \in 0 .. N : Elements(f[n]) = Kept(q, w, n)
  <2> DEFINE G == {n \in 0 .. N : Elements(f[n]) = Kept(q, w, n)}
  <2>1. 0 \in G
    <3>1. Len(f[0]) = 0 /\ 1 .. 0 = {}
      BY <1>9
    <3>2. Elements(f[0]) = {} /\ Kept(q, w, 0) = {}
      BY <3>1 DEF Elements, Kept
    <3> QED BY <1>0, <3>2
  <2>2. ASSUME NEW n \in 0 .. N - 1, n \in G
        PROVE  n + 1 \in G
    <3>1. n + 1 \in 1 .. N /\ n + 1 \in 0 .. N /\ (n + 1) - 1 = n /\ n \in 0 .. N
      BY <1>0
    <3>2. PICK m \in 1 .. N : m = n + 1
      BY <3>1
    <3>3. f[m] = IF q[m].to = w THEN f[n] ELSE Append(f[n], q[m])
      BY <1>9, <3>1, <3>2
    <3>4. PICK t \in Seq(Event) : t = f[n]
      BY <1>10, <3>1 DEF P
    <3>5. Elements(t) = Kept(q, w, n)
      BY <2>2, <3>4
    <3>6. 1 .. m = (1 .. n) \cup {m}
      BY <3>2
    <3>7. {q[k] : k \in 1 .. m} = {q[k] : k \in 1 .. n} \cup {q[m]}
      BY <3>6, Zenon
    <3>8. Kept(q, w, m) = IF q[m].to = w THEN Kept(q, w, n) ELSE Kept(q, w, n) \cup {q[m]}
      BY <3>7 DEF Kept
    <3>9. PICK e \in Event : e = q[m]
      BY <1>0
    <3>10. Elements(Append(t, e)) = Elements(t) \cup {e}
      <4>1. PICK l \in Nat : l = Len(t)
        OBVIOUS
      <4> DEFINE u == Append(t, e)
      <4>2. u = Append(t, e) /\ Len(u) = l + 1
        BY <4>1
      <4> HIDE DEF u
      <4>3. \A k \in 1 .. l : u[k] = t[k]
        BY <4>1, <4>2
      <4>4. u[l + 1] = e
        BY <4>1, <4>2
      <4>5. 1 .. l + 1 = (1 .. l) \cup {l + 1}
        BY <4>1
      <4>6. Elements(u) = {u[k] : k \in 1 .. l} \cup {u[l + 1]}
        BY <4>2, <4>5, Zenon DEF Elements
      <4>7. {u[k] : k \in 1 .. l} = Elements(t)
        BY <4>1, <4>3, Zenon DEF Elements
      <4> QED BY <4>2, <4>4, <4>6, <4>7
    <3>11. Elements(f[m]) = Kept(q, w, m)
      BY <3>3, <3>4, <3>5, <3>8, <3>9, <3>10
    <3> QED BY <3>1, <3>2, <3>11
  <2> HIDE DEF G
  <2>3. \A n \in 0 .. N : n \in G
    BY <1>0, <2>1, <2>2, CountUp
  <2> QED BY <2>3 DEF G
<1> QED BY <1>8, <1>9, <1>10, <1>11, <1>a DEF P, IsFilter

\* The events that Qt keeps when the worker w is deleted.
LEMMA Dropping ==
  ASSUME NEW q \in Seq(Event), NEW w
  PROVE  /\ Undelivered(q, w) \in Seq(Event)
         /\ {Undelivered(q, w)[k] : k \in 1 .. Len(Undelivered(q, w))}
              = {e \in {q[k] : k \in 1 .. Len(q)} : e.to # w}
<1>1. PICK f : IsFilter(f, q, w)
  BY FilterExists
<1>2. Len(q) \in 0 .. Len(q)
  OBVIOUS
<1>3. f[Len(q)] \in Seq(Event) /\ Elements(f[Len(q)]) = Kept(q, w, Len(q))
  BY <1>1, <1>2 DEF IsFilter
<1> QED BY <1>1, <1>3 DEF IsFilter, Elements, Kept

-----------------------------------------------------------------------------
(* The slots and their counter *)

\* The inductive invariant behind CountNeverAbove: a worker in a slot has been
\* created, so that a new one is in no slot.
Counted(h) ==
  /\ h \in HubType
  /\ \A i, j \in Slots : h.slot[i] = h.slot[j] /\ i # j => h.slot[i] = NoWorker
  /\ \A i \in Slots : h.slot[i] # NoWorker => h.worker[h.slot[i]].life # "unborn"
  /\ h.total <= Cardinality(Occupied(h.slot))

\* What holds besides while nothing is released twice.
Exact(h) == h.total = Cardinality(Occupied(h.slot))

\* g has the slots of h, and no fewer workers are born.
KeepsSlots(h, g) ==
  /\ g \in HubType /\ g.slot = h.slot /\ g.total = h.total
  /\ \A v \in Workers : h.worker[v].life # "unborn" => g.worker[v].life # "unborn"

LEMMA OnlyWorkerKeeps ==
  ASSUME NEW h, NEW g, NEW w \in Workers, OnlyWorker(h, g, w),
         h.worker[w].life # "unborn" => g.worker[w].life # "unborn"
  PROVE  KeepsSlots(h, g)
BY DEF OnlyWorker, KeepsSlots

LEMMA KeepsOn ==
  ASSUME NEW h, NEW g, NEW f, KeepsSlots(h, g), KeepsSlots(g, f)
  PROVE  KeepsSlots(h, f)
BY DEF KeepsSlots

LEMMA KeepsCounted ==
  ASSUME NEW h, NEW g, Counted(h), KeepsSlots(h, g)
  PROVE  Counted(g)
<1>1. g \in HubType /\ g.slot = h.slot /\ g.total = h.total
  BY DEF KeepsSlots
<1>2. \A i, j \in Slots : g.slot[i] = g.slot[j] /\ i # j => g.slot[i] = NoWorker
  BY <1>1 DEF Counted
<1>3. ASSUME NEW i \in Slots, g.slot[i] # NoWorker
      PROVE  g.worker[g.slot[i]].life # "unborn"
  <2>1. h.slot \in [Slots -> Workers \cup {NoWorker}]
    BY DEF Counted, HubType
  <2>2. h.slot[i] \in Workers /\ h.worker[h.slot[i]].life # "unborn"
    BY <1>1, <1>3, <2>1 DEF Counted
  <2> QED BY <1>1, <2>2 DEF KeepsSlots
<1>4. g.total <= Cardinality(Occupied(g.slot))
  BY <1>1 DEF Counted, KeepsSlots
<1> QED BY <1>1, <1>2, <1>3, <1>4 DEF Counted

LEMMA OccupiedFinite ==
  ASSUME NEW slot
  PROVE  IsFiniteSet(Occupied(slot)) /\ Cardinality(Occupied(slot)) \in Nat
<1>1. IsFiniteSet(Slots)
  BY SlotBounds, FS_Interval
<1>2. Occupied(slot) \subseteq Slots
  BY DEF Occupied
<1> QED BY <1>1, <1>2, FS_Subset, FS_CardinalityType

\* releaseThread never leaves the counter too high; with a worker in the slot it
\* keeps count.
LEMMA ReleaseCounted ==
  ASSUME NEW h, Counted(h), NEW id \in Slots, NEW g, g = ReleaseThread(h, id)
  PROVE  Counted(g) /\ (h.slot[id] # NoWorker /\ Exact(h) => Exact(g))
<1>0. h \in HubType
  BY DEF Counted
<1>1. PICK f : f = Emptied(h, id)
  OBVIOUS
<1>2. /\ f \in HubType
      /\ f.slot = [h.slot EXCEPT ![id] = NoWorker] /\ f.total = h.total - 1
      /\ f.worker = h.worker
  BY <1>0, <1>1, Emptying
<1>3. /\ g \in HubType
      /\ g.slot = [h.slot EXCEPT ![id] = NoWorker] /\ g.total = h.total - 1
      /\ g.worker = h.worker
  <2>1. CASE h.slot[id] # NoWorker
    BY <1>0, <2>1, Releasing
  <2>2. CASE h.slot[id] = NoWorker
    <3>1. g = Emptied(h, id) \/ g = Die(Emptied(h, id), "releaseThread")
      BY <2>2 DEF ReleaseThread, Emptied
    <3>2. g = f \/ g = Die(f, "releaseThread")
      BY <1>1, <3>1
    <3> QED BY <1>2, <3>2, Dying
  <2> QED BY <2>1, <2>2
<1>4. h.slot \in [Slots -> Workers \cup {NoWorker}] /\ h.total \in Int
  BY <1>0 DEF HubType
<1>5. Occupied(g.slot) = Occupied(h.slot) \ {id}
  BY <1>3, <1>4 DEF Occupied
<1> DEFINE c == Cardinality(Occupied(h.slot))
           d == Cardinality(Occupied(g.slot))
<1>6. (id \in Occupied(h.slot) => d = c - 1) /\ (id \notin Occupied(h.slot) => d = c)
  BY <1>5, OccupiedFinite, FS_RemoveElement
<1>7. \A i, j \in Slots : g.slot[i] = g.slot[j] /\ i # j => g.slot[i] = NoWorker
  BY <1>3, <1>4 DEF Counted
<1>8. \A i \in Slots : g.slot[i] # NoWorker => g.worker[g.slot[i]].life # "unborn"
  BY <1>3, <1>4 DEF Counted
<1>9. c \in Nat /\ h.total <= c
  BY OccupiedFinite DEF Counted
<1>10. id \in Occupied(h.slot) <=> h.slot[id] # NoWorker
  BY DEF Occupied
<1> HIDE DEF c, d
<1>11. g.total <= d
  BY <1>3, <1>4, <1>6, <1>9
<1>12. h.slot[id] # NoWorker /\ h.total = c => g.total = d
  BY <1>3, <1>4, <1>6, <1>9, <1>10
<1> QED BY <1>3, <1>7, <1>8, <1>11, <1>12 DEF Counted, Exact, c, d

LEMMA NewWorkerType == NewWorker \in AnyWorker
<1>1. 0 \in Slots
  BY PoolAssumption, SlotBounds
<1>2. {} \subseteq RtcSignals
  OBVIOUS
<1> QED BY <1>1, <1>2, NoNameAny DEF NewWorker, AnyWorker

\* createWorker.
LEMMA Creating ==
  ASSUME NEW h, Counted(h), NEW id \in Slots, h.slot[id] = NoWorker, NEW w \in Workers,
         h.worker[w].life = "unborn", NEW g, g = CreateWorker(h, id, w)
  PROVE  /\ Counted(g) /\ (Exact(h) => Exact(g))
         /\ g.slot = [h.slot EXCEPT ![id] = w]
         /\ g.worker[w] = NewWorker
         /\ \A v \in Workers \ {w} : g.worker[v] = h.worker[v]
         /\ g.posted = h.posted /\ g.clients = h.clients
         /\ g.stopped = h.stopped /\ g.fatal = h.fatal
<1>0. h \in HubType /\ NewWorker \in AnyWorker
  BY NewWorkerType DEF Counted
<1>1. h.slot \in [Slots -> Workers \cup {NoWorker}] /\ h.total \in Int
      /\ h.worker \in [Workers -> AnyWorker]
  BY <1>0 DEF HubType
<1>2. PICK S \in [Slots -> Workers \cup {NoWorker}] : S = [h.slot EXCEPT ![id] = w]
  BY <1>1
<1>3. PICK t \in Int : t = h.total + 1
  BY <1>1
<1>4. PICK W \in [Workers -> AnyWorker] : W = [h.worker EXCEPT ![w] = NewWorker]
  BY <1>0, <1>1
<1>5. g = [h EXCEPT !.slot = S, !.total = t, !.worker = W]
  BY <1>0, <1>2, <1>3, <1>4 DEF CreateWorker, HubType
<1>6. g \in HubType
  BY <1>0, <1>5 DEF HubType
<1>7. g.slot = S /\ g.total = t /\ g.worker = W /\ g.posted = h.posted
  BY <1>0, <1>5 DEF HubType
<1>8. g.clients = h.clients /\ g.stopped = h.stopped /\ g.fatal = h.fatal
  BY <1>0, <1>5 DEF HubType
<1>9. W[w] = NewWorker /\ \A v \in Workers \ {w} : W[v] = h.worker[v]
  BY <1>1, <1>4
<1>10. \A i \in Slots : h.slot[i] # w
  BY PoolAssumption DEF Counted
<1>11. \A i, j \in Slots : S[i] = S[j] /\ i # j => S[i] = NoWorker
  BY <1>1, <1>2, <1>10 DEF Counted
<1>12. \A i \in Slots : S[i] # NoWorker => W[S[i]].life # "unborn"
  <2>1. NewWorker.life # "unborn"
    BY DEF NewWorker
  <2>2. ASSUME NEW i \in Slots, S[i] # NoWorker
        PROVE  W[S[i]].life # "unborn"
    <3>1. CASE i = id
      BY <1>1, <1>2, <1>9, <2>1, <3>1
    <3>2. CASE i # id
      <4>1. S[i] = h.slot[i] /\ S[i] \in Workers /\ S[i] # w
        BY <1>1, <1>2, <1>10, <2>2, <3>2
      <4> QED BY <1>9, <2>2, <4>1 DEF Counted
    <3> QED BY <3>1, <3>2
  <2> QED BY <2>2
<1>13. Occupied(S) = Occupied(h.slot) \cup {id} /\ id \notin Occupied(h.slot)
  BY <1>1, <1>2, PoolAssumption DEF Occupied
<1>14. Cardinality(Occupied(S)) = Cardinality(Occupied(h.slot)) + 1
  BY <1>13, OccupiedFinite, FS_AddElement
<1>15. Cardinality(Occupied(h.slot)) \in Nat
  BY OccupiedFinite
<1>16. g.total <= Cardinality(Occupied(S)) /\ (Exact(h) => Exact(g))
  BY <1>1, <1>3, <1>7, <1>14, <1>15 DEF Counted, Exact
<1>17. Counted(g)
  BY <1>6, <1>7, <1>11, <1>12, <1>16 DEF Counted
<1> QED BY <1>2, <1>7, <1>8, <1>9, <1>16, <1>17

\* The record that setJackTrip leaves.
Prepared(r, id) == [r EXCEPT !.listening = FALSE, !.mSpawning = TRUE, !.mID = id,
                             !.mClientPort = NoEndpoint, !.mAssignedClientName = NoName,
                             !.jackTrip = "ready"]

LEMMA SettingJackTrip ==
  ASSUME NEW h \in HubType, NEW id \in Slots, NEW w \in Workers,
         NEW g, g = SetJackTrip(h, id, w)
  PROVE  /\ OnlyWorker(h, g, w) /\ g.posted = h.posted /\ g.clients = h.clients
         /\ g.worker[w] = Prepared(h.worker[w], id)
<1>1. h.worker[w] \in AnyWorker
  BY DEF HubType
<1>2. Prepared(h.worker[w], id) \in AnyWorker
  BY <1>1, NoNameAny DEF Prepared, AnyWorker
<1>3. g = With(h, w, Prepared(h.worker[w], id))
  BY DEF SetJackTrip, With, Prepared
<1> QED BY <1>2, <1>3, SetWorker

\* The least of some natural numbers is one of them.
LEMMA MinIsMember ==
  ASSUME NEW S \in SUBSET Nat, S # {}
  PROVE  Min(S) \in S
BY Least DEF Min

LEMMA FreshNameType == ASSUME NEW h PROVE FreshName(h) \in AnyName
<1> DEFINE S == (1 .. Cardinality(Workers)) \ {h.worker[v].name : v \in Workers}
<1>1. Cardinality(Workers) \in Nat
  BY PoolAssumption, FS_CardinalityType
<1>2. S \in SUBSET Nat /\ S \subseteq Names
  BY <1>1 DEF Names
<1>3. FreshName(h) = Min(S)
  BY DEF FreshName
<1> HIDE DEF S
<1>4. CASE S = {}
  BY <1>3, <1>4 DEF AnyName
<1>5. CASE S # {}
  BY <1>2, <1>3, <1>5, MinIsMember DEF AnyName
<1> QED BY <1>4, <1>5

\* What the start does to the worker's JACK client and to the queue.
Opened(h, g, w) ==
  /\ g.clients = h.clients
  /\ g.worker[w].mPatched = h.worker[w].mPatched
  /\ g.worker[w].mAssignedClientName = h.worker[w].mAssignedClientName
  /\ \/ /\ g.worker[w].jackTrip = "waiting" /\ g.worker[w].name = FreshName(h)
        /\ g.posted = h.posted
     \/ /\ g.worker[w].jackTrip = "stopped" /\ g.worker[w].name = h.worker[w].name
        /\ g.posted = Append(h.posted, [what |-> "jacktripStopped", to |-> w])
     \/ w \notin UdpWorkers

\* A JackTrip was started, and the worker runs, be it that the start failed.
Running(h, g, w) ==
  /\ OnlyWorker(h, g, w)
  /\ g.worker[w].life = h.worker[w].life /\ g.worker[w].mID = h.worker[w].mID
  /\ g.worker[w].mClientPort = h.worker[w].mClientPort
  /\ g.worker[w].listening = h.worker[w].listening
  /\ g.worker[w].channel = h.worker[w].channel
  /\ g.worker[w].mRunning /\ ~g.worker[w].mSpawning
  /\ Queued(h) \subseteq Queued(g)
  /\ Queued(g) \subseteq Queued(h) \cup {[what |-> "jacktripStopped", to |-> w],
                                         [what |-> "alertPatcher", to |-> w]}
  /\ g.worker[w].jackTrip = "stopped" => [what |-> "jacktripStopped", to |-> w] \in Queued(g)
  /\ Opened(h, g, w)

\* Two records that a started JackTrip leaves.
Started(r, jackTrip, socket, name) ==
  [r EXCEPT !.mRunning = TRUE, !.mSpawning = FALSE, !.jackTrip = jackTrip,
            !.socket = socket, !.name = name]

\* A worker's record set twice in a row.
LEMMA SetTwice ==
  ASSUME NEW h \in HubType, NEW w \in Workers, NEW x \in AnyWorker, NEW y
  PROVE  With(With(h, w, x), w, y) = With(h, w, y)
<1>1. PICK k \in [Workers -> AnyWorker] : k = h.worker
  BY DEF HubType
<1>2. PICK c, d : c = [k EXCEPT ![w] = x] /\ d = [k EXCEPT ![w] = y] /\ [c EXCEPT ![w] = y] = d
  BY <1>1
<1> QED BY <1>1, <1>2 DEF With, HubType

\* processPeerSettings sets the fields of the worker one by one.
LEMMA StartedTwice ==
  ASSUME NEW h \in HubType, NEW w \in Workers
  PROVE  [h EXCEPT !.worker[w].mRunning = TRUE, !.worker[w].mSpawning = FALSE]
           = With(h, w, [h.worker[w] EXCEPT !.mRunning = TRUE, !.mSpawning = FALSE])
<1>1. PICK r \in AnyWorker : r = h.worker[w]
  BY DEF HubType
<1>2. PICK a \in AnyWorker : a = [r EXCEPT !.mRunning = TRUE]
  BY <1>1 DEF AnyWorker
<1>3. PICK f \in HubType : f = With(h, w, a) /\ f.worker[w] = a
  BY <1>1, <1>2, SetWorker DEF OnlyWorker
<1>4. f = [h EXCEPT !.worker[w].mRunning = TRUE]
  BY <1>1, <1>2, <1>3 DEF With
<1>5. [h EXCEPT !.worker[w].mRunning = TRUE, !.worker[w].mSpawning = FALSE]
        = [f EXCEPT !.worker[w].mSpawning = FALSE]
  BY <1>4
<1>6. @ = With(f, w, [a EXCEPT !.mSpawning = FALSE])
  BY <1>3 DEF With
<1>7. @ = With(h, w, [a EXCEPT !.mSpawning = FALSE])
  BY <1>3, SetTwice
<1> QED BY <1>1, <1>2, <1>5, <1>6, <1>7

\* The worker that startProcess has started, over UDP and over WebRTC.
StartsWaiting(h, w, n) ==
  [[h EXCEPT !.worker[w].mRunning = TRUE, !.worker[w].mSpawning = FALSE]
     EXCEPT !.worker[w].jackTrip = "waiting", !.worker[w].socket = TRUE, !.worker[w].name = n]
StartsAudio(h, w, n) ==
  [[h EXCEPT !.worker[w].mRunning = TRUE, !.worker[w].mSpawning = FALSE]
     EXCEPT !.worker[w].jackTrip = "audio", !.worker[w].name = n]

LEMMA StartedWaiting ==
  ASSUME NEW h \in HubType, NEW w \in Workers, NEW n
  PROVE  With(h, w, Started(h.worker[w], "waiting", TRUE, n))
           = StartsWaiting(h, w, n)
<1>1. PICK r \in AnyWorker : r = h.worker[w]
  BY DEF HubType
<1>2. PICK a \in AnyWorker : a = [r EXCEPT !.mRunning = TRUE, !.mSpawning = FALSE]
  BY DEF AnyWorker
<1>3. PICK b \in AnyWorker : b = [a EXCEPT !.jackTrip = "waiting"]
  BY DEF AnyWorker
<1>4. PICK c \in AnyWorker : c = [b EXCEPT !.socket = TRUE]
  BY DEF AnyWorker
<1>5. PICK d : d = [c EXCEPT !.name = n]
  OBVIOUS
<1>6. d = Started(r, "waiting", TRUE, n)
  BY <1>2, <1>3, <1>4, <1>5 DEF Started, AnyWorker
<1>7. PICK f \in HubType : f = With(h, w, a) /\ f.worker[w] = a
  BY <1>2, SetWorker DEF OnlyWorker
<1>8. PICK g \in HubType : g = With(f, w, b) /\ g.worker[w] = b
  BY <1>3, SetWorker DEF OnlyWorker
<1>9. PICK i \in HubType : i = With(g, w, c) /\ i.worker[w] = c
  BY <1>4, SetWorker DEF OnlyWorker
<1>10. With(i, w, d) = With(h, w, d)
  BY <1>2, <1>3, <1>4, <1>7, <1>8, <1>9, SetTwice
<1>11. f = [h EXCEPT !.worker[w].mRunning = TRUE, !.worker[w].mSpawning = FALSE]
  BY <1>1, <1>2, <1>7, StartedTwice, Zenon
<1>12. g = [f EXCEPT !.worker[w].jackTrip = "waiting"]
  BY <1>3, <1>7, <1>8 DEF With
<1>13. i = [g EXCEPT !.worker[w].socket = TRUE]
  BY <1>4, <1>8, <1>9 DEF With
<1>14. With(i, w, d) = [i EXCEPT !.worker[w].name = n]
  BY <1>5, <1>9 DEF With
<1>15. With(i, w, d) = [f EXCEPT !.worker[w].jackTrip = "waiting", !.worker[w].socket = TRUE,
                                 !.worker[w].name = n]
  BY <1>12, <1>13, <1>14
<1> QED BY <1>1, <1>6, <1>10, <1>11, <1>15 DEF StartsWaiting

LEMMA StartedAudio ==
  ASSUME NEW h \in HubType, NEW w \in Workers, NEW n
  PROVE  With(h, w, Started(h.worker[w], "audio", h.worker[w].socket, n))
           = StartsAudio(h, w, n)
<1>1. PICK r \in AnyWorker : r = h.worker[w]
  BY DEF HubType
<1>2. PICK a \in AnyWorker : a = [r EXCEPT !.mRunning = TRUE, !.mSpawning = FALSE]
  BY DEF AnyWorker
<1>3. PICK b \in AnyWorker : b = [a EXCEPT !.jackTrip = "audio"]
  BY DEF AnyWorker
<1>4. PICK d : d = [b EXCEPT !.name = n]
  OBVIOUS
<1>5. d = Started(r, "audio", r.socket, n)
  BY <1>2, <1>3, <1>4 DEF Started, AnyWorker
<1>6. PICK f \in HubType : f = With(h, w, a) /\ f.worker[w] = a
  BY <1>2, SetWorker DEF OnlyWorker
<1>7. PICK g \in HubType : g = With(f, w, b) /\ g.worker[w] = b
  BY <1>3, SetWorker DEF OnlyWorker
<1>8. With(g, w, d) = With(h, w, d)
  BY <1>2, <1>3, <1>6, <1>7, SetTwice
<1>9. f = [h EXCEPT !.worker[w].mRunning = TRUE, !.worker[w].mSpawning = FALSE]
  BY <1>1, <1>2, <1>6, StartedTwice, Zenon
<1>10. g = [f EXCEPT !.worker[w].jackTrip = "audio"]
  BY <1>3, <1>6, <1>7 DEF With
<1>11. With(g, w, d) = [g EXCEPT !.worker[w].name = n]
  BY <1>4, <1>7 DEF With
<1>12. With(g, w, d) = [f EXCEPT !.worker[w].jackTrip = "audio", !.worker[w].name = n]
  BY <1>10, <1>11
<1> QED BY <1>1, <1>5, <1>8, <1>9, <1>12 DEF StartsAudio

LEMMA StartedFields ==
  ASSUME NEW r \in AnyWorker, NEW jackTrip \in {"waiting", "audio", "stopped"},
         NEW socket \in BOOLEAN, NEW name \in AnyName,
         NEW x, x = Started(r, jackTrip, socket, name)
  PROVE  /\ x \in AnyWorker
         /\ x.life = r.life /\ x.mID = r.mID /\ x.mClientPort = r.mClientPort
         /\ x.listening = r.listening /\ x.channel = r.channel
         /\ x.mRunning /\ ~x.mSpawning /\ x.jackTrip = jackTrip
         /\ x.name = name /\ x.mPatched = r.mPatched
         /\ x.mAssignedClientName = r.mAssignedClientName
<1>1. x \in AnyWorker
  BY DEF Started, AnyWorker
<1>2. x.life = r.life /\ x.mID = r.mID /\ x.mClientPort = r.mClientPort
  BY DEF Started, AnyWorker
<1>3. x.listening = r.listening /\ x.channel = r.channel
  BY DEF Started, AnyWorker
<1>4. x.mRunning /\ ~x.mSpawning /\ x.jackTrip = jackTrip
  BY DEF Started, AnyWorker
<1>5. /\ x.name = name /\ x.mPatched = r.mPatched
      /\ x.mAssignedClientName = r.mAssignedClientName
  BY DEF Started, AnyWorker
<1> QED BY <1>1, <1>2, <1>3, <1>4, <1>5

\* The three ways in which processPeerSettings goes on.
LEMMA Processing ==
  ASSUME NEW h \in HubType, NEW w \in Workers, NEW outcome \in Outcomes,
         NEW g, g = ProcessPeerSettings(h, w, outcome)
  PROVE  \/ Running(h, g, w)
         \/ g = ReleaseThread(With(h, w, [h.worker[w] EXCEPT !.mSpawning = FALSE]),
                              h.worker[w].mID)
<1> DEFINE r == h.worker[w]
<1>0. r \in AnyWorker
  BY DEF HubType
<1>1. CASE outcome = "rejected"
  BY <1>1 DEF ProcessPeerSettings, With
<1>2. CASE outcome = "fails"
  <2>1. PICK b \in BOOLEAN, n \in AnyName : b = r.socket /\ n = r.name
    BY <1>0 DEF AnyWorker
  <2> DEFINE x == Started(r, "stopped", b, n)
             f == With(h, w, x)
  <2>2. g = Post(f, "jacktripStopped", w)
    <3>1. f = [[h EXCEPT !.worker[w].mRunning = TRUE, !.worker[w].mSpawning = FALSE]
                 EXCEPT !.worker[w].jackTrip = "stopped"]
      BY <1>0, <2>1 DEF With, Started, HubType, AnyWorker
    <3> QED BY <1>2, <3>1 DEF ProcessPeerSettings
  <2>3. x = Started(r, "stopped", b, n) /\ f = With(h, w, x)
    OBVIOUS
  <2> HIDE DEF x, f
  <2>4. /\ x \in AnyWorker
        /\ x.life = r.life /\ x.mID = r.mID /\ x.mClientPort = r.mClientPort
        /\ x.listening = r.listening /\ x.channel = r.channel
        /\ x.mRunning /\ ~x.mSpawning /\ x.jackTrip = "stopped" /\ x.name = n
        /\ x.mPatched = r.mPatched /\ x.mAssignedClientName = r.mAssignedClientName
    BY <1>0, <2>3, StartedFields
  <2>5. OnlyWorker(h, f, w) /\ f.worker[w] = x /\ f.posted = h.posted /\ f.clients = h.clients
    BY <2>3, <2>4, SetWorker
  <2>6. f \in HubType /\ "jacktripStopped" \in Events
    BY <2>5 DEF OnlyWorker, Events
  <2>7. Posted(f, g, [what |-> "jacktripStopped", to |-> w])
    BY <2>2, <2>6, Posting
  <2>8. OnlyWorker(h, g, w)
    BY <2>5, <2>7 DEF OnlyWorker, Posted
  <2>9. Queued(f) = Queued(h)
    BY <2>5 DEF Queued
  <2>10. Opened(h, g, w)
    <3>1. g.posted = Append(h.posted, [what |-> "jacktripStopped", to |-> w])
      BY <2>5, <2>7, Zenon DEF Posted
    <3> QED BY <2>1, <2>4, <2>5, <2>7, <3>1 DEF Opened, Posted
  <2> QED BY <2>4, <2>5, <2>7, <2>8, <2>9, <2>10 DEF Running, Posted
<1>3. CASE outcome = "starts" /\ w \in UdpWorkers
  <2>1. PICK n \in AnyName, b \in BOOLEAN : n = FreshName(h) /\ b = TRUE
    BY FreshNameType
  <2> DEFINE x == Started(r, "waiting", b, n)
  <2>2. g = With(h, w, x)
    <3>1. With(h, w, x) = StartsWaiting(h, w, n)
      <4>1. x = Started(h.worker[w], "waiting", TRUE, n)
        BY <2>1
      <4> HIDE DEF x
      <4> QED BY <4>1, StartedWaiting
    <3> QED BY <1>3, <2>1, <3>1 DEF ProcessPeerSettings, StartsWaiting
  <2>3. x = Started(r, "waiting", b, n)
    OBVIOUS
  <2> HIDE DEF x
  <2>4. /\ x \in AnyWorker
        /\ x.life = r.life /\ x.mID = r.mID /\ x.mClientPort = r.mClientPort
        /\ x.listening = r.listening /\ x.channel = r.channel
        /\ x.mRunning /\ ~x.mSpawning /\ x.jackTrip = "waiting" /\ x.name = n
        /\ x.mPatched = r.mPatched /\ x.mAssignedClientName = r.mAssignedClientName
    BY <1>0, <2>3, StartedFields
  <2>5. OnlyWorker(h, g, w) /\ g.worker[w] = x /\ g.posted = h.posted /\ g.clients = h.clients
    BY <2>2, <2>4, SetWorker
  <2>6. Queued(g) = Queued(h)
    BY <2>5 DEF Queued
  <2>7. Opened(h, g, w)
    BY <2>1, <2>4, <2>5 DEF Opened
  <2> QED BY <2>4, <2>5, <2>6, <2>7 DEF Running
<1>4. CASE outcome = "starts" /\ w \notin UdpWorkers
  <2>1. PICK b \in BOOLEAN, n \in AnyName : b = r.socket /\ n = FreshName(h)
    BY <1>0, FreshNameType DEF AnyWorker
  <2> DEFINE x == Started(r, "audio", b, n)
             f == With(h, w, x)
  <2>2. g = Post(f, "alertPatcher", w)
    <3>1. f = StartsAudio(h, w, n)
      <4>1. x = Started(h.worker[w], "audio", h.worker[w].socket, n)
        BY <2>1
      <4> HIDE DEF x
      <4> QED BY <4>1, StartedAudio
    <3> HIDE DEF f, x
    <3> QED BY <1>4, <2>1, <3>1 DEF ProcessPeerSettings, StartsAudio
  <2>3. x = Started(r, "audio", b, n) /\ f = With(h, w, x)
    OBVIOUS
  <2> HIDE DEF x, f
  <2>4. /\ x \in AnyWorker
        /\ x.life = r.life /\ x.mID = r.mID /\ x.mClientPort = r.mClientPort
        /\ x.listening = r.listening /\ x.channel = r.channel
        /\ x.mRunning /\ ~x.mSpawning /\ x.jackTrip = "audio" /\ x.name = n
        /\ x.mPatched = r.mPatched /\ x.mAssignedClientName = r.mAssignedClientName
    BY <1>0, <2>3, StartedFields
  <2>5. OnlyWorker(h, f, w) /\ f.worker[w] = x /\ f.posted = h.posted /\ f.clients = h.clients
    BY <2>3, <2>4, SetWorker
  <2>6. f \in HubType /\ "alertPatcher" \in Events
    BY <2>5 DEF OnlyWorker, Events
  <2>7. Posted(f, g, [what |-> "alertPatcher", to |-> w])
    BY <2>2, <2>6, Posting
  <2>8. OnlyWorker(h, g, w)
    BY <2>5, <2>7 DEF OnlyWorker, Posted
  <2>9. Queued(f) = Queued(h)
    BY <2>5 DEF Queued
  <2>10. Opened(h, g, w)
    BY <1>4, <2>4, <2>5, <2>7 DEF Opened, Posted
  <2> QED BY <2>4, <2>5, <2>7, <2>8, <2>9, <2>10 DEF Running, Posted
<1> QED BY <1>1, <1>2, <1>3, <1>4 DEF Outcomes

-----------------------------------------------------------------------------
(* The handlers as steps from one record to another *)

\* The record that a handler computes is the hub's next state.
LEMMA Becoming ==
  ASSUME NEW s \in HubType, Become(s)
  PROVE  Hub' = s
<1>1. s = [slot |-> s.slot, total |-> s.total, worker |-> s.worker, clients |-> s.clients,
           posted |-> s.posted, stopped |-> s.stopped, fatal |-> s.fatal]
  BY DEF HubType
<1> QED BY <1>1 DEF Become, Hub

\* The hub without the event that is being delivered.
LEMMA Taking ==
  ASSUME Hub \in HubType, NEW what, NEW w, Delivered(what, w)
  PROVE  /\ Rest \in HubType
         /\ Rest.slot = mJTWorkers /\ Rest.total = mTotalRunningThreads /\ Rest.worker = worker
         /\ Rest.clients = m_clients /\ Rest.stopped = mStopped /\ Rest.fatal = fatal
         /\ Rest.posted = Tail(posted)
         /\ Queued(Hub) = Queued(Rest) \cup {[what |-> what, to |-> w]}
         /\ [what |-> what, to |-> w] \in Event
<1>0. posted \in Seq(Event) /\ Hub.posted = posted /\ posted # << >>
      /\ Head(posted) = [what |-> what, to |-> w]
  BY DEF Hub, HubType, Delivered
<1>1. PICK q \in Seq(Event) : q = Tail(posted)
  <2>1. Tail(posted) \in Seq(Event)
    BY <1>0
  <2> QED BY <2>1
<1>2. Rest = [Hub EXCEPT !.posted = q]
  BY <1>0, <1>1 DEF Rest, Hub
<1>3. Rest \in HubType
  BY <1>2 DEF HubType
<1>4. /\ Rest.slot = mJTWorkers /\ Rest.total = mTotalRunningThreads /\ Rest.worker = worker
      /\ Rest.clients = m_clients /\ Rest.stopped = mStopped /\ Rest.fatal = fatal
      /\ Rest.posted = q
  BY <1>2 DEF Hub
<1>5. Queued(Hub) = Queued(Rest) \cup {[what |-> what, to |-> w]}
  <2>1. PICK n \in Nat : n = Len(q) /\ Len(posted) = n + 1
    BY <1>0, <1>1
  <2>2. \A k \in 1 .. n : q[k] = posted[k + 1]
    BY <1>0, <1>1, <2>1
  <2>3. posted[1] = [what |-> what, to |-> w]
    BY <1>0
  <2>4. ASSUME NEW k \in 1 .. n + 1
        PROVE  posted[k] = posted[1] \/ \E j \in 1 .. n : posted[k] = q[j]
    <3>1. CASE k = 1
      BY <3>1
    <3>2. CASE k # 1
      <4>1. PICK j \in 1 .. n : k = j + 1
        BY <2>1, <3>2
      <4> QED BY <2>2, <4>1
    <3> QED BY <3>1, <3>2
  <2>5. \A k \in 1 .. n : k + 1 \in 1 .. n + 1
    BY <2>1
  <2>6. 1 \in 1 .. n + 1
    BY <2>1
  <2>7. Queued(Hub) = {posted[k] : k \in 1 .. n + 1} /\ Queued(Rest) = {q[k] : k \in 1 .. n}
    BY <1>0, <1>4, <2>1 DEF Queued
  <2> QED BY <2>2, <2>3, <2>4, <2>5, <2>6, <2>7
<1>6. [what |-> what, to |-> w] \in Event
  BY <1>0
<1> QED BY <1>1, <1>3, <1>4, <1>5, <1>6

\* A new client of readyRead, before its worker is started or given up.
LEMMA NewClient ==
  ASSUME Counted(Hub), NEW w \in Workers, worker[w].life = "unborn", FreeSlots # {},
         NEW id, id = Min(FreeSlots), NEW g, g = CreateWorker(Hub, id, w)
  PROVE  /\ id \in Slots /\ mJTWorkers[id] = NoWorker
         /\ Counted(g) /\ (Exact(Hub) => Exact(g))
         /\ g.slot = [mJTWorkers EXCEPT ![id] = w]
         /\ g.worker[w] = NewWorker
         /\ \A v \in Workers \ {w} : g.worker[v] = worker[v]
         /\ g.posted = posted /\ g.clients = m_clients
         /\ g.stopped = mStopped /\ g.fatal = fatal
<1>1. FreeSlots \in SUBSET Nat
  BY SlotBounds DEF FreeSlots
<1>2. id \in FreeSlots
  BY <1>1, MinIsMember
<1>3. id \in Slots /\ Hub.slot[id] = NoWorker
  BY <1>2 DEF FreeSlots, Hub
<1>4. Hub.worker[w].life = "unborn"
  BY DEF Hub
<1>5. /\ Counted(g) /\ (Exact(Hub) => Exact(g))
      /\ g.slot = [Hub.slot EXCEPT ![id] = w]
      /\ g.worker[w] = NewWorker
      /\ \A v \in Workers \ {w} : g.worker[v] = Hub.worker[v]
      /\ g.posted = Hub.posted /\ g.clients = Hub.clients
      /\ g.stopped = Hub.stopped /\ g.fatal = Hub.fatal
  BY <1>3, <1>4, Creating
<1> QED BY <1>3, <1>5 DEF Hub

\* g is the hub with a new worker w in slot id, told its port.
Assigned(g, id, w) ==
  /\ id \in Slots /\ mJTWorkers[id] = NoWorker
  /\ Counted(g) /\ (Exact(Hub) => Exact(g))
  /\ g.slot = [mJTWorkers EXCEPT ![id] = w]
  /\ g.worker[w] = Prepared(NewWorker, id)
  /\ \A v \in Workers \ {w} : g.worker[v] = worker[v]
  /\ g.posted = posted /\ g.clients = m_clients /\ g.stopped = mStopped /\ g.fatal = fatal

\* A worker of a TCP client, told its port.
LEMMA NewUdpWorker ==
  ASSUME Counted(Hub), NEW w \in Workers, worker[w].life = "unborn", FreeSlots # {},
         NEW id, id = Min(FreeSlots), NEW g, g = SetJackTrip(CreateWorker(Hub, id, w), id, w)
  PROVE  Assigned(g, id, w)
<1>1. PICK f : f = CreateWorker(Hub, id, w)
  OBVIOUS
<1>2. /\ id \in Slots /\ mJTWorkers[id] = NoWorker
      /\ Counted(f) /\ (Exact(Hub) => Exact(f))
      /\ f.slot = [mJTWorkers EXCEPT ![id] = w]
      /\ f.worker[w] = NewWorker
      /\ \A v \in Workers \ {w} : f.worker[v] = worker[v]
      /\ f.posted = posted /\ f.clients = m_clients
      /\ f.stopped = mStopped /\ f.fatal = fatal
  BY <1>1, NewClient
<1>3. f \in HubType /\ g = SetJackTrip(f, id, w)
  BY <1>1, <1>2 DEF Counted
<1>4. /\ OnlyWorker(f, g, w) /\ g.posted = f.posted /\ g.clients = f.clients
      /\ g.worker[w] = Prepared(f.worker[w], id)
  BY <1>2, <1>3, SettingJackTrip
<1>5. Prepared(NewWorker, id).life # "unborn"
  BY DEF Prepared, NewWorker
<1>6. KeepsSlots(f, g)
  BY <1>2, <1>4, <1>5, OnlyWorkerKeeps
<1>7. Counted(g)
  BY <1>2, <1>6, KeepsCounted
<1>8. Exact(Hub) => Exact(g)
  BY <1>2, <1>6 DEF KeepsSlots, Exact
<1> QED BY <1>2, <1>4, <1>7, <1>8 DEF OnlyWorker, Assigned

\* releaseDuplicateThreads keeps count.
LEMMA DuplicatesCounted ==
  ASSUME NEW h, Counted(h), NEW e, NEW g, g = ReleaseDuplicates(h, e)
  PROVE  Counted(g)
<1>0. h \in HubType /\ MaxThreads \in Nat /\ Slots = 0 .. MaxThreads - 1
  BY SlotBounds DEF Counted
<1>1. PICK f \in [0 .. MaxThreads -> HubType] :
        /\ f[0] = h
        /\ \A n \in 1 .. MaxThreads : f[n] = ReleaseDuplicate(f[n - 1], n - 1, e)
        /\ ReleaseDuplicates(h, e) = f[MaxThreads]
  BY <1>0, DuplicatesLoop
<1> DEFINE G == {n \in 0 .. MaxThreads : Counted(f[n])}
<1>2. 0 \in G
  BY <1>0, <1>1
<1>3. ASSUME NEW n \in 0 .. MaxThreads - 1, n \in G
      PROVE  n + 1 \in G
  <2>1. n + 1 \in 1 .. MaxThreads /\ n + 1 \in 0 .. MaxThreads /\ (n + 1) - 1 = n /\ n \in Slots
    BY <1>0
  <2>2. PICK t, u : t = f[n] /\ u = f[n + 1]
    OBVIOUS
  <2>3. Counted(t) /\ u = ReleaseDuplicate(t, n, e)
    BY <1>1, <1>3, <2>1, <2>2
  <2>4. t \in HubType
    BY <2>3 DEF Counted
  <2>5. \/ u = t
        \/ /\ IsDuplicate(t, n, e)
           /\ \E x \in HubType : Stopped(t, x, t.slot[n]) /\ u = ReleaseThread(x, n)
    BY <2>1, <2>3, <2>4, ReleasingDuplicate
  <2>6. ASSUME NEW x \in HubType, IsDuplicate(t, n, e), Stopped(t, x, t.slot[n]),
               u = ReleaseThread(x, n)
        PROVE  Counted(u)
    <3>1. PICK v \in Workers : v = t.slot[n]
      BY <2>1, <2>4, <2>6 DEF IsDuplicate, HubType
    <3>2. OnlyWorker(t, x, v) /\ x.worker[v].life = t.worker[v].life
      BY <2>6, <3>1 DEF Stopped
    <3>3. KeepsSlots(t, x)
      BY <3>2, OnlyWorkerKeeps
    <3>4. Counted(x)
      BY <2>3, <3>3, KeepsCounted
    <3> QED BY <2>1, <2>6, <3>4, ReleaseCounted
  <2>7. Counted(u)
    BY <2>3, <2>5, <2>6
  <2> QED BY <2>1, <2>2, <2>7
<1> HIDE DEF G
<1>4. \A n \in 0 .. MaxThreads : n \in G
  BY <1>0, <1>2, <1>3, CountUp
<1>5. MaxThreads \in 0 .. MaxThreads
  BY <1>0
<1> QED BY <1>1, <1>4, <1>5 DEF G

\* stopAllThreads leaves the slots alone.
LEMMA StopAllKeeps ==
  ASSUME NEW h \in HubType, NEW g, g = StopAllThreads(h)
  PROVE  KeepsSlots(h, g) /\ g.fatal = h.fatal
<1>0. MaxThreads \in Nat /\ Slots = 0 .. MaxThreads - 1
  BY SlotBounds
<1>1. PICK f \in [0 .. MaxThreads -> HubType] :
        /\ f[0] = h
        /\ \A n \in 1 .. MaxThreads : f[n] = StopWorkerIn(f[n - 1], n - 1)
        /\ StopAllThreads(h) = f[MaxThreads]
  BY StopLoop
<1> DEFINE G == {n \in 0 .. MaxThreads : KeepsSlots(h, f[n]) /\ f[n].fatal = h.fatal}
<1>2. 0 \in G
  BY <1>0, <1>1 DEF KeepsSlots
<1>3. ASSUME NEW n \in 0 .. MaxThreads - 1, n \in G
      PROVE  n + 1 \in G
  <2>1. n + 1 \in 1 .. MaxThreads /\ n + 1 \in 0 .. MaxThreads /\ (n + 1) - 1 = n /\ n \in Slots
    BY <1>0
  <2>2. PICK t, u : t = f[n] /\ u = f[n + 1]
    OBVIOUS
  <2>3. KeepsSlots(h, t) /\ t.fatal = h.fatal /\ u = StopWorkerIn(t, n)
    BY <1>1, <1>3, <2>1, <2>2
  <2>4. t \in HubType
    BY <2>3 DEF KeepsSlots
  <2>5. u = t \/ (t.slot[n] \in Workers /\ Stopped(t, u, t.slot[n]))
    BY <2>1, <2>3, <2>4, StoppingWorkerIn
  <2>6. ASSUME NEW v \in Workers, v = t.slot[n], Stopped(t, u, v)
        PROVE  KeepsSlots(h, u) /\ u.fatal = h.fatal
    <3>1. OnlyWorker(t, u, v) /\ u.worker[v].life = t.worker[v].life
      BY <2>6 DEF Stopped
    <3>2. KeepsSlots(t, u)
      BY <3>1, OnlyWorkerKeeps
    <3>3. u.fatal = t.fatal
      BY <3>1 DEF OnlyWorker
    <3>4. KeepsSlots(h, u)
      BY <2>3, <3>2, KeepsOn
    <3> QED BY <2>3, <3>3, <3>4
  <2>7. KeepsSlots(h, u) /\ u.fatal = h.fatal
    BY <2>3, <2>5, <2>6
  <2> QED BY <2>1, <2>2, <2>7
<1> HIDE DEF G
<1>4. \A n \in 0 .. MaxThreads : n \in G
  BY <1>0, <1>2, <1>3, CountUp
<1>5. MaxThreads \in 0 .. MaxThreads
  BY <1>0
<1> QED BY <1>1, <1>4, <1>5 DEF G

\* The state that stopCheck leaves is the one of stopAllThreads, but stopped.
LEMMA MarkStopped ==
  ASSUME NEW h \in HubType, NEW g, g = [h EXCEPT !.stopped = TRUE]
  PROVE  /\ g \in HubType /\ g.slot = h.slot /\ g.total = h.total /\ g.worker = h.worker
         /\ g.posted = h.posted /\ g.fatal = h.fatal /\ g.stopped = TRUE
         /\ g.clients = h.clients
<1>1. g \in HubType /\ g.slot = h.slot /\ g.total = h.total /\ g.worker = h.worker
  BY DEF HubType
<1>2. /\ g.posted = h.posted /\ g.fatal = h.fatal /\ g.stopped = TRUE
      /\ g.clients = h.clients
  BY DEF HubType
<1> QED BY <1>1, <1>2

\* alertPatcher of a worker that runs.
Alerted(r) == [r EXCEPT !.mAssignedClientName = r.name, !.mPatched = TRUE]
AlertedHub(h, w) ==
  [h EXCEPT !.clients = @ \cup {h.worker[w].name},
            !.worker[w].mAssignedClientName = h.worker[w].name,
            !.worker[w].mPatched = TRUE]
LEMMA Alerting ==
  ASSUME NEW h \in HubType, NEW w \in Workers, NEW g, g = AlertedHub(h, w)
  PROVE  /\ OnlyWorker(h, g, w) /\ g.posted = h.posted
         /\ g.clients = h.clients \cup {h.worker[w].name}
         /\ g.worker[w] = Alerted(h.worker[w])
<1>0. h.worker[w] \in AnyWorker
  BY DEF HubType
<1> DEFINE r == [h.worker[w] EXCEPT !.mAssignedClientName = h.worker[w].name, !.mPatched = TRUE]
           f == With(h, w, r)
<1>1. r \in AnyWorker
  BY <1>0 DEF AnyWorker
<1>2. PICK c \in SUBSET AnyName : c = h.clients \cup {h.worker[w].name}
  BY <1>0 DEF HubType, AnyWorker
<1>3. g = [f EXCEPT !.clients = c]
  BY <1>2 DEF AlertedHub, With, HubType, AnyWorker
<1>4. f = With(h, w, r)
  OBVIOUS
<1> HIDE DEF r, f
<1>5. OnlyWorker(h, f, w) /\ f.worker[w] = r /\ f.posted = h.posted
  BY <1>1, <1>4, SetWorker
<1>6. f \in HubType
  BY <1>5 DEF OnlyWorker
<1>7. g \in HubType /\ g.slot = f.slot /\ g.total = f.total /\ g.stopped = f.stopped
  BY <1>2, <1>3, <1>6 DEF HubType
<1>8. g.fatal = f.fatal /\ g.worker = f.worker /\ g.posted = f.posted /\ g.clients = c
  BY <1>2, <1>3, <1>6 DEF HubType
<1>9. OnlyWorker(h, g, w)
  BY <1>5, <1>7, <1>8 DEF OnlyWorker
<1> QED BY <1>2, <1>5, <1>8, <1>9 DEF r, Alerted

\* The worker's destructor and ~QObject.
Destroyed == [NewWorker EXCEPT !.life = "deleted"]
DestroyedHub(h, w) == [h EXCEPT !.worker[w] = Destroyed, !.posted = Undelivered(@, w)]
LEMMA Destroying ==
  ASSUME NEW h \in HubType, NEW w \in Workers, NEW g,
         g = DestroyedHub(h, w)
  PROVE  /\ OnlyWorker(h, g, w) /\ g.worker[w] = Destroyed
         /\ g.clients = h.clients /\ g.posted = Undelivered(h.posted, w)
         /\ Queued(g) = {e \in Queued(h) : e.to # w}
<1>1. Destroyed \in AnyWorker
  BY NewWorkerType DEF Destroyed, AnyWorker
<1>2. h.posted \in Seq(Event)
  BY DEF HubType
<1>3. PICK q \in Seq(Event) : q = Undelivered(h.posted, w)
  BY <1>2, Dropping
<1>4. {q[k] : k \in 1 .. Len(q)} = {e \in Queued(h) : e.to # w}
  BY <1>2, <1>3, Dropping DEF Queued
<1>5. PICK W \in [Workers -> AnyWorker] : W = [h.worker EXCEPT ![w] = Destroyed]
  BY <1>1 DEF HubType
<1>6. g = [h EXCEPT !.worker = W, !.posted = q]
  BY <1>3, <1>5 DEF HubType, DestroyedHub
<1>7. g \in HubType /\ g.slot = h.slot /\ g.total = h.total /\ g.stopped = h.stopped
  BY <1>6 DEF HubType
<1>8. g.fatal = h.fatal /\ g.worker = W /\ g.posted = q /\ g.clients = h.clients
  BY <1>6 DEF HubType
<1>9. h.worker \in [Workers -> AnyWorker]
  BY DEF HubType
<1>10. W[w] = Destroyed /\ \A v \in Workers \ {w} : W[v] = h.worker[v]
  BY <1>5, <1>9
<1> QED BY <1>3, <1>4, <1>7, <1>8, <1>10 DEF OnlyWorker, Queued

-----------------------------------------------------------------------------
(* The slots are counted, whoever connects *)

SlotsInv == Counted(Hub)

LEMMA StepCounted == ASSUME NEW s, Counted(s), Become(s) PROVE SlotsInv'
<1>1. s \in HubType
  BY DEF Counted
<1>2. Hub' = s
  BY <1>1, Becoming
<1>3. Counted(Hub')
  BY <1>2
<1> QED BY <1>3 DEF SlotsInv, Counted, HubType, Occupied

\* A step that changes one worker, which stays born.
LEMMA WorkerCounted ==
  ASSUME NEW h, Counted(h), NEW w \in Workers, NEW g, OnlyWorker(h, g, w),
         h.worker[w].life # "unborn" => g.worker[w].life # "unborn"
  PROVE  Counted(g)
BY OnlyWorkerKeeps, KeepsCounted

\* The same for a record of the worker that keeps its life.
LEMMA WithCounted ==
  ASSUME NEW h, Counted(h), NEW w \in Workers, NEW r \in AnyWorker,
         r.life = h.worker[w].life, NEW g, g = With(h, w, r)
  PROVE  Counted(g) /\ g \in HubType
<1>1. h \in HubType
  BY DEF Counted
<1>2. OnlyWorker(h, g, w) /\ g.worker[w] = r
  BY <1>1, SetWorker
<1> QED BY <1>2, WorkerCounted DEF OnlyWorker

LEMMA PostCounted ==
  ASSUME NEW h, Counted(h), NEW what \in Events, NEW w \in Workers, NEW g, g = Post(h, what, w)
  PROVE  Counted(g)
<1>1. h \in HubType
  BY DEF Counted
<1>2. Posted(h, g, [what |-> what, to |-> w])
  BY <1>1, Posting
<1>3. KeepsSlots(h, g)
  BY <1>2 DEF Posted, KeepsSlots
<1> QED BY <1>3, KeepsCounted

LEMMA DieCounted ==
  ASSUME NEW h, Counted(h), NEW call \in {"bind", "releaseThread", "completeConnection"},
         NEW g, g = Die(h, call)
  PROVE  Counted(g)
<1>1. h \in HubType
  BY DEF Counted
<1>2. /\ g \in HubType /\ g.slot = h.slot /\ g.total = h.total /\ g.worker = h.worker
      /\ g.fatal = call
  BY <1>1, Dying
<1>3. KeepsSlots(h, g)
  BY <1>2 DEF KeepsSlots
<1> QED BY <1>3, KeepsCounted

LEMMA StopJackTripCounted ==
  ASSUME NEW h, Counted(h), NEW w \in Workers, NEW g, g = StopJackTrip(h, w)
  PROVE  Counted(g)
<1>1. h \in HubType
  BY DEF Counted
<1>2. OnlyWorker(h, g, w) /\ (g = h \/ g.worker[w] = JackTripStopped(h.worker[w]))
  BY <1>1, StoppingJackTrip
<1>3. h.worker[w] \in AnyWorker
  BY <1>1 DEF HubType
<1>4. JackTripStopped(h.worker[w]).life = h.worker[w].life
  BY <1>3 DEF JackTripStopped, AnyWorker
<1> QED BY <1>2, <1>4, WorkerCounted

LEMMA UnpatchCounted ==
  ASSUME NEW h, Counted(h), NEW w \in Workers, NEW g, g = Unpatch(h, w)
  PROVE  Counted(g)
<1>1. h \in HubType
  BY DEF Counted
<1>2. OnlyWorker(h, g, w) /\ g.worker[w] = Unpatched(h.worker[w])
  BY <1>1, Unpatching
<1>3. h.worker[w] \in AnyWorker
  BY <1>1 DEF HubType
<1>4. Unpatched(h.worker[w]).life = h.worker[w].life
  BY <1>3 DEF Unpatched, AnyWorker
<1> QED BY <1>2, <1>4, WorkerCounted

LEMMA StopThreadCounted ==
  ASSUME NEW h, Counted(h), NEW w \in Workers, NEW g, g = StopThread(h, w)
  PROVE  Counted(g)
<1>1. h \in HubType
  BY DEF Counted
<1>2. OnlyWorker(h, g, w) /\ g.worker[w].life = h.worker[w].life
  BY <1>1, StoppingThread DEF Stopped
<1> QED BY <1>2, WorkerCounted

LEMMA ProcessCounted ==
  ASSUME NEW h, Counted(h), NEW w \in Workers, NEW outcome \in Outcomes,
         NEW g, g = ProcessPeerSettings(h, w, outcome)
  PROVE  Counted(g)
<1>1. h \in HubType
  BY DEF Counted
<1>2. h.worker[w] \in AnyWorker
  BY <1>1 DEF HubType
<1> DEFINE r == [h.worker[w] EXCEPT !.mSpawning = FALSE]
<1>3. r \in AnyWorker /\ r.life = h.worker[w].life
  BY <1>2 DEF AnyWorker
<1>4. PICK f : f = With(h, w, r)
  OBVIOUS
<1>5. Counted(f)
  <2> HIDE DEF r
  <2> QED BY <1>3, <1>4, WithCounted
<1>6. Running(h, g, w) \/ g = ReleaseThread(f, h.worker[w].mID)
  BY <1>1, <1>4, Processing, Zenon
<1>7. CASE Running(h, g, w)
  BY <1>7, WorkerCounted DEF Running
<1>8. CASE g = ReleaseThread(f, h.worker[w].mID)
  <2>1. PICK id \in Slots : id = h.worker[w].mID
    BY <1>2 DEF AnyWorker
  <2> QED BY <1>5, <1>8, <2>1, ReleaseCounted
<1> QED BY <1>6, <1>7, <1>8

LEMMA TakeCounted ==
  ASSUME Counted(Hub), NEW what, NEW w, Delivered(what, w)
  PROVE  Counted(Rest) /\ w \in Workers
<1>1. Hub \in HubType
  BY DEF Counted
<1>2. /\ Rest \in HubType
      /\ Rest.slot = mJTWorkers /\ Rest.total = mTotalRunningThreads /\ Rest.worker = worker
      /\ Rest.fatal = fatal /\ [what |-> what, to |-> w] \in Event
  BY <1>1, Taking
<1>3. KeepsSlots(Hub, Rest)
  BY <1>2 DEF KeepsSlots, Hub
<1>4. w \in Workers
  BY <1>2 DEF Event
<1> QED BY <1>3, <1>4, KeepsCounted

\* Every handler, and every thread that posts to the loop, keeps count.
LEMMA NextSlotsInv == SlotsInv /\ [Next]_vars => SlotsInv'
<1> SUFFICES ASSUME SlotsInv, [Next]_vars
             PROVE  SlotsInv'
  OBVIOUS
<1>0. Counted(Hub) /\ Hub \in HubType /\ Hub.worker = worker
      /\ worker \in [Workers -> AnyWorker]
  BY DEF SlotsInv, Counted, Hub, HubType
<1>a. \A w \in Workers : worker[w] \in AnyWorker /\ worker[w].mID \in Slots
  BY <1>0 DEF AnyWorker
<1>1. ASSUME NEW w \in UdpWorkers, NEW reached \in BOOLEAN, NEW iceBound \in BOOLEAN,
             NewUdpClient(w, reached, iceBound)
      PROVE  SlotsInv'
  <2>1. w \in Workers /\ worker[w].life = "unborn" /\ FreeSlots # {}
    BY <1>1 DEF NewUdpClient, Workers
  <2>2. PICK id, g : id = Min(FreeSlots) /\ g = SetJackTrip(CreateWorker(Hub, id, w), id, w)
    OBVIOUS
  <2>3. id \in Slots /\ Counted(g)
    BY <1>0, <2>1, <2>2, NewUdpWorker DEF Assigned
  <2>4. PICK s : /\ Become(s)
                 /\ \/ s = ReleaseThread(g, id) \/ s = Die(g, "bind")
                    \/ s = [g EXCEPT !.worker[w].listening = TRUE]
    BY <1>1, <2>2 DEF NewUdpClient
  <2>5. CASE s = [g EXCEPT !.worker[w].listening = TRUE]
    <3> DEFINE r == [g.worker[w] EXCEPT !.listening = TRUE]
    <3>1. g.worker[w] \in AnyWorker
      BY <2>1, <2>3 DEF Counted, HubType
    <3>2. r \in AnyWorker /\ r.life = g.worker[w].life
      BY <3>1 DEF AnyWorker
    <3>3. s = With(g, w, r)
      BY <2>5 DEF With
    <3> HIDE DEF r
    <3>4. Counted(s)
      BY <2>1, <2>3, <3>2, <3>3, WithCounted
    <3> QED BY <2>4, <3>4, StepCounted
  <2>6. CASE s = ReleaseThread(g, id) \/ s = Die(g, "bind")
    BY <2>3, <2>4, <2>6, ReleaseCounted, DieCounted, StepCounted
  <2> QED BY <2>4, <2>5, <2>6
<1>2. ASSUME NEW w \in RtcWorkers, NewRtcClient(w)
      PROVE  SlotsInv'
  <2>1. w \in Workers /\ worker[w].life = "unborn" /\ FreeSlots # {}
    BY <1>2 DEF NewRtcClient, Workers
  <2>2. PICK id, g : id = Min(FreeSlots) /\ g = CreateWorker(Hub, id, w)
    OBVIOUS
  <2>3. Counted(g) /\ id \in Slots
    BY <1>0, <2>1, <2>2, NewClient
  <2>4. Become([g EXCEPT !.worker[w].channel = "new", !.worker[w].icePorts = {id}])
    BY <1>2, <2>2 DEF NewRtcClient
  <2> DEFINE r == [g.worker[w] EXCEPT !.channel = "new", !.icePorts = {id}]
  <2>5. g.worker[w] \in AnyWorker
    BY <2>1, <2>3 DEF Counted, HubType
  <2>6. r \in AnyWorker /\ r.life = g.worker[w].life
    BY <2>3, <2>5 DEF AnyWorker
  <2>7. PICK s : s = With(g, w, r) /\ Become(s)
    BY <2>4 DEF With
  <2> HIDE DEF r
  <2>8. Counted(s)
    BY <2>1, <2>3, <2>6, <2>7, WithCounted
  <2> QED BY <2>7, <2>8, StepCounted
<1>3. ASSUME NEW w \in Workers, NEW e \in Endpoints, NEW outcome \in Outcomes,
             ReceivedFirstPacketUDP(w, e, outcome)
      PROVE  SlotsInv'
  <2> DEFINE r == [worker[w] EXCEPT !.listening = FALSE]
  <2>1. r \in AnyWorker /\ r.life = worker[w].life
    BY <1>a DEF AnyWorker
  <2>2. PICK h : h = With(Hub, w, r)
    OBVIOUS
  <2>3. h = [Hub EXCEPT !.worker[w].listening = FALSE]
    BY <2>2 DEF With, Hub
  <2> HIDE DEF r
  <2>4. Counted(h)
    BY <1>0, <2>1, <2>2, WithCounted
  <2>5. PICK f : f = ReleaseDuplicates(h, e)
    OBVIOUS
  <2>6. Counted(f)
    BY <2>4, <2>5, DuplicatesCounted
  <2>7. f.worker[w] \in AnyWorker /\ f \in HubType
    BY <2>6 DEF Counted, HubType
  <2> DEFINE x == [f.worker[w] EXCEPT !.mClientPort = e]
  <2>8. x \in AnyWorker /\ x.life = f.worker[w].life
    BY <2>7 DEF AnyWorker
  <2>9. PICK g : g = With(f, w, x)
    OBVIOUS
  <2>10. g = ReleaseDuplicateThreads(h, w, e)
    BY <2>5, <2>9 DEF ReleaseDuplicateThreads, With
  <2> HIDE DEF x
  <2>11. Counted(g)
    BY <2>6, <2>8, <2>9, WithCounted
  <2>12. PICK s : s = ProcessPeerSettings(g, w, outcome) /\ Become(s)
    BY <1>3, <2>3, <2>10 DEF ReceivedFirstPacketUDP
  <2>13. Counted(s)
    BY <2>11, <2>12, ProcessCounted
  <2> QED BY <2>12, <2>13, StepCounted
<1>4. ASSUME NEW w \in Workers, GiveUpOnClient(w)
      PROVE  SlotsInv'
  <2> DEFINE r == [worker[w] EXCEPT !.listening = FALSE, !.mSpawning = FALSE]
  <2>1. r \in AnyWorker /\ r.life = worker[w].life
    BY <1>a DEF AnyWorker
  <2>2. PICK h : h = With(Hub, w, r)
    OBVIOUS
  <2>3. h = [Hub EXCEPT !.worker[w].listening = FALSE, !.worker[w].mSpawning = FALSE]
    BY <1>0, <2>2 DEF With, Hub
  <2> HIDE DEF r
  <2>4. Counted(h)
    BY <1>0, <2>1, <2>2, WithCounted
  <2>5. PICK s : s = ReleaseThread(h, worker[w].mID) /\ Become(s)
    BY <1>4, <2>3 DEF GiveUpOnClient
  <2>6. Counted(s)
    BY <1>a, <2>4, <2>5, ReleaseCounted
  <2> QED BY <2>5, <2>6, StepCounted
<1>5. ASSUME NEW w \in Workers, JackTripFirstPacket(w)
      PROVE  SlotsInv'
  <2> DEFINE r == [worker[w] EXCEPT !.jackTrip = "audio"]
  <2>1. r \in AnyWorker /\ r.life = worker[w].life
    BY <1>a DEF AnyWorker
  <2>2. PICK h : h = With(Hub, w, r)
    OBVIOUS
  <2>3. h = [Hub EXCEPT !.worker[w].jackTrip = "audio"]
    BY <2>2 DEF With, Hub
  <2> HIDE DEF r
  <2>4. Counted(h)
    BY <1>0, <2>1, <2>2, WithCounted
  <2>5. PICK s : /\ s = Post(h, "alertPatcher", w) \/ s = Die(Hub, "completeConnection")
                 /\ Become(s)
    BY <1>5, <2>3 DEF JackTripFirstPacket
  <2>6. "alertPatcher" \in Events
    BY DEF Events
  <2>7. Counted(s)
    BY <1>0, <2>4, <2>5, <2>6, PostCounted, DieCounted
  <2> QED BY <2>5, <2>7, StepCounted
<1>6. ASSUME NEW w \in Workers, JackTripTimeout(w)
      PROVE  SlotsInv'
  <2>1. PICK h : h = StopJackTrip(Hub, w)
    OBVIOUS
  <2>2. Counted(h)
    BY <1>0, <2>1, StopJackTripCounted
  <2>3. h.worker[w] \in AnyWorker
    BY <2>2 DEF Counted, HubType
  <2> DEFINE r == [h.worker[w] EXCEPT !.socket = FALSE]
  <2>4. r \in AnyWorker /\ r.life = h.worker[w].life
    BY <2>3 DEF AnyWorker
  <2>5. PICK s : s = With(h, w, r) /\ Become(s)
    BY <1>6, <2>1 DEF JackTripTimeout, With
  <2> HIDE DEF r
  <2>6. Counted(s)
    BY <2>2, <2>4, <2>5, WithCounted
  <2> QED BY <2>5, <2>6, StepCounted
<1>7. ASSUME NEW w \in Workers, PeerGone(w) \/ RtcMessage(w)
      PROVE  SlotsInv'
  <2>1. PICK what, s : what \in Events /\ s = Post(Hub, what, w) /\ Become(s)
    BY <1>7 DEF PeerGone, RtcMessage, Events
  <2>2. Counted(s)
    BY <1>0, <2>1, PostCounted
  <2> QED BY <2>1, <2>2, StepCounted
<1>8. ASSUME NEW w \in Workers, NEW what \in RtcSignals, RtcSignal(w, what)
      PROVE  SlotsInv'
  <2> DEFINE r == [worker[w] EXCEPT !.reported = @ \cup {what}]
  <2>1. r \in AnyWorker /\ r.life = worker[w].life
    BY <1>a DEF AnyWorker
  <2>2. PICK h : h = With(Hub, w, r)
    OBVIOUS
  <2>3. h = [Hub EXCEPT !.worker[w].reported = @ \cup {what}]
    BY <2>2 DEF With, Hub
  <2> HIDE DEF r
  <2>4. Counted(h)
    BY <1>0, <2>1, <2>2, WithCounted
  <2>5. PICK s : s = Post(h, what, w) /\ Become(s)
    BY <1>8, <2>3 DEF RtcSignal
  <2>6. what \in Events
    BY DEF Events
  <2>7. Counted(s)
    BY <2>4, <2>5, <2>6, PostCounted
  <2> QED BY <2>5, <2>7, StepCounted
<1>9. ASSUME NEW w \in Workers, JacktripStopped(w)
      PROVE  SlotsInv'
  <2>1. Counted(Rest)
    BY <1>0, <1>9, TakeCounted DEF JacktripStopped
  <2>2. Rest.worker = worker
    BY <1>0, <1>9, Taking DEF JacktripStopped
  <2> DEFINE r == [worker[w] EXCEPT !.mRunning = FALSE]
  <2>3. r \in AnyWorker /\ r.life = Rest.worker[w].life
    BY <1>a, <2>2, ClearedRunning
  <2>4. PICK h, f : h = With(Rest, w, r) /\ f = Unpatch(h, w)
    OBVIOUS
  <2>5. h = [Rest EXCEPT !.worker[w].mRunning = FALSE]
    BY <2>2, <2>4 DEF With
  <2> HIDE DEF r
  <2>6. Counted(f)
    BY <2>1, <2>3, <2>4, WithCounted, UnpatchCounted
  <2>7. PICK s : (s = Rest \/ s = ReleaseThread(f, worker[w].mID)) /\ Become(s)
    BY <1>9, <2>4, <2>5 DEF JacktripStopped
  <2>8. Counted(s)
    BY <1>a, <2>1, <2>6, <2>7, ReleaseCounted
  <2> QED BY <2>7, <2>8, StepCounted
<1>10. ASSUME NEW w \in Workers, AlertPatcher(w)
       PROVE  SlotsInv'
  <2>1. Counted(Rest)
    BY <1>0, <1>10, TakeCounted DEF AlertPatcher
  <2>2. Rest.worker = worker /\ Rest \in HubType
    BY <1>0, <1>10, Taking DEF AlertPatcher
  <2>3. PICK g : g = AlertedHub(Rest, w)
    OBVIOUS
  <2>4. /\ OnlyWorker(Rest, g, w)
        /\ g.worker[w] = Alerted(Rest.worker[w])
    BY <2>2, <2>3, Alerting
  <2>5. g.worker[w].life = Rest.worker[w].life
    BY <1>a, <2>2, <2>4 DEF AnyWorker, Alerted
  <2>6. Counted(g)
    BY <2>1, <2>4, <2>5, WorkerCounted
  <2>7. PICK s : (s = Rest \/ s = g) /\ Become(s)
    BY <1>10, <2>2, <2>3 DEF AlertPatcher, AlertedHub
  <2> QED BY <2>1, <2>6, <2>7, StepCounted
<1>11. ASSUME NEW w \in Workers, SlotStopProcesses(w)
       PROVE  SlotsInv'
  <2>1. Counted(Rest)
    BY <1>0, <1>11, TakeCounted DEF SlotStopProcesses
  <2>2. PICK s : s = StopJackTrip(Rest, w) /\ Become(s)
    BY <1>11 DEF SlotStopProcesses
  <2>3. Counted(s)
    BY <2>1, <2>2, StopJackTripCounted
  <2> QED BY <2>2, <2>3, StepCounted
<1>12. ASSUME NEW w \in Workers, OnWebRtcDataChannelOpen(w)
       PROVE  SlotsInv'
  <2>1. Counted(Rest)
    BY <1>0, <1>12, TakeCounted DEF OnWebRtcDataChannelOpen
  <2>2. Rest.worker = worker /\ Rest \in HubType
    BY <1>0, <1>12, Taking DEF OnWebRtcDataChannelOpen
  <2>3. PICK h : h = SetJackTrip(Rest, worker[w].mID, w)
    OBVIOUS
  <2>4. OnlyWorker(Rest, h, w) /\ h.worker[w] = Prepared(worker[w], worker[w].mID)
    BY <1>a, <2>2, <2>3, SettingJackTrip
  <2>5. Prepared(worker[w], worker[w].mID).life = worker[w].life
    BY <1>a DEF Prepared, AnyWorker
  <2>6. Counted(h)
    BY <2>1, <2>2, <2>4, <2>5, WorkerCounted
  <2>7. h.worker[w] \in AnyWorker
    BY <2>6 DEF Counted, HubType
  <2> DEFINE r == [h.worker[w] EXCEPT !.channel = "open"]
  <2>8. r \in AnyWorker /\ r.life = h.worker[w].life
    BY <2>7 DEF AnyWorker
  <2>9. PICK s : (s = Rest \/ s = With(h, w, r)) /\ Become(s)
    BY <1>12, <2>3 DEF OnWebRtcDataChannelOpen, With
  <2> HIDE DEF r
  <2>10. Counted(s)
    BY <2>1, <2>6, <2>8, <2>9, WithCounted
  <2> QED BY <2>9, <2>10, StepCounted
<1>13. ASSUME NEW w \in Workers, NEW outcome \in Outcomes, ReceivedFirstPacketWebRtc(w, outcome)
       PROVE  SlotsInv'
  <2>1. Counted(Rest)
    BY <1>0, <1>13, TakeCounted DEF ReceivedFirstPacketWebRtc
  <2>2. PICK s : (s = Rest \/ s = ProcessPeerSettings(Rest, w, outcome)) /\ Become(s)
    BY <1>13 DEF ReceivedFirstPacketWebRtc
  <2>3. Counted(s)
    BY <2>1, <2>2, ProcessCounted
  <2> QED BY <2>2, <2>3, StepCounted
<1>14. ASSUME NEW w \in Workers, OnWebRtcGone(w)
       PROVE  SlotsInv'
  <2>1. Counted(Rest)
    BY <1>0, <1>14, TakeCounted DEF OnWebRtcGone
  <2>2. PICK h, s : h = StopThread(Rest, w) /\ s = Post(h, "handleWorkerRemoval", w) /\ Become(s)
    BY <1>14 DEF OnWebRtcGone
  <2>3. "handleWorkerRemoval" \in Events
    BY DEF Events
  <2>4. Counted(h)
    BY <2>1, <2>2, StopThreadCounted
  <2>5. Counted(s)
    BY <2>2, <2>3, <2>4, PostCounted
  <2> QED BY <2>2, <2>5, StepCounted
<1>15. ASSUME NEW w \in Workers, HandleWorkerRemoval(w)
       PROVE  SlotsInv'
  <2>1. Counted(Rest)
    BY <1>0, <1>15, TakeCounted DEF HandleWorkerRemoval
  <2>2. PICK s : s = ReleaseThread(Rest, worker[w].mID) /\ Become(s)
    BY <1>15 DEF HandleWorkerRemoval
  <2>3. Counted(s)
    BY <1>a, <2>1, <2>2, ReleaseCounted
  <2> QED BY <2>2, <2>3, StepCounted
<1>16. ASSUME NEW w \in Workers, Delete(w)
       PROVE  SlotsInv'
  <2>1. Counted(Rest)
    BY <1>0, <1>16, TakeCounted DEF Delete
  <2>2. PICK h, s : /\ h = StopThread(Rest, w) /\ Become(s)
                    /\ s = DestroyedHub(h, w)
    BY <1>16 DEF Delete, Destroyed, DestroyedHub
  <2>3. Counted(h) /\ h \in HubType
    BY <2>1, <2>2, StopThreadCounted DEF Counted
  <2>4. OnlyWorker(h, s, w) /\ s.worker[w] = Destroyed
    BY <2>2, <2>3, Destroying
  <2>5. Destroyed.life # "unborn"
    BY DEF Destroyed, NewWorker
  <2>6. Counted(s)
    BY <2>3, <2>4, <2>5, WorkerCounted
  <2> QED BY <2>2, <2>6, StepCounted
<1>17. CASE StopCheck
  <2>1. PICK h, s : h = StopAllThreads(Hub) /\ s = [h EXCEPT !.stopped = TRUE] /\ Become(s)
    BY <1>17 DEF StopCheck
  <2>2. KeepsSlots(Hub, h)
    BY <1>0, <2>1, StopAllKeeps
  <2>3. Counted(h) /\ h \in HubType
    BY <1>0, <2>2, KeepsCounted DEF KeepsSlots
  <2>4. /\ s \in HubType /\ s.slot = h.slot /\ s.total = h.total /\ s.worker = h.worker
        /\ s.fatal = h.fatal
    BY <2>1, <2>3, MarkStopped
  <2>5. KeepsSlots(h, s)
    BY <2>4 DEF KeepsSlots
  <2>6. Counted(s)
    BY <2>3, <2>5, KeepsCounted
  <2> QED BY <2>1, <2>6, StepCounted
<1>18. CASE UNCHANGED vars
  <2>1. Hub' = Hub
    BY <1>18 DEF vars, Hub
  <2>2. Counted(Hub')
    BY <1>0, <2>1
  <2> QED BY <2>2 DEF SlotsInv, Counted, HubType, Occupied
<1> QED
  BY <1>1, <1>2, <1>3, <1>4, <1>5, <1>6, <1>7, <1>8, <1>9, <1>10, <1>11, <1>12, <1>13, <1>14, <1>15, <1>16, <1>17, <1>18
     DEF Next, SocketOrTimer, OtherThread, Deliver

\* The invariant holds when the hub starts.
LEMMA InitSlotsInv == Init => SlotsInv
<1> SUFFICES ASSUME Init PROVE SlotsInv
  OBVIOUS
<1>1. [NewWorker EXCEPT !.life = "unborn"] \in AnyWorker
  BY NewWorkerType DEF AnyWorker
<1>2. PICK W \in [Workers -> AnyWorker] : W = worker
  BY <1>1 DEF Init
<1>3. PICK S \in [Slots -> Workers \cup {NoWorker}] : S = mJTWorkers
  BY DEF Init
<1>4. Hub = [slot |-> S, total |-> 0, worker |-> W, clients |-> {}, posted |-> << >>,
             stopped |-> FALSE, fatal |-> "none"]
  BY <1>2, <1>3 DEF Init, Hub
<1>5. Hub \in HubType
  BY <1>4 DEF HubType
<1>6. Hub.slot = S /\ Hub.total = 0 /\ \A i \in Slots : S[i] = NoWorker
  BY <1>3, <1>4 DEF Init
<1>7. Occupied(S) = {}
  BY <1>6 DEF Occupied
<1>8. Cardinality(Occupied(S)) = 0
  BY <1>7, FS_EmptySet
<1> QED BY <1>5, <1>6, <1>8 DEF SlotsInv, Counted

\* However clients come, fail and leave, UDP or WebRTC, no slot is emptied
\* without mTotalRunningThreads being counted down, and a worker has at most one
\* slot (createWorker, releaseThread and releaseDuplicateThreads;
\* UdpHubListener.cpp:749-880).
THEOREM CounterIsNeverAbove == Spec => []CountNeverAbove
<1>1. SlotsInv => CountNeverAbove
  BY DEF SlotsInv, Counted, CountNeverAbove, OneSlotEach, Hub
<1> QED BY <1>1, InitSlotsInv, NextSlotsInv, PTL DEF Spec

-----------------------------------------------------------------------------
(* A hub of UDP clients only.                                              *)

\* The events that a worker of a UDP client is sent while it has its slot.
WorkerEvents == {"jacktripStopped", "alertPatcher", "slotStopProcesses"}

\* A worker listens before its client is known and before it runs.
Sound(r) ==
  /\ r.channel = "none"
  /\ r.listening => ~r.mRunning /\ r.mClientPort = NoEndpoint
  /\ r.mRunning => ~r.mSpawning

\* Two workers that do not run for the same client.
Apart(r, q) == r.mClientPort # NoEndpoint => r.mClientPort # q.mClientPort

\* Something will release the worker: it listens, or its JackTrip has not
\* stopped or has said so.
Busy(h, w) ==
  \/ h.worker[w].listening
  \/ /\ h.worker[w].mRunning
     /\ h.worker[w].jackTrip = "stopped" => [what |-> "jacktripStopped", to |-> w] \in Queued(h)

HoldsSlot(h, w) ==
  h.worker[w].listening \/ h.worker[w].mRunning => h.slot[h.worker[w].mID] = w

\* What is posted is for a worker, and a worker to be deleted has no slot.
QueueSound(h) ==
  \A e \in Queued(h) : /\ e.what \in WorkerEvents \cup {"delete"}
                       /\ e.what = "delete" => /\ h.worker[e.to].life # "unborn"
                                               /\ \A i \in Slots : h.slot[i] # e.to

\* The inductive invariant; the workers of X are in the middle of a handler and
\* need not be busy.
UdpHub(h, X) ==
  /\ Counted(h) /\ Exact(h)
  /\ \A w \in Workers : Sound(h.worker[w]) /\ HoldsSlot(h, w)
  /\ QueueSound(h)
  /\ \A v, w \in Workers : v # w /\ h.worker[v].mRunning /\ h.worker[w].mRunning =>
        Apart(h.worker[v], h.worker[w])
  /\ h.stopped \/ h.fatal # "none" \/
        \A i \in Slots : h.slot[i] = NoWorker \/ h.slot[i] \in X \/ Busy(h, h.slot[i])

\* A step of worker w, in its slot: what it posts is not a deletion.
WorkerStep(h, g, w) ==
  /\ OnlyWorker(h, g, w)
  /\ h.worker[w].life # "unborn" => g.worker[w].life # "unborn"
  /\ Sound(g.worker[w]) /\ HoldsSlot(g, w)
  /\ Queued(h) \subseteq Queued(g)
  /\ \A e \in Queued(g) \ Queued(h) : e.what \in WorkerEvents
  /\ g.worker[w].mRunning =>
       \A v \in Workers \ {w} : h.worker[v].mRunning => Apart(g.worker[w], h.worker[v])

LEMMA QueuedEvents ==
  ASSUME NEW h \in HubType, NEW e \in Queued(h)
  PROVE  e \in Event /\ e.to \in Workers
<1>1. PICK k \in 1 .. Len(h.posted) : e = h.posted[k]
  BY DEF Queued
<1>2. h.posted \in Seq(Event)
  BY DEF HubType
<1>3. e \in Event
  BY <1>1, <1>2
<1> QED BY <1>3 DEF Event

LEMMA ApartSymmetric ==
  ASSUME NEW r, NEW q, Apart(r, q) PROVE Apart(q, r)
BY DEF Apart

\* A step of a worker keeps the invariant, but for its being busy.
LEMMA Stepping ==
  ASSUME NEW h, NEW X, UdpHub(h, X), NEW w \in Workers, NEW g, WorkerStep(h, g, w),
         NEW Y, X \subseteq Y, w \in Y
  PROVE  UdpHub(g, Y)
<1>1. OnlyWorker(h, g, w) /\ g \in HubType /\ h \in HubType
  BY DEF WorkerStep, OnlyWorker, UdpHub, Counted
<1>2. Counted(g)
  BY <1>1, WorkerCounted DEF UdpHub, WorkerStep
<1>3. ASSUME NEW v \in Workers PROVE Sound(g.worker[v]) /\ HoldsSlot(g, v)
  BY <1>1 DEF WorkerStep, OnlyWorker, UdpHub, HoldsSlot
<1>4. QueueSound(g)
  <2> SUFFICES ASSUME NEW e \in Queued(g)
               PROVE  /\ e.what \in WorkerEvents \cup {"delete"}
                      /\ e.what = "delete" => /\ g.worker[e.to].life # "unborn"
                                              /\ \A i \in Slots : g.slot[i] # e.to
    BY DEF QueueSound
  <2>1. CASE e \notin Queued(h)
    BY <2>1 DEF WorkerStep, WorkerEvents
  <2>2. CASE e \in Queued(h)
    <3>1. e.to \in Workers
      BY <1>1, <2>2, QueuedEvents
    <3>2. g.slot = h.slot /\ (h.worker[e.to].life # "unborn" => g.worker[e.to].life # "unborn")
      BY <1>1, <3>1 DEF WorkerStep, OnlyWorker
    <3> QED BY <2>2, <3>2 DEF UdpHub, QueueSound
  <2> QED BY <2>1, <2>2
<1>5. ASSUME NEW v \in Workers, NEW u \in Workers, v # u, g.worker[v].mRunning, g.worker[u].mRunning
      PROVE  Apart(g.worker[v], g.worker[u])
  <2>1. CASE v = w
    BY <1>1, <1>5, <2>1 DEF WorkerStep, OnlyWorker
  <2>2. CASE u = w
    <3>1. Apart(g.worker[u], g.worker[v])
      BY <1>1, <1>5, <2>2 DEF WorkerStep, OnlyWorker
    <3> QED BY <3>1, ApartSymmetric
  <2>3. CASE v # w /\ u # w
    BY <1>1, <1>5, <2>3 DEF OnlyWorker, UdpHub
  <2> QED BY <2>1, <2>2, <2>3
<1>6. ASSUME ~g.stopped, g.fatal = "none", NEW i \in Slots, g.slot[i] # NoWorker, g.slot[i] \notin Y
      PROVE  Busy(g, g.slot[i])
  <2>1. h.slot[i] = g.slot[i] /\ h.slot[i] \in Workers /\ h.slot[i] # w /\ h.slot[i] \notin X
    BY <1>1, <1>6 DEF OnlyWorker, HubType
  <2>2. Busy(h, h.slot[i])
    BY <1>1, <1>6, <2>1 DEF OnlyWorker, UdpHub
  <2>3. g.worker[h.slot[i]] = h.worker[h.slot[i]]
    BY <1>1, <2>1 DEF OnlyWorker
  <2> QED BY <2>1, <2>2, <2>3 DEF Busy, WorkerStep
<1>7. Exact(g)
  BY <1>1 DEF OnlyWorker, UdpHub, Exact
<1> QED BY <1>2, <1>3, <1>4, <1>5, <1>6, <1>7 DEF UdpHub

\* A busy worker needs no exemption.
LEMMA BusyAgain ==
  ASSUME NEW h, NEW X, UdpHub(h, X), NEW w \in Workers, Busy(h, w), NEW Y, X \subseteq Y \cup {w}
  PROVE  UdpHub(h, Y)
BY DEF UdpHub

\* releaseThread for a worker that neither listens nor runs.
LEMMA ReleasingWorker ==
  ASSUME NEW h, NEW X, UdpHub(h, X), NEW w \in Workers, NEW id \in Slots, h.slot[id] = w,
         ~h.worker[w].listening, ~h.worker[w].mRunning, NEW g, g = ReleaseThread(h, id),
         NEW Y, X \subseteq Y \cup {w}
  PROVE  UdpHub(g, Y)
<1>0. h \in HubType /\ w # NoWorker
  BY PoolAssumption DEF UdpHub, Counted
<1>b. h.slot[id] # NoWorker
  BY <1>0
<1>1. /\ g.slot = [h.slot EXCEPT ![id] = NoWorker] /\ g.worker = h.worker
      /\ g.stopped = h.stopped /\ g.fatal = h.fatal
  BY <1>0, <1>b, Releasing
<1>a. Queued(g) = Queued(h) \cup {[what |-> "delete", to |-> w]}
  <2>1. DeletePosted(h, g, h.slot[id])
    BY <1>0, <1>b, Releasing
  <2> QED BY <2>1 DEF DeletePosted
<1>2. Counted(g) /\ Exact(g)
  BY <1>b, ReleaseCounted DEF UdpHub
<1>3. g.slot[id] = NoWorker /\ \A i \in Slots \ {id} : g.slot[i] = h.slot[i] /\ g.slot[i] # w
  BY <1>0, <1>1 DEF UdpHub, Counted, HubType
<1>4. ASSUME NEW v \in Workers PROVE Sound(g.worker[v]) /\ HoldsSlot(g, v)
  <2>1. v # w => HoldsSlot(g, v)
    <3>1. h.worker[v].mID \in Slots
      BY <1>0 DEF HubType, AnyWorker
    <3> QED BY <1>1, <1>3, <3>1 DEF UdpHub, HoldsSlot
  <2>2. v = w => HoldsSlot(g, v)
    BY <1>1 DEF HoldsSlot
  <2> QED BY <1>1, <2>1, <2>2 DEF UdpHub
<1>5. QueueSound(g)
  <2> SUFFICES ASSUME NEW e \in Queued(g)
               PROVE  /\ e.what \in WorkerEvents \cup {"delete"}
                      /\ e.what = "delete" => /\ g.worker[e.to].life # "unborn"
                                              /\ \A i \in Slots : g.slot[i] # e.to
    BY DEF QueueSound
  <2>1. CASE e \in Queued(h)
    <3>1. e.to \in Workers /\ e.to # NoWorker
      BY <1>0, <2>1, QueuedEvents, PoolAssumption
    <3> QED BY <1>1, <1>3, <2>1, <3>1 DEF UdpHub, QueueSound
  <2>2. CASE e = [what |-> "delete", to |-> w]
    <3>1. e.to = w /\ e.what = "delete"
      BY <2>2
    <3>2. g.worker[w].life # "unborn"
      BY <1>0, <1>1 DEF UdpHub, Counted
    <3> QED BY <1>0, <1>3, <3>1, <3>2
  <2> QED BY <1>a, <2>1, <2>2
<1>6. ASSUME NEW v \in Workers, NEW u \in Workers, v # u, g.worker[v].mRunning, g.worker[u].mRunning
      PROVE  Apart(g.worker[v], g.worker[u])
  BY <1>1, <1>6 DEF UdpHub
<1>7. ASSUME ~g.stopped, g.fatal = "none", NEW i \in Slots, g.slot[i] # NoWorker, g.slot[i] \notin Y
      PROVE  Busy(g, g.slot[i])
  <2>1. i # id /\ h.slot[i] = g.slot[i] /\ h.slot[i] # w
    BY <1>3, <1>7
  <2>2. Busy(h, h.slot[i])
    BY <1>1, <1>7, <2>1 DEF UdpHub
  <2> QED BY <1>1, <1>a, <2>1, <2>2 DEF Busy
<1> QED BY <1>2, <1>4, <1>5, <1>6, <1>7 DEF UdpHub

\* stopThread leaves a worker that neither listens nor runs.
LEMMA StoppedStep ==
  ASSUME NEW h, NEW X, UdpHub(h, X), NEW w \in Workers, NEW g, Stopped(h, g, w),
         NEW Y, X \subseteq Y, w \in Y
  PROVE  UdpHub(g, Y) /\ ~g.worker[w].listening /\ ~g.worker[w].mRunning
<1>1. Sound(h.worker[w])
  BY DEF UdpHub
<1>2. ~g.worker[w].listening /\ ~g.worker[w].mRunning
  BY <1>1 DEF Stopped, Sound
<1>3. Sound(g.worker[w]) /\ HoldsSlot(g, w)
  BY <1>2 DEF Sound, HoldsSlot, Stopped
<1>4. Queued(h) \subseteq Queued(g) /\ \A e \in Queued(g) \ Queued(h) : e.what \in WorkerEvents
  <2>1. CASE Queued(g) = Queued(h)
    BY <2>1
  <2>2. CASE Queued(g) = Queued(h) \cup {[what |-> "jacktripStopped", to |-> w]}
    BY <2>2 DEF WorkerEvents
  <2> QED BY <2>1, <2>2 DEF Stopped
<1>5. WorkerStep(h, g, w)
  BY <1>2, <1>3, <1>4 DEF WorkerStep, Stopped
<1> QED BY <1>2, <1>5, Stepping

\* While releaseDuplicateThreads looks at the slots below n, the worker w that
\* calls it keeps its own.
Replacing(h, w, r, id, e, n) ==
  /\ UdpHub(h, {w})
  /\ h.slot[id] = w /\ h.worker[w] = r
  /\ \A i \in Slots : i < n => ~IsDuplicate(h, i, e)

LEMMA ReplacingStep ==
  ASSUME NEW w \in Workers, NEW r, r.mClientPort = NoEndpoint, NEW id \in Slots,
         NEW e \in Endpoints, NEW n \in Slots, NEW h, Replacing(h, w, r, id, e, n),
         NEW g, g = ReleaseDuplicate(h, n, e)
  PROVE  Replacing(g, w, r, id, e, n + 1)
<1>0. h \in HubType /\ UdpHub(h, {w}) /\ NoEndpoint # e
  BY PoolAssumption DEF Replacing, UdpHub, Counted
<1>1. CASE g = h /\ ~IsDuplicate(h, n, e)
  BY <1>1, SlotBounds DEF Replacing
<1>2. CASE /\ IsDuplicate(h, n, e)
           /\ \E f \in HubType : Stopped(h, f, h.slot[n]) /\ g = ReleaseThread(f, n)
  <2>1. PICK v \in Workers : v = h.slot[n] /\ h.worker[v].mClientPort = e
    BY <1>0, <1>2 DEF IsDuplicate, HubType
  <2>2. PICK f \in HubType : Stopped(h, f, v) /\ g = ReleaseThread(f, n)
    BY <1>2, <2>1
  <2>3. v # w /\ n # id /\ v # NoWorker
    BY <1>0, <2>1, PoolAssumption DEF Replacing
  <2>4. /\ f.slot = h.slot /\ f.worker[v].mClientPort = e
        /\ \A u \in Workers \ {v} : f.worker[u] = h.worker[u]
    BY <2>1, <2>2 DEF Stopped, OnlyWorker
  <2> DEFINE Y == {v, w}
  <2>5. {w} \subseteq Y /\ v \in Y /\ Y \subseteq {w} \cup {v}
    OBVIOUS
  <2> HIDE DEF Y
  <2>6. UdpHub(f, Y) /\ ~f.worker[v].listening /\ ~f.worker[v].mRunning
    BY <1>0, <2>2, <2>5, StoppedStep
  <2>7. f.slot[n] = v
    BY <2>1, <2>4
  <2>8. UdpHub(g, {w})
    BY <2>2, <2>5, <2>6, <2>7, ReleasingWorker
  <2>9. f.slot[n] # NoWorker
    BY <2>3, <2>7
  <2>10. g.slot = [f.slot EXCEPT ![n] = NoWorker] /\ g.worker = f.worker
    BY <2>2, <2>9, Releasing
  <2>11. h.slot \in [Slots -> Workers \cup {NoWorker}]
    BY <1>0 DEF HubType
  <2>12. /\ g.slot[n] = NoWorker
         /\ \A i \in Slots \ {n} : g.slot[i] = h.slot[i] /\ (g.slot[i] = NoWorker \/ g.slot[i] # v)
    BY <1>0, <2>1, <2>4, <2>10, <2>11 DEF UdpHub, Counted
  <2>13. g.slot[id] = w /\ g.worker[w] = r
    BY <2>3, <2>4, <2>10, <2>12 DEF Replacing
  <2>14. ASSUME NEW i \in Slots, i < n + 1
         PROVE  ~IsDuplicate(g, i, e)
    <3>1. CASE i = n
      BY <2>12, <3>1 DEF IsDuplicate
    <3>2. CASE i # n
      <4>1. i < n
        BY <2>14, <3>2, SlotBounds
      <4>2. ~IsDuplicate(h, i, e) /\ g.slot[i] = h.slot[i]
        BY <2>12, <3>2, <4>1 DEF Replacing
      <4>3. CASE g.slot[i] = NoWorker
        BY <4>3 DEF IsDuplicate
      <4>4. CASE g.slot[i] # NoWorker
        <5>1. g.slot[i] \in Workers \ {v}
          BY <2>11, <2>12, <3>2, <4>2, <4>4
        <5>2. g.worker[g.slot[i]] = h.worker[h.slot[i]]
          BY <2>4, <2>10, <4>2, <5>1
        <5> QED BY <4>2, <5>2 DEF IsDuplicate
      <4> QED BY <4>3, <4>4
    <3> QED BY <3>1, <3>2
  <2> QED BY <2>8, <2>13, <2>14 DEF Replacing
<1> QED BY <1>0, <1>1, <1>2, ReleasingDuplicate

\* No worker runs for the endpoint.
NobodyRuns(h, e) == \A v \in Workers : h.worker[v].mRunning => h.worker[v].mClientPort # e

\* After releaseDuplicateThreads no other worker runs for the client.
LEMMA Replaced ==
  ASSUME NEW w \in Workers, NEW r, r.mClientPort = NoEndpoint, NEW id \in Slots,
         NEW e \in Endpoints, NEW h, Replacing(h, w, r, id, e, 0),
         NEW g, g = ReleaseDuplicates(h, e)
  PROVE  Replacing(g, w, r, id, e, MaxThreads) /\ NobodyRuns(g, e)
<1>0. h \in HubType
  BY DEF Replacing, UdpHub, Counted
<1>1. PICK f \in [0 .. MaxThreads -> HubType] :
           /\ f[0] = h
           /\ \A n \in 1 .. MaxThreads : f[n] = ReleaseDuplicate(f[n - 1], n - 1, e)
           /\ g = f[MaxThreads]
  BY <1>0, DuplicatesLoop
<1> DEFINE G == {n \in 0 .. MaxThreads : Replacing(f[n], w, r, id, e, n)}
<1>3. 0 \in G
  BY <1>1, SlotBounds
<1>4. ASSUME NEW n \in 0 .. MaxThreads - 1, n \in G
      PROVE  n + 1 \in G
  <2>1. n \in Slots /\ n + 1 \in 1 .. MaxThreads /\ n + 1 \in 0 .. MaxThreads /\ (n + 1) - 1 = n
    BY SlotBounds
  <2>2. f[n + 1] = ReleaseDuplicate(f[n], n, e)
    BY <1>1, <2>1
  <2>3. PICK p, q : p = f[n] /\ q = f[n + 1]
    OBVIOUS
  <2>4. Replacing(p, w, r, id, e, n) /\ q = ReleaseDuplicate(p, n, e)
    BY <1>4, <2>2, <2>3
  <2>5. Replacing(q, w, r, id, e, n + 1)
    BY <2>1, <2>4, ReplacingStep
  <2> QED BY <2>1, <2>3, <2>5
<1> HIDE DEF G
<1>5. \A n \in 0 .. MaxThreads : n \in G
  BY <1>3, <1>4, SlotBounds, CountUp
<1>6. Replacing(g, w, r, id, e, MaxThreads)
  <2>1. MaxThreads \in G
    BY <1>5, SlotBounds
  <2> QED BY <1>1, <2>1 DEF G
<1>7. ASSUME NEW v \in Workers, g.worker[v].mRunning
      PROVE  g.worker[v].mClientPort # e
  <2>1. g \in HubType /\ HoldsSlot(g, v) /\ v # NoWorker
    BY <1>6, PoolAssumption DEF Replacing, UdpHub, Counted
  <2>2. PICK i \in Slots : i = g.worker[v].mID
    BY <2>1 DEF HubType, AnyWorker
  <2>3. g.slot[i] = v
    BY <1>7, <2>1, <2>2 DEF HoldsSlot
  <2>4. ~IsDuplicate(g, i, e)
    BY <1>6, <2>2, SlotBounds DEF Replacing
  <2> QED BY <2>1, <2>3, <2>4 DEF IsDuplicate
<1> QED BY <1>6, <1>7 DEF NobodyRuns

LEMMA Weakened ==
  ASSUME NEW h, NEW X, UdpHub(h, X), NEW Y, X \subseteq Y
  PROVE  UdpHub(h, Y)
BY DEF UdpHub

\* g has the workers, slots and events of h, and the hub or the process is over.
LEMMA OverStep ==
  ASSUME NEW h, NEW X, UdpHub(h, X), NEW g, Counted(g), g.slot = h.slot, g.total = h.total,
         g.worker = h.worker, g.posted = h.posted, g.stopped \/ g.fatal # "none"
  PROVE  UdpHub(g, {})
<1>1. Queued(g) = Queued(h)
  BY DEF Queued
<1>2. QueueSound(g)
  BY <1>1 DEF UdpHub, QueueSound
<1>3. Exact(g)
  BY DEF UdpHub, Exact
<1> QED BY <1>2, <1>3 DEF UdpHub, HoldsSlot

\* What decides a worker's place in the hub.
SameRole(r, q) ==
  /\ r.life = q.life /\ r.mID = q.mID /\ r.mClientPort = q.mClientPort
  /\ r.mSpawning = q.mSpawning /\ r.mRunning = q.mRunning
  /\ r.listening = q.listening /\ r.channel = q.channel

\* A step that leaves a worker its place; a JackTrip that stops says so.
LEMMA QuietStep ==
  ASSUME NEW h, NEW X, UdpHub(h, X), NEW w \in Workers, NEW g, OnlyWorker(h, g, w),
         SameRole(h.worker[w], g.worker[w]),
         Queued(h) \subseteq Queued(g),
         \A e \in Queued(g) \ Queued(h) : e.what \in WorkerEvents,
         g.worker[w].jackTrip = "stopped" =>
            h.worker[w].jackTrip = "stopped" \/ [what |-> "jacktripStopped", to |-> w] \in Queued(g)
  PROVE  UdpHub(g, X)
<1>1. Sound(g.worker[w]) /\ HoldsSlot(g, w)
  BY DEF UdpHub, Sound, HoldsSlot, SameRole, OnlyWorker
<1>2. ASSUME g.worker[w].mRunning, NEW v \in Workers \ {w}, h.worker[v].mRunning
      PROVE  Apart(g.worker[w], h.worker[v])
  BY <1>2 DEF UdpHub, SameRole, Apart
<1>3. WorkerStep(h, g, w)
  BY <1>1, <1>2 DEF WorkerStep, SameRole
<1> DEFINE Y == X \cup {w}
<1>4. X \subseteq Y /\ w \in Y /\ Y \subseteq X \cup {w}
  OBVIOUS
<1> HIDE DEF Y
<1>5. UdpHub(g, Y)
  BY <1>3, <1>4, Stepping
<1>6. Busy(h, w) => Busy(g, w)
  BY DEF Busy, SameRole
<1>7. ASSUME ~g.stopped, g.fatal = "none", NEW i \in Slots, g.slot[i] # NoWorker, g.slot[i] \notin X
      PROVE  Busy(g, g.slot[i])
  <2>1. CASE g.slot[i] = w
    <3>1. h.slot[i] = w /\ w # NoWorker /\ w \notin X /\ ~h.stopped /\ h.fatal = "none"
      BY <1>7, <2>1 DEF OnlyWorker
    <3>2. Busy(h, w)
      BY <3>1 DEF UdpHub
    <3> QED BY <1>6, <2>1, <3>2
  <2>2. CASE g.slot[i] # w
    BY <1>4, <1>5, <1>7, <2>2 DEF UdpHub
  <2> QED BY <2>1, <2>2
<1> QED BY <1>5, <1>7 DEF UdpHub

LEMMA StopJackTripStep ==
  ASSUME NEW h, NEW X, UdpHub(h, X), NEW w \in Workers, NEW g, g = StopJackTrip(h, w)
  PROVE  UdpHub(g, X)
<1>0. h \in HubType /\ h.worker[w] \in AnyWorker
  BY DEF UdpHub, Counted, HubType
<1>1. /\ OnlyWorker(h, g, w)
      /\ \/ g = h
         \/ /\ Queued(g) = Queued(h) \cup {[what |-> "jacktripStopped", to |-> w]}
            /\ g.worker[w] = JackTripStopped(h.worker[w])
  BY <1>0, StoppingJackTrip
<1>2. CASE g = h
  BY <1>2
<1>3. CASE /\ Queued(g) = Queued(h) \cup {[what |-> "jacktripStopped", to |-> w]}
           /\ g.worker[w] = JackTripStopped(h.worker[w])
  <2>1. SameRole(h.worker[w], g.worker[w])
    BY <1>0, <1>3 DEF SameRole, JackTripStopped, AnyWorker
  <2>2. /\ Queued(h) \subseteq Queued(g) /\ [what |-> "jacktripStopped", to |-> w] \in Queued(g)
        /\ \A e \in Queued(g) \ Queued(h) : e.what \in WorkerEvents
    BY <1>3 DEF WorkerEvents
  <2> QED BY <1>1, <2>1, <2>2, QuietStep
<1> QED BY <1>1, <1>2, <1>3

LEMMA PostStep ==
  ASSUME NEW h, NEW X, UdpHub(h, X), NEW w \in Workers, NEW what \in WorkerEvents,
         NEW g, g = Post(h, what, w)
  PROVE  UdpHub(g, X)
<1>0. h \in HubType /\ what \in Events
  BY DEF UdpHub, Counted, WorkerEvents, Events
<1>1. Posted(h, g, [what |-> what, to |-> w])
  BY <1>0, Posting
<1>2. OnlyWorker(h, g, w) /\ g.worker = h.worker /\ SameRole(h.worker[w], g.worker[w])
  BY <1>1 DEF Posted, OnlyWorker, SameRole
<1>3. /\ Queued(h) \subseteq Queued(g)
      /\ \A e \in Queued(g) \ Queued(h) : e.what \in WorkerEvents
  BY <1>1 DEF Posted
<1> QED BY <1>2, <1>3, QuietStep

\* A record of the worker that keeps its place.
LEMMA WithQuietStep ==
  ASSUME NEW h, NEW X, UdpHub(h, X), NEW w \in Workers, NEW r \in AnyWorker,
         SameRole(h.worker[w], r), r.jackTrip = "stopped" => h.worker[w].jackTrip = "stopped",
         NEW g, g = With(h, w, r)
  PROVE  UdpHub(g, X)
<1>0. h \in HubType
  BY DEF UdpHub, Counted
<1>1. OnlyWorker(h, g, w) /\ g.worker[w] = r /\ g.posted = h.posted
  BY <1>0, SetWorker
<1>2. Queued(g) = Queued(h)
  BY <1>1 DEF Queued
<1> QED BY <1>1, <1>2, QuietStep

\* A worker that neither listens nor runs, in a handler of its own.
LEMMA WithIdleStep ==
  ASSUME NEW h, NEW X, UdpHub(h, X), NEW w \in Workers, NEW r \in AnyWorker,
         r.life = h.worker[w].life, r.channel = "none", ~r.listening, ~r.mRunning,
         NEW g, g = With(h, w, r), NEW Y, X \subseteq Y, w \in Y
  PROVE  UdpHub(g, Y) /\ g.slot = h.slot /\ g.worker[w] = r
<1>0. h \in HubType
  BY DEF UdpHub, Counted
<1>1. OnlyWorker(h, g, w) /\ g.worker[w] = r /\ g.posted = h.posted
  BY <1>0, SetWorker
<1>2. Queued(g) = Queued(h)
  BY <1>1 DEF Queued
<1>3. WorkerStep(h, g, w)
  BY <1>1, <1>2 DEF WorkerStep, Sound, HoldsSlot
<1>4. UdpHub(g, Y)
  BY <1>3, Stepping
<1> QED BY <1>1, <1>4 DEF OnlyWorker

\* The invariant of a hub of UDP clients.
UdpInv == UdpHub(Hub, {})

LEMMA UdpBecome == ASSUME NEW s, UdpHub(s, {}), Become(s) PROVE UdpInv'
<1>1. s \in HubType
  BY DEF UdpHub, Counted
<1>2. Hub' = s
  BY <1>1, Becoming
<1>3. UdpHub(Hub', {})
  BY <1>2
<1> QED BY <1>3 DEF UdpInv, UdpHub, Counted, Exact, HubType, Occupied, Sound, HoldsSlot, QueueSound,
                    Queued, Apart, Busy

\* The hub without the event it takes; the worker of a JackTrip that has said it
\* stopped is not busy any more.
LEMMA UdpRest ==
  ASSUME UdpInv, NEW what, NEW w, Delivered(what, w), NEW X,
         what = "jacktripStopped" /\ worker[w].mRunning => w \in X
  PROVE  /\ UdpHub(Rest, X) /\ w \in Workers /\ what \in WorkerEvents \cup {"delete"}
         /\ Rest.worker = worker /\ Rest.slot = mJTWorkers
         /\ what = "delete" => \A i \in Slots : mJTWorkers[i] # w
<1> DEFINE ev == [what |-> what, to |-> w]
<1>0. UdpHub(Hub, {}) /\ Counted(Hub) /\ Hub \in HubType
  BY DEF UdpInv, UdpHub, Counted
<1>1. /\ Rest.slot = Hub.slot /\ Rest.worker = Hub.worker /\ Rest.total = Hub.total
      /\ Rest.stopped = Hub.stopped /\ Rest.fatal = Hub.fatal
      /\ Hub.worker = worker /\ Hub.slot = mJTWorkers
  BY <1>0, Taking DEF Hub
<1>2. Queued(Hub) = Queued(Rest) \cup {ev}
  BY <1>0, Taking
<1>3. Counted(Rest) /\ w \in Workers
  BY <1>0, TakeCounted
<1>12. Exact(Rest)
  BY <1>0, <1>1 DEF UdpHub, Exact
<1>4. ev \in Queued(Hub) /\ ev.what = what /\ ev.to = w
  BY <1>2
<1>5. \A v : [what |-> "jacktripStopped", to |-> v] = ev => what = "jacktripStopped" /\ v = w
  OBVIOUS
<1> HIDE DEF ev
<1>6. /\ what \in WorkerEvents \cup {"delete"}
      /\ what = "delete" => \A i \in Slots : Hub.slot[i] # w
  BY <1>0, <1>4 DEF UdpHub, QueueSound
<1>7. QueueSound(Rest)
  BY <1>0, <1>1, <1>2 DEF UdpHub, QueueSound
<1>8. \A v \in Workers : Sound(Rest.worker[v]) /\ HoldsSlot(Rest, v)
  BY <1>0, <1>1 DEF UdpHub, HoldsSlot
<1>9. \A u, v \in Workers : u # v /\ Rest.worker[u].mRunning /\ Rest.worker[v].mRunning =>
         Apart(Rest.worker[u], Rest.worker[v])
  BY <1>0, <1>1 DEF UdpHub
<1>10. ASSUME ~Rest.stopped, Rest.fatal = "none", NEW i \in Slots, Rest.slot[i] # NoWorker,
              Rest.slot[i] \notin X
       PROVE  Busy(Rest, Rest.slot[i])
  <2>1. PICK v : v = Hub.slot[i] /\ v = Rest.slot[i] /\ v # NoWorker /\ v \notin X
    BY <1>1, <1>10
  <2>2. Busy(Hub, v)
    BY <1>0, <1>1, <1>10, <2>1 DEF UdpHub
  <2>3. CASE v # w \/ what # "jacktripStopped"
    <3>1. [what |-> "jacktripStopped", to |-> v] # ev
      BY <1>5, <2>3
    <3>2. [what |-> "jacktripStopped", to |-> v] \in Queued(Hub) =>
            [what |-> "jacktripStopped", to |-> v] \in Queued(Rest)
      BY <1>2, <3>1
    <3> QED BY <1>1, <2>1, <2>2, <3>2 DEF Busy
  <2>4. CASE v = w /\ what = "jacktripStopped"
    <3>1. Hub.worker[v].listening
      BY <1>1, <2>1, <2>2, <2>4 DEF Busy
    <3> QED BY <1>1, <2>1, <3>1 DEF Busy
  <2> QED BY <2>3, <2>4
<1>11. UdpHub(Rest, X)
  BY <1>3, <1>7, <1>8, <1>9, <1>10, <1>12 DEF UdpHub
<1> QED BY <1>1, <1>3, <1>6, <1>11

\* A new worker in its slot, which does not listen yet.
LEMMA UdpAssigned ==
  ASSUME UdpInv, NEW w \in Workers, worker[w].life = "unborn", NEW id, NEW g, Assigned(g, id, w)
  PROVE  /\ UdpHub(g, {w}) /\ id \in Slots /\ g.slot[id] = w
         /\ g.worker[w] \in AnyWorker /\ g.worker[w].mID = id /\ g.worker[w].life = "alive"
         /\ g.worker[w].mSpawning /\ g.worker[w].mClientPort = NoEndpoint
         /\ ~g.worker[w].listening /\ ~g.worker[w].mRunning /\ g.worker[w].channel = "none"
<1>0. UdpHub(Hub, {}) /\ Hub.worker = worker /\ Hub.slot = mJTWorkers /\ Hub.posted = posted
      /\ Hub.stopped = mStopped /\ Hub.fatal = fatal
  BY DEF UdpInv, Hub
<1>1. Counted(g) /\ Exact(g) /\ g \in HubType /\ id \in Slots /\ Hub.slot[id] = NoWorker
  BY <1>0 DEF Assigned, Counted, UdpHub
<1>2. Hub.slot \in [Slots -> Workers \cup {NoWorker}] /\ Hub.worker \in [Workers -> AnyWorker]
      /\ Hub \in HubType
  BY <1>0 DEF UdpHub, Counted, HubType
<1>3. g.slot[id] = w /\ \A i \in Slots \ {id} : g.slot[i] = Hub.slot[i]
  BY <1>0, <1>1, <1>2 DEF Assigned
<1>4. /\ g.worker[w].mID = id /\ g.worker[w].life = "alive"
      /\ g.worker[w].mSpawning /\ g.worker[w].mClientPort = NoEndpoint
      /\ ~g.worker[w].listening /\ ~g.worker[w].mRunning /\ g.worker[w].channel = "none"
      /\ g.worker[w] \in AnyWorker
  <2>1. g.worker[w] = Prepared(NewWorker, id) /\ g.worker[w] \in AnyWorker
    BY <1>1 DEF Assigned, HubType
  <2> QED BY <2>1 DEF Prepared, NewWorker
<1>5. Queued(g) = Queued(Hub)
  BY <1>0 DEF Assigned, Queued
<1>6. \A v \in Workers \ {w} : g.worker[v] = Hub.worker[v]
  BY <1>0 DEF Assigned
<1>7. ASSUME NEW v \in Workers PROVE Sound(g.worker[v]) /\ HoldsSlot(g, v)
  <2>1. CASE v = w
    BY <1>4, <2>1 DEF Sound, HoldsSlot
  <2>2. CASE v # w
    <3>1. g.worker[v] = Hub.worker[v] /\ Hub.worker[v].mID \in Slots /\ v # NoWorker
      BY <1>2, <1>6, <2>2, PoolAssumption DEF AnyWorker
    <3>2. Sound(Hub.worker[v]) /\ HoldsSlot(Hub, v)
      BY <1>0 DEF UdpHub
    <3> QED BY <1>1, <1>3, <3>1, <3>2 DEF HoldsSlot
  <2> QED BY <2>1, <2>2
<1>8. QueueSound(g)
  <2> SUFFICES ASSUME NEW e \in Queued(g)
               PROVE  /\ e.what \in WorkerEvents \cup {"delete"}
                      /\ e.what = "delete" => /\ g.worker[e.to].life # "unborn"
                                              /\ \A i \in Slots : g.slot[i] # e.to
    BY DEF QueueSound
  <2>1. /\ e.to \in Workers /\ e.what \in WorkerEvents \cup {"delete"}
        /\ e.what = "delete" => /\ Hub.worker[e.to].life # "unborn"
                                /\ \A i \in Slots : Hub.slot[i] # e.to
    BY <1>0, <1>2, <1>5, QueuedEvents DEF UdpHub, QueueSound
  <2>2. e.what = "delete" => e.to # w
    BY <1>0, <2>1
  <2> QED BY <1>3, <1>6, <2>1, <2>2
<1>9. ASSUME NEW u \in Workers, NEW v \in Workers, u # v, g.worker[u].mRunning, g.worker[v].mRunning
      PROVE  Apart(g.worker[u], g.worker[v])
  BY <1>0, <1>4, <1>6, <1>9 DEF UdpHub
<1>10. ASSUME ~g.stopped, g.fatal = "none", NEW i \in Slots, g.slot[i] # NoWorker, g.slot[i] # w
       PROVE  Busy(g, g.slot[i])
  <2>1. PICK v : v = g.slot[i] /\ v = Hub.slot[i] /\ v \in Workers \ {w}
    BY <1>2, <1>3, <1>10
  <2>2. Busy(Hub, v)
    BY <1>0, <1>10, <2>1, PoolAssumption DEF UdpHub, Assigned
  <2> QED BY <1>5, <1>6, <2>1, <2>2 DEF Busy
<1>11. UdpHub(g, {w})
  BY <1>1, <1>7, <1>8, <1>9, <1>10 DEF UdpHub
<1> QED BY <1>1, <1>3, <1>4, <1>11

\* stopAllThreads.
LEMMA StopAllStep ==
  ASSUME NEW h, UdpHub(h, {}), NEW g, g = StopAllThreads(h)
  PROVE  UdpHub(g, Workers)
<1>0. h \in HubType /\ {} \subseteq Workers
  BY DEF UdpHub, Counted
<1>1. PICK f \in [0 .. MaxThreads -> HubType] :
           /\ f[0] = h
           /\ \A n \in 1 .. MaxThreads : f[n] = StopWorkerIn(f[n - 1], n - 1)
           /\ g = f[MaxThreads]
  BY <1>0, StopLoop
<1> DEFINE G == {n \in 0 .. MaxThreads : UdpHub(f[n], Workers)}
<1>2. 0 \in G
  <2>1. UdpHub(h, Workers)
    BY <1>0, Weakened
  <2> QED BY <1>1, <2>1, SlotBounds
<1>3. ASSUME NEW n \in 0 .. MaxThreads - 1, n \in G
      PROVE  n + 1 \in G
  <2>1. n \in Slots /\ n + 1 \in 1 .. MaxThreads /\ n + 1 \in 0 .. MaxThreads /\ (n + 1) - 1 = n
    BY SlotBounds
  <2>2. f[n + 1] = StopWorkerIn(f[n], n)
    BY <1>1, <2>1
  <2>3. PICK p, q : p = f[n] /\ q = f[n + 1] /\ p \in HubType
    BY <1>1, <1>3
  <2>4. UdpHub(p, Workers) /\ q = StopWorkerIn(p, n)
    BY <1>3, <2>2, <2>3
  <2>5. q = p \/ (p.slot[n] \in Workers /\ Stopped(p, q, p.slot[n]))
    BY <2>1, <2>3, <2>4, StoppingWorkerIn
  <2>6. CASE q = p
    BY <2>1, <2>3, <2>4, <2>6
  <2>7. CASE p.slot[n] \in Workers /\ Stopped(p, q, p.slot[n])
    <3>1. PICK v \in Workers : Stopped(p, q, v)
      BY <2>7
    <3>2. UdpHub(q, Workers)
      BY <2>4, <3>1, StoppedStep
    <3> QED BY <2>1, <2>3, <3>2
  <2> QED BY <2>5, <2>6, <2>7
<1> HIDE DEF G
<1>4. \A n \in 0 .. MaxThreads : n \in G
  BY <1>2, <1>3, SlotBounds, CountUp
<1>5. MaxThreads \in G
  BY <1>4, SlotBounds
<1> QED BY <1>1, <1>5 DEF G

\* ~JackTripWorker of a worker that has no slot.
LEMMA DestroyedStep ==
  ASSUME NEW h, NEW w \in Workers, UdpHub(h, {w}), \A i \in Slots : h.slot[i] # w,
         NEW g, g = DestroyedHub(h, w)
  PROVE  UdpHub(g, {})
<1>0. h \in HubType
  BY DEF UdpHub, Counted
<1>1. OnlyWorker(h, g, w) /\ g.worker[w] = Destroyed /\ Queued(g) = {e \in Queued(h) : e.to # w}
  BY <1>0, Destroying
<1>2. /\ Destroyed.life # "unborn" /\ Destroyed.channel = "none"
      /\ ~Destroyed.listening /\ ~Destroyed.mRunning
  BY DEF Destroyed, NewWorker
<1>3. Counted(g) /\ Exact(g)
  <2>1. Counted(g)
    BY <1>1, <1>2, WorkerCounted DEF UdpHub
  <2>2. Exact(g)
    BY <1>1 DEF UdpHub, OnlyWorker, Exact
  <2> QED BY <2>1, <2>2
<1>4. ASSUME NEW v \in Workers PROVE Sound(g.worker[v]) /\ HoldsSlot(g, v)
  BY <1>1, <1>2 DEF UdpHub, Sound, HoldsSlot, OnlyWorker
<1>5. QueueSound(g)
  <2> SUFFICES ASSUME NEW e \in Queued(g)
               PROVE  /\ e.what \in WorkerEvents \cup {"delete"}
                      /\ e.what = "delete" => /\ g.worker[e.to].life # "unborn"
                                              /\ \A i \in Slots : g.slot[i] # e.to
    BY DEF QueueSound
  <2>1. e \in Queued(h) /\ e.to # w /\ e.to \in Workers
    BY <1>0, <1>1, QueuedEvents
  <2> QED BY <1>1, <2>1 DEF UdpHub, QueueSound, OnlyWorker
<1>6. ASSUME NEW u \in Workers, NEW v \in Workers, u # v, g.worker[u].mRunning, g.worker[v].mRunning
      PROVE  Apart(g.worker[u], g.worker[v])
  BY <1>1, <1>2, <1>6 DEF UdpHub, OnlyWorker
<1>7. ASSUME ~g.stopped, g.fatal = "none", NEW i \in Slots, g.slot[i] # NoWorker
      PROVE  Busy(g, g.slot[i])
  <2>1. PICK v : v = g.slot[i] /\ v = h.slot[i] /\ v \in Workers \ {w}
    BY <1>0, <1>1, <1>7 DEF OnlyWorker, HubType
  <2>2. Busy(h, v)
    BY <1>1, <1>7, <2>1, PoolAssumption DEF UdpHub, OnlyWorker
  <2>3. [what |-> "jacktripStopped", to |-> v].to # w
    BY <2>1
  <2> QED BY <1>1, <2>1, <2>2, <2>3 DEF Busy, OnlyWorker
<1> QED BY <1>3, <1>4, <1>5, <1>6, <1>7 DEF UdpHub

\* receivedFirstPacketUDP, with the client it has heard from.
LEMMA FirstPacketUdp ==
  ASSUME UdpInv, NEW w \in Workers, NEW e \in Endpoints, NEW outcome \in Outcomes,
         ReceivedFirstPacketUDP(w, e, outcome)
  PROVE  UdpInv'
<1> DEFINE r == [worker[w] EXCEPT !.listening = FALSE]
<1>0. UdpHub(Hub, {}) /\ Hub.worker = worker /\ Hub.slot = mJTWorkers /\ Hub \in HubType
      /\ worker[w] \in AnyWorker
  BY DEF UdpInv, UdpHub, Counted, Hub, HubType
<1>1. /\ worker[w].listening /\ ~worker[w].mRunning /\ worker[w].mClientPort = NoEndpoint
      /\ worker[w].channel = "none" /\ worker[w].mID \in Slots /\ Hub.slot[worker[w].mID] = w
  BY <1>0 DEF ReceivedFirstPacketUDP, UdpHub, Sound, HoldsSlot, AnyWorker
<1>2. /\ r \in AnyWorker /\ r.life = Hub.worker[w].life /\ r.mID = worker[w].mID
      /\ r.mClientPort = NoEndpoint /\ r.channel = "none" /\ ~r.listening /\ ~r.mRunning
  BY <1>0, <1>1 DEF AnyWorker
<1>3. PICK h : h = With(Hub, w, r)
  OBVIOUS
<1>4. h = [Hub EXCEPT !.worker[w].listening = FALSE]
  BY <1>0, <1>3 DEF With
<1>5. PICK id \in Slots : id = worker[w].mID
  BY <1>1
<1> HIDE DEF r
<1>6. {} \subseteq {w} /\ w \in {w} /\ {w} \subseteq {} \cup {w}
  OBVIOUS
<1>7. UdpHub(h, {w}) /\ h.slot = Hub.slot /\ h.worker[w] = r
  BY <1>0, <1>2, <1>3, <1>6, WithIdleStep
<1>8. PICK f : f = ReleaseDuplicates(h, e)
  OBVIOUS
<1>9. h.slot[id] = w /\ h.worker[w].mClientPort = NoEndpoint
  BY <1>1, <1>2, <1>5, <1>7
<1>10. /\ UdpHub(f, {w}) /\ f.slot[id] = w /\ f.worker[w] = h.worker[w]
       /\ \A v \in Workers : f.worker[v].mRunning => f.worker[v].mClientPort # e
  <2>1. \A i \in Slots : ~(i < 0)
    BY SlotBounds
  <2>2. Replacing(h, w, r, id, e, 0)
    BY <1>7, <1>9, <2>1 DEF Replacing
  <2>3. Replacing(f, w, r, id, e, MaxThreads) /\ NobodyRuns(f, e)
    BY <1>2, <1>8, <2>2, Replaced
  <2> QED BY <1>7, <2>3 DEF Replacing, NobodyRuns
<1> DEFINE x == [f.worker[w] EXCEPT !.mClientPort = e]
<1>11. /\ x \in AnyWorker /\ x.life = f.worker[w].life /\ x.mID = id /\ x.mClientPort = e
       /\ x.channel = "none" /\ ~x.listening /\ ~x.mRunning
  BY <1>2, <1>5, <1>7, <1>10 DEF AnyWorker
<1>12. PICK g : g = With(f, w, x)
  OBVIOUS
<1>13. g = ReleaseDuplicateThreads(h, w, e)
  BY <1>8, <1>12 DEF ReleaseDuplicateThreads, With
<1> HIDE DEF x
<1>14. UdpHub(g, {w}) /\ g.slot = f.slot /\ g.worker[w] = x
  BY <1>6, <1>10, <1>11, <1>12, WithIdleStep
<1>15. \A v \in Workers \ {w} : g.worker[v].mRunning => g.worker[v].mClientPort # e
  <2>1. f \in HubType
    BY <1>10 DEF UdpHub, Counted
  <2>2. OnlyWorker(f, g, w)
    BY <1>11, <1>12, <2>1, SetWorker
  <2> QED BY <1>10, <2>2 DEF OnlyWorker
<1>16. PICK s : s = ProcessPeerSettings(g, w, outcome) /\ Become(s)
  BY <1>4, <1>13 DEF ReceivedFirstPacketUDP
<1>17. g \in HubType /\ g.worker[w].mID = id
  BY <1>11, <1>14 DEF UdpHub, Counted
<1> DEFINE y == [g.worker[w] EXCEPT !.mSpawning = FALSE]
<1>18. /\ y \in AnyWorker /\ y.life = g.worker[w].life /\ y.channel = "none"
       /\ ~y.listening /\ ~y.mRunning
  BY <1>11, <1>14 DEF AnyWorker
<1>19. PICK p : p = With(g, w, y)
  OBVIOUS
<1>20. Running(g, s, w) \/ s = ReleaseThread(p, id)
  BY <1>16, <1>17, <1>19, Processing, Zenon
<1> HIDE DEF y
<1>21. CASE Running(g, s, w)
  <2>1. Sound(s.worker[w]) /\ HoldsSlot(s, w)
    BY <1>10, <1>11, <1>14, <1>21 DEF Running, Sound, HoldsSlot, OnlyWorker
  <2>2. /\ Queued(g) \subseteq Queued(s)
        /\ \A ev \in Queued(s) \ Queued(g) : ev.what \in WorkerEvents
    BY <1>21 DEF Running, WorkerEvents
  <2>3. ASSUME NEW v \in Workers \ {w}, g.worker[v].mRunning
        PROVE  Apart(s.worker[w], g.worker[v])
    BY <1>11, <1>14, <1>15, <1>21, <2>3 DEF Running, Apart
  <2>4. WorkerStep(g, s, w)
    BY <1>21, <2>1, <2>2, <2>3 DEF WorkerStep, Running
  <2>5. UdpHub(s, {w})
    BY <1>6, <1>14, <2>4, Stepping
  <2>6. Busy(s, w)
    BY <1>21 DEF Running, Busy
  <2>7. UdpHub(s, {})
    BY <1>6, <2>5, <2>6, BusyAgain
  <2> QED BY <1>16, <2>7, UdpBecome
<1>22. CASE s = ReleaseThread(p, id)
  <2>1. UdpHub(p, {w}) /\ p.slot = g.slot /\ p.worker[w] = y
    BY <1>6, <1>14, <1>18, <1>19, WithIdleStep
  <2>2. p.slot[id] = w /\ ~p.worker[w].listening /\ ~p.worker[w].mRunning
    BY <1>10, <1>14, <1>18, <2>1
  <2>3. UdpHub(s, {})
    BY <1>6, <1>22, <2>1, <2>2, ReleasingWorker
  <2> QED BY <1>16, <2>3, UdpBecome
<1> QED BY <1>20, <1>21, <1>22

\* Every handler keeps the invariant when no client comes by WebRTC.
LEMMA NextUdpInv == ASSUME RtcWorkers = {} PROVE UdpInv /\ [Next]_vars => UdpInv'
<1> SUFFICES ASSUME UdpInv, [Next]_vars
             PROVE  UdpInv'
  OBVIOUS
<1>0. UdpHub(Hub, {}) /\ Hub.worker = worker /\ Hub.slot = mJTWorkers /\ Hub \in HubType
      /\ worker \in [Workers -> AnyWorker] /\ Counted(Hub)
  BY DEF UdpInv, UdpHub, Counted, Hub, HubType
<1>a. \A w \in Workers : /\ worker[w] \in AnyWorker /\ worker[w].mID \in Slots
                         /\ Sound(worker[w]) /\ HoldsSlot(Hub, w)
  BY <1>0 DEF AnyWorker, UdpHub
<1>b. \A w \in Workers : {} \subseteq {w} /\ w \in {w} /\ {w} \subseteq {} \cup {w}
  OBVIOUS
<1>1. ASSUME NEW w \in UdpWorkers, NEW reached \in BOOLEAN, NEW iceBound \in BOOLEAN,
             NewUdpClient(w, reached, iceBound)
      PROVE  UdpInv'
  <2>1. w \in Workers /\ worker[w].life = "unborn" /\ FreeSlots # {}
    BY <1>1 DEF NewUdpClient, Workers
  <2>2. PICK id, g : id = Min(FreeSlots) /\ g = SetJackTrip(CreateWorker(Hub, id, w), id, w)
    OBVIOUS
  <2>3. Assigned(g, id, w)
    BY <1>0, <2>1, <2>2, NewUdpWorker
  <2>4. /\ UdpHub(g, {w}) /\ id \in Slots /\ g.slot[id] = w
        /\ g.worker[w] \in AnyWorker /\ g.worker[w].mID = id /\ g.worker[w].life = "alive"
        /\ g.worker[w].mSpawning /\ g.worker[w].mClientPort = NoEndpoint
        /\ ~g.worker[w].listening /\ ~g.worker[w].mRunning /\ g.worker[w].channel = "none"
    BY <2>1, <2>3, UdpAssigned, SMTT(40)
  <2>5. PICK s : /\ Become(s)
                 /\ \/ s = ReleaseThread(g, id) \/ s = Die(g, "bind")
                    \/ s = [g EXCEPT !.worker[w].listening = TRUE]
    BY <1>1, <2>2 DEF NewUdpClient
  <2>6. CASE s = ReleaseThread(g, id)
    <3>1. UdpHub(s, {})
      BY <1>b, <2>1, <2>4, <2>6, ReleasingWorker
    <3> QED BY <2>5, <3>1, UdpBecome
  <2>7. CASE s = Die(g, "bind")
    <3>1. Counted(g) /\ g \in HubType
      BY <2>4 DEF UdpHub, Counted
    <3>2. /\ s.slot = g.slot /\ s.total = g.total /\ s.worker = g.worker
          /\ s.posted = g.posted /\ s.fatal = "bind"
      BY <2>7, <3>1, Dying
    <3>3. Counted(s)
      BY <2>7, <3>1, DieCounted
    <3>4. UdpHub(s, {})
      BY <2>4, <3>2, <3>3, OverStep
    <3> QED BY <2>5, <3>4, UdpBecome
  <2>8. CASE s = [g EXCEPT !.worker[w].listening = TRUE]
    <3> DEFINE r == [g.worker[w] EXCEPT !.listening = TRUE]
    <3>1. g \in HubType
      BY <2>4 DEF UdpHub, Counted
    <3>2. /\ r \in AnyWorker /\ r.life = "alive" /\ r.mID = id /\ r.listening /\ ~r.mRunning
          /\ r.channel = "none" /\ r.mClientPort = NoEndpoint
      BY <2>4 DEF AnyWorker
    <3>3. s = With(g, w, r)
      BY <2>8 DEF With
    <3> HIDE DEF r
    <3>4. OnlyWorker(g, s, w) /\ s.worker[w] = r /\ s.posted = g.posted
      BY <2>1, <3>1, <3>2, <3>3, SetWorker
    <3>5. Sound(s.worker[w]) /\ HoldsSlot(s, w) /\ Busy(s, w) /\ Queued(s) = Queued(g)
      BY <2>4, <3>2, <3>4 DEF Sound, HoldsSlot, Busy, Queued, OnlyWorker
    <3>6. WorkerStep(g, s, w)
      BY <3>2, <3>4, <3>5 DEF WorkerStep
    <3>7. UdpHub(s, {w})
      BY <1>b, <2>1, <2>4, <3>6, Stepping
    <3>8. UdpHub(s, {})
      BY <1>b, <2>1, <3>5, <3>7, BusyAgain
    <3> QED BY <2>5, <3>8, UdpBecome
  <2> QED BY <2>5, <2>6, <2>7, <2>8
<1>2. ASSUME NEW w \in Workers, GiveUpOnClient(w)
      PROVE  UdpInv'
  <2> DEFINE r == [worker[w] EXCEPT !.listening = FALSE, !.mSpawning = FALSE]
  <2>1. worker[w].listening /\ ~worker[w].mRunning /\ worker[w].channel = "none"
    BY <1>2, <1>a DEF GiveUpOnClient, Sound
  <2>2. /\ r \in AnyWorker /\ r.life = Hub.worker[w].life /\ r.channel = "none"
        /\ ~r.listening /\ ~r.mRunning
    <3>1. worker[w] \in AnyWorker /\ Hub.worker[w] = worker[w]
      BY <1>0, <1>a
    <3>2. r \in AnyWorker /\ r.life = worker[w].life /\ ~r.listening
      BY <3>1 DEF AnyWorker
    <3>3. r.channel = "none" /\ ~r.mRunning
      BY <2>1, <3>1 DEF AnyWorker
    <3> QED BY <3>1, <3>2, <3>3
  <2>3. PICK h : h = With(Hub, w, r)
    OBVIOUS
  <2>4. h = [Hub EXCEPT !.worker[w].listening = FALSE, !.worker[w].mSpawning = FALSE]
    BY <1>0, <2>3 DEF With, Hub
  <2>5. PICK id \in Slots : id = worker[w].mID
    BY <1>a
  <2> HIDE DEF r
  <2>6. UdpHub(h, {w}) /\ h.slot = Hub.slot /\ h.worker[w] = r
    BY <1>0, <1>b, <2>2, <2>3, WithIdleStep
  <2>7. h.slot[id] = w /\ ~h.worker[w].listening /\ ~h.worker[w].mRunning
    BY <1>0, <1>a, <2>1, <2>2, <2>5, <2>6 DEF HoldsSlot
  <2>8. PICK s : s = ReleaseThread(h, id) /\ Become(s)
    BY <1>2, <2>4, <2>5 DEF GiveUpOnClient
  <2>9. UdpHub(s, {})
    BY <1>b, <2>6, <2>7, <2>8, ReleasingWorker
  <2> QED BY <2>8, <2>9, UdpBecome
<1>3. ASSUME NEW w \in Workers, JackTripFirstPacket(w)
      PROVE  UdpInv'
  <2> DEFINE r == [worker[w] EXCEPT !.jackTrip = "audio"]
  <2>1. r \in AnyWorker /\ SameRole(Hub.worker[w], r) /\ r.jackTrip = "audio"
    BY <1>0, <1>a DEF AnyWorker, SameRole
  <2>2. PICK h : h = With(Hub, w, r)
    OBVIOUS
  <2>3. h = [Hub EXCEPT !.worker[w].jackTrip = "audio"]
    BY <1>0, <2>2 DEF With
  <2> HIDE DEF r
  <2>4. UdpHub(h, {})
    BY <1>0, <2>1, <2>2, WithQuietStep
  <2>5. PICK s : /\ s = Post(h, "alertPatcher", w) \/ s = Die(Hub, "completeConnection")
                 /\ Become(s)
    BY <1>3, <2>3 DEF JackTripFirstPacket
  <2>6. CASE s = Post(h, "alertPatcher", w)
    <3>1. "alertPatcher" \in WorkerEvents
      BY DEF WorkerEvents
    <3>2. UdpHub(s, {})
      BY <2>4, <2>6, <3>1, PostStep
    <3> QED BY <2>5, <3>2, UdpBecome
  <2>7. CASE s = Die(Hub, "completeConnection")
    <3>1. /\ s.slot = Hub.slot /\ s.total = Hub.total /\ s.worker = Hub.worker
          /\ s.posted = Hub.posted /\ s.fatal = "completeConnection"
      BY <1>0, <2>7, Dying
    <3>2. Counted(s)
      BY <1>0, <2>7, DieCounted
    <3>3. UdpHub(s, {})
      BY <1>0, <3>1, <3>2, OverStep
    <3> QED BY <2>5, <3>3, UdpBecome
  <2> QED BY <2>5, <2>6, <2>7
<1>4. ASSUME NEW w \in Workers, JackTripTimeout(w)
      PROVE  UdpInv'
  <2>1. PICK h : h = StopJackTrip(Hub, w)
    OBVIOUS
  <2>2. UdpHub(h, {})
    BY <1>0, <2>1, StopJackTripStep
  <2>3. h.worker[w] \in AnyWorker
    BY <2>2 DEF UdpHub, Counted, HubType
  <2> DEFINE r == [h.worker[w] EXCEPT !.socket = FALSE]
  <2>4. r \in AnyWorker /\ SameRole(h.worker[w], r) /\ r.jackTrip = h.worker[w].jackTrip
    BY <2>3 DEF AnyWorker, SameRole
  <2>5. PICK s : s = With(h, w, r) /\ Become(s)
    BY <1>4, <2>1 DEF JackTripTimeout, With
  <2> HIDE DEF r
  <2>6. UdpHub(s, {})
    BY <2>2, <2>4, <2>5, WithQuietStep
  <2> QED BY <2>5, <2>6, UdpBecome
<1>5. ASSUME NEW w \in Workers, PeerGone(w)
      PROVE  UdpInv'
  <2>1. PICK s : s = Post(Hub, "slotStopProcesses", w) /\ Become(s)
    BY <1>5 DEF PeerGone
  <2>2. "slotStopProcesses" \in WorkerEvents
    BY DEF WorkerEvents
  <2>3. UdpHub(s, {})
    BY <1>0, <2>1, <2>2, PostStep
  <2> QED BY <2>1, <2>3, UdpBecome
<1>6. ASSUME NEW w \in Workers, RtcMessage(w) \/ \E what \in RtcSignals : RtcSignal(w, what)
      PROVE  UdpInv'
  BY <1>6, <1>a DEF RtcMessage, RtcSignal, Sound
<1>7. ASSUME NEW w \in Workers, JacktripStopped(w)
      PROVE  UdpInv'
  <2>1. Delivered("jacktripStopped", w)
    BY <1>7 DEF JacktripStopped
  <2>2. CASE worker[w].mRunning
    <3>1. UdpHub(Rest, {w}) /\ Rest.worker = worker /\ Rest.slot = mJTWorkers
      BY <1>b, <2>1, UdpRest
    <3> DEFINE r == [worker[w] EXCEPT !.mRunning = FALSE]
    <3>2. ~worker[w].listening /\ ~worker[w].mSpawning /\ worker[w].channel = "none"
      BY <1>a, <2>2 DEF Sound
    <3>3. /\ r \in AnyWorker /\ r.life = Rest.worker[w].life /\ r.channel = "none"
          /\ ~r.listening /\ ~r.mRunning
      BY <1>a, <3>1, <3>2, ClearedRunning
    <3>4. PICK h, f : h = With(Rest, w, r) /\ f = Unpatch(h, w)
      OBVIOUS
    <3>5. h = [Rest EXCEPT !.worker[w].mRunning = FALSE]
      BY <3>1, <3>4 DEF With
    <3>6. PICK id \in Slots : id = worker[w].mID
      BY <1>a
    <3> HIDE DEF r
    <3>7. UdpHub(h, {w}) /\ h.slot = Rest.slot /\ h.worker[w] = r
      BY <1>b, <3>1, <3>3, <3>4, WithIdleStep
    <3>8. h \in HubType /\ h.worker[w] \in AnyWorker
      BY <3>7 DEF UdpHub, Counted, HubType
    <3>9. OnlyWorker(h, f, w) /\ f.posted = h.posted /\ f.worker[w] = Unpatched(h.worker[w])
      BY <3>4, <3>8, Unpatching
    <3>10. SameRole(h.worker[w], f.worker[w]) /\ f.worker[w].jackTrip = h.worker[w].jackTrip
      BY <3>8, <3>9 DEF Unpatched, SameRole, AnyWorker
    <3>11. Queued(f) = Queued(h)
      BY <3>9 DEF Queued
    <3>12. UdpHub(f, {w})
      BY <3>7, <3>9, <3>10, <3>11, QuietStep
    <3>13. f.slot[id] = w /\ ~f.worker[w].listening /\ ~f.worker[w].mRunning
      BY <1>0, <1>a, <2>2, <3>1, <3>3, <3>6, <3>7, <3>9, <3>10 DEF HoldsSlot, OnlyWorker, SameRole
    <3>14. PICK s : s = ReleaseThread(f, id) /\ Become(s)
      BY <1>7, <2>2, <3>2, <3>4, <3>5, <3>6 DEF JacktripStopped
    <3>15. UdpHub(s, {})
      BY <1>b, <3>12, <3>13, <3>14, ReleasingWorker
    <3> QED BY <3>14, <3>15, UdpBecome
  <2>3. CASE ~worker[w].mRunning
    <3>1. Become(Rest)
      BY <1>7, <2>3 DEF JacktripStopped
    <3>2. UdpHub(Rest, {})
      BY <2>1, <2>3, UdpRest
    <3> QED BY <3>1, <3>2, UdpBecome
  <2> QED BY <2>2, <2>3
<1>8. ASSUME NEW w \in Workers, AlertPatcher(w)
      PROVE  UdpInv'
  <2>0. Delivered("alertPatcher", w)
    BY <1>8 DEF AlertPatcher
  <2>a. UdpHub(Rest, {}) /\ Rest.worker = worker
    BY <2>0, UdpRest
  <2>1. UdpHub(Rest, {}) /\ Rest.worker = worker /\ Rest \in HubType
    BY <2>a DEF UdpHub, Counted
  <2>2. PICK g : g = AlertedHub(Rest, w)
    OBVIOUS
  <2>3. /\ OnlyWorker(Rest, g, w) /\ g.posted = Rest.posted
        /\ g.worker[w] = Alerted(Rest.worker[w])
    BY <2>1, <2>2, Alerting
  <2>4. SameRole(Rest.worker[w], g.worker[w]) /\ g.worker[w].jackTrip = Rest.worker[w].jackTrip
    BY <1>a, <2>1, <2>3 DEF AnyWorker, SameRole, Alerted
  <2>5. Queued(g) = Queued(Rest)
    BY <2>3 DEF Queued
  <2>6. UdpHub(g, {})
    BY <2>1, <2>3, <2>4, <2>5, QuietStep
  <2>7. PICK s : (s = Rest \/ s = g) /\ Become(s)
    BY <1>8, <2>1, <2>2 DEF AlertPatcher, AlertedHub
  <2> QED BY <2>1, <2>6, <2>7, UdpBecome
<1>9. ASSUME NEW w \in Workers, SlotStopProcesses(w)
      PROVE  UdpInv'
  <2>1. UdpHub(Rest, {})
    BY <1>9, UdpRest DEF SlotStopProcesses
  <2>2. PICK s : s = StopJackTrip(Rest, w) /\ Become(s)
    BY <1>9 DEF SlotStopProcesses
  <2>3. UdpHub(s, {})
    BY <2>1, <2>2, StopJackTripStep
  <2> QED BY <2>2, <2>3, UdpBecome
<1>10. ASSUME NEW w \in Workers,
              \/ OnWebRtcDataChannelOpen(w) \/ OnWebRtcGone(w) \/ HandleWorkerRemoval(w)
              \/ \E outcome \in Outcomes : ReceivedFirstPacketWebRtc(w, outcome)
       PROVE  UdpInv'
  <2>1. PICK what \in {"open", "closed", "failed", "handleWorkerRemoval", "message"} :
           Delivered(what, w)
    BY <1>10 DEF OnWebRtcDataChannelOpen, OnWebRtcGone, HandleWorkerRemoval,
                 ReceivedFirstPacketWebRtc
  <2>2. what \in WorkerEvents \cup {"delete"}
    BY <2>1, UdpRest
  <2> QED BY <2>2 DEF WorkerEvents
<1>11. ASSUME NEW w \in Workers, Delete(w)
       PROVE  UdpInv'
  <2>1. /\ UdpHub(Rest, {}) /\ Rest.slot = mJTWorkers /\ Rest \in HubType
        /\ \A i \in Slots : mJTWorkers[i] # w
    BY <1>11, UdpRest DEF Delete, UdpHub, Counted
  <2>2. PICK h, s : /\ h = StopThread(Rest, w) /\ Become(s)
                    /\ s = DestroyedHub(h, w)
    BY <1>11 DEF Delete, Destroyed, DestroyedHub
  <2>3. Stopped(Rest, h, w)
    BY <2>1, <2>2, StoppingThread
  <2>4. UdpHub(h, {w})
    BY <1>b, <2>1, <2>3, StoppedStep
  <2>5. \A i \in Slots : h.slot[i] # w
    BY <2>1, <2>3 DEF Stopped, OnlyWorker
  <2>6. UdpHub(s, {})
    BY <2>2, <2>4, <2>5, DestroyedStep
  <2> QED BY <2>2, <2>6, UdpBecome
<1>12. CASE StopCheck
  <2>1. PICK h, s : h = StopAllThreads(Hub) /\ s = [h EXCEPT !.stopped = TRUE] /\ Become(s)
    BY <1>12 DEF StopCheck
  <2>2. UdpHub(h, Workers)
    BY <1>0, <2>1, StopAllStep
  <2>3. h \in HubType /\ Counted(h)
    BY <2>2 DEF UdpHub, Counted
  <2>4. /\ s \in HubType /\ s.slot = h.slot /\ s.total = h.total /\ s.worker = h.worker
        /\ s.posted = h.posted /\ s.fatal = h.fatal /\ s.stopped
    BY <2>1, <2>3, MarkStopped
  <2>5. Counted(s)
    BY <2>3, <2>4, KeepsCounted DEF KeepsSlots
  <2>6. UdpHub(s, {})
    BY <2>2, <2>4, <2>5, OverStep
  <2> QED BY <2>1, <2>6, UdpBecome
<1>13. CASE UNCHANGED vars
  <2>1. Hub' = Hub
    BY <1>13 DEF vars, Hub
  <2>2. UdpHub(Hub', {})
    BY <1>0, <2>1
  <2> QED BY <2>2 DEF UdpInv, UdpHub, Counted, Exact, HubType, Occupied, Sound, HoldsSlot, QueueSound,
                      Queued, Apart, Busy
<1> QED
  BY <1>1, <1>2, <1>3, <1>4, <1>5, <1>6, <1>7, <1>8, <1>9, <1>10, <1>11, <1>12, <1>13,
     FirstPacketUdp
     DEF Next, SocketOrTimer, OtherThread, Deliver

LEMMA InitUdpInv == Init => UdpInv
<1> SUFFICES ASSUME Init PROVE UdpInv
  OBVIOUS
<1>1. Counted(Hub)
  BY InitSlotsInv DEF SlotsInv
<1>2. /\ Hub.worker = worker /\ Hub.slot = mJTWorkers /\ Hub.posted = << >>
      /\ \A w \in Workers : worker[w] = [NewWorker EXCEPT !.life = "unborn"]
      /\ \A i \in Slots : mJTWorkers[i] = NoWorker
  BY DEF Init, Hub
<1>3. Queued(Hub) = {}
  BY <1>2 DEF Queued
<1>4. ASSUME NEW w \in Workers
      PROVE  /\ Hub.worker[w].channel = "none"
             /\ ~Hub.worker[w].listening /\ ~Hub.worker[w].mRunning
  BY <1>2 DEF NewWorker
<1>5. Exact(Hub)
  <2>1. Occupied(mJTWorkers) = {} /\ Hub.total = 0
    BY <1>2 DEF Occupied, Init, Hub
  <2> QED BY <1>2, <2>1, FS_EmptySet DEF Exact
<1> QED BY <1>1, <1>2, <1>3, <1>4, <1>5 DEF UdpInv, UdpHub, Sound, HoldsSlot, QueueSound

\* Pending events are the ones queued.
LEMMA PendingQueued ==
  ASSUME NEW what, NEW w, [what |-> what, to |-> w] \in Queued(Hub)
  PROVE  Pending(what, w)
BY DEF Queued, Pending, Hub

\* With UDP clients only, mTotalRunningThreads is the number of workers in the
\* pool (UdpHubListener.h:217), with no exception: no slot is released twice, by
\* whatever handlers and in whatever order (UdpHubListener.cpp:749-880).
THEOREM CountsMatchSlots == ASSUME RtcWorkers = {} PROVE Spec => []CountMatchesSlots
<1>1. UdpInv => CountMatchesSlots
  BY DEF UdpInv, UdpHub, Counted, Exact, CountMatchesSlots, OneSlotEach, Hub
<1> QED BY <1>1, InitUdpInv, NextUdpInv, PTL DEF Spec

\* With UDP clients only, a worker that listens or runs is in the slot it was
\* given, mID: no releaseThread of another worker empties that slot
\* (UdpHubListener.cpp:749-760, JackTripWorker.cpp:587).
THEOREM ServedWorkersHoldSlots == ASSUME RtcWorkers = {} PROVE Spec => []ServedWorkerHoldsSlot
<1>1. UdpInv => ServedWorkerHoldsSlot
  <2> SUFFICES ASSUME UdpInv, NEW w \in Workers, worker[w].listening \/ worker[w].mRunning
               PROVE  \E i \in Slots : mJTWorkers[i] = w /\ worker[w].mID = i
    BY DEF ServedWorkerHoldsSlot
  <2>1. HoldsSlot(Hub, w) /\ Hub.worker = worker /\ Hub.slot = mJTWorkers /\ Hub \in HubType
    BY DEF UdpInv, UdpHub, Counted, Hub
  <2>2. worker[w].mID \in Slots
    BY <2>1 DEF HubType, AnyWorker
  <2> QED BY <2>1, <2>2 DEF HoldsSlot
<1> QED BY <1>1, InitUdpInv, NextUdpInv, PTL DEF Spec

\* With UDP clients only, no slot leaks: whatever fails and in whatever order the
\* posted events, sockets and timers are served, the worker in a slot listens or
\* runs a JackTrip that has not stopped or whose end is on its way to it
\* (JackTripWorker.cpp:213-456).
THEOREM SlotsDoNotLeak == ASSUME RtcWorkers = {} PROVE Spec => []NoSlotLeaks
<1>1. UdpInv => NoSlotLeaks
  <2> SUFFICES ASSUME UdpInv, NEW i \in Slots, mJTWorkers[i] # NoWorker, ~Over, NEW w,
                      w = mJTWorkers[i]
               PROVE  \/ worker[w].listening
                      \/ worker[w].mRunning /\ (worker[w].jackTrip = "stopped" =>
                                                   Pending("jacktripStopped", w))
    BY DEF NoSlotLeaks
  <2>1. UdpHub(Hub, {}) /\ Hub.worker = worker /\ Hub.slot = mJTWorkers
        /\ Hub.stopped = mStopped /\ Hub.fatal = fatal
    BY DEF UdpInv, Hub
  <2>2. Busy(Hub, w)
    BY <2>1 DEF UdpHub, Over
  <2> QED BY <2>1, <2>2, PendingQueued DEF Busy
<1> QED BY <1>1, InitUdpInv, NextUdpInv, PTL DEF Spec

\* With UDP clients only, no two workers run for one client's endpoint, although
\* a client may connect again, from the same port, while its old worker is still
\* there (releaseDuplicateThreads, UdpHubListener.cpp:864-880).
THEOREM ClientsHaveOneWorker == ASSUME RtcWorkers = {} PROVE Spec => []OneWorkerPerClient
<1>1. UdpInv => OneWorkerPerClient
  BY DEF UdpInv, UdpHub, Apart, OneWorkerPerClient, Hub
<1> QED BY <1>1, InitUdpInv, NextUdpInv, PTL DEF Spec

-----------------------------------------------------------------------------
(* The patcher's list, in a hub of UDP clients only.  It rests on the order *)
(* of the posted events.                                                    *)

Ev(what, w) == [what |-> what, to |-> w]
Before(q, k) == {q[j] : j \in 1 .. k - 1}

\* Each b in the queue has an a before it; has none before it.
After(q, a, b) == \A k \in 1 .. Len(q) : q[k] = b => a \in Before(q, k)
NotAfter(q, a, b) == \A k \in 1 .. Len(q) : q[k] = b => a \notin Before(q, k)

LEMMA AbsentOrder ==
  ASSUME NEW q, NEW a, NEW b, b \notin Elements(q)
  PROVE  After(q, a, b) /\ NotAfter(q, a, b)
BY DEF Elements, After, NotAfter

LEMMA AppendElements ==
  ASSUME NEW q \in Seq(Event), NEW c \in Event, NEW t, t = Append(q, c)
  PROVE  Elements(t) = Elements(q) \cup {c}
<1>1. PICK N \in Nat : N = Len(q)
  OBVIOUS
<1>2. Len(t) = N + 1 /\ t[N + 1] = c /\ \A k \in 1 .. N : t[k] = q[k]
  BY <1>1
<1>3. ASSUME NEW e \in Elements(t)
      PROVE  e \in Elements(q) \cup {c}
  <2>1. PICK k \in 1 .. Len(t) : e = t[k]
    BY DEF Elements
  <2>2. k \in 1 .. N \/ k = N + 1
    BY <1>2
  <2> QED BY <1>1, <1>2, <2>1, <2>2 DEF Elements
<1>4. ASSUME NEW e \in Elements(q)
      PROVE  e \in Elements(t)
  <2>1. PICK k \in 1 .. Len(q) : e = q[k]
    BY DEF Elements
  <2>2. k \in 1 .. N /\ k \in 1 .. Len(t)
    BY <1>1, <1>2
  <2> QED BY <1>2, <2>1, <2>2 DEF Elements
<1>5. c \in Elements(t)
  <2>1. N + 1 \in 1 .. Len(t)
    BY <1>2
  <2> QED BY <1>2, <2>1 DEF Elements
<1> QED BY <1>3, <1>4, <1>5

\* An event posted last.
LEMMA AppendOrder ==
  ASSUME NEW q \in Seq(Event), NEW c \in Event, NEW a, NEW b, NEW t, t = Append(q, c)
  PROVE  /\ After(q, a, b) /\ (c # b \/ a \in Elements(q)) => After(t, a, b)
         /\ NotAfter(q, a, b) /\ (c # b \/ a \notin Elements(q)) => NotAfter(t, a, b)
<1>1. PICK N \in Nat : N = Len(q)
  OBVIOUS
<1>2. Len(t) = N + 1 /\ t[N + 1] = c /\ \A k \in 1 .. N : t[k] = q[k]
  BY <1>1
<1>3. \A k \in 1 .. N + 1 : Before(t, k) = Before(q, k)
  <2> SUFFICES ASSUME NEW k \in 1 .. N + 1 PROVE Before(t, k) = Before(q, k)
    OBVIOUS
  <2>1. \A j \in 1 .. k - 1 : t[j] = q[j]
    BY <1>2
  <2> QED BY <2>1, Zenon DEF Before
<1>4. Before(q, N + 1) = Elements(q)
  <2>1. (N + 1) - 1 = N
    OBVIOUS
  <2> QED BY <1>1, <2>1 DEF Before, Elements
<1>5. \A k \in 1 .. N + 1 : k \in 1 .. N \/ k = N + 1
  OBVIOUS
<1>6. ASSUME After(q, a, b), c # b \/ a \in Elements(q), NEW k \in 1 .. N + 1, t[k] = b
      PROVE  a \in Before(t, k)
  BY <1>1, <1>2, <1>3, <1>4, <1>5, <1>6 DEF After
<1>7. ASSUME NotAfter(q, a, b), c # b \/ a \notin Elements(q), NEW k \in 1 .. N + 1, t[k] = b
      PROVE  a \notin Before(t, k)
  BY <1>1, <1>2, <1>3, <1>4, <1>5, <1>7 DEF NotAfter
<1> QED BY <1>2, <1>6, <1>7 DEF After, NotAfter

\* The event delivered next.
LEMMA TailOrder ==
  ASSUME NEW q \in Seq(Event), q # << >>, NEW a, NEW b, NEW t, t = Tail(q)
  PROVE  /\ After(q, a, b) /\ Head(q) # a => After(t, a, b)
         /\ NotAfter(q, a, b) => NotAfter(t, a, b)
         /\ After(q, a, b) => Head(q) # b
         /\ NotAfter(q, a, b) /\ Head(q) = a => b \notin Elements(t)
<1>1. PICK N \in Nat : Len(q) = N + 1
  <2>1. Len(q) \in Nat /\ Len(q) # 0
    OBVIOUS
  <2>2. Len(q) - 1 \in Nat /\ (Len(q) - 1) + 1 = Len(q)
    BY <2>1
  <2> QED BY <2>2
<1>2. Len(t) = N /\ Head(q) = q[1] /\ \A k \in 1 .. N : t[k] = q[k + 1]
  BY <1>1
<1>3. \A k \in 1 .. N : k + 1 \in 1 .. N + 1 /\ k + 1 # 1
  OBVIOUS
<1>4. ASSUME NEW k \in 1 .. N
      PROVE  Before(q, k + 1) = Before(t, k) \cup {q[1]}
  <2>1. 1 .. (k + 1) - 1 = {1} \cup {j + 1 : j \in 1 .. k - 1}
    <3>1. \A i \in 1 .. (k + 1) - 1 : i = 1 \/ (i - 1 \in 1 .. k - 1 /\ i = (i - 1) + 1)
      OBVIOUS
    <3>2. \A j \in 1 .. k - 1 : j + 1 \in 1 .. (k + 1) - 1
      OBVIOUS
    <3>3. 1 \in 1 .. (k + 1) - 1
      OBVIOUS
    <3> QED BY <3>1, <3>2, <3>3
  <2>2. Before(q, k + 1) = {q[1]} \cup {q[j + 1] : j \in 1 .. k - 1}
    BY <2>1, Zenon DEF Before
  <2>3. \A j \in 1 .. k - 1 : t[j] = q[j + 1]
    BY <1>2
  <2>4. Before(t, k) = {q[j + 1] : j \in 1 .. k - 1}
    BY <2>3, Zenon DEF Before
  <2> QED BY <2>2, <2>4
<1>5. Before(q, 1) = {}
  BY DEF Before
<1>6. ASSUME After(q, a, b), Head(q) # a, NEW k \in 1 .. N, t[k] = b
      PROVE  a \in Before(t, k)
  BY <1>1, <1>2, <1>3, <1>4, <1>6 DEF After
<1>7. ASSUME NotAfter(q, a, b), NEW k \in 1 .. N, t[k] = b
      PROVE  a \notin Before(t, k) /\ Head(q) # a
  BY <1>1, <1>2, <1>3, <1>4, <1>7 DEF NotAfter
<1>8. After(q, a, b) => Head(q) # b
  BY <1>1, <1>2, <1>5 DEF After
<1> QED BY <1>2, <1>6, <1>7, <1>8 DEF After, NotAfter, Elements

\* The events kept when the worker w is deleted stay in order.
LEMMA DropOrder ==
  ASSUME NEW q \in Seq(Event), NEW w, NEW a, NEW b, NEW t, t = Undelivered(q, w)
  PROVE  /\ After(q, a, b) /\ a.to # w => After(t, a, b)
         /\ NotAfter(q, a, b) => NotAfter(t, a, b)
<1>1. PICK f : IsFilter(f, q, w)
  BY FilterExists
<1>2. PICK N \in Nat : N = Len(q)
  OBVIOUS
<1> DEFINE G == {n \in 0 .. N : /\ After(q, a, b) /\ a.to # w => After(f[n], a, b)
                                /\ NotAfter(q, a, b) => NotAfter(f[n], a, b)}
<1>3. 0 \in G
  <2>1. f[0] = << >>
    BY <1>1 DEF IsFilter
  <2>2. b \notin Elements(f[0])
    BY <2>1 DEF Elements
  <2> QED BY <2>2, AbsentOrder
<1>4. ASSUME NEW n \in 0 .. N - 1, n \in G
      PROVE  n + 1 \in G
  <2>1. n + 1 \in 1 .. N /\ n + 1 \in 0 .. N /\ (n + 1) - 1 = n /\ n \in 0 .. N
    BY <1>2
  <2>2. PICK u \in Seq(Event) : u = f[n] /\ Elements(u) = Kept(q, w, n)
    BY <1>1, <1>2, <2>1 DEF IsFilter
  <2>3. PICK c \in Event : c = q[n + 1]
    BY <1>2, <2>1
  <2>4. f[n + 1] = IF c.to = w THEN u ELSE Append(u, c)
    BY <1>1, <1>2, <2>1, <2>2, <2>3 DEF IsFilter
  <2>5. CASE c.to = w
    BY <1>4, <2>1, <2>2, <2>4, <2>5
  <2>6. CASE c.to # w
    <3>1. Before(q, n + 1) = {q[k] : k \in 1 .. n}
      BY <2>1 DEF Before
    <3>2. PICK z : z = Append(u, c) /\ z = f[n + 1]
      BY <2>4, <2>6
    <3>3. After(q, a, b) /\ a.to # w => c # b \/ a \in Elements(u)
      BY <1>2, <2>1, <2>2, <2>3, <3>1 DEF After, Kept
    <3>4. NotAfter(q, a, b) => c # b \/ a \notin Elements(u)
      BY <1>2, <2>1, <2>2, <2>3, <3>1 DEF NotAfter, Kept
    <3>5. /\ After(u, a, b) /\ (c # b \/ a \in Elements(u)) => After(z, a, b)
          /\ NotAfter(u, a, b) /\ (c # b \/ a \notin Elements(u)) => NotAfter(z, a, b)
      BY <3>2, AppendOrder
    <3> QED BY <1>4, <2>1, <2>2, <3>2, <3>3, <3>4, <3>5
  <2> QED BY <2>5, <2>6
<1> HIDE DEF G
<1>5. \A n \in 0 .. N : n \in G
  BY <1>3, <1>4, CountUp
<1>6. N \in G
  BY <1>5
<1> QED BY <1>1, <1>2, <1>6 DEF G, IsFilter

\* JACK has a name left for a client that has none open.
LEMMA FreshNameIsFree ==
  ASSUME NEW h, NEW w \in Workers, h.worker[w].name = NoName
  PROVE  FreshName(h) \in Names /\ \A v \in Workers : h.worker[v].name # FreshName(h)
<1> DEFINE Used == {h.worker[v].name : v \in Workers}
           Free == Names \ Used
<1>1. IsFiniteSet(Workers) /\ Cardinality(Workers) \in Nat
  BY PoolAssumption, FS_CardinalityType
<1>2. Names \subseteq Nat /\ NoName \notin Names
  BY <1>1 DEF Names, NoName
<1>3. IsFiniteSet(Names) /\ Cardinality(Names) = Cardinality(Workers)
  <2>1. PICK N \in Nat : N = Cardinality(Workers)
    BY <1>1
  <2>2. IsFiniteSet(1 .. N) /\ Cardinality(1 .. N) = IF 1 > N THEN 0 ELSE N - 1 + 1
    BY FS_Interval
  <2> QED BY <2>1, <2>2 DEF Names
<1>4. /\ IsFiniteSet(Workers \ {w})
      /\ Cardinality(Workers \ {w}) = Cardinality(Workers) - 1
  BY <1>1, FS_RemoveElement
<1>5. ASSUME Names \subseteq Used
      PROVE  FALSE
  <2> DEFINE f == [n \in Names |-> CHOOSE v \in Workers : h.worker[v].name = n]
  <2>1. ASSUME NEW n \in Names
        PROVE  f[n] \in Workers \ {w} /\ h.worker[f[n]].name = n
    <3>1. \E v \in Workers : h.worker[v].name = n
      BY <1>5
    <3>2. f[n] \in Workers /\ h.worker[f[n]].name = n
      BY <3>1
    <3> QED BY <1>2, <3>2
  <2>2. f \in [Names -> Workers \ {w}]
    BY <2>1
  <2> HIDE DEF f
  <2>3. Cardinality(Workers \ {w}) < Cardinality(Names)
    BY <1>1, <1>3, <1>4
  <2>4. PICK x \in Names, y \in Names : x # y /\ f[x] = f[y]
    BY <1>3, <1>4, <2>2, <2>3, FS_PigeonHole
  <2> QED BY <2>1, <2>4
<1>6. Free \in SUBSET Nat /\ Free # {}
  BY <1>2, <1>5
<1>7. FreshName(h) = Min(Free)
  BY DEF FreshName, Names
<1> HIDE DEF Free
<1>8. Min(Free) \in Free
  BY <1>6, MinIsMember
<1> QED BY <1>7, <1>8 DEF Free

\* A patched worker runs, and while its JackTrip has a JACK client the name is the
\* one it was assigned.
PatchRecord(r) ==
  /\ r.mPatched => /\ r.mRunning /\ r.jackTrip \in {"audio", "stopped"}
                   /\ r.mAssignedClientName # NoName
                   /\ r.jackTrip = "audio" => r.name = r.mAssignedClientName
  /\ r.jackTrip \in {"waiting", "audio"} <=> r.name # NoName
  /\ r.listening => r.jackTrip = "ready"
  /\ r.life = "unborn" => r.jackTrip = "none"

\* A running worker hears of its audio before its JackTrip stops.
PatchEvents(h, w) ==
  /\ Ev("alertPatcher", w) \in Queued(h) =>
        /\ h.worker[w].jackTrip \in {"audio", "stopped"}
        /\ h.worker[w].mRunning => h.worker[w].jackTrip = "audio"
  /\ Ev("slotStopProcesses", w) \in Queued(h) => h.worker[w].jackTrip \in {"audio", "stopped"}
  /\ NotAfter(h.posted, Ev("slotStopProcesses", w), Ev("alertPatcher", w))

\* The worker is still registered by a name that JACK may have given away.
NameGone(r) == r.mPatched /\ r.jackTrip = "stopped"

\* It unregisters the name before the next owner of the name registers it.
LeavesFirst(h, w) ==
  /\ Ev("jacktripStopped", w) \in Queued(h)
  /\ \A v \in Workers \ {w} :
       h.worker[v].name = h.worker[w].mAssignedClientName =>
          After(h.posted, Ev("jacktripStopped", w), Ev("alertPatcher", v))

PatchedNames(W) == {W[w].mAssignedClientName : w \in {v \in Workers : W[v].mPatched}}

\* The inductive invariant; a worker of X has taken its jacktripStopped and is
\* about to unregister.
Patches(h, X) ==
  /\ h \in HubType
  /\ h.clients = PatchedNames(h.worker)
  /\ \A w \in Workers : PatchRecord(h.worker[w]) /\ PatchEvents(h, w)
  /\ \A v, w \in Workers : v # w =>
       /\ h.worker[w].name # NoName => h.worker[v].name # h.worker[w].name
       /\ h.worker[v].mPatched /\ h.worker[w].mPatched =>
             h.worker[v].mAssignedClientName # h.worker[w].mAssignedClientName
  /\ \A w \in Workers : w \notin X /\ NameGone(h.worker[w]) => LeavesFirst(h, w)

OthersSame(h, g, w) ==
  g \in HubType /\ \A v \in Workers \ {w} : g.worker[v] = h.worker[v]

\* A step that changes worker w's registration at most by removing it.
PatchClients(h, g, w) ==
  \/ /\ g.worker[w].mPatched = h.worker[w].mPatched
     /\ g.worker[w].mPatched =>
          g.worker[w].mAssignedClientName = h.worker[w].mAssignedClientName
     /\ g.clients = h.clients
  \/ /\ ~g.worker[w].mPatched
     /\ g.clients = IF h.worker[w].mPatched
                    THEN h.clients \ {h.worker[w].mAssignedClientName} ELSE h.clients

LEMMA ClientsStep ==
  ASSUME NEW h, NEW X, Patches(h, X), NEW w \in Workers, NEW g, OthersSame(h, g, w),
         PatchClients(h, g, w)
  PROVE  /\ g.clients = PatchedNames(g.worker)
         /\ \A v, u \in Workers : v # u /\ g.worker[v].mPatched /\ g.worker[u].mPatched =>
               g.worker[v].mAssignedClientName # g.worker[u].mAssignedClientName
<1>1. \A v \in Workers \ {w} : g.worker[v] = h.worker[v]
  BY DEF OthersSame
<1>2. ASSUME NEW v \in Workers, g.worker[v].mPatched
      PROVE  /\ h.worker[v].mPatched
             /\ g.worker[v].mAssignedClientName = h.worker[v].mAssignedClientName
  BY <1>1, <1>2 DEF PatchClients, OthersSame
<1>3. \A v, u \in Workers : v # u /\ g.worker[v].mPatched /\ g.worker[u].mPatched =>
               g.worker[v].mAssignedClientName # g.worker[u].mAssignedClientName
  BY <1>2 DEF Patches
<1>4. ASSUME NEW n
      PROVE  n \in g.clients <=> n \in PatchedNames(g.worker)
  <2>1. n \in PatchedNames(g.worker) <=>
          \E v \in Workers : g.worker[v].mPatched /\ g.worker[v].mAssignedClientName = n
    BY Zenon DEF PatchedNames
  <2>2. n \in h.clients <=>
          \E v \in Workers : h.worker[v].mPatched /\ h.worker[v].mAssignedClientName = n
    <3>1. h.clients = PatchedNames(h.worker)
      BY DEF Patches
    <3> QED BY <3>1, Zenon DEF PatchedNames
  <2>3. CASE /\ g.worker[w].mPatched = h.worker[w].mPatched
             /\ g.clients = h.clients
    <3>1. \A v \in Workers : h.worker[v].mPatched => g.worker[v].mPatched
      BY <1>1, <2>3
    <3> QED BY <1>2, <2>1, <2>2, <2>3, <3>1
  <2>4. CASE ~g.worker[w].mPatched /\ h.worker[w].mPatched
             /\ g.clients = h.clients \ {h.worker[w].mAssignedClientName}
    <3>1. \A v \in Workers : g.worker[v].mPatched <=> v # w /\ h.worker[v].mPatched
      BY <1>1, <2>4
    <3>2. \A v \in Workers : v # w /\ h.worker[v].mPatched =>
            h.worker[v].mAssignedClientName # h.worker[w].mAssignedClientName
      BY <2>4 DEF Patches
    <3>3. n \in g.clients <=> n \in h.clients /\ n # h.worker[w].mAssignedClientName
      BY <2>4
    <3> QED BY <1>1, <1>2, <2>1, <2>2, <3>1, <3>2, <3>3
  <2>5. CASE ~g.worker[w].mPatched /\ ~h.worker[w].mPatched /\ g.clients = h.clients
    <3>1. \A v \in Workers : h.worker[v].mPatched => g.worker[v].mPatched
      BY <1>1, <2>5
    <3> QED BY <1>2, <2>1, <2>2, <2>5, <3>1
  <2> QED BY <2>3, <2>4, <2>5 DEF PatchClients
<1> QED BY <1>3, <1>4

PostedEvents == WorkerEvents \cup {"delete"}

\* A step of worker w that posts at most one event to it.
PatchStep(h, g, w, X) ==
  /\ OthersSame(h, g, w)
  /\ PatchClients(h, g, w)
  /\ PatchRecord(g.worker[w]) /\ PatchEvents(g, w)
  /\ \/ g.worker[w].name \in {h.worker[w].name, NoName}
     \/ /\ \A v \in Workers : h.worker[v].name # g.worker[w].name
        /\ Ev("alertPatcher", w) \notin Queued(h) /\ g.posted = h.posted
  /\ \/ g.posted = h.posted
     \/ /\ \E what \in PostedEvents : g.posted = Append(h.posted, Ev(what, w))
        /\ Queued(h) \subseteq Queued(g)
  /\ w \notin X /\ NameGone(g.worker[w]) =>
       \/ NameGone(h.worker[w])
       \/ h.worker[w].jackTrip = "audio" /\ Ev("jacktripStopped", w) \in Queued(g)

LEMMA PatchStepping ==
  ASSUME NEW h, NEW X, Patches(h, X), NEW w \in Workers, NEW g, PatchStep(h, g, w, X)
  PROVE  Patches(g, X)
<1>0. /\ h \in HubType /\ g \in HubType /\ OthersSame(h, g, w) /\ PatchClients(h, g, w)
      /\ \A v \in Workers \ {w} : g.worker[v] = h.worker[v]
  BY DEF Patches, PatchStep, OthersSame
<1>1. /\ g.clients = PatchedNames(g.worker)
      /\ \A v, u \in Workers : v # u /\ g.worker[v].mPatched /\ g.worker[u].mPatched =>
            g.worker[v].mAssignedClientName # g.worker[u].mAssignedClientName
  BY <1>0, ClientsStep
<1>2. h.posted \in Seq(Event) /\ \A what \in PostedEvents, v \in Workers : Ev(what, v) \in Event
  BY <1>0 DEF HubType, Event, Ev, PostedEvents, WorkerEvents, Events
<1>3. Queued(h) = Elements(h.posted) /\ Queued(g) = Elements(g.posted)
  BY DEF Queued, Elements
<1>4. \/ g.posted = h.posted
      \/ \E what \in PostedEvents : g.posted = Append(h.posted, Ev(what, w))
  BY DEF PatchStep
<1>5. ASSUME NEW a, NEW v \in Workers, v # w
      PROVE  /\ After(h.posted, a, Ev("alertPatcher", v)) =>
                   After(g.posted, a, Ev("alertPatcher", v))
             /\ NotAfter(h.posted, a, Ev("alertPatcher", v)) =>
                   NotAfter(g.posted, a, Ev("alertPatcher", v))
  <2>1. CASE g.posted = h.posted
    BY <2>1
  <2>2. ASSUME NEW what \in PostedEvents, g.posted = Append(h.posted, Ev(what, w))
        PROVE  /\ After(h.posted, a, Ev("alertPatcher", v)) =>
                     After(g.posted, a, Ev("alertPatcher", v))
               /\ NotAfter(h.posted, a, Ev("alertPatcher", v)) =>
                     NotAfter(g.posted, a, Ev("alertPatcher", v))
    <3>1. Ev(what, w) # Ev("alertPatcher", v)
      BY <1>5 DEF Ev
    <3>2. PICK c, q, t : /\ c \in Event /\ q \in Seq(Event)
                         /\ c = Ev(what, w) /\ q = h.posted /\ t = g.posted
      BY <1>2, <2>2
    <3>3. /\ c \in Event /\ q \in Seq(Event)
          /\ t = Append(q, c) /\ c # Ev("alertPatcher", v)
      BY <2>2, <3>1, <3>2
    <3>4. /\ After(q, a, Ev("alertPatcher", v)) => After(t, a, Ev("alertPatcher", v))
          /\ NotAfter(q, a, Ev("alertPatcher", v)) => NotAfter(t, a, Ev("alertPatcher", v))
      BY <3>3, AppendOrder
    <3> QED BY <3>2, <3>4
  <2> QED BY <1>4, <2>1, <2>2
<1>6. ASSUME NEW what, NEW v \in Workers, v # w
      PROVE  Ev(what, v) \in Queued(g) <=> Ev(what, v) \in Queued(h)
  <2>1. CASE g.posted = h.posted
    BY <1>3, <2>1
  <2>2. ASSUME NEW x \in PostedEvents, g.posted = Append(h.posted, Ev(x, w))
        PROVE  Ev(what, v) \in Queued(g) <=> Ev(what, v) \in Queued(h)
    <3>1. Ev(x, w) # Ev(what, v)
      BY <1>6 DEF Ev
    <3>2. Queued(g) = Queued(h) \cup {Ev(x, w)}
      <4>1. PICK c, q, t : /\ c \in Event /\ q \in Seq(Event)
                           /\ c = Ev(x, w) /\ q = h.posted /\ t = g.posted
        BY <1>2, <2>2
      <4>2. Elements(t) = Elements(q) \cup {c}
        BY <2>2, <4>1, AppendElements
      <4> QED BY <1>3, <4>1, <4>2
    <3> QED BY <3>1, <3>2
  <2> QED BY <1>4, <2>1, <2>2
<1>7. ASSUME NEW v \in Workers PROVE PatchRecord(g.worker[v]) /\ PatchEvents(g, v)
  <2>1. CASE v = w
    BY <2>1 DEF PatchStep
  <2>2. CASE v # w
    <3>1. g.worker[v] = h.worker[v]
      BY <1>0, <2>2
    <3>2. NotAfter(g.posted, Ev("slotStopProcesses", v), Ev("alertPatcher", v))
      BY <1>5, <2>2 DEF Patches, PatchEvents
    <3> QED BY <1>6, <2>2, <3>1, <3>2 DEF Patches, PatchEvents
  <2> QED BY <2>1, <2>2
<1>8. ASSUME NEW v \in Workers, NEW u \in Workers, v # u, g.worker[u].name # NoName
      PROVE  g.worker[v].name # g.worker[u].name
  BY <1>0, <1>8 DEF Patches, PatchStep
<1>9. ASSUME NEW u \in Workers, u \notin X, NameGone(g.worker[u])
      PROVE  LeavesFirst(g, u)
  <2>1. CASE u # w
    <3>1. g.worker[u] = h.worker[u] /\ LeavesFirst(h, u)
      BY <1>0, <1>9, <2>1 DEF Patches
    <3>2. Ev("jacktripStopped", u) \in Queued(g)
      BY <1>6, <2>1, <3>1 DEF LeavesFirst
    <3>3. h.worker[u].mAssignedClientName # NoName
      BY <1>9, <3>1 DEF Patches, PatchRecord, NameGone
    <3>4. ASSUME NEW v \in Workers \ {u}, g.worker[v].name = g.worker[u].mAssignedClientName
          PROVE  After(g.posted, Ev("jacktripStopped", u), Ev("alertPatcher", v))
      <4>1. CASE v # w
        BY <1>0, <1>5, <3>1, <3>4, <4>1 DEF LeavesFirst
      <4>2. CASE v = w /\ g.worker[w].name = h.worker[w].name
        <5>1. After(h.posted, Ev("jacktripStopped", u), Ev("alertPatcher", w))
          BY <3>1, <3>4, <4>2 DEF LeavesFirst
        <5>2. CASE g.posted = h.posted
          BY <4>2, <5>1, <5>2
        <5>3. ASSUME NEW what \in PostedEvents, g.posted = Append(h.posted, Ev(what, w))
              PROVE  After(g.posted, Ev("jacktripStopped", u), Ev("alertPatcher", v))
          <6>1. PICK c, q, t : /\ c \in Event /\ q \in Seq(Event)
                               /\ c = Ev(what, w) /\ q = h.posted /\ t = g.posted
            BY <1>2, <5>3
          <6>2. PICK a, b : a = Ev("jacktripStopped", u) /\ b = Ev("alertPatcher", w)
            OBVIOUS
          <6>3. /\ c \in Event /\ q \in Seq(Event) /\ t = Append(q, c)
                /\ a \in Elements(q) /\ After(q, a, b)
            BY <1>3, <3>1, <5>1, <5>3, <6>1, <6>2 DEF LeavesFirst
          <6>4. After(t, a, b)
            BY <6>3, AppendOrder
          <6> QED BY <4>2, <6>1, <6>2, <6>4
        <5> QED BY <1>4, <5>2, <5>3
      <4>3. CASE v = w /\ g.posted = h.posted /\ Ev("alertPatcher", w) \notin Queued(h)
        BY <1>3, <4>3, AbsentOrder
      <4>4. CASE v = w /\ g.worker[w].name = NoName
        BY <3>1, <3>3, <3>4, <4>4
      <4> QED BY <4>1, <4>2, <4>3, <4>4 DEF PatchStep
    <3> QED BY <3>2, <3>4 DEF LeavesFirst
  <2>2. CASE u = w
    <3>1. /\ g.worker[w].mPatched /\ h.worker[w].mPatched
          /\ g.worker[w].mAssignedClientName = h.worker[w].mAssignedClientName
      BY <1>9, <2>2 DEF PatchStep, PatchClients, NameGone
    <3>2. CASE NameGone(h.worker[w])
      <4>1. LeavesFirst(h, w)
        BY <1>9, <2>2, <3>2 DEF Patches
      <4>2. Ev("jacktripStopped", w) \in Queued(g)
        BY <1>3, <4>1 DEF LeavesFirst, PatchStep
      <4>3. ASSUME NEW v \in Workers \ {w}, g.worker[v].name = g.worker[w].mAssignedClientName
            PROVE  After(g.posted, Ev("jacktripStopped", w), Ev("alertPatcher", v))
        BY <1>0, <1>5, <3>1, <4>1, <4>3 DEF LeavesFirst
      <4> QED BY <2>2, <4>2, <4>3 DEF LeavesFirst
    <3>3. CASE h.worker[w].jackTrip = "audio" /\ Ev("jacktripStopped", w) \in Queued(g)
      <4>1. /\ h.worker[w].name = h.worker[w].mAssignedClientName
            /\ h.worker[w].name # NoName
        BY <3>1, <3>3 DEF Patches, PatchRecord
      <4>2. ASSUME NEW v \in Workers \ {w}
            PROVE  g.worker[v].name # g.worker[w].mAssignedClientName
        BY <1>0, <3>1, <4>1 DEF Patches
      <4> QED BY <2>2, <3>3, <4>2 DEF LeavesFirst
    <3> QED BY <1>9, <2>2, <3>2, <3>3 DEF PatchStep
  <2> QED BY <2>1, <2>2
<1> QED BY <1>0, <1>1, <1>7, <1>8, <1>9 DEF Patches

LEMMA OnlyWorkerOthers ==
  ASSUME NEW h, NEW g, NEW w \in Workers, OnlyWorker(h, g, w)
  PROVE  OthersSame(h, g, w)
BY DEF OnlyWorker, OthersSame

\* What a posted event that is not alertPatcher leaves of the order.
LEMMA PostedLast ==
  ASSUME NEW h \in HubType, NEW w \in Workers, NEW what \in PostedEvents, NEW g,
         g.posted = Append(h.posted, Ev(what, w))
  PROVE  /\ Queued(g) = Queued(h) \cup {Ev(what, w)}
         /\ \A a : /\ NotAfter(h.posted, a, Ev("alertPatcher", w))
                   /\ what # "alertPatcher" \/ a \notin Queued(h)
                   => NotAfter(g.posted, a, Ev("alertPatcher", w))
<1>1. Ev(what, w) \in Event /\ h.posted \in Seq(Event)
  BY DEF HubType, Event, Ev, PostedEvents, WorkerEvents, Events
<1>2. PICK c, q, t : /\ c \in Event /\ q \in Seq(Event)
                     /\ c = Ev(what, w) /\ q = h.posted /\ t = g.posted
  BY <1>1
<1>3. /\ c \in Event /\ q \in Seq(Event)
      /\ t = Append(q, c) /\ (what # "alertPatcher" => c # Ev("alertPatcher", w))
  BY <1>2 DEF Ev
<1>4. Queued(h) = Elements(q) /\ Queued(g) = Elements(t)
  BY <1>2 DEF Queued, Elements
<1>5. Elements(t) = Elements(q) \cup {c}
  BY <1>3, AppendElements
<1>6. ASSUME NEW a, NotAfter(q, a, Ev("alertPatcher", w)),
             what # "alertPatcher" \/ a \notin Queued(h)
      PROVE  NotAfter(t, a, Ev("alertPatcher", w))
  <2>1. PICK b : b = Ev("alertPatcher", w)
    OBVIOUS
  <2>2. c # b \/ a \notin Elements(q)
    BY <1>3, <1>4, <1>6, <2>1
  <2>3. NotAfter(t, a, b)
    BY <1>3, <1>6, <2>1, <2>2, AppendOrder
  <2> QED BY <2>1, <2>3
<1> QED BY <1>2, <1>4, <1>5, <1>6

\* A step that posts nothing and leaves the worker its client.
LEMMA SameClientStep ==
  ASSUME NEW h, NEW X, Patches(h, X), NEW w \in Workers, NEW g, OthersSame(h, g, w),
         SameClient(h.worker[w], g.worker[w]), g.clients = h.clients, g.posted = h.posted,
         h.worker[w].mPatched => g.worker[w].mRunning,
         g.worker[w].mRunning => h.worker[w].mRunning,
         g.worker[w].listening => h.worker[w].jackTrip = "ready",
         g.worker[w].life = h.worker[w].life
  PROVE  Patches(g, X)
<1>1. PatchRecord(h.worker[w]) /\ PatchEvents(h, w)
  BY DEF Patches
<1>2. Queued(g) = Queued(h)
  BY DEF Queued
<1>3. PatchRecord(g.worker[w])
  BY <1>1 DEF PatchRecord, SameClient
<1>4. PatchEvents(g, w)
  BY <1>1, <1>2 DEF PatchEvents, SameClient
<1>5. PatchStep(h, g, w, X)
  BY <1>3, <1>4 DEF PatchStep, PatchClients, SameClient, NameGone
<1> QED BY <1>5, PatchStepping

\* releaseThread.
LEMMA ReleasePatches ==
  ASSUME NEW h, NEW X, Patches(h, X), NEW id \in Slots, h.slot[id] # NoWorker,
         NEW g, g = ReleaseThread(h, id)
  PROVE  Patches(g, X)
<1>0. h \in HubType
  BY DEF Patches
<1>1. g \in HubType /\ g.worker = h.worker /\ g.clients = h.clients
      /\ DeletePosted(h, g, h.slot[id])
  BY <1>0, Releasing
<1>2. PICK w \in Workers : w = h.slot[id]
  BY <1>0 DEF HubType
<1>3. g.posted = Append(h.posted, Ev("delete", w)) /\ "delete" \in PostedEvents
  BY <1>1, <1>2 DEF DeletePosted, Ev, PostedEvents
<1>4. Queued(g) = Queued(h) \cup {Ev("delete", w)}
  BY <1>0, <1>3, PostedLast
<1>5. \A a : NotAfter(h.posted, a, Ev("alertPatcher", w)) =>
                NotAfter(g.posted, a, Ev("alertPatcher", w))
  BY <1>0, <1>3, PostedLast
<1>6. PatchRecord(h.worker[w]) /\ PatchEvents(h, w)
  BY DEF Patches
<1>7. Ev("alertPatcher", w) # Ev("delete", w) /\ Ev("slotStopProcesses", w) # Ev("delete", w)
  BY DEF Ev
<1>8. PatchEvents(g, w)
  BY <1>1, <1>4, <1>5, <1>6, <1>7 DEF PatchEvents
<1>9. PatchStep(h, g, w, X)
  BY <1>1, <1>3, <1>4, <1>6, <1>8 DEF PatchStep, PatchClients, NameGone, OthersSame
<1> QED BY <1>9, PatchStepping

\* JackTrip::stop, when the patcher is not about to hear of its audio.
LEMMA StopJackTripPatches ==
  ASSUME NEW h, NEW X, Patches(h, X), NEW w \in Workers,
         Ev("alertPatcher", w) \notin Queued(h), NEW g, g = StopJackTrip(h, w)
  PROVE  Patches(g, X)
<1>0. h \in HubType /\ h.worker[w] \in AnyWorker /\ PatchRecord(h.worker[w]) /\ PatchEvents(h, w)
  BY DEF Patches, HubType
<1>1. /\ OnlyWorker(h, g, w) /\ g.clients = h.clients
      /\ \/ g = h
         \/ /\ h.worker[w].jackTrip \in {"waiting", "audio"}
            /\ g.posted = Append(h.posted, [what |-> "jacktripStopped", to |-> w])
            /\ g.worker[w] = JackTripStopped(h.worker[w])
  BY <1>0, StoppingJackTrip
<1>2. CASE g = h
  BY <1>2
<1>3. CASE /\ h.worker[w].jackTrip \in {"waiting", "audio"}
           /\ g.posted = Append(h.posted, [what |-> "jacktripStopped", to |-> w])
           /\ g.worker[w] = JackTripStopped(h.worker[w])
  <2>1. /\ g.worker[w].jackTrip = "stopped" /\ g.worker[w].name = NoName
        /\ g.worker[w].mPatched = h.worker[w].mPatched
        /\ g.worker[w].mAssignedClientName = h.worker[w].mAssignedClientName
        /\ g.worker[w].mRunning = h.worker[w].mRunning
        /\ g.worker[w].listening = h.worker[w].listening
        /\ g.worker[w].life = h.worker[w].life
    BY <1>0, <1>3 DEF AnyWorker, JackTripStopped
  <2>2. g.posted = Append(h.posted, Ev("jacktripStopped", w)) /\ "jacktripStopped" \in PostedEvents
    BY <1>3 DEF Ev, PostedEvents, WorkerEvents
  <2>3. Queued(g) = Queued(h) \cup {Ev("jacktripStopped", w)}
    BY <1>0, <2>2, PostedLast
  <2>4. \A a : NotAfter(h.posted, a, Ev("alertPatcher", w)) =>
                  NotAfter(g.posted, a, Ev("alertPatcher", w))
    BY <1>0, <2>2, PostedLast
  <2>5. Ev("alertPatcher", w) # Ev("jacktripStopped", w)
        /\ Ev("slotStopProcesses", w) # Ev("jacktripStopped", w)
    BY DEF Ev
  <2>6. PatchRecord(g.worker[w])
    BY <1>0, <1>3, <2>1 DEF PatchRecord
  <2>7. PatchEvents(g, w)
    BY <1>0, <2>1, <2>3, <2>4, <2>5 DEF PatchEvents
  <2>8. NameGone(g.worker[w]) => h.worker[w].jackTrip = "audio"
    BY <1>0, <1>3, <2>1 DEF PatchRecord, NameGone
  <2>9. PatchClients(h, g, w) /\ OthersSame(h, g, w)
    BY <1>1, <2>1, OnlyWorkerOthers DEF PatchClients
  <2>10. PatchStep(h, g, w, X)
    BY <2>1, <2>2, <2>3, <2>6, <2>7, <2>8, <2>9 DEF PatchStep
  <2> QED BY <2>10, PatchStepping
<1> QED BY <1>1, <1>2, <1>3

\* stopThread.
LEMMA StopThreadPatches ==
  ASSUME NEW h, NEW X, Patches(h, X), NEW w \in Workers, NEW g, Stopped(h, g, w)
  PROVE  Patches(g, X)
<1>0. /\ h \in HubType /\ PatchRecord(h.worker[w]) /\ PatchEvents(h, w)
      /\ OthersSame(h, g, w)
  BY OnlyWorkerOthers DEF Patches, Stopped
<1>1. /\ g.worker[w].life = h.worker[w].life /\ ~g.worker[w].mRunning
      /\ Unregistered(h, g, w)
  BY DEF Stopped
<1>2. CASE ~h.worker[w].mRunning
  <2>1. ~g.worker[w].listening /\ ~h.worker[w].mPatched
    BY <1>0, <1>2 DEF Stopped, PatchRecord
  <2>2. SameClient(h.worker[w], g.worker[w]) /\ g.clients = h.clients /\ g.posted = h.posted
    BY <1>1, <1>2 DEF Unregistered
  <2> QED BY <1>0, <1>1, <2>1, <2>2, SameClientStep
<1>3. CASE h.worker[w].mRunning
  <2>1. /\ ~g.worker[w].mPatched
        /\ g.clients = IF h.worker[w].mPatched
                       THEN h.clients \ {h.worker[w].mAssignedClientName} ELSE h.clients
        /\ g.worker[w].listening = h.worker[w].listening
    BY <1>1, <1>3 DEF Unregistered, Stopped
  <2>2. PatchClients(h, g, w) /\ ~NameGone(g.worker[w])
    BY <2>1 DEF PatchClients, NameGone
  <2>3. CASE /\ h.worker[w].jackTrip \notin {"waiting", "audio"} /\ g.posted = h.posted
             /\ g.worker[w].jackTrip = h.worker[w].jackTrip
             /\ g.worker[w].name = h.worker[w].name
    <3>1. Queued(g) = Queued(h)
      BY <2>3 DEF Queued
    <3>2. PatchEvents(g, w)
      BY <1>0, <1>1, <2>3, <3>1 DEF PatchEvents
    <3>3. PatchRecord(g.worker[w])
      BY <1>0, <1>1, <2>1, <2>3 DEF PatchRecord
    <3>4. PatchStep(h, g, w, X)
      BY <1>0, <2>2, <2>3, <3>2, <3>3 DEF PatchStep
    <3> QED BY <3>4, PatchStepping
  <2>4. CASE /\ h.worker[w].jackTrip \in {"waiting", "audio"}
             /\ g.posted = Append(h.posted, [what |-> "jacktripStopped", to |-> w])
             /\ g.worker[w].jackTrip = "stopped" /\ g.worker[w].name = NoName
    <3>1. g.posted = Append(h.posted, Ev("jacktripStopped", w)) /\ "jacktripStopped" \in PostedEvents
      BY <2>4 DEF Ev, PostedEvents, WorkerEvents
    <3>2. Queued(g) = Queued(h) \cup {Ev("jacktripStopped", w)}
      BY <1>0, <3>1, PostedLast
    <3>3. \A a : NotAfter(h.posted, a, Ev("alertPatcher", w)) =>
                    NotAfter(g.posted, a, Ev("alertPatcher", w))
      BY <1>0, <3>1, PostedLast
    <3>4. Ev("alertPatcher", w) # Ev("jacktripStopped", w)
          /\ Ev("slotStopProcesses", w) # Ev("jacktripStopped", w)
      BY DEF Ev
    <3>5. PatchEvents(g, w)
      BY <1>0, <1>1, <2>4, <3>2, <3>3, <3>4 DEF PatchEvents
    <3>6. PatchRecord(g.worker[w])
      BY <1>0, <1>1, <2>1, <2>4 DEF PatchRecord
    <3>7. PatchStep(h, g, w, X)
      BY <1>0, <2>2, <2>4, <3>1, <3>2, <3>5, <3>6 DEF PatchStep
    <3> QED BY <3>7, PatchStepping
  <2> QED BY <1>1, <1>3, <2>3, <2>4 DEF Unregistered
<1> QED BY <1>2, <1>3

-----------------------------------------------------------------------------
(* The handlers of a UDP hub and the patcher's list *)

\* A worker that is not patched needs no exemption.
LEMMA PatchAgain ==
  ASSUME NEW h, NEW X, Patches(h, X), NEW w \in Workers, ~h.worker[w].mPatched,
         NEW Y, X \subseteq Y \cup {w}
  PROVE  Patches(h, Y)
BY DEF Patches, NameGone

\* The workers, their events and the patcher's list are all the invariant is about.
LEMMA SameWorkersPatches ==
  ASSUME NEW h, NEW X, Patches(h, X), NEW g \in HubType, g.worker = h.worker,
         g.posted = h.posted, g.clients = h.clients
  PROVE  Patches(g, X)
<1>1. Queued(g) = Queued(h)
  BY DEF Queued
<1>2. \A w \in Workers : PatchEvents(g, w)
  BY <1>1 DEF Patches, PatchEvents
<1>3. \A w \in Workers : LeavesFirst(h, w) => LeavesFirst(g, w)
  BY <1>1 DEF LeavesFirst
<1> QED BY <1>2, <1>3 DEF Patches

\* A record that leaves the worker its client.
LEMMA WithPatches ==
  ASSUME NEW h, NEW X, Patches(h, X), NEW w \in Workers, NEW r \in AnyWorker,
         SameClient(h.worker[w], r), r.mRunning = h.worker[w].mRunning,
         r.listening => h.worker[w].jackTrip = "ready",
         r.life = h.worker[w].life, NEW g, g = With(h, w, r)
  PROVE  Patches(g, X) /\ g.posted = h.posted /\ g.slot = h.slot /\ g.worker[w] = r
<1>0. h \in HubType /\ PatchRecord(h.worker[w])
  BY DEF Patches
<1>1. /\ OnlyWorker(h, g, w) /\ g.worker[w] = r
      /\ g.posted = h.posted /\ g.clients = h.clients
  BY <1>0, SetWorker
<1>2. OthersSame(h, g, w) /\ (h.worker[w].mPatched => h.worker[w].mRunning)
  BY <1>0, <1>1, OnlyWorkerOthers DEF PatchRecord
<1>3. Patches(g, X)
  BY <1>1, <1>2, SameClientStep
<1> QED BY <1>1, <1>3 DEF OnlyWorker

\* A posted event; alertPatcher is posted when the audio starts.
LEMMA PostPatches ==
  ASSUME NEW h, NEW X, Patches(h, X), NEW w \in Workers,
         NEW what \in {"alertPatcher", "slotStopProcesses"},
         h.worker[w].jackTrip = "audio",
         what = "alertPatcher" => Ev("slotStopProcesses", w) \notin Queued(h),
         NEW g, g = Post(h, what, w)
  PROVE  Patches(g, X)
<1>0. h \in HubType /\ what \in Events /\ what \in PostedEvents
  BY DEF Patches, Events, PostedEvents, WorkerEvents
<1>1. Posted(h, g, [what |-> what, to |-> w])
  BY <1>0, Posting
<1>2. /\ g.posted = Append(h.posted, Ev(what, w)) /\ g.worker = h.worker
      /\ g.clients = h.clients /\ g \in HubType
  BY <1>1 DEF Posted, Ev
<1>3. Queued(g) = Queued(h) \cup {Ev(what, w)}
  BY <1>0, <1>2, PostedLast
<1>4. PatchRecord(h.worker[w]) /\ PatchEvents(h, w)
  BY DEF Patches
<1>5. NotAfter(g.posted, Ev("slotStopProcesses", w), Ev("alertPatcher", w))
  <2>1. PICK a : a = Ev("slotStopProcesses", w)
    OBVIOUS
  <2>2. NotAfter(h.posted, a, Ev("alertPatcher", w)) /\ (what = "alertPatcher" => a \notin Queued(h))
    BY <1>4, <2>1 DEF PatchEvents
  <2>3. NotAfter(g.posted, a, Ev("alertPatcher", w))
    BY <1>0, <1>2, <2>2, PostedLast
  <2> QED BY <2>1, <2>3
<1>6. PatchEvents(g, w)
  BY <1>2, <1>5 DEF PatchEvents
<1>7. PatchStep(h, g, w, X)
  BY <1>0, <1>2, <1>3, <1>4, <1>6 DEF PatchStep, PatchClients, OthersSame, NameGone
<1> QED BY <1>7, PatchStepping

\* The hub without the event it takes.
LEMMA RestPatches ==
  ASSUME Patches(Hub, {}), NEW what, NEW w, Delivered(what, w), NEW X,
         what = "jacktripStopped" /\ worker[w].mPatched => w \in X
  PROVE  /\ Patches(Rest, X)
         /\ what = "slotStopProcesses" => Ev("alertPatcher", w) \notin Queued(Rest)
         /\ what = "alertPatcher" => \A u \in Workers : NameGone(worker[u]) /\ u # w =>
                                        worker[u].mAssignedClientName # worker[w].name
<1>0. Hub \in HubType /\ Hub.worker = worker /\ Hub.posted = posted /\ Hub.clients = m_clients
  BY DEF Patches, Hub
<1>1. /\ Rest \in HubType /\ Rest.worker = worker /\ Rest.clients = m_clients
      /\ Rest.posted = Tail(posted)
      /\ Queued(Hub) = Queued(Rest) \cup {Ev(what, w)} /\ Ev(what, w) \in Event
  BY <1>0, Taking DEF Ev
<1>2. PICK q, t, c : q \in Seq(Event) /\ q = posted /\ t = Tail(q) /\ q # << >> /\ c = Ev(what, w)
                                    /\ Head(q) = c
  BY <1>0 DEF HubType, Delivered, Ev
<1>3. Rest.posted = t /\ Queued(Rest) = Elements(t)
  BY <1>1, <1>2 DEF Queued, Elements
<1>4. w \in Workers
  BY <1>1 DEF Event, Ev
<1>5. ASSUME NEW v \in Workers PROVE PatchEvents(Rest, v)
  <2>1. PatchEvents(Hub, v)
    BY DEF Patches
  <2>2. PICK a, b : a = Ev("slotStopProcesses", v) /\ b = Ev("alertPatcher", v)
    OBVIOUS
  <2>3. NotAfter(q, a, b)
    BY <1>0, <1>2, <2>1, <2>2 DEF PatchEvents
  <2>4. NotAfter(t, a, b)
    BY <1>2, <2>3, TailOrder
  <2> QED BY <1>0, <1>1, <1>3, <2>1, <2>2, <2>4 DEF PatchEvents
<1>6. ASSUME NEW u \in Workers, u \notin X, NameGone(worker[u])
      PROVE  LeavesFirst(Rest, u)
  <2>1. LeavesFirst(Hub, u) /\ worker[u].mPatched
    BY <1>0, <1>6 DEF Patches, NameGone
  <2>2. PICK a : a = Ev("jacktripStopped", u)
    OBVIOUS
  <2>3. a # c
    BY <1>2, <1>6, <2>1, <2>2 DEF Ev
  <2>4. a \in Queued(Rest)
    BY <1>1, <1>2, <2>1, <2>2, <2>3 DEF LeavesFirst
  <2>5. ASSUME NEW v \in Workers \ {u}, worker[v].name = worker[u].mAssignedClientName
        PROVE  After(t, a, Ev("alertPatcher", v))
    <3>1. PICK b : b = Ev("alertPatcher", v)
      OBVIOUS
    <3>2. After(q, a, b)
      BY <1>0, <1>2, <2>1, <2>2, <2>5, <3>1 DEF LeavesFirst
    <3>3. After(t, a, b)
      BY <1>2, <2>3, <3>2, TailOrder
    <3> QED BY <3>1, <3>3
  <2> QED BY <1>1, <1>3, <2>2, <2>4, <2>5 DEF LeavesFirst
<1>7. ASSUME what = "slotStopProcesses"
      PROVE  Ev("alertPatcher", w) \notin Queued(Rest)
  <2>1. PICK a, b : a = Ev("slotStopProcesses", w) /\ b = Ev("alertPatcher", w)
    OBVIOUS
  <2>2. NotAfter(q, a, b) /\ Head(q) = a
    BY <1>0, <1>2, <1>4, <1>7, <2>1 DEF Patches, PatchEvents
  <2>3. b \notin Elements(t)
    BY <1>2, <2>2, TailOrder
  <2> QED BY <1>3, <2>1, <2>3
<1>8. ASSUME what = "alertPatcher", NEW u \in Workers, NameGone(worker[u]), u # w
      PROVE  worker[u].mAssignedClientName # worker[w].name
  <2>1. SUFFICES ASSUME worker[u].mAssignedClientName = worker[w].name
                 PROVE  FALSE
    OBVIOUS
  <2>2. PICK a, b : a = Ev("jacktripStopped", u) /\ b = Ev("alertPatcher", w)
    OBVIOUS
  <2>3. After(q, a, b)
    BY <1>0, <1>2, <1>4, <1>8, <2>1, <2>2 DEF Patches, LeavesFirst
  <2>4. Head(q) # b
    BY <1>2, <2>3, TailOrder
  <2> QED BY <1>2, <1>8, <2>2, <2>4
<1>9. Patches(Rest, X)
  <2>1. /\ Rest.clients = PatchedNames(Rest.worker)
        /\ \A v \in Workers : PatchRecord(Rest.worker[v])
        /\ \A v, u \in Workers : v # u =>
             /\ Rest.worker[u].name # NoName => Rest.worker[v].name # Rest.worker[u].name
             /\ Rest.worker[v].mPatched /\ Rest.worker[u].mPatched =>
                   Rest.worker[v].mAssignedClientName # Rest.worker[u].mAssignedClientName
    BY <1>0, <1>1 DEF Patches
  <2> QED BY <1>1, <1>5, <1>6, <2>1 DEF Patches
<1> QED BY <1>7, <1>8, <1>9

\* registerClient, by a name that no other patched worker was assigned.
LEMMA AlertPatches ==
  ASSUME NEW h, NEW X, Patches(h, X), NEW w \in Workers, NEW g, OthersSame(h, g, w),
         h.worker[w].mRunning, h.worker[w].jackTrip = "audio",
         g.worker[w] = Alerted(h.worker[w]),
         g.posted = h.posted, g.clients = h.clients \cup {h.worker[w].name},
         \A u \in Workers : NameGone(h.worker[u]) /\ u # w =>
            h.worker[u].mAssignedClientName # h.worker[w].name
  PROVE  Patches(g, X)
<1>0. /\ h \in HubType /\ h.worker[w] \in AnyWorker /\ PatchRecord(h.worker[w])
      /\ PatchEvents(h, w) /\ g \in HubType /\ \A v \in Workers \ {w} : g.worker[v] = h.worker[v]
      /\ h.clients = PatchedNames(h.worker)
  BY DEF Patches, HubType, OthersSame
<1>1. /\ g.worker[w].mPatched /\ g.worker[w].mAssignedClientName = h.worker[w].name
      /\ g.worker[w].name = h.worker[w].name /\ g.worker[w].jackTrip = "audio"
      /\ g.worker[w].mRunning /\ g.worker[w].listening = h.worker[w].listening
      /\ g.worker[w].life = h.worker[w].life
  BY <1>0 DEF AnyWorker, Alerted
<1>2. h.worker[w].name # NoName /\ Queued(g) = Queued(h)
  BY <1>0 DEF PatchRecord, Queued
<1>3. ASSUME NEW v \in Workers, v # w, h.worker[v].mPatched
      PROVE  h.worker[v].mAssignedClientName # h.worker[w].name
  <2>1. CASE h.worker[v].jackTrip = "stopped"
    BY <1>3, <2>1 DEF NameGone
  <2>2. CASE h.worker[v].jackTrip # "stopped"
    <3>1. h.worker[v].name = h.worker[v].mAssignedClientName
      BY <1>3, <2>2 DEF Patches, PatchRecord
    <3> QED BY <1>2, <1>3, <3>1 DEF Patches
  <2> QED BY <2>1, <2>2
<1>4. ASSUME NEW n
      PROVE  n \in g.clients <=> n \in PatchedNames(g.worker)
  <2>1. n \in PatchedNames(g.worker) <=>
          \E v \in Workers : g.worker[v].mPatched /\ g.worker[v].mAssignedClientName = n
    BY Zenon DEF PatchedNames
  <2>2. n \in h.clients <=>
          \E v \in Workers : h.worker[v].mPatched /\ h.worker[v].mAssignedClientName = n
    BY <1>0, Zenon DEF PatchedNames
  <2>3. h.worker[w].mPatched => h.worker[w].mAssignedClientName = h.worker[w].name
    BY <1>0 DEF PatchRecord
  <2>4. ASSUME n \in g.clients
        PROVE  \E v \in Workers : g.worker[v].mPatched /\ g.worker[v].mAssignedClientName = n
    <3>1. CASE n = h.worker[w].name
      BY <1>1, <3>1
    <3>2. CASE n # h.worker[w].name
      <4>1. PICK v \in Workers : h.worker[v].mPatched /\ h.worker[v].mAssignedClientName = n
        BY <2>2, <2>4, <3>2
      <4>2. v # w
        BY <2>3, <3>2, <4>1
      <4> QED BY <1>0, <4>1, <4>2
    <3> QED BY <3>1, <3>2
  <2>5. ASSUME NEW v \in Workers, g.worker[v].mPatched, g.worker[v].mAssignedClientName = n
        PROVE  n \in g.clients
    <3>1. CASE v = w
      BY <1>1, <2>5, <3>1
    <3>2. CASE v # w
      BY <1>0, <2>2, <2>5, <3>2
    <3> QED BY <3>1, <3>2
  <2> QED BY <2>1, <2>4, <2>5
<1>5. ASSUME NEW v \in Workers PROVE PatchRecord(g.worker[v]) /\ PatchEvents(g, v)
  <2>1. PatchRecord(h.worker[v]) /\ PatchEvents(h, v)
    BY DEF Patches
  <2>2. CASE v = w
    BY <1>0, <1>1, <1>2, <2>2 DEF PatchRecord, PatchEvents
  <2>3. CASE v # w
    BY <1>0, <1>2, <2>1, <2>3 DEF PatchEvents
  <2> QED BY <2>2, <2>3
<1>6. ASSUME NEW v \in Workers, NEW u \in Workers, v # u
      PROVE  /\ g.worker[u].name # NoName => g.worker[v].name # g.worker[u].name
             /\ g.worker[v].mPatched /\ g.worker[u].mPatched =>
                   g.worker[v].mAssignedClientName # g.worker[u].mAssignedClientName
  <2>1. g.worker[v].name = h.worker[v].name /\ g.worker[u].name = h.worker[u].name
    BY <1>0, <1>1
  <2>a. h.worker[u].name # NoName => h.worker[v].name # h.worker[u].name
    BY <1>6 DEF Patches
  <2>4. CASE v = w
    BY <1>0, <1>1, <1>3, <1>6, <2>1, <2>a, <2>4
  <2>2. CASE u = w
    BY <1>0, <1>1, <1>3, <1>6, <2>1, <2>a, <2>2
  <2>3. CASE v # w /\ u # w
    BY <1>0, <1>6, <2>3 DEF Patches
  <2> QED BY <2>4, <2>2, <2>3
<1>7. ASSUME NEW u \in Workers, u \notin X, NameGone(g.worker[u])
      PROVE  LeavesFirst(g, u)
  <2>1. u # w
    BY <1>1, <1>7 DEF NameGone
  <2>2. g.worker[u] = h.worker[u] /\ LeavesFirst(h, u)
    BY <1>0, <1>7, <2>1 DEF Patches
  <2>3. \A v \in Workers : g.worker[v].name = h.worker[v].name
    BY <1>0, <1>1
  <2> QED BY <1>2, <2>2, <2>3 DEF LeavesFirst
<1>8. g.clients = PatchedNames(g.worker)
  BY <1>4
<1> QED BY <1>0, <1>5, <1>6, <1>7, <1>8 DEF Patches

-----------------------------------------------------------------------------

\* ~JackTripWorker, when the worker is not patched.
LEMMA DestroyedPatches ==
  ASSUME NEW h, NEW X, Patches(h, X), NEW w \in Workers, ~h.worker[w].mPatched,
         NEW g, g = DestroyedHub(h, w)
  PROVE  Patches(g, X)
<1>0. h \in HubType
  BY DEF Patches
<1>1. /\ OnlyWorker(h, g, w) /\ g.worker[w] = Destroyed /\ g.clients = h.clients
      /\ g.posted = Undelivered(h.posted, w) /\ Queued(g) = {e \in Queued(h) : e.to # w}
  BY <1>0, Destroying
<1>2. /\ ~g.worker[w].mPatched /\ g.worker[w].name = NoName /\ g.worker[w].jackTrip = "none"
      /\ ~g.worker[w].listening /\ g.worker[w].life = "deleted"
  BY <1>1 DEF Destroyed, NewWorker
<1>3. OthersSame(h, g, w) /\ PatchClients(h, g, w) /\ g \in HubType
      /\ \A v \in Workers \ {w} : g.worker[v] = h.worker[v]
  BY <1>1, <1>2, OnlyWorkerOthers DEF PatchClients, OthersSame
<1>4. /\ g.clients = PatchedNames(g.worker)
      /\ \A v, u \in Workers : v # u /\ g.worker[v].mPatched /\ g.worker[u].mPatched =>
            g.worker[v].mAssignedClientName # g.worker[u].mAssignedClientName
  <2>1. PICK k : k = g
    OBVIOUS
  <2>2. OthersSame(h, k, w) /\ PatchClients(h, k, w)
    BY <1>3, <2>1
  <2>3. /\ k.clients = PatchedNames(k.worker)
        /\ \A v, u \in Workers : v # u /\ k.worker[v].mPatched /\ k.worker[u].mPatched =>
              k.worker[v].mAssignedClientName # k.worker[u].mAssignedClientName
    BY <2>2, ClientsStep
  <2> QED BY <2>1, <2>3
<1>5. PICK q, t : q \in Seq(Event) /\ q = h.posted /\ t = g.posted /\ t = Undelivered(q, w)
  BY <1>0, <1>1 DEF HubType
<1>6. \A what, v : Ev(what, v).to = v
  BY DEF Ev
<1>7. ASSUME NEW v \in Workers PROVE PatchRecord(g.worker[v]) /\ PatchEvents(g, v)
  <2>1. PatchRecord(h.worker[v]) /\ PatchEvents(h, v)
    BY DEF Patches
  <2>2. PICK a, b : a = Ev("slotStopProcesses", v) /\ b = Ev("alertPatcher", v)
    OBVIOUS
  <2>3. NotAfter(q, a, b)
    BY <1>5, <2>1, <2>2 DEF PatchEvents
  <2>4. NotAfter(t, a, b)
    BY <1>5, <2>3, DropOrder
  <2>5. CASE v = w
    <3>1. PatchRecord(g.worker[w])
      BY <1>2 DEF PatchRecord
    <3>2. a \notin Queued(g) /\ b \notin Queued(g)
      BY <1>1, <1>6, <2>2, <2>5
    <3> QED BY <1>5, <2>2, <2>4, <2>5, <3>1, <3>2 DEF PatchEvents
  <2>6. CASE v # w
    <3>1. g.worker[v] = h.worker[v] /\ Queued(g) \subseteq Queued(h)
      BY <1>1, <1>3, <2>6
    <3> QED BY <1>5, <2>1, <2>2, <2>4, <3>1 DEF PatchEvents
  <2> QED BY <2>5, <2>6
<1>8. ASSUME NEW v \in Workers, NEW u \in Workers, v # u, g.worker[u].name # NoName
      PROVE  g.worker[v].name # g.worker[u].name
  BY <1>2, <1>3, <1>8 DEF Patches
<1>9. ASSUME NEW u \in Workers, u \notin X, NameGone(g.worker[u])
      PROVE  LeavesFirst(g, u)
  <2>1. u # w
    BY <1>2, <1>9 DEF NameGone
  <2>2. g.worker[u] = h.worker[u] /\ LeavesFirst(h, u) /\ PatchRecord(h.worker[u])
    BY <1>3, <1>9, <2>1 DEF Patches
  <2>3. h.worker[u].mAssignedClientName # NoName
    BY <1>9, <2>2 DEF NameGone, PatchRecord
  <2>4. PICK a : a = Ev("jacktripStopped", u) /\ a.to # w
    BY <1>6, <2>1
  <2>5. a \in Queued(g)
    BY <1>1, <2>2, <2>4 DEF LeavesFirst
  <2>6. ASSUME NEW v \in Workers \ {u}, g.worker[v].name = h.worker[u].mAssignedClientName
        PROVE  After(t, a, Ev("alertPatcher", v))
    <3>1. v # w /\ h.worker[v].name = h.worker[u].mAssignedClientName
      BY <1>2, <1>3, <2>3, <2>6
    <3>2. PICK b : b = Ev("alertPatcher", v)
      OBVIOUS
    <3>3. After(q, a, b)
      BY <1>5, <2>2, <2>4, <3>1, <3>2 DEF LeavesFirst
    <3>4. After(t, a, b)
      BY <1>5, <2>4, <3>3, DropOrder
    <3> QED BY <3>2, <3>4
  <2> QED BY <1>5, <2>2, <2>4, <2>5, <2>6 DEF LeavesFirst
<1> QED BY <1>3, <1>4, <1>7, <1>8, <1>9 DEF Patches

\* A worker without a JACK client, and of which no event is queued.
LEMMA NoClient ==
  ASSUME NEW h, NEW X, Patches(h, X), NEW w \in Workers,
         h.worker[w].jackTrip \in {"none", "ready"}
  PROVE  /\ ~h.worker[w].mPatched /\ h.worker[w].name = NoName
         /\ Ev("alertPatcher", w) \notin Queued(h)
         /\ Ev("slotStopProcesses", w) \notin Queued(h)
BY DEF Patches, PatchRecord, PatchEvents

\* A new worker.
LEMMA AssignedPatches ==
  ASSUME Patches(Hub, {}), NEW w \in Workers, worker[w].life = "unborn",
         NEW id, NEW g, Assigned(g, id, w)
  PROVE  Patches(g, {}) /\ g.worker[w].jackTrip = "ready"
<1>0. Hub.worker = worker /\ Hub.posted = posted /\ Hub.clients = m_clients
      /\ PatchRecord(worker[w]) /\ PatchEvents(Hub, w)
  BY DEF Patches, Hub
<1>1. ~worker[w].mPatched /\ worker[w].name = NoName
      /\ Ev("alertPatcher", w) \notin Queued(Hub)
      /\ Ev("slotStopProcesses", w) \notin Queued(Hub)
  <2>1. Hub.worker[w].jackTrip \in {"none", "ready"}
    BY <1>0 DEF PatchRecord
  <2> QED BY <1>0, <2>1, NoClient
<1>2. /\ g \in HubType /\ g.worker[w] = Prepared(NewWorker, id) /\ g.posted = posted
      /\ g.clients = m_clients /\ \A v \in Workers \ {w} : g.worker[v] = worker[v]
  BY DEF Assigned, Counted
<1>3. /\ ~g.worker[w].mPatched /\ g.worker[w].name = NoName
      /\ g.worker[w].jackTrip = "ready" /\ g.worker[w].life = "alive"
  BY <1>2 DEF Prepared, NewWorker
<1>4. Queued(g) = Queued(Hub)
  BY <1>0, <1>2 DEF Queued
<1>5. PatchRecord(g.worker[w]) /\ ~NameGone(g.worker[w])
  BY <1>3 DEF PatchRecord, NameGone
<1>6. PatchEvents(g, w)
  BY <1>0, <1>1, <1>2, <1>4 DEF PatchEvents
<1>7. PatchStep(Hub, g, w, {})
  BY <1>0, <1>1, <1>2, <1>3, <1>5, <1>6 DEF PatchStep, PatchClients, OthersSame
<1> QED BY <1>3, <1>7, PatchStepping

\* startProcess.
LEMMA RunningPatches ==
  ASSUME NEW h, NEW X, Patches(h, X), NEW w \in UdpWorkers, h.worker[w].jackTrip = "ready",
         ~h.worker[w].listening, NEW g, Running(h, g, w)
  PROVE  Patches(g, X)
<1>0. /\ w \in Workers /\ h \in HubType /\ PatchRecord(h.worker[w]) /\ PatchEvents(h, w)
  BY DEF Patches, Workers
<1>1. /\ ~h.worker[w].mPatched /\ h.worker[w].name = NoName
      /\ Ev("alertPatcher", w) \notin Queued(h)
      /\ Ev("slotStopProcesses", w) \notin Queued(h)
  BY <1>0, NoClient
<1>2. /\ OnlyWorker(h, g, w) /\ g.worker[w].life = h.worker[w].life
      /\ ~g.worker[w].listening /\ g.worker[w].mRunning
      /\ g.clients = h.clients /\ ~g.worker[w].mPatched
      /\ g.worker[w].mAssignedClientName = h.worker[w].mAssignedClientName
      /\ Queued(h) \subseteq Queued(g)
  BY <1>1 DEF Running, Opened
<1>3. PatchClients(h, g, w) /\ OthersSame(h, g, w) /\ ~NameGone(g.worker[w])
      /\ h.worker[w].life # "unborn"
  BY <1>0, <1>1, <1>2, OnlyWorkerOthers DEF PatchClients, NameGone, PatchRecord
<1>4. CASE /\ g.worker[w].jackTrip = "waiting" /\ g.worker[w].name = FreshName(h)
           /\ g.posted = h.posted
  <2>1. FreshName(h) \in Names /\ \A v \in Workers : h.worker[v].name # FreshName(h)
    BY <1>0, <1>1, FreshNameIsFree
  <2>2. FreshName(h) # NoName
    BY <2>1 DEF Names, NoName
  <2>3. Queued(g) = Queued(h)
    BY <1>4 DEF Queued
  <2>4. PatchRecord(g.worker[w])
    BY <1>2, <1>3, <1>4, <2>2 DEF PatchRecord
  <2>5. PatchEvents(g, w)
    BY <1>0, <1>1, <1>4, <2>3 DEF PatchEvents
  <2>6. PatchStep(h, g, w, X)
    BY <1>1, <1>3, <1>4, <2>1, <2>4, <2>5 DEF PatchStep
  <2> QED BY <1>0, <2>6, PatchStepping
<1>5. CASE /\ g.worker[w].jackTrip = "stopped" /\ g.worker[w].name = h.worker[w].name
           /\ g.posted = Append(h.posted, [what |-> "jacktripStopped", to |-> w])
  <2>1. g.posted = Append(h.posted, Ev("jacktripStopped", w)) /\ "jacktripStopped" \in PostedEvents
    BY <1>5 DEF Ev, PostedEvents, WorkerEvents
  <2>2. Queued(g) = Queued(h) \cup {Ev("jacktripStopped", w)}
    BY <1>0, <2>1, PostedLast
  <2>3. \A a : NotAfter(h.posted, a, Ev("alertPatcher", w)) =>
                  NotAfter(g.posted, a, Ev("alertPatcher", w))
    BY <1>0, <2>1, PostedLast
  <2>4. Ev("alertPatcher", w) # Ev("jacktripStopped", w)
        /\ Ev("slotStopProcesses", w) # Ev("jacktripStopped", w)
    BY DEF Ev
  <2>5. PatchEvents(g, w)
    BY <1>0, <1>1, <2>2, <2>3, <2>4 DEF PatchEvents
  <2>6. PatchRecord(g.worker[w])
    BY <1>1, <1>2, <1>3, <1>5 DEF PatchRecord
  <2>7. PatchStep(h, g, w, X)
    BY <1>2, <1>3, <1>5, <2>1, <2>5, <2>6 DEF PatchStep
  <2> QED BY <1>0, <2>7, PatchStepping
<1> QED BY <1>4, <1>5 DEF Running, Opened

\* A duplicate is stopped and released.
LEMMA DuplicatePatches ==
  ASSUME NEW h, Patches(h, {}), NEW i \in Slots, NEW e, NEW g, g = ReleaseDuplicate(h, i, e)
  PROVE  Patches(g, {})
<1>0. h \in HubType
  BY DEF Patches
<1>1. CASE g = h
  BY <1>1
<1>2. CASE /\ IsDuplicate(h, i, e)
           /\ \E f \in HubType : Stopped(h, f, h.slot[i]) /\ g = ReleaseThread(f, i)
  <2>1. PICK v \in Workers : v = h.slot[i] /\ v # NoWorker
    BY <1>0, <1>2 DEF IsDuplicate, HubType
  <2>2. PICK f \in HubType : Stopped(h, f, v) /\ g = ReleaseThread(f, i)
    BY <1>2, <2>1
  <2>3. Patches(f, {})
    BY <2>2, StopThreadPatches
  <2>4. f.slot[i] # NoWorker
    BY <2>1, <2>2 DEF Stopped, OnlyWorker
  <2> QED BY <2>2, <2>3, <2>4, ReleasePatches
<1> QED BY <1>0, <1>1, <1>2, ReleasingDuplicate

LEMMA DuplicatesPatches ==
  ASSUME NEW h, Patches(h, {}), NEW e, NEW g, g = ReleaseDuplicates(h, e)
  PROVE  Patches(g, {})
<1>0. h \in HubType
  BY DEF Patches
<1>1. PICK f \in [0 .. MaxThreads -> HubType] :
           /\ f[0] = h
           /\ \A n \in 1 .. MaxThreads : f[n] = ReleaseDuplicate(f[n - 1], n - 1, e)
           /\ g = f[MaxThreads]
  BY <1>0, DuplicatesLoop
<1> DEFINE G == {n \in 0 .. MaxThreads : Patches(f[n], {})}
<1>2. 0 \in G
  BY <1>1, SlotBounds
<1>3. ASSUME NEW n \in 0 .. MaxThreads - 1, n \in G
      PROVE  n + 1 \in G
  <2>1. n \in Slots /\ n + 1 \in 1 .. MaxThreads /\ n + 1 \in 0 .. MaxThreads /\ (n + 1) - 1 = n
    BY SlotBounds
  <2>2. f[n + 1] = ReleaseDuplicate(f[n], n, e)
    BY <1>1, <2>1
  <2>3. PICK p, q : p = f[n] /\ q = f[n + 1]
    OBVIOUS
  <2>4. Patches(p, {}) /\ q = ReleaseDuplicate(p, n, e)
    BY <1>3, <2>2, <2>3
  <2>5. Patches(q, {})
    BY <2>1, <2>4, DuplicatePatches
  <2> QED BY <2>1, <2>3, <2>5
<1> HIDE DEF G
<1>4. \A n \in 0 .. MaxThreads : n \in G
  BY <1>2, <1>3, SlotBounds, CountUp
<1>5. MaxThreads \in G
  BY <1>4, SlotBounds
<1> QED BY <1>1, <1>5 DEF G

LEMMA StopAllPatches ==
  ASSUME NEW h, Patches(h, {}), NEW g, g = StopAllThreads(h)
  PROVE  Patches(g, {})
<1>0. h \in HubType
  BY DEF Patches
<1>1. PICK f \in [0 .. MaxThreads -> HubType] :
           /\ f[0] = h
           /\ \A n \in 1 .. MaxThreads : f[n] = StopWorkerIn(f[n - 1], n - 1)
           /\ g = f[MaxThreads]
  BY <1>0, StopLoop
<1> DEFINE G == {n \in 0 .. MaxThreads : Patches(f[n], {})}
<1>2. 0 \in G
  BY <1>1, SlotBounds
<1>3. ASSUME NEW n \in 0 .. MaxThreads - 1, n \in G
      PROVE  n + 1 \in G
  <2>1. n \in Slots /\ n + 1 \in 1 .. MaxThreads /\ n + 1 \in 0 .. MaxThreads /\ (n + 1) - 1 = n
    BY SlotBounds
  <2>2. f[n + 1] = StopWorkerIn(f[n], n)
    BY <1>1, <2>1
  <2>3. PICK p, q : p = f[n] /\ q = f[n + 1] /\ p \in HubType
    BY <1>1, <1>3
  <2>4. Patches(p, {}) /\ q = StopWorkerIn(p, n)
    BY <1>3, <2>2, <2>3
  <2>5. q = p \/ (p.slot[n] \in Workers /\ Stopped(p, q, p.slot[n]))
    BY <2>1, <2>3, <2>4, StoppingWorkerIn
  <2>6. CASE q = p
    BY <2>1, <2>3, <2>4, <2>6
  <2>7. CASE p.slot[n] \in Workers /\ Stopped(p, q, p.slot[n])
    <3>1. PICK v \in Workers : Stopped(p, q, v)
      BY <2>7
    <3>2. Patches(q, {})
      BY <2>4, <3>1, StopThreadPatches
    <3> QED BY <2>1, <2>3, <3>2
  <2> QED BY <2>5, <2>6, <2>7
<1> HIDE DEF G
<1>4. \A n \in 0 .. MaxThreads : n \in G
  BY <1>2, <1>3, SlotBounds, CountUp
<1>5. MaxThreads \in G
  BY <1>4, SlotBounds
<1> QED BY <1>1, <1>5 DEF G

-----------------------------------------------------------------------------

PatchInv == Patches(Hub, {})

LEMMA PatchBecome == ASSUME NEW s, Patches(s, {}), Become(s) PROVE PatchInv'
<1>1. s \in HubType
  BY DEF Patches
<1>2. Hub' = s
  BY <1>1, Becoming
<1>3. Patches(Hub', {})
  BY <1>2
<1> QED BY <1>3 DEF PatchInv, Patches, HubType, PatchRecord, PatchEvents, PatchedNames, NameGone,
                    LeavesFirst, Queued, After, NotAfter, Before, Ev

\* receivedFirstPacketUDP: the old workers of the client leave, and the new one starts.
LEMMA FirstPacketPatches ==
  ASSUME UdpInv, PatchInv, NEW w \in UdpWorkers, NEW e \in Endpoints, NEW outcome \in Outcomes,
         ReceivedFirstPacketUDP(w, e, outcome)
  PROVE  PatchInv'
<1> DEFINE r == [worker[w] EXCEPT !.listening = FALSE]
<1>0. /\ UdpHub(Hub, {}) /\ Patches(Hub, {}) /\ Hub.worker = worker /\ Hub.slot = mJTWorkers
      /\ Hub \in HubType /\ w \in Workers /\ worker[w] \in AnyWorker
  BY DEF UdpInv, PatchInv, UdpHub, Counted, Hub, HubType, Workers
<1>1. /\ worker[w].listening /\ ~worker[w].mRunning /\ worker[w].mClientPort = NoEndpoint
      /\ worker[w].channel = "none" /\ worker[w].mID \in Slots /\ Hub.slot[worker[w].mID] = w
      /\ worker[w].jackTrip = "ready"
  BY <1>0 DEF ReceivedFirstPacketUDP, UdpHub, Sound, HoldsSlot, AnyWorker, Patches, PatchRecord
<1>2. /\ r \in AnyWorker /\ r.life = Hub.worker[w].life /\ r.mID = worker[w].mID
      /\ r.mClientPort = NoEndpoint /\ r.channel = "none" /\ ~r.listening /\ ~r.mRunning
      /\ r.mRunning = Hub.worker[w].mRunning
  BY <1>0, <1>1 DEF AnyWorker
<1>3. SameClient(Hub.worker[w], r) /\ r.jackTrip = "ready"
  BY <1>0, <1>1 DEF AnyWorker, SameClient
<1>4. PICK h : h = With(Hub, w, r)
  OBVIOUS
<1>5. h = [Hub EXCEPT !.worker[w].listening = FALSE]
  BY <1>0, <1>4 DEF With
<1>6. PICK id \in Slots : id = worker[w].mID
  BY <1>1
<1> HIDE DEF r
<1>7. {} \subseteq {w} /\ w \in {w}
  OBVIOUS
<1>8. UdpHub(h, {w}) /\ h.slot = Hub.slot /\ h.worker[w] = r
  BY <1>0, <1>2, <1>4, <1>7, WithIdleStep
<1>9. Patches(h, {})
  BY <1>0, <1>2, <1>3, <1>4, WithPatches
<1>10. PICK f : f = ReleaseDuplicates(h, e)
  OBVIOUS
<1>11. UdpHub(f, {w}) /\ f.slot[id] = w /\ f.worker[w] = r
  <2>1. \A i \in Slots : ~(i < 0)
    BY SlotBounds
  <2>2. Replacing(h, w, r, id, e, 0)
    BY <1>1, <1>6, <1>8, <2>1 DEF Replacing
  <2>3. Replacing(f, w, r, id, e, MaxThreads)
    BY <1>0, <1>2, <1>10, <2>2, Replaced
  <2> QED BY <2>3 DEF Replacing
<1>12. Patches(f, {})
  BY <1>9, <1>10, DuplicatesPatches
<1> DEFINE x == [f.worker[w] EXCEPT !.mClientPort = e]
<1>13. /\ x \in AnyWorker /\ x.life = f.worker[w].life /\ x.mID = id
       /\ ~x.listening /\ x.mRunning = f.worker[w].mRunning
       /\ x.jackTrip = "ready" /\ SameClient(f.worker[w], x)
  BY <1>2, <1>3, <1>6, <1>11 DEF AnyWorker, SameClient
<1>14. PICK g : g = With(f, w, x)
  OBVIOUS
<1>15. g = ReleaseDuplicateThreads(h, w, e)
  BY <1>10, <1>14 DEF ReleaseDuplicateThreads, With
<1> HIDE DEF x
<1>16. Patches(g, {}) /\ g.slot = f.slot /\ g.worker[w] = x
  BY <1>0, <1>12, <1>13, <1>14, WithPatches
<1>17. PICK s : s = ProcessPeerSettings(g, w, outcome) /\ Become(s)
  BY <1>5, <1>15 DEF ReceivedFirstPacketUDP
<1>18. g \in HubType /\ g.worker[w].mID = id
  BY <1>13, <1>16 DEF Patches
<1> DEFINE y == [g.worker[w] EXCEPT !.mSpawning = FALSE]
<1>19. /\ y \in AnyWorker /\ y.life = g.worker[w].life /\ ~y.listening
       /\ y.mRunning = g.worker[w].mRunning /\ SameClient(g.worker[w], y)
  BY <1>13, <1>16 DEF AnyWorker, SameClient
<1>20. PICK p : p = With(g, w, y)
  OBVIOUS
<1>21. Running(g, s, w) \/ s = ReleaseThread(p, id)
  BY <1>0, <1>17, <1>18, <1>20, Processing, Zenon
<1> HIDE DEF y
<1>22. CASE Running(g, s, w)
  <2>1. Patches(s, {})
    BY <1>13, <1>16, <1>22, RunningPatches
  <2> QED BY <1>17, <2>1, PatchBecome
<1>23. CASE s = ReleaseThread(p, id)
  <2>1. Patches(p, {}) /\ p.slot = g.slot
    BY <1>0, <1>16, <1>19, <1>20, WithPatches
  <2>2. p.slot[id] # NoWorker
    BY <1>0, <1>11, <1>16, <2>1, PoolAssumption
  <2>3. Patches(s, {})
    BY <1>23, <2>1, <2>2, ReleasePatches
  <2> QED BY <1>17, <2>3, PatchBecome
<1> QED BY <1>21, <1>22, <1>23

\* JackTrip::receivedFirstPacketUDP while it waits: the audio starts.
LEMMA CompletedPatches ==
  ASSUME Patches(Hub, {}), NEW w \in Workers, worker[w].jackTrip = "waiting",
         JackTripFirstPacket(w)
  PROVE  PatchInv'
<1> DEFINE r == [worker[w] EXCEPT !.jackTrip = "audio"]
<1>0. /\ Hub \in HubType /\ Hub.worker = worker /\ worker[w] \in AnyWorker
      /\ PatchRecord(worker[w]) /\ PatchEvents(Hub, w)
  BY DEF Patches, Hub, HubType
<1>1. /\ r \in AnyWorker /\ r.jackTrip = "audio" /\ r.name = worker[w].name
      /\ r.mPatched = worker[w].mPatched /\ r.mAssignedClientName = worker[w].mAssignedClientName
      /\ r.mRunning = worker[w].mRunning /\ r.listening = worker[w].listening
      /\ r.life = worker[w].life
  BY <1>0 DEF AnyWorker
<1>2. PICK h : h = With(Hub, w, r)
  OBVIOUS
<1>3. h = [Hub EXCEPT !.worker[w].jackTrip = "audio"]
  BY <1>0, <1>2 DEF With
<1>4. PICK s : s = Post(h, "alertPatcher", w) /\ Become(s)
  BY <1>3 DEF JackTripFirstPacket
<1> HIDE DEF r
<1>5. /\ OnlyWorker(Hub, h, w) /\ h.worker[w] = r
      /\ h.posted = Hub.posted /\ h.clients = Hub.clients
  BY <1>0, <1>1, <1>2, SetWorker
<1>6. Ev("alertPatcher", w) \notin Queued(Hub) /\ Ev("slotStopProcesses", w) \notin Queued(Hub)
  BY <1>0 DEF PatchEvents
<1>7. Queued(h) = Queued(Hub)
  BY <1>5 DEF Queued
<1>8. PatchRecord(h.worker[w]) /\ ~NameGone(h.worker[w])
  BY <1>0, <1>1, <1>5 DEF PatchRecord, NameGone
<1>9. PatchEvents(h, w)
  BY <1>0, <1>5, <1>6, <1>7 DEF PatchEvents
<1>10. PatchStep(Hub, h, w, {})
  BY <1>0, <1>1, <1>5, <1>8, <1>9, OnlyWorkerOthers DEF PatchStep, PatchClients
<1>11. Patches(h, {})
  BY <1>10, PatchStepping
<1>12. Patches(s, {})
  BY <1>1, <1>4, <1>5, <1>6, <1>7, <1>11, PostPatches
<1> QED BY <1>4, <1>12, PatchBecome

\* JackTripWorker::jacktripStopped: the worker unregisters and is released.
LEMMA StoppedPatches ==
  ASSUME UdpInv, PatchInv, NEW w \in Workers, JacktripStopped(w)
  PROVE  PatchInv'
<1>0. /\ UdpHub(Hub, {}) /\ Patches(Hub, {}) /\ Hub.worker = worker /\ Hub.slot = mJTWorkers
      /\ Hub \in HubType /\ worker[w] \in AnyWorker /\ worker[w].mID \in Slots /\ w # NoWorker
      /\ Sound(worker[w]) /\ HoldsSlot(Hub, w) /\ PatchRecord(worker[w])
  BY PoolAssumption DEF UdpInv, PatchInv, UdpHub, Counted, Patches, Hub, HubType, AnyWorker
<1>1. Delivered("jacktripStopped", w)
  BY DEF JacktripStopped
<1>2. CASE ~worker[w].mRunning
  <2>1. Become(Rest) /\ ~worker[w].mPatched
    BY <1>0, <1>2 DEF JacktripStopped, PatchRecord
  <2>2. Patches(Rest, {})
    BY <1>0, <1>1, <2>1, RestPatches
  <2> QED BY <2>1, <2>2, PatchBecome
<1>3. CASE worker[w].mRunning
  <2> DEFINE X == {w}
  <2>1. w \in X /\ X \subseteq {} \cup {w}
    OBVIOUS
  <2> HIDE DEF X
  <2>2. /\ Patches(Rest, X) /\ Rest \in HubType /\ Rest.worker = worker
        /\ Rest.slot = mJTWorkers
    BY <1>0, <1>1, <2>1, RestPatches, Taking
  <2> DEFINE r == [worker[w] EXCEPT !.mRunning = FALSE]
  <2>3. ~worker[w].listening /\ ~worker[w].mSpawning
    BY <1>0, <1>3 DEF Sound
  <2>4. r \in AnyWorker /\ SameClient(worker[w], r) /\ r.life = worker[w].life
        /\ ~r.mRunning /\ r.listening = worker[w].listening
    BY <1>0 DEF AnyWorker, SameClient
  <2>5. PICK h, f : h = With(Rest, w, r) /\ f = Unpatch(h, w)
    OBVIOUS
  <2>6. h = [Rest EXCEPT !.worker[w].mRunning = FALSE]
    BY <2>2, <2>5 DEF With
  <2>7. PICK id \in Slots : id = worker[w].mID
    BY <1>0
  <2> HIDE DEF r
  <2>8. /\ OnlyWorker(Rest, h, w) /\ h.worker[w] = r
        /\ h.posted = Rest.posted /\ h.clients = Rest.clients
    BY <2>2, <2>4, <2>5, SetWorker
  <2>9. h \in HubType /\ h.worker[w] \in AnyWorker
    BY <2>8 DEF OnlyWorker, HubType
  <2>10. /\ OnlyWorker(h, f, w) /\ f.posted = h.posted
         /\ f.worker[w] = Unpatched(h.worker[w])
         /\ f.clients = IF h.worker[w].mPatched
                        THEN h.clients \ {h.worker[w].mAssignedClientName} ELSE h.clients
    BY <2>5, <2>9, Unpatching
  <2>11. /\ ~f.worker[w].mPatched /\ f.worker[w].jackTrip = worker[w].jackTrip
         /\ f.worker[w].name = worker[w].name /\ ~f.worker[w].mRunning
         /\ f.worker[w].listening = worker[w].listening /\ f.worker[w].life = worker[w].life
    BY <2>4, <2>8, <2>9, <2>10 DEF Unpatched, AnyWorker, SameClient
  <2>12. OnlyWorker(Rest, f, w) /\ f.posted = Rest.posted
    BY <2>8, <2>10 DEF OnlyWorker
  <2>13. f.clients = IF Rest.worker[w].mPatched
                     THEN Rest.clients \ {Rest.worker[w].mAssignedClientName} ELSE Rest.clients
    BY <2>2, <2>4, <2>8, <2>10 DEF SameClient
  <2>14. PatchRecord(f.worker[w]) /\ ~NameGone(f.worker[w])
    BY <1>0, <2>11 DEF PatchRecord, NameGone
  <2>15. PatchEvents(Rest, w) /\ Queued(f) = Queued(Rest)
    BY <2>2, <2>12 DEF Patches, Queued
  <2>16. PatchEvents(f, w)
    BY <2>2, <2>11, <2>12, <2>15 DEF PatchEvents
  <2>17. PatchStep(Rest, f, w, X)
    BY <2>2, <2>11, <2>12, <2>13, <2>14, <2>16, OnlyWorkerOthers DEF PatchStep, PatchClients
  <2>18. Patches(f, X)
    BY <2>2, <2>17, PatchStepping
  <2>19. Patches(f, {})
    BY <2>1, <2>11, <2>18, PatchAgain
  <2>20. f.slot[id] # NoWorker
    BY <1>0, <1>3, <2>2, <2>7, <2>12 DEF HoldsSlot, OnlyWorker
  <2>21. PICK s : s = ReleaseThread(f, id) /\ Become(s)
    BY <1>3, <2>3, <2>5, <2>6, <2>7 DEF JacktripStopped
  <2>22. Patches(s, {})
    BY <2>19, <2>20, <2>21, ReleasePatches
  <2> QED BY <2>21, <2>22, PatchBecome
<1> QED BY <1>2, <1>3

\* Every handler keeps the patcher's list in step when no client comes by WebRTC.
LEMMA NextPatchInv == ASSUME RtcWorkers = {} PROVE UdpInv /\ PatchInv /\ [Next]_vars => PatchInv'
<1> SUFFICES ASSUME UdpInv, PatchInv, [Next]_vars
             PROVE  PatchInv'
  OBVIOUS
<1>0. /\ UdpHub(Hub, {}) /\ Patches(Hub, {}) /\ Hub.worker = worker /\ Hub.slot = mJTWorkers
      /\ Hub \in HubType /\ worker \in [Workers -> AnyWorker]
      /\ Workers = UdpWorkers
  BY DEF UdpInv, PatchInv, UdpHub, Counted, Hub, HubType, Workers
<1>a. \A w \in Workers : /\ worker[w] \in AnyWorker /\ worker[w].mID \in Slots /\ w # NoWorker
                         /\ Sound(worker[w]) /\ HoldsSlot(Hub, w)
                         /\ PatchRecord(worker[w]) /\ PatchEvents(Hub, w)
  BY <1>0, PoolAssumption DEF AnyWorker, UdpHub, Patches
<1>1. ASSUME NEW w \in UdpWorkers, NEW reached \in BOOLEAN, NEW iceBound \in BOOLEAN,
             NewUdpClient(w, reached, iceBound)
      PROVE  PatchInv'
  <2>1. w \in Workers /\ worker[w].life = "unborn" /\ FreeSlots # {} /\ Counted(Hub)
    BY <1>0, <1>1 DEF NewUdpClient, UdpHub
  <2>2. PICK id, g : id = Min(FreeSlots) /\ g = SetJackTrip(CreateWorker(Hub, id, w), id, w)
    OBVIOUS
  <2>3. Assigned(g, id, w)
    BY <2>1, <2>2, NewUdpWorker
  <2>4. Patches(g, {}) /\ g.worker[w].jackTrip = "ready"
    BY <1>0, <2>1, <2>3, AssignedPatches
  <2>5. id \in Slots /\ g.slot[id] # NoWorker /\ g \in HubType
    BY <1>a, <2>1, <2>3, <1>0 DEF Assigned, Counted, HubType
  <2>6. PICK s : /\ Become(s)
                 /\ \/ s = ReleaseThread(g, id) \/ s = Die(g, "bind")
                    \/ s = [g EXCEPT !.worker[w].listening = TRUE]
    BY <1>1, <2>2 DEF NewUdpClient
  <2>7. CASE s = ReleaseThread(g, id)
    BY <2>4, <2>5, <2>6, <2>7, ReleasePatches, PatchBecome
  <2>8. CASE s = Die(g, "bind")
    <3>1. s \in HubType /\ s.worker = g.worker /\ s.clients = g.clients /\ s.posted = g.posted
      BY <2>5, <2>8, Dying
    <3>2. Patches(s, {})
      BY <2>4, <3>1, SameWorkersPatches
    <3> QED BY <2>6, <3>2, PatchBecome
  <2>9. CASE s = [g EXCEPT !.worker[w].listening = TRUE]
    <3> DEFINE r == [g.worker[w] EXCEPT !.listening = TRUE]
    <3>1. g.worker[w] \in AnyWorker
      BY <2>1, <2>5 DEF HubType
    <3>2. r \in AnyWorker /\ SameClient(g.worker[w], r)
          /\ r.mRunning = g.worker[w].mRunning /\ r.life = g.worker[w].life
      BY <3>1 DEF AnyWorker, SameClient
    <3>3. s = With(g, w, r)
      BY <2>9 DEF With
    <3> HIDE DEF r
    <3>4. w \in Workers /\ (r.listening => g.worker[w].jackTrip = "ready")
      BY <2>1, <2>4
    <3>5. Patches(g, {})
      BY <2>4
    <3>6. Patches(s, {})
      BY <3>2, <3>3, <3>4, <3>5, WithPatches
    <3> QED BY <2>6, <3>6, PatchBecome
  <2> QED BY <2>6, <2>7, <2>8, <2>9
<1>2. ASSUME NEW w \in Workers, GiveUpOnClient(w)
      PROVE  PatchInv'
  <2> DEFINE r == [worker[w] EXCEPT !.listening = FALSE, !.mSpawning = FALSE]
  <2>1. worker[w] \in AnyWorker /\ worker[w].listening
    BY <1>a, <1>2 DEF GiveUpOnClient
  <2>2. /\ r \in AnyWorker /\ r.life = worker[w].life /\ ~r.listening
        /\ r.mRunning = worker[w].mRunning /\ SameClient(worker[w], r)
    BY <2>1 DEF AnyWorker, SameClient
  <2>3. PICK h : h = With(Hub, w, r)
    OBVIOUS
  <2>4. h = [Hub EXCEPT !.worker[w].listening = FALSE, !.worker[w].mSpawning = FALSE]
    BY <1>0, <2>3 DEF With, Hub
  <2>5. PICK id \in Slots : id = worker[w].mID
    BY <1>a
  <2> HIDE DEF r
  <2>6. Patches(h, {}) /\ h.slot = Hub.slot
    BY <1>0, <2>2, <2>3, WithPatches
  <2>7. h.slot[id] # NoWorker
    BY <1>0, <1>a, <2>1, <2>5, <2>6 DEF HoldsSlot
  <2>8. PICK s : s = ReleaseThread(h, id) /\ Become(s)
    BY <1>2, <2>4, <2>5 DEF GiveUpOnClient
  <2>9. Patches(s, {})
    BY <2>6, <2>7, <2>8, ReleasePatches
  <2> QED BY <2>8, <2>9, PatchBecome
<1>3. ASSUME NEW w \in Workers, JackTripFirstPacket(w)
      PROVE  PatchInv'
  <2>1. CASE worker[w].jackTrip = "stopped"
    <3>1. PICK s : s = Die(Hub, "completeConnection") /\ Become(s)
      BY <1>3, <2>1 DEF JackTripFirstPacket
    <3>2. /\ s \in HubType /\ s.worker = Hub.worker /\ s.posted = Hub.posted
          /\ s.clients = Hub.clients
      BY <1>0, <3>1, Dying
    <3>3. Patches(s, {})
      BY <1>0, <3>2, SameWorkersPatches
    <3> QED BY <3>1, <3>3, PatchBecome
  <2>2. CASE worker[w].jackTrip = "waiting"
    BY <1>0, <1>3, <2>2, CompletedPatches
  <2> QED BY <1>3, <2>1, <2>2 DEF JackTripFirstPacket
<1>4. ASSUME NEW w \in Workers, JackTripTimeout(w)
      PROVE  PatchInv'
  <2>1. PICK h : h = StopJackTrip(Hub, w)
    OBVIOUS
  <2>2. Patches(h, {})
    <3>1. CASE worker[w].jackTrip = "waiting"
      <4>1. Ev("alertPatcher", w) \notin Queued(Hub)
        BY <1>0, <1>a, <3>1 DEF PatchEvents
      <4> QED BY <1>0, <2>1, <4>1, StopJackTripPatches
    <3>2. CASE worker[w].jackTrip = "stopped"
      <4>1. h = Hub
        BY <1>0, <2>1, <3>2 DEF StopJackTrip
      <4> QED BY <1>0, <4>1
    <3> QED BY <1>4, <3>1, <3>2 DEF JackTripTimeout
  <2>3. h.worker[w] \in AnyWorker /\ PatchRecord(h.worker[w])
    BY <2>2 DEF Patches, HubType
  <2> DEFINE r == [h.worker[w] EXCEPT !.socket = FALSE]
  <2>4. /\ r \in AnyWorker /\ SameClient(h.worker[w], r) /\ r.mRunning = h.worker[w].mRunning
        /\ r.life = h.worker[w].life /\ r.listening = h.worker[w].listening
    BY <2>3 DEF AnyWorker, SameClient
  <2>5. PICK s : s = With(h, w, r) /\ Become(s)
    BY <1>4, <2>1 DEF JackTripTimeout, With
  <2>6. r.listening => h.worker[w].jackTrip = "ready"
    BY <2>3, <2>4 DEF PatchRecord
  <2> HIDE DEF r
  <2>7. Patches(s, {})
    BY <2>2, <2>4, <2>5, <2>6, WithPatches
  <2> QED BY <2>5, <2>7, PatchBecome
<1>5. ASSUME NEW w \in Workers, PeerGone(w)
      PROVE  PatchInv'
  <2>1. PICK s : s = Post(Hub, "slotStopProcesses", w) /\ Become(s)
    BY <1>5 DEF PeerGone
  <2>2. Hub.worker[w].jackTrip = "audio"
    BY <1>0, <1>5 DEF PeerGone
  <2>3. Patches(s, {})
    BY <1>0, <2>1, <2>2, PostPatches
  <2> QED BY <2>1, <2>3, PatchBecome
<1>6. ASSUME NEW w \in Workers, RtcMessage(w) \/ \E what \in RtcSignals : RtcSignal(w, what)
      PROVE  PatchInv'
  BY <1>6, <1>a DEF RtcMessage, RtcSignal, Sound
<1>7. ASSUME NEW w \in Workers, JacktripStopped(w)
      PROVE  PatchInv'
  BY <1>7, StoppedPatches
<1>8. ASSUME NEW w \in Workers, AlertPatcher(w)
      PROVE  PatchInv'
  <2>1. /\ Patches(Rest, {}) /\ Rest \in HubType /\ Rest.worker = worker
        /\ \A u \in Workers : NameGone(worker[u]) /\ u # w =>
              worker[u].mAssignedClientName # worker[w].name
        /\ [what |-> "alertPatcher", to |-> w] \in Queued(Hub)
    BY <1>0, <1>8, RestPatches, Taking DEF AlertPatcher
  <2>2. PICK g : g = AlertedHub(Rest, w)
    OBVIOUS
  <2>3. CASE worker[w].mRunning
    <3>1. Become(g)
      BY <1>8, <2>1, <2>2, <2>3 DEF AlertPatcher, AlertedHub
    <3>2. worker[w].jackTrip = "audio"
      BY <1>0, <1>a, <2>1, <2>3 DEF PatchEvents, Ev
    <3>3. /\ OnlyWorker(Rest, g, w) /\ g.posted = Rest.posted
          /\ g.clients = Rest.clients \cup {Rest.worker[w].name}
          /\ g.worker[w] = Alerted(Rest.worker[w])
      <4>1. Rest \in HubType
        BY <2>1
      <4> QED BY <2>2, <4>1, Alerting
    <3>4. OthersSame(Rest, g, w)
      BY <3>3, OnlyWorkerOthers
    <3>5. Patches(g, {})
      BY <2>1, <2>3, <3>2, <3>3, <3>4, AlertPatches
    <3> QED BY <3>1, <3>5, PatchBecome
  <2>4. CASE ~worker[w].mRunning
    <3>1. Become(Rest)
      BY <1>8, <2>4 DEF AlertPatcher
    <3> QED BY <2>1, <3>1, PatchBecome
  <2> QED BY <2>3, <2>4
<1>9. ASSUME NEW w \in Workers, SlotStopProcesses(w)
      PROVE  PatchInv'
  <2>1. Patches(Rest, {}) /\ Ev("alertPatcher", w) \notin Queued(Rest)
    BY <1>0, <1>9, RestPatches DEF SlotStopProcesses
  <2>2. PICK s : s = StopJackTrip(Rest, w) /\ Become(s)
    BY <1>9 DEF SlotStopProcesses
  <2>3. Patches(s, {})
    BY <2>1, <2>2, StopJackTripPatches
  <2> QED BY <2>2, <2>3, PatchBecome
<1>10. ASSUME NEW w \in Workers,
              \/ OnWebRtcDataChannelOpen(w) \/ OnWebRtcGone(w) \/ HandleWorkerRemoval(w)
              \/ \E outcome \in Outcomes : ReceivedFirstPacketWebRtc(w, outcome)
       PROVE  PatchInv'
  <2>1. PICK what \in {"open", "closed", "failed", "handleWorkerRemoval", "message"} :
           Delivered(what, w)
    BY <1>10 DEF OnWebRtcDataChannelOpen, OnWebRtcGone, HandleWorkerRemoval,
                 ReceivedFirstPacketWebRtc
  <2>2. what \in WorkerEvents \cup {"delete"}
    BY <2>1, UdpRest
  <2> QED BY <2>2 DEF WorkerEvents
<1>11. ASSUME NEW w \in Workers, Delete(w)
       PROVE  PatchInv'
  <2>1. Patches(Rest, {}) /\ Rest \in HubType
    <3>1. Patches(Rest, {})
      BY <1>0, <1>11, RestPatches DEF Delete
    <3> QED BY <3>1 DEF Patches
  <2>2. PICK h, s : /\ h = StopThread(Rest, w) /\ Become(s)
                    /\ s = DestroyedHub(h, w)
    BY <1>11 DEF Delete, Destroyed, DestroyedHub
  <2>3. Stopped(Rest, h, w)
    BY <2>1, <2>2, StoppingThread
  <2>4. Patches(h, {})
    BY <2>1, <2>3, StopThreadPatches
  <2>5. ~h.worker[w].mPatched
    BY <2>3, <2>4 DEF Stopped, Patches, PatchRecord
  <2>6. Patches(s, {})
    BY <2>2, <2>4, <2>5, DestroyedPatches
  <2> QED BY <2>2, <2>6, PatchBecome
<1>12. CASE StopCheck
  <2>1. PICK h, s : h = StopAllThreads(Hub) /\ s = [h EXCEPT !.stopped = TRUE] /\ Become(s)
    BY <1>12 DEF StopCheck
  <2>2. Patches(h, {}) /\ h \in HubType
    BY <1>0, <2>1, StopAllPatches DEF Patches
  <2>3. /\ s \in HubType /\ s.worker = h.worker /\ s.posted = h.posted /\ s.clients = h.clients
    BY <2>1, <2>2, MarkStopped
  <2>4. Patches(s, {})
    BY <2>2, <2>3, SameWorkersPatches
  <2> QED BY <2>1, <2>4, PatchBecome
<1>13. CASE UNCHANGED vars
  <2>1. Hub' = Hub
    BY <1>13 DEF vars, Hub
  <2>2. Patches(Hub', {})
    BY <1>0, <2>1
  <2> QED BY <2>2 DEF PatchInv, Patches, HubType, PatchRecord, PatchEvents, PatchedNames, NameGone,
                      LeavesFirst, Queued, After, NotAfter, Before, Ev
<1> QED
  BY <1>0, <1>1, <1>2, <1>3, <1>4, <1>5, <1>6, <1>7, <1>8, <1>9, <1>10, <1>11, <1>12, <1>13,
     FirstPacketPatches
     DEF Next, SocketOrTimer, OtherThread, Deliver

LEMMA InitPatchInv == Init => PatchInv
<1> SUFFICES ASSUME Init PROVE PatchInv
  OBVIOUS
<1>1. Counted(Hub) /\ Hub \in HubType
  BY InitSlotsInv DEF SlotsInv, Counted
<1>2. /\ Hub.worker = worker /\ Hub.posted = << >> /\ Hub.clients = {}
      /\ \A w \in Workers : worker[w] = [NewWorker EXCEPT !.life = "unborn"]
  BY DEF Init, Hub
<1>3. Queued(Hub) = {} /\ Elements(Hub.posted) = {}
  BY <1>2 DEF Queued, Elements
<1>4. ASSUME NEW w \in Workers
      PROVE  /\ ~worker[w].mPatched /\ worker[w].name = NoName /\ worker[w].jackTrip = "none"
             /\ ~worker[w].listening
  BY <1>2 DEF NewWorker
<1>5. PatchedNames(worker) = {}
  BY <1>4 DEF PatchedNames
<1>6. ASSUME NEW w \in Workers PROVE PatchRecord(worker[w]) /\ PatchEvents(Hub, w)
  <2>1. PatchRecord(worker[w])
    BY <1>4 DEF PatchRecord
  <2>2. NotAfter(Hub.posted, Ev("slotStopProcesses", w), Ev("alertPatcher", w))
    BY <1>3, AbsentOrder
  <2> QED BY <1>3, <2>1, <2>2 DEF PatchEvents
<1> QED BY <1>1, <1>2, <1>4, <1>5, <1>6 DEF PatchInv, Patches, NameGone

\* With UDP clients only, the patcher's list is the names of the running patched
\* workers, each its own, however late a worker is told that its JackTrip, and
\* so its JACK name, is gone: what it posted when it stopped is delivered before
\* the next owner of the name registers it (JackTripWorker.cpp:429-456,
\* Patcher.cpp:59 and 188).
THEOREM PatcherKeepsTrack == ASSUME RtcWorkers = {} PROVE Spec => []PatcherTracksWorkers
<1>1. PatchInv => PatcherTracksWorkers
  <2>1. Hub.clients = m_clients /\ Hub.worker = worker
    BY DEF Hub
  <2> QED BY <2>1 DEF PatchInv, Patches, PatchRecord, PatchedNames, PatcherTracksWorkers
<1>2. Init => UdpInv /\ PatchInv
  BY InitUdpInv, InitPatchInv
<1>3. UdpInv /\ PatchInv /\ [Next]_vars => (UdpInv /\ PatchInv)'
  BY NextUdpInv, NextPatchInv
<1> QED BY <1>1, <1>2, <1>3, PTL DEF Spec
=============================================================================
