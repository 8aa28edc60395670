----------------------------- MODULE HubListener -----------------------------
(***************************************************************************)
(* src/src/UdpHubListener.cpp and JackTripWorker.cpp: the hub server's pool *)
(* of workers, one per client, with the part of JackTrip.cpp that a worker  *)
(* drives (starting, waiting for the client's datagrams, stopping) and the  *)
(* list of clients the patcher connects.                                    *)
(*                                                                         *)
(* Everything here runs on the thread of the hub's Qt event loop, one       *)
(* handler at a time.  What a handler posts (queued signals, deleteLater)   *)
(* is delivered in the order posted; a socket, a timer or a new client may  *)
(* be served before any of it, since the dispatcher activates every ready   *)
(* notifier before it returns to the posted events.  A receiver's thread    *)
(* posts to the loop, and so do the callbacks of the WebRTC library.        *)
(*                                                                         *)
(* Every worker is one client's connection.  All clients have the same      *)
(* JACK client name, so JACK numbers them: the case in which names are      *)
(* reused.  Authentication, TLS sniffing and the other HTTP requests of     *)
(* readyRead come before a worker exists and are left out; so is the        *)
(* WebTransport session.                                                    *)
(***************************************************************************)
EXTENDS Integers, Sequences, FiniteSets, FiniteSetsExt

CONSTANTS
  UdpWorkers,   \* workers of clients that connect by TCP and send UDP
  RtcWorkers,   \* workers of WebRTC clients
  NoWorker,     \* an empty slot
  MaxThreads,   \* gMaxThreads
  Endpoints,    \* client addresses with their UDP ports
  NoEndpoint,   \* mClientPort = 0: the client's port is not known yet
  NullIsFatal   \* a build in which deleteLater() of a null pointer ends the process

Workers == UdpWorkers \cup RtcWorkers

ASSUME PoolAssumption ==
  /\ UdpWorkers \cap RtcWorkers = {} /\ IsFiniteSet(Workers)
  /\ NoWorker \notin Workers /\ NoEndpoint \notin Endpoints
  /\ MaxThreads \in Nat \ {0} /\ NullIsFatal \in BOOLEAN

VARIABLES
  mJTWorkers,            \* slot -> worker
  mTotalRunningThreads,
  worker,                \* the JackTripWorker objects and their JackTrip
  m_clients,             \* Patcher: names of the clients to patch
  posted,                \* the event loop's queue of posted events
  mStopped,              \* stopCheck has stopped the hub
  fatal                  \* the call the process died in, or "none"

vars == <<mJTWorkers, mTotalRunningThreads, worker, m_clients, posted, mStopped, fatal>>

Slots == 0 .. MaxThreads - 1
NoName == 0

\* A worker as its constructor leaves it.
NewWorker == [life |-> "alive", mID |-> 0, mSpawning |-> FALSE, mRunning |-> FALSE,
              mPatched |-> FALSE, mAssignedClientName |-> NoName,
              mClientPort |-> NoEndpoint,
              listening |-> FALSE,    \* mUdpSockTemp is bound, mTimeoutTimer runs
              jackTrip |-> "none",    \* none, ready, waiting, audio, stopped
              socket |-> FALSE,       \* a socket of mJackTrip is bound
              name |-> NoName,        \* the JACK client that mJackTrip has open
              channel |-> "none",     \* mWebRtcPeerConnection: none, new, open
              icePorts |-> {},        \* the ports it gives to ICE, less mBasePort
              reported |-> {}]        \* what the WebRTC library has signalled

Init ==
  /\ mJTWorkers = [i \in Slots |-> NoWorker]
  /\ mTotalRunningThreads = 0
  /\ worker = [w \in Workers |-> [NewWorker EXCEPT !.life = "unborn"]]
  /\ m_clients = {} /\ posted = << >>
  /\ mStopped = FALSE /\ fatal = "none"

-----------------------------------------------------------------------------
(* The calls that handlers make, as functions of the hub's state.          *)

Hub == [slot |-> mJTWorkers, total |-> mTotalRunningThreads, worker |-> worker,
        clients |-> m_clients, posted |-> posted, stopped |-> mStopped, fatal |-> fatal]

\* A dead process takes no step.
Become(s) ==
  /\ fatal = "none"
  /\ mJTWorkers' = s.slot /\ mTotalRunningThreads' = s.total /\ worker' = s.worker
  /\ m_clients' = s.clients /\ posted' = s.posted
  /\ mStopped' = s.stopped /\ fatal' = s.fatal

Post(s, what, w) == [s EXCEPT !.posted = Append(@, [what |-> what, to |-> w])]

Die(s, call) == [s EXCEPT !.fatal = call]

\* JackTrip::stop, run once: join the protocol threads (their socket is closed),
\* close the audio interface and with it the JACK client, announce it.  The
\* socket and the timer of a JackTrip that still waits for its client stay.
StopJackTrip(s, w) ==
  IF s.worker[w].jackTrip \in {"waiting", "audio"}
  THEN Post([s EXCEPT !.worker[w].jackTrip = "stopped",
                      !.worker[w].socket = (s.worker[w].jackTrip = "waiting"),
                      !.worker[w].name = NoName],
            "jacktripStopped", w)
  ELSE s

\* unregisterClientWithPatcher, for a worker that is patched.
Unpatch(s, w) ==
  IF s.worker[w].mPatched
  THEN [s EXCEPT !.clients = @ \ {s.worker[w].mAssignedClientName},
                 !.worker[w].mPatched = FALSE]
  ELSE s

\* JackTripWorker::stopThread.
StopThread(s, w) ==
  LET s1 == IF s.worker[w].mRunning
            THEN Unpatch(StopJackTrip([s EXCEPT !.worker[w].mRunning = FALSE], w), w)
            ELSE [s EXCEPT !.worker[w].mSpawning = FALSE,
                           !.worker[w].listening = FALSE]
  IN  [s1 EXCEPT !.worker[w].channel = "none"]

\* MUTANT the counter is left alone.
ReleaseThreadUncounted(s, id) ==
  LET s1 == [s EXCEPT !.slot[id] = NoWorker]
  IN  IF s.slot[id] # NoWorker THEN Post(s1, "delete", s.slot[id]) ELSE s1

\* UdpHubListener::releaseThread.  It counts before it looks: for an empty slot
\* at(id)->deleteLater() is called on a null pointer, which Qt may only warn of.
ReleaseThread(s, id) ==
  LET s1 == [s EXCEPT !.slot[id] = NoWorker, !.total = @ - 1]
  IN  IF s.slot[id] # NoWorker THEN Post(s1, "delete", s.slot[id])
      ELSE IF NullIsFatal THEN Die(s1, "releaseThread")
      ELSE s1

\* createWorker: the worker w in the first empty slot.
FreeSlots == {i \in Slots : mJTWorkers[i] = NoWorker}
CreateWorker(s, id, w) ==
  [s EXCEPT !.slot[id] = w, !.total = @ + 1, !.worker[w] = NewWorker]

\* MUTANT the worker does not learn its id.
SetJackTripWithoutID(s, id, w) ==
  [s EXCEPT !.worker[w].mSpawning = TRUE, !.worker[w].jackTrip = "ready"]

\* setJackTrip on a worker that is not running.
SetJackTrip(s, id, w) ==
  [s EXCEPT !.worker[w] = [@ EXCEPT !.listening = FALSE, !.mSpawning = TRUE, !.mID = id,
                           !.mClientPort = NoEndpoint, !.mAssignedClientName = NoName,
                           !.jackTrip = "ready"]]

\* A socket is bound to the port of slot id: mBasePort + id.
PortBound(s, id) ==
  \E v \in Workers : s.worker[v].mID = id /\ (s.worker[v].listening \/ s.worker[v].socket)

\* A WebRTC connection has that port for ICE; libjuice binds it once the peer has
\* made its offer.
IcePort(s, id) ==
  \E v \in RtcWorkers : s.worker[v].channel # "none" /\ id \in s.worker[v].icePorts

\* MUTANT the port is compared with the server's, which no client has.
IsDuplicateNever(s, i, e) == FALSE

\* releaseDuplicateThreads: stop and release the workers of the same client, slot
\* by slot.
IsDuplicate(s, i, e) == s.slot[i] # NoWorker /\ s.worker[s.slot[i]].mClientPort = e
ReleaseDuplicate(s, i, e) ==
  IF IsDuplicate(s, i, e) THEN ReleaseThread(StopThread(s, s.slot[i]), i) ELSE s
ReleaseDuplicates(s, e) ==
  LET upTo[n \in 0 .. MaxThreads] ==
        IF n = 0 THEN s ELSE ReleaseDuplicate(upTo[n - 1], n - 1, e)
  IN  upTo[MaxThreads]
ReleaseDuplicateThreads(s, w, e) ==
  [ReleaseDuplicates(s, e) EXCEPT !.worker[w].mClientPort = e]

\* JACK gives a new client the first name that no open client has.
FreshName(s) == Min((1 .. Cardinality(Workers)) \ {s.worker[v].name : v \in Workers})

\* MUTANTS rejected settings release nothing; the end of a JackTrip that failed to
\* start reaches a worker that is still spawning, which ignores it.
ProcessPeerSettingsLeaky(s, w, outcome) == [s EXCEPT !.worker[w].mSpawning = FALSE]
ProcessPeerSettingsDirect(s, w, outcome) ==
  [s EXCEPT !.worker[w].mSpawning = FALSE, !.worker[w].mRunning = TRUE,
            !.worker[w].jackTrip = "stopped"]

\* processPeerSettings and startProcess: the settings are rejected, the audio
\* interface or the port fails (startProcess stops itself), or all goes well.
Outcomes == {"rejected", "fails", "starts"}
ProcessPeerSettings(s, w, outcome) ==
  LET started == [s EXCEPT !.worker[w].mRunning = TRUE, !.worker[w].mSpawning = FALSE]
  IN  CASE outcome = "rejected" ->
             ReleaseThread([s EXCEPT !.worker[w].mSpawning = FALSE], s.worker[w].mID)
        [] outcome = "fails" ->
             Post([started EXCEPT !.worker[w].jackTrip = "stopped"], "jacktripStopped", w)
        [] outcome = "starts" /\ w \in UdpWorkers ->
             [started EXCEPT !.worker[w].jackTrip = "waiting", !.worker[w].socket = TRUE,
                             !.worker[w].name = FreshName(s)]
        [] OTHER ->
             Post([started EXCEPT !.worker[w].jackTrip = "audio",
                                  !.worker[w].name = FreshName(s)], "alertPatcher", w)

-----------------------------------------------------------------------------
(* New clients *)

\* readyRead of a TCP client, to the end: worker w is created and told its
\* client, and its port is sent.  The client is gone, or start() binds the port
\* (nobody catches what start() throws).  A client that was accepted before
\* stopCheck closed the TCP server is served after it too.
NewUdpClient(w, reached, iceBound) ==
  /\ worker[w].life = "unborn" /\ FreeSlots # {}
  /\ iceBound => IcePort(Hub, Min(FreeSlots))
  /\ LET id == Min(FreeSlots)
         s  == SetJackTrip(CreateWorker(Hub, id, w), id, w)
     IN  Become(CASE ~reached -> ReleaseThread(s, id)
                  [] reached /\ (PortBound(Hub, id) \/ iceBound) -> Die(s, "bind")
                  [] OTHER -> [s EXCEPT !.worker[w].listening = TRUE])

\* readyRead of a WebSocket client, and createWebRtcWorker.
NewRtcClient(w) ==
  /\ worker[w].life = "unborn" /\ FreeSlots # {}
  /\ LET id == Min(FreeSlots)
     IN  Become([CreateWorker(Hub, id, w) EXCEPT !.worker[w].channel = "new",
                                                 !.worker[w].icePorts = {id}])

-----------------------------------------------------------------------------
(* Sockets and timers *)

\* JackTripWorker::receivedFirstPacketUDP; readyRead needs a bound socket.
ReceivedFirstPacketUDP(w, e, outcome) ==
  /\ worker[w].listening /\ worker[w].mSpawning
  /\ LET s == ReleaseDuplicateThreads([Hub EXCEPT !.worker[w].listening = FALSE], w, e)
     IN  Become(ProcessPeerSettings(s, w, outcome))

\* The same for a datagram without a whole header, and udpTimerTick when none came.
GiveUpOnClient(w) ==
  /\ worker[w].listening
  /\ Become(ReleaseThread([Hub EXCEPT !.worker[w].listening = FALSE,
                                      !.worker[w].mSpawning = FALSE], worker[w].mID))

\* JackTrip::receivedFirstPacketUDP, on JackTrip's own socket.  Nothing but its
\* own handlers resets mAwaitingUdp: after stop() it goes on to start the
\* threads and to call the audio interface that stop() deleted.
JackTripFirstPacket(w) ==
  /\ worker[w].socket /\ worker[w].jackTrip \in {"waiting", "stopped"}
  /\ Become(IF worker[w].jackTrip = "waiting"
            THEN Post([Hub EXCEPT !.worker[w].jackTrip = "audio"], "alertPatcher", w)
            ELSE Die(Hub, "completeConnection"))

\* JackTrip::udpTimerTick: after stop(), or when the client sent no second datagram.
JackTripTimeout(w) ==
  /\ worker[w].socket /\ worker[w].jackTrip \in {"waiting", "stopped"}
  /\ Become([StopJackTrip(Hub, w) EXCEPT !.worker[w].socket = FALSE])

\* UdpHubListener::stopCheck and stopAllThreads.
StopWorkerIn(s, i) == IF s.slot[i] = NoWorker THEN s ELSE StopThread(s, s.slot[i])
StopAllThreads(s) ==
  LET upTo[n \in 0 .. MaxThreads] == IF n = 0 THEN s ELSE StopWorkerIn(upTo[n - 1], n - 1)
  IN  upTo[MaxThreads]
StopCheck == ~mStopped /\ Become([StopAllThreads(Hub) EXCEPT !.stopped = TRUE])

-----------------------------------------------------------------------------
(* Other threads post to the loop *)

Pending(what, w) == \E k \in 1 .. Len(posted) : posted[k] = [what |-> what, to |-> w]

\* The receiver's thread heard nothing for 10 s or got an exit packet.  It may
\* repeat itself, and all but one repetition is left out.
PeerGone(w) ==
  /\ worker[w].jackTrip = "audio" /\ ~Pending("slotStopProcesses", w)
  /\ Become(Post(Hub, "slotStopProcesses", w))

\* The WebRTC library reports on a connection that is not closed: the data
\* channel opens and closes, the connection or the channel fails.  (The data
\* protocol of a running JackTrip takes over the channel's callbacks, and a
\* closed channel is then a peer that is gone.)
RtcSignals == {"open", "closed", "failed"}
RtcSignal(w, what) ==
  /\ worker[w].channel # "none" /\ what \notin worker[w].reported
  /\ what = "open" => worker[w].reported = {}
  /\ what = "closed" => "open" \in worker[w].reported /\ worker[w].jackTrip # "audio"
  /\ Become(Post([Hub EXCEPT !.worker[w].reported = @ \cup {what}], what, w))

\* A message on the channel, once the worker asked for the first one.
RtcMessage(w) ==
  /\ worker[w].channel = "open" /\ "closed" \notin worker[w].reported
  /\ worker[w].mSpawning /\ ~Pending("message", w)
  /\ Become(Post(Hub, "message", w))

-----------------------------------------------------------------------------
(* The handlers of posted events *)

\* The event is the next to be delivered; Rest is the hub without it.
Delivered(what, w) == posted # << >> /\ Head(posted) = [what |-> what, to |-> w]
Rest == [Hub EXCEPT !.posted = Tail(@)]

\* JackTripWorker::jacktripStopped.
JacktripStopped(w) ==
  /\ Delivered("jacktripStopped", w)
  /\ Become(IF worker[w].mSpawning \/ ~worker[w].mRunning
            THEN Rest
            ELSE ReleaseThread(Unpatch([Rest EXCEPT !.worker[w].mRunning = FALSE], w),
                               worker[w].mID))

\* MUTANT a worker that was stopped in the meantime is registered all the same.
AlertPatcherUnchecked(w) ==
  /\ Delivered("alertPatcher", w)
  /\ Become([Rest EXCEPT !.clients = @ \cup {worker[w].name},
                         !.worker[w].mAssignedClientName = worker[w].name,
                         !.worker[w].mPatched = TRUE])

\* JackTripWorker::alertPatcher, and Patcher::registerClient.
AlertPatcher(w) ==
  /\ Delivered("alertPatcher", w)
  /\ Become(IF worker[w].mRunning
            THEN [Rest EXCEPT !.clients = @ \cup {worker[w].name},
                              !.worker[w].mAssignedClientName = worker[w].name,
                              !.worker[w].mPatched = TRUE]
            ELSE Rest)

\* JackTrip::slotStopProcesses.
SlotStopProcesses(w) == Delivered("slotStopProcesses", w) /\ Become(StopJackTrip(Rest, w))

\* onWebRtcDataChannelOpen: setJackTrip with the mID the worker has.
OnWebRtcDataChannelOpen(w) ==
  /\ Delivered("open", w)
  /\ Become(IF worker[w].channel = "none"
            THEN Rest
            ELSE [SetJackTrip(Rest, worker[w].mID, w) EXCEPT !.worker[w].channel = "open"])

\* receivedFirstPacketWebRtc.
ReceivedFirstPacketWebRtc(w, outcome) ==
  /\ Delivered("message", w)
  /\ Become(IF worker[w].mSpawning THEN ProcessPeerSettings(Rest, w, outcome) ELSE Rest)

\* onWebRtcDataChannelClosed and onWebRtcConnectionFailed.
OnWebRtcGone(w) ==
  /\ Delivered("closed", w) \/ Delivered("failed", w)
  /\ Become(Post(StopThread(Rest, w), "handleWorkerRemoval", w))

\* UdpHubListener::handleWorkerRemoval.
HandleWorkerRemoval(w) ==
  /\ Delivered("handleWorkerRemoval", w)
  /\ Become(ReleaseThread(Rest, worker[w].mID))

\* ~JackTripWorker; Qt drops what is posted to the object, and sender() is null
\* for what it posted.
Undelivered(queue, w) ==
  LET upTo[n \in 0 .. Len(queue)] ==
        IF n = 0 THEN << >>
        ELSE IF queue[n].to = w THEN upTo[n - 1]
        ELSE Append(upTo[n - 1], queue[n])
  IN  upTo[Len(queue)]
Delete(w) ==
  /\ Delivered("delete", w)
  /\ LET s == StopThread(Rest, w)
     IN  Become([s EXCEPT !.worker[w] = [NewWorker EXCEPT !.life = "deleted"],
                          !.posted = Undelivered(@, w)])

-----------------------------------------------------------------------------
Deliver(w) ==
  \/ JacktripStopped(w) \/ AlertPatcher(w) \/ SlotStopProcesses(w)
  \/ OnWebRtcDataChannelOpen(w) \/ OnWebRtcGone(w) \/ HandleWorkerRemoval(w)
  \/ \E outcome \in Outcomes : ReceivedFirstPacketWebRtc(w, outcome)
  \/ Delete(w)

SocketOrTimer(w) ==
  \/ GiveUpOnClient(w)
  \/ \E e \in Endpoints, outcome \in Outcomes : ReceivedFirstPacketUDP(w, e, outcome)
  \/ JackTripFirstPacket(w) \/ JackTripTimeout(w)

OtherThread(w) ==
  \/ PeerGone(w) \/ RtcMessage(w) \/ \E what \in RtcSignals : RtcSignal(w, what)

Next ==
  \/ \E w \in UdpWorkers, reached, iceBound \in BOOLEAN : NewUdpClient(w, reached, iceBound)
  \/ \E w \in RtcWorkers : NewRtcClient(w)
  \/ \E w \in Workers : SocketOrTimer(w) \/ OtherThread(w) \/ Deliver(w)
  \/ StopCheck

Spec == Init /\ [][Next]_vars

\* The event loop runs, and its timers fire.
FairSpec == /\ Spec /\ WF_vars(\E w \in Workers : Deliver(w))
            /\ \A w \in UdpWorkers : WF_vars(GiveUpOnClient(w) \/ JackTripTimeout(w))

-----------------------------------------------------------------------------
\* The hub has been stopped, or the process is dead.
Over == mStopped \/ fatal # "none"

Events == {"jacktripStopped", "alertPatcher", "slotStopProcesses", "message",
           "handleWorkerRemoval", "delete"} \cup RtcSignals
Names == 1 .. Cardinality(Workers)

WorkerType ==
  [life : {"unborn", "alive", "deleted"}, mID : Slots,
   mSpawning : BOOLEAN, mRunning : BOOLEAN, mPatched : BOOLEAN,
   mAssignedClientName : Names \cup {NoName}, mClientPort : Endpoints \cup {NoEndpoint},
   listening : BOOLEAN, jackTrip : {"none", "ready", "waiting", "audio", "stopped"},
   socket : BOOLEAN, name : Names \cup {NoName}, channel : {"none", "new", "open"},
   icePorts : SUBSET Slots, reported : SUBSET RtcSignals]

\* The hub's variables are in range; a worker listens only while it is spawning.
TypeOK ==
  /\ mJTWorkers \in [Slots -> Workers \cup {NoWorker}]
  /\ mTotalRunningThreads \in Int
  /\ worker \in [Workers -> WorkerType]
  /\ m_clients \subseteq Names \cup {NoName}
  /\ posted \in Seq([what : Events, to : Workers])
  /\ mStopped \in BOOLEAN
  /\ fatal \in {"none", "bind", "releaseThread", "completeConnection"}
  /\ \A w \in Workers : worker[w].listening => worker[w].mSpawning

\* A worker that listens for its client or runs its JackTrip has the slot, and
\* so the UDP port, it was given: releasing some other worker never takes it
\* away ("Signal the hub listener to remove this thread", JackTripWorker.cpp:587).
ServedWorkerHoldsSlot ==
  \A w \in Workers : worker[w].listening \/ worker[w].mRunning =>
     \E i \in Slots : mJTWorkers[i] = w /\ worker[w].mID = i

\* No slot leaks: until the hub stops, whatever went wrong with its client, the
\* worker in a slot listens, runs a JackTrip that has not stopped or whose end is
\* on its way to it, or has a WebRTC connection that can still report; each of
\* them ends in releaseThread.
NoSlotLeaks ==
  \A i \in Slots : mJTWorkers[i] # NoWorker /\ ~Over =>
     LET w == mJTWorkers[i]
     IN  \/ worker[w].listening \/ worker[w].channel # "none"
         \/ worker[w].mRunning /\ (worker[w].jackTrip = "stopped" =>
                                      Pending("jacktripStopped", w))
         \/ Pending("handleWorkerRemoval", w)

Occupied(slot) == {i \in Slots : slot[i] # NoWorker}
OneSlotEach == \A i, j \in Slots : mJTWorkers[i] = mJTWorkers[j] /\ i # j
                                       => mJTWorkers[i] = NoWorker

\* mTotalRunningThreads is the number of workers in the pool
\* (UdpHubListener.h:217), whatever was released, how often and by whom, and a
\* worker has one slot.
CountMatchesSlots == mTotalRunningThreads = Cardinality(Occupied(mJTWorkers)) /\ OneSlotEach

\* What is left of that with WebRTC clients, whose workers are released twice:
\* a slot is never emptied behind the counter's back, and a worker has one slot.
CountNeverAbove == mTotalRunningThreads <= Cardinality(Occupied(mJTWorkers)) /\ OneSlotEach

\* A client that connects again replaces its old worker: no two workers run for
\* one endpoint ("remove any duplicate workers", UdpHubListener.cpp:868).
OneWorkerPerClient ==
  \A v, w \in Workers :
     worker[v].mRunning /\ worker[w].mRunning /\ v # w /\ worker[v].mClientPort # NoEndpoint
        => worker[v].mClientPort # worker[w].mClientPort

\* The patcher's list is the JACK names of the running patched workers, although
\* a JackTrip gives its JACK name up before its worker unregisters it and JACK
\* may give the name to the next worker in between.
PatcherTracksWorkers ==
  /\ m_clients = {worker[w].mAssignedClientName : w \in {v \in Workers : worker[v].mPatched}}
  /\ \A w \in Workers : worker[w].mPatched =>
        /\ worker[w].mRunning
        /\ worker[w].mAssignedClientName # NoName
        /\ worker[w].jackTrip = "audio" => worker[w].name = worker[w].mAssignedClientName
        /\ \A v \in Workers \ {w} : worker[v].mPatched =>
              worker[v].mAssignedClientName # worker[w].mAssignedClientName

\* Unless the hub stops, a worker whose JackTrip has stopped, or that listens to
\* a silent client, is released: its slot goes to another client sooner or later.
Ended(w) == worker[w].listening \/ worker[w].jackTrip = "stopped"
EndedWorkerIsReleased == \A w \in UdpWorkers : Ended(w) ~> (Over \/ ~Ended(w))
=============================================================================
