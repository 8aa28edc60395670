----------------------------- MODULE WebTransport -----------------------------
(***************************************************************************)
(* One WebTransport client of the hub server, from the QUIC connection to   *)
(* the end of its worker: src/src/webtransport/WebTransportSession.cpp and  *)
(* WebTransportDataProtocol.cpp, with the handlers of JackTripWorker.cpp,   *)
(* UdpHubListener.cpp and JackTrip.cpp that they meet.                      *)
(*                                                                         *)
(* Six threads: the connection's msquic thread delivers one event at a      *)
(* time; the hub's event loop delivers what was posted to it in the order   *)
(* posted, and waits inside JackTrip::stop and ~WebTransportSession; the    *)
(* sender's and the receiver's threads watch for the end; the audio thread  *)
(* sends packets from a pool of buffers that msquic gives back later; the   *)
(* client is the sixth.                                                     *)
(*                                                                         *)
(* Packets' contents, the HTTP/3 streams before the CONNECT request and the *)
(* slots of other clients are left out: an arriving audio packet changes    *)
(* nothing here but the idle time, which may reach its limit at any time.   *)
(* The client is taken to be in slot 0: a WebTransport worker's mID stays 0 *)
(* (JackTripWorker.h:247), so that what it releases is its own slot only    *)
(* there; HubListener shows what becomes of the other slots.                *)
(***************************************************************************)
EXTENDS Naturals, Sequences, FiniteSets

CONSTANTS
  Buffers,        \* mBufferPool
  NoBuffer,       \* acquirePoolBuffer returned -1
  MaxRequests,    \* bound: requests of the client on its streams
  WaitMayExpire   \* msquic may keep a cancelled buffer for more than a second

ASSUME WebTransportAssumption ==
  /\ IsFiniteSet(Buffers) /\ Buffers # {}
  /\ NoBuffer \notin Buffers /\ "off" \notin Buffers /\ "idle" \notin Buffers
  /\ MaxRequests \in Nat /\ WaitMayExpire \in BOOLEAN

VARIABLES
  client,     \* "there" or "gone": what it sends arrives no more
  requests,   \* requests it has made
  quic,       \* the connection at msquic: "up", "closing", "closed"
  asked,      \* ConnectionShutdown has been called
  session,    \* the WebTransportSession: life, mState, mDatagramCallback
  worker,     \* the JackTripWorker: life, mSpawning, mRunning, mWebTransportSession
  jackTrip,   \* its JackTrip: "none", "ready", "running", "stopped"
  protocols,  \* mDataProtocolSender and mDataProtocolReceiver: "none", "alive", "deleted"
  thread,     \* where their threads are
  mStopped,   \* their flags
  audio,      \* the audio thread: "off", "idle" or the buffer it fills
  exit,       \* the buffer of the sender's exit packet, or NoBuffer
  inUse,      \* mBufferPool[i].inUse
  allocated,  \* mBufferPool[i].buffer is not null
  lent,       \* the buffers that msquic holds
  posted,     \* the hub's posted events
  hub,        \* what the hub's thread is in the middle of: [at, after]
  released,   \* releaseThread has emptied this worker's slot
  dangling    \* a protocol has used its session after the session was deleted

quicVars     == <<client, requests, quic, asked>>
workerVars   == <<worker, jackTrip, protocols, released, dangling>>
threadVars   == <<thread, mStopped, audio>>
poolVars     == <<exit, inUse, allocated, lent>>
vars == <<quicVars, session, workerVars, threadVars, poolVars, posted, hub>>

Idle == [at |-> "idle", after |-> "idle"]

\* createWebTransportWorker and the constructors: a slot, a worker and a session
\* for a connection that msquic has accepted.
Init ==
  /\ client = "there" /\ requests = 0 /\ quic = "up" /\ asked = FALSE
  /\ session = [life |-> "alive", mState |-> "CONNECTING", callback |-> "worker"]
  /\ worker = [life |-> "alive", mSpawning |-> FALSE, mRunning |-> FALSE,
               mWebTransportSession |-> TRUE]
  /\ jackTrip = "none" /\ protocols = "none" /\ released = FALSE /\ dangling = FALSE
  /\ thread = [sender |-> "none", receiver |-> "none"]
  /\ mStopped = [sender |-> FALSE, receiver |-> FALSE]
  /\ audio = "off" /\ exit = NoBuffer
  /\ inUse = [b \in Buffers |-> FALSE] /\ allocated = FALSE /\ lent = {}
  /\ posted = << >> /\ hub = Idle

-----------------------------------------------------------------------------
isConnected == session.mState = "CONNECTED"
Pending(what) == \E k \in 1 .. Len(posted) : posted[k] = what

\* What a signal of the session posts: to the worker, which connected to it
\* first, and to the two protocols.
Heard(what) == IF worker.life = "alive"
               THEN << what >> \o (IF protocols = "alive" THEN << "sessionClosed" >> ELSE << >>)
               ELSE << >>

\* WebTransportSession::close.
close ==
  IF session.mState \in {"SHUTTING_DOWN", "DISCONNECTED"}
  THEN UNCHANGED <<session, asked>>
  ELSE /\ session' = [session EXCEPT !.mState = "SHUTTING_DOWN"]
       /\ asked' = (asked \/ quic # "closed")

-----------------------------------------------------------------------------
(* The client and msquic's thread *)

\* Its network or its process fails: nothing of it is heard again.
ClientVanishes ==
  /\ client = "there" /\ client' = "gone"
  /\ UNCHANGED <<requests, quic, asked, session, workerVars, threadVars, poolVars, posted, hub>>

\* Only the first request is accepted.
processConnectRequest(good) == good /\ session.mState = "CONNECTING"

\* sendConnectResponse(200), or (400); that it cannot be sent is a failure too.
sendConnectResponse(accepted) ==
  /\ session' = [session EXCEPT !.mState = IF accepted THEN "CONNECTED" ELSE "FAILED"]
  /\ posted' = posted \o (IF accepted /\ worker.life = "alive" THEN << "established" >>
                          ELSE IF accepted THEN << >> ELSE Heard("failed"))

\* A request on a stream, for handleStreamEvent; a good one is a WebTransport
\* CONNECT whose answer can be sent.
Request(good) ==
  /\ client = "there" /\ quic = "up" /\ requests < MaxRequests
  /\ requests' = requests + 1
  /\ sendConnectResponse(processConnectRequest(good))
  /\ UNCHANGED <<client, quic, asked, workerVars, threadVars, poolVars, hub>>

\* The client ends its CONNECT stream: FIN, shutdown or abort.
StreamEnds ==
  /\ client = "there" /\ quic = "up" /\ isConnected
  /\ close
  /\ UNCHANGED <<client, requests, quic, workerVars, threadVars, poolVars, posted, hub>>

\* MUTANT a connected session waits for its own close.
PeerShutdownIgnored ==
  /\ client = "there" /\ quic = "up" /\ quic' = "closing"
  /\ UNCHANGED <<client, requests, asked, session, workerVars, threadVars, poolVars, posted, hub>>

\* SHUTDOWN_INITIATED_BY_PEER.
PeerShutdown ==
  /\ client = "there" /\ quic = "up" /\ quic' = "closing"
  /\ session' = IF isConnected THEN [session EXCEPT !.mState = "SHUTTING_DOWN"] ELSE session
  /\ UNCHANGED <<client, requests, asked, workerVars, threadVars, poolVars, posted, hub>>

\* SHUTDOWN_INITIATED_BY_TRANSPORT, whatever state the session is in.
TransportShutdown ==
  /\ quic = "up" /\ quic' = "closing"
  /\ session' = [session EXCEPT !.mState = "FAILED"]
  /\ posted' = posted \o Heard("failed")
  /\ UNCHANGED <<client, requests, asked, workerVars, threadVars, poolVars, hub>>

\* msquic begins the shutdown it was asked for; that is no event.
LocalShutdown ==
  /\ quic = "up" /\ asked /\ quic' = "closing"
  /\ UNCHANGED <<client, requests, asked, session, workerVars, threadVars, poolVars, posted, hub>>

\* SHUTDOWN_COMPLETE, once every datagram is accounted for.
ShutdownComplete ==
  /\ quic = "closing" /\ lent = {} /\ quic' = "closed"
  /\ IF session.mState = "SHUTTING_DOWN"
     THEN /\ session' = [session EXCEPT !.mState = "DISCONNECTED"]
          /\ posted' = posted \o Heard("closed")
     ELSE UNCHANGED <<session, posted>>
  /\ UNCHANGED <<client, requests, asked, workerVars, threadVars, poolVars, hub>>

\* MUTANT a datagram that may be lost is taken for a lost one.
SendStateChangedEarly(b, final) ==
  /\ b \in lent /\ quic # "closed"
  /\ lent' = IF final THEN lent \ {b} ELSE lent
  /\ inUse' = [inUse EXCEPT ![b] = FALSE]
  /\ UNCHANGED <<quicVars, session, workerVars, threadVars, exit, allocated, posted, hub>>

\* DATAGRAM_SEND_STATE_CHANGED and releaseSendContext: msquic is done with the
\* buffer in a final state only.
SendStateChanged(b, final) ==
  /\ b \in lent /\ quic # "closed"
  /\ lent' = IF final THEN lent \ {b} ELSE lent
  /\ inUse' = IF final THEN [inUse EXCEPT ![b] = FALSE] ELSE inUse
  /\ UNCHANGED <<quicVars, session, workerVars, threadVars, exit, allocated, posted, hub>>

\* DATAGRAM_RECEIVED: the worker's callback posts the first packet; the
\* receiver's takes an exit packet or one that the audio buffer refuses
\* (onDatagramReceived, processControlPacket, processReceivedPacket).
DatagramReceived(refused) ==
  /\ client = "there" /\ quic = "up"
  /\ CASE session.callback = "worker" /\ ~refused ->
            /\ ~Pending("first") /\ posted' = Append(posted, "first")
            /\ UNCHANGED mStopped
       [] session.callback = "receiver" /\ ~mStopped.receiver ->
            /\ mStopped' = [mStopped EXCEPT !.receiver = TRUE]
            /\ posted' = IF refused THEN Append(posted, "signalError") ELSE posted
       [] OTHER -> FALSE
  /\ UNCHANGED <<quicVars, session, workerVars, thread, audio, poolVars, hub>>

-----------------------------------------------------------------------------
(* The threads of the protocols and of the audio interface *)

\* run(), once completeConnection has seen it start: it returns if its direction
\* has no channels; the sender fills its pool, then lets the audio thread send.
Run(p, channels) ==
  /\ thread[p] = "started"
  /\ thread' = [thread EXCEPT ![p] = IF channels THEN "waits" ELSE "done"]
  /\ allocated' = (allocated \/ (p = "sender" /\ channels))
  /\ UNCHANGED <<quicVars, session, workerVars, mStopped, audio, exit, inUse, lent, posted, hub>>

\* The wait for the session; a protocol that is stopped meanwhile just returns.
WaitEnds(p) ==
  /\ thread[p] = "waits" /\ (isConnected \/ mStopped[p])
  /\ thread' = [thread EXCEPT ![p] = IF mStopped[p] THEN "done" ELSE "loops"]
  /\ UNCHANGED <<quicVars, session, workerVars, mStopped, audio, poolVars, posted, hub>>

\* runReceiver: ten seconds without a packet.
ReceiverWaitedTooLong ==
  /\ thread.receiver = "loops" /\ ~mStopped.receiver /\ ~Pending("waitingTooLong")
  /\ posted' = Append(posted, "waitingTooLong")
  /\ UNCHANGED <<quicVars, session, workerVars, threadVars, poolVars, hub>>

\* runReceiver ends, and closes a session that is still open.
ReceiverEnds ==
  /\ thread.receiver = "loops" /\ mStopped.receiver
  /\ thread' = [thread EXCEPT !.receiver = "done"]
  /\ IF isConnected THEN close ELSE UNCHANGED <<session, asked>>
  /\ UNCHANGED <<client, requests, quic, workerVars, mStopped, audio, poolVars, posted, hub>>

\* acquirePoolBuffer: a compare and exchange takes a buffer that nobody uses.
Acquire(b) ==
  \/ b \in Buffers /\ ~inUse[b] /\ inUse' = [inUse EXCEPT ![b] = TRUE]
  \/ b = NoBuffer /\ (\A c \in Buffers : inUse[c]) /\ UNCHANGED inUse

\* runSender: the exit packet's buffer.
SenderEnds(b) ==
  /\ thread.sender = "loops" /\ mStopped.sender
  /\ Acquire(b) /\ exit' = b
  /\ thread' = [thread EXCEPT !.sender = "ends"]
  /\ UNCHANGED <<quicVars, session, workerVars, mStopped, audio, allocated, lent, posted, hub>>

\* sendDatagram: msquic takes the buffer, if the session is connected and msquic
\* has not refused.
CanSend == isConnected /\ quic = "up"

\* runSender sends it, keeps the buffer if that fails, and says that it ends.
SenderSendsExit(sent) ==
  /\ thread.sender = "ends"
  /\ sent => exit # NoBuffer /\ CanSend
  /\ lent' = IF sent THEN lent \cup {exit} ELSE lent
  /\ exit' = NoBuffer /\ thread' = [thread EXCEPT !.sender = "done"]
  /\ posted' = Append(posted, "ceaseTransmission")
  /\ UNCHANGED <<quicVars, session, workerVars, mStopped, audio, inUse, allocated, hub>>

\* sendPacketDirect: take a buffer, or skip the packet.  An audio interface that
\* is being closed makes no further callback.
AudioFills(b) ==
  /\ audio = "idle" /\ hub.at # "closeAudio" /\ allocated /\ isConnected
  /\ b # NoBuffer /\ Acquire(b) /\ audio' = b
  /\ UNCHANGED <<quicVars, session, workerVars, thread, mStopped, exit, allocated, lent,
                 posted, hub>>

\* sendPacketDirect: send it, or release the buffer.
AudioSends(sent) ==
  /\ audio \in Buffers
  /\ sent => CanSend
  /\ lent' = IF sent THEN lent \cup {audio} ELSE lent
  /\ inUse' = IF sent THEN inUse ELSE [inUse EXCEPT ![audio] = FALSE]
  /\ audio' = "idle"
  /\ UNCHANGED <<quicVars, session, workerVars, thread, mStopped, exit, allocated, posted, hub>>

-----------------------------------------------------------------------------
(* The hub's event loop *)

Delivered(what) == hub.at = "idle" /\ posted # << >> /\ Head(posted) = what

\* UdpHubListener::releaseThread, at the end of a handler; the process ends if
\* the slot is empty, since at(id)->deleteLater() goes through a null pointer.
ReleaseThread ==
  IF released
  THEN /\ hub' = [Idle EXCEPT !.at = "crashed"]
       /\ posted' = Tail(posted) /\ UNCHANGED released
  ELSE /\ released' = TRUE /\ posted' = Append(Tail(posted), "deleteWorker")
       /\ UNCHANGED hub

\* MUTANT the sender is waited for and not told to stop.
StopJackTripUntold(after) ==
  /\ hub' = [at |-> IF jackTrip = "running" THEN "stopSender" ELSE after,
             after |-> IF jackTrip = "running" THEN after ELSE "idle"]
  /\ UNCHANGED mStopped

\* JackTrip::stop, which runs once; then the thread goes on with "after".
StopJackTrip(after) ==
  IF jackTrip = "running"
  THEN /\ hub' = [at |-> "stopSender", after |-> after]
       /\ mStopped' = [mStopped EXCEPT !.sender = TRUE]
  ELSE /\ hub' = [at |-> after, after |-> "idle"]
       /\ UNCHANGED mStopped

\* onWebTransportSessionEstablished and setJackTrip.
OnEstablished ==
  /\ Delivered("established") /\ posted' = Tail(posted)
  /\ IF worker.mWebTransportSession
     THEN jackTrip' = "ready" /\ worker' = [worker EXCEPT !.mSpawning = TRUE]
     ELSE UNCHANGED <<jackTrip, worker>>
  /\ UNCHANGED <<quicVars, session, protocols, released, dangling, threadVars, poolVars, hub>>

\* receivedFirstPacketWebTransport, processPeerSettings, startProcess and
\* completeConnection: bad settings, no audio interface, or all is started.
Outcomes == {"rejected", "fails", "starts"}
OnFirstPacket(outcome) ==
  /\ Delivered("first") /\ worker.mSpawning
  /\ session' = [session EXCEPT !.callback = IF outcome = "starts" THEN "receiver" ELSE "none"]
  /\ worker' = [worker EXCEPT !.mSpawning = FALSE, !.mRunning = (outcome # "rejected")]
  /\ jackTrip' = CASE outcome = "rejected" -> "ready"
                   [] outcome = "fails" -> "stopped"
                   [] outcome = "starts" -> "running"
  /\ CASE outcome = "rejected" -> ReleaseThread
       [] outcome = "fails" -> posted' = Append(Tail(posted), "stopped") /\ UNCHANGED <<released, hub>>
       [] outcome = "starts" -> posted' = Tail(posted) /\ UNCHANGED <<released, hub>>
  /\ IF outcome = "starts"
     THEN protocols' = "alive" /\ audio' = "idle" /\
          thread' = [sender |-> "started", receiver |-> "started"]
     ELSE UNCHANGED <<protocols, audio, thread>>
  /\ UNCHANGED <<quicVars, dangling, mStopped, poolVars>>

OnLatePacket ==
  /\ Delivered("first") /\ ~worker.mSpawning /\ posted' = Tail(posted)
  /\ UNCHANGED <<quicVars, session, workerVars, threadVars, poolVars, hub>>

\* printWaitedTooLong.  JackTrip's slotUdpWaitingTooLong only passes the signal on,
\* and in a hub nobody listens.
OnWaitedTooLong ==
  /\ Delivered("waitingTooLong") /\ posted' = Tail(posted)
  /\ dangling' = (dangling \/ session.life = "deleted")
  /\ IF isConnected THEN close ELSE UNCHANGED <<session, asked>>
  /\ UNCHANGED <<client, requests, quic, worker, jackTrip, protocols, released, threadVars,
                 poolVars, hub>>

\* WebTransportDataProtocol::onSessionClosed, of both protocols.
OnSessionClosed ==
  /\ Delivered("sessionClosed") /\ posted' = Tail(posted)
  /\ mStopped' = [sender |-> TRUE, receiver |-> TRUE]
  /\ UNCHANGED <<quicVars, session, workerVars, thread, audio, poolVars, hub>>

\* JackTrip::slotStopProcessesDueToError.
OnProtocolEnd ==
  /\ Delivered("ceaseTransmission") \/ Delivered("signalError")
  /\ posted' = Tail(posted) /\ StopJackTrip("idle")
  /\ UNCHANGED <<quicVars, session, workerVars, thread, audio, poolVars>>

\* jacktripStopped: releaseThread, unless another handler saw to it.
OnStopped ==
  /\ Delivered("stopped")
  /\ IF worker.mSpawning \/ ~worker.mRunning
     THEN posted' = Tail(posted) /\ UNCHANGED <<worker, released, hub>>
     ELSE worker' = [worker EXCEPT !.mRunning = FALSE] /\ ReleaseThread
  /\ UNCHANGED <<quicVars, session, jackTrip, protocols, dangling, threadVars, poolVars>>

\* onWebTransportSessionClosed and onWebTransportSessionFailed, to the call of
\* stopThread and in it to the end of JackTrip::stop.
OnGone ==
  /\ Delivered("closed") \/ Delivered("failed")
  /\ posted' = Tail(posted)
  /\ worker' = [worker EXCEPT !.mRunning = FALSE, !.mSpawning = FALSE]
  /\ StopJackTrip("close")
  /\ UNCHANGED <<quicVars, session, jackTrip, protocols, released, dangling, thread, audio,
                 poolVars>>

\* JackTrip::stop joins the sender's thread, then the receiver's, and closes the
\* audio interface once its callback has returned.
JoinSender ==
  /\ hub.at = "stopSender" /\ thread.sender = "done"
  /\ hub' = [hub EXCEPT !.at = "stopReceiver"]
  /\ mStopped' = [mStopped EXCEPT !.receiver = TRUE]
  /\ UNCHANGED <<quicVars, session, workerVars, thread, audio, poolVars, posted>>

JoinReceiver ==
  /\ hub.at = "stopReceiver" /\ thread.receiver = "done"
  /\ hub' = [hub EXCEPT !.at = "closeAudio"]
  /\ UNCHANGED <<quicVars, session, workerVars, threadVars, poolVars, posted>>

CloseAudio ==
  /\ hub.at = "closeAudio" /\ audio = "idle" /\ audio' = "off"
  /\ jackTrip' = "stopped" /\ posted' = Append(posted, "stopped")
  /\ hub' = [at |-> hub.after, after |-> "idle"]
  /\ UNCHANGED <<quicVars, session, worker, protocols, released, dangling, thread, mStopped,
                 poolVars>>

\* The end of stopThread: the session is closed and will be deleted.
LetGo(after) ==
  /\ worker' = [worker EXCEPT !.mWebTransportSession = FALSE]
  /\ IF worker.mWebTransportSession
     THEN close /\ posted' = Append(posted, "deleteSession")
     ELSE UNCHANGED <<session, asked, posted>>
  /\ hub' = [at |-> after, after |-> "idle"]
  /\ UNCHANGED <<client, requests, quic, jackTrip, protocols, released, dangling, threadVars,
                 poolVars>>

CloseSession == hub.at = "close" /\ LetGo("remove")

\* signalRemoveThread (JackTrip::slotStopProcesses hears it too, too late to do
\* anything).
SignalRemoveThread ==
  /\ hub.at = "remove" /\ hub' = Idle /\ posted' = Append(posted, "removeThread")
  /\ UNCHANGED <<quicVars, session, workerVars, threadVars, poolVars>>

\* handleWorkerRemoval; the sender is null once the worker is deleted.
HandleWorkerRemoval ==
  /\ Delivered("removeThread")
  /\ IF worker.life = "alive"
     THEN ReleaseThread
     ELSE posted' = Tail(posted) /\ UNCHANGED <<released, hub>>
  /\ UNCHANGED <<quicVars, session, worker, jackTrip, protocols, dangling, threadVars,
                 poolVars>>

\* ~WebTransportSession, to its wait.
DestroySession ==
  /\ session' = [session EXCEPT !.life = "deleting",
                                !.mState = IF quic = "closed" THEN @ ELSE "DISCONNECTED"]
  /\ asked' = (asked \/ quic # "closed")

DeleteSession ==
  /\ Delivered("deleteSession") /\ posted' = Tail(posted) /\ DestroySession
  /\ hub' = [at |-> "awaitShutdown", after |-> "idle"]
  /\ UNCHANGED <<client, requests, quic, workerVars, threadVars, poolVars>>

\* ~WebTransportSession after SHUTDOWN_COMPLETE.
SessionDeleted ==
  /\ hub.at = "awaitShutdown" /\ quic = "closed"
  /\ session' = [session EXCEPT !.life = "deleted"] /\ hub' = Idle
  /\ UNCHANGED <<quicVars, workerVars, threadVars, poolVars, posted>>

\* ~JackTripWorker: stopThread; then its JackTrip.
DeleteWorker ==
  /\ Delivered("deleteWorker") /\ posted' = Tail(posted)
  /\ worker' = [worker EXCEPT !.mRunning = FALSE, !.mSpawning = FALSE]
  /\ StopJackTrip("closeForGood")
  /\ UNCHANGED <<quicVars, session, jackTrip, protocols, released, dangling, thread, audio,
                 poolVars>>

CloseSessionForGood == hub.at = "closeForGood" /\ LetGo("deleteProtocols")

\* ~WebTransportDataProtocol of the sender and the receiver: the callbacks are
\* unregistered, on the session too, and each buffer is freed when msquic gave
\* it back or after a second.
DeleteProtocols ==
  /\ hub.at = "deleteProtocols"
  /\ \A b \in Buffers \cap lent : WaitMayExpire
  /\ IF protocols = "alive"
     THEN /\ dangling' = (dangling \/ session.life = "deleted")
          /\ session' = [session EXCEPT !.callback = "none"]
          /\ protocols' = "deleted" /\ allocated' = FALSE
     ELSE UNCHANGED <<dangling, session, protocols, allocated>>
  /\ hub' = [hub EXCEPT !.at = "deleteChildren"]
  /\ UNCHANGED <<quicVars, worker, jackTrip, released, threadVars, exit, inUse, lent, posted>>

\* ~QObject: what is posted to the worker and to what it owned is dropped, and
\* the session, its child, is deleted with it.
DeleteChildren ==
  /\ hub.at = "deleteChildren"
  /\ worker' = [worker EXCEPT !.life = "deleted"]
  /\ posted' = [k \in 1 .. Cardinality({i \in 1 .. Len(posted) : posted[i] = "removeThread"})
                  |-> "removeThread"]
  /\ IF session.life = "deleted"
     THEN hub' = Idle /\ UNCHANGED <<session, asked>>
     ELSE hub' = [at |-> "awaitShutdown", after |-> "idle"] /\ DestroySession
  /\ UNCHANGED <<client, requests, quic, jackTrip, protocols, released, dangling,
                 threadVars, poolVars>>

-----------------------------------------------------------------------------
Hub ==
  \/ OnEstablished \/ (\E o \in Outcomes : OnFirstPacket(o)) \/ OnLatePacket
  \/ OnWaitedTooLong \/ OnSessionClosed \/ OnProtocolEnd \/ OnStopped \/ OnGone
  \/ JoinSender \/ JoinReceiver \/ CloseAudio \/ CloseSession \/ SignalRemoveThread
  \/ HandleWorkerRemoval \/ DeleteSession \/ SessionDeleted \/ DeleteWorker
  \/ CloseSessionForGood \/ DeleteProtocols \/ DeleteChildren

MsQuic ==
  \/ LocalShutdown \/ ShutdownComplete
  \/ \E b \in Buffers : SendStateChanged(b, TRUE)

Sender ==
  \/ (\E channels \in BOOLEAN : Run("sender", channels))
  \/ WaitEnds("sender") \/ (\E b \in Buffers \cup {NoBuffer} : SenderEnds(b))
  \/ \E sent \in BOOLEAN : SenderSendsExit(sent)

Receiver ==
  \/ (\E channels \in BOOLEAN : Run("receiver", channels))
  \/ WaitEnds("receiver") \/ ReceiverEnds

Client ==
  \/ ClientVanishes \/ StreamEnds \/ PeerShutdown
  \/ \E good \in BOOLEAN : Request(good)
  \/ \E refused \in BOOLEAN : DatagramReceived(refused)

AudioSend == \E sent \in BOOLEAN : AudioSends(sent)

Next ==
  \/ Client \/ MsQuic \/ Hub \/ Sender \/ Receiver
  \/ TransportShutdown \/ ReceiverWaitedTooLong \/ AudioSend
  \/ \E b \in Buffers : SendStateChanged(b, FALSE)
  \/ \E b \in Buffers : AudioFills(b)

Spec == Init /\ [][Next]_vars

\* The hub's loop runs, msquic answers, started threads run, and msquic's idle
\* timeout ends the connection of a client that is gone.
FairSpec ==
  /\ Spec
  /\ WF_vars(Hub) /\ WF_vars(MsQuic)
  /\ WF_vars(Sender) /\ WF_vars(Receiver) /\ WF_vars(AudioSend)
  /\ WF_vars(client = "gone" /\ TransportShutdown)

-----------------------------------------------------------------------------
\* A buffer that msquic holds is in use, still allocated, and nobody's else: the
\* audio thread's next packet and the exit packet never overwrite a datagram that
\* has not been sent ("MsQuic buffer struct (must stay alive!)",
\* WebTransportDataProtocol.h:129).
LentBuffersUntouched ==
  /\ \A b \in lent : inUse[b] /\ allocated /\ audio # b /\ exit # b
  /\ audio \in Buffers => audio # exit

\* However the connection of an established or refused session ends, its worker
\* is deleted and its slot released: by the client, by its silence, by msquic or
\* by a request that comes too often, in any order.
EndedSessionIsReleased ==
  (session.mState # "CONNECTING" /\ quic # "up") ~> (worker.life = "deleted" \/ hub.at = "crashed")

\* The thread of the hub, which serves every client, does not wait for ever for
\* one of them: for threads that do not end, for a buffer that does not come
\* back, or for a shutdown that nobody asked for.
HubGoesOn == hub.at # "idle" ~> (hub.at \in {"idle", "crashed"})

\* A protocol has a session as long as it exists: "Unregister callbacks before
\* destruction" (WebTransportDataProtocol.cpp:114) finds the session it names.
SessionOutlivesProtocols == ~dangling
=============================================================================
