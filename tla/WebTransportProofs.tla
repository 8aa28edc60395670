-------------------------- MODULE WebTransportProofs --------------------------
(* Proofs about WebTransport, for every pool of buffers and every number of *)
(* requests: the buffers that msquic holds are left alone.                  *)
EXTENDS WebTransport, FiniteSetTheorems, TLAPS

\* The hub's posted events.
Events == {"established", "failed", "closed", "sessionClosed", "first", "signalError",
           "waitingTooLong", "ceaseTransmission", "stopped", "removeThread", "deleteSession",
           "deleteWorker"}

\* Where JackTrip::stop returns to, and all places of the hub's thread.
Afters == {"idle", "close", "closeForGood"}
Places == Afters \cup {"stopSender", "stopReceiver", "closeAudio", "remove", "awaitShutdown",
                       "deleteProtocols", "deleteChildren", "crashed"}

ThreadPlaces == {"none", "started", "waits", "loops", "ends", "done"}

SessionStates == {"CONNECTING", "CONNECTED", "SHUTTING_DOWN", "DISCONNECTED", "FAILED"}

\* The variables that the argument is about are in range.
PoolTypes ==
  /\ session \in [life : {"alive", "deleting", "deleted"}, mState : SessionStates,
                  callback : {"worker", "receiver", "none"}]
  /\ worker \in [life : {"alive", "deleted"}, mSpawning : BOOLEAN, mRunning : BOOLEAN,
                 mWebTransportSession : BOOLEAN]
  /\ thread \in [sender : ThreadPlaces, receiver : ThreadPlaces]
  /\ hub \in [at : Places, after : Afters]
  /\ posted \in Seq(Events)
  /\ inUse \in [Buffers -> BOOLEAN]
  /\ allocated \in BOOLEAN
  /\ lent \subseteq Buffers
  /\ audio \in Buffers \cup {"off", "idle"}
  /\ exit \in Buffers \cup {NoBuffer}

\* Whoever holds a buffer has marked it, and the pool is there.
HoldersMark ==
  /\ audio \in Buffers => inUse[audio] /\ allocated
  /\ exit # NoBuffer => inUse[exit] /\ thread.sender = "ends"
  /\ thread.sender \in {"waits", "loops", "ends"} => allocated

\* The sender and the audio are those of a JackTrip that runs: when the hub's
\* thread has come to the end of JackTrip::stop, neither touches a buffer again.
HoldersRun ==
  /\ jackTrip # "running" => audio = "off" /\ thread.sender \in {"none", "done"}
  /\ hub.at \in {"close", "closeForGood", "deleteProtocols"} => jackTrip # "running"
  /\ hub.at \in {"stopSender", "stopReceiver", "closeAudio"} => jackTrip = "running"
  /\ hub.at \in {"stopReceiver", "closeAudio"} => thread.sender = "done"

\* No, or at most one, event of the queue says that the session is established.
NoneEstablished(q) == \A i \in 1 .. Len(q) : q[i] # "established"
OneEstablished(q) ==
  \A i, j \in 1 .. Len(q) : q[i] = "established" /\ q[j] = "established" => i = j

\* A session is established once, so that there is one JackTrip and one start.
EstablishedOnce ==
  /\ session.mState = "CONNECTING" => jackTrip = "none"
  /\ worker.mSpawning => jackTrip = "ready"
  /\ jackTrip # "none" \/ session.mState = "CONNECTING" => NoneEstablished(posted)
  /\ OneEstablished(posted)

\* The inductive invariant.
PoolInv == PoolTypes /\ HoldersMark /\ HoldersRun /\ EstablishedOnce /\ LentBuffersUntouched

-----------------------------------------------------------------------------
(* The queue of posted events *)

\* A step that establishes nothing takes q to r.
Quietly(q, r) ==
  /\ r \in Seq(Events)
  /\ NoneEstablished(q) => NoneEstablished(r)
  /\ OneEstablished(q) => OneEstablished(r)

\* A posted event, other than the one that establishes, is quiet.
LEMMA AppendIsQuiet ==
  ASSUME NEW q \in Seq(Events), NEW e \in Events \ {"established"}
  PROVE  Quietly(q, Append(q, e))
BY DEF Quietly, NoneEstablished, OneEstablished

\* So is taking the head; taking the one that establishes leaves none.
LEMMA TailIsQuiet ==
  ASSUME NEW q \in Seq(Events), q # << >>
  PROVE  /\ Quietly(q, Tail(q))
         /\ OneEstablished(q) /\ Head(q) = "established" => NoneEstablished(Tail(q))
<1>1. Tail(q) \in Seq(Events) /\ Len(Tail(q)) = Len(q) - 1 /\ Len(q) \in Nat \ {0}
  OBVIOUS
<1>2. \A i \in 1 .. Len(Tail(q)) : Tail(q)[i] = q[i + 1] /\ i + 1 \in 1 .. Len(q)
  BY <1>1
<1>3. NoneEstablished(q) => NoneEstablished(Tail(q))
  BY <1>2 DEF NoneEstablished
<1>4. OneEstablished(q) => OneEstablished(Tail(q))
  <2> SUFFICES ASSUME OneEstablished(q), NEW i \in 1 .. Len(Tail(q)), NEW j \in 1 .. Len(Tail(q)),
                      Tail(q)[i] = "established", Tail(q)[j] = "established"
               PROVE  i = j
    BY DEF OneEstablished
  <2>1. i + 1 = j + 1
    BY <1>2 DEF OneEstablished
  <2> QED BY <2>1, <1>1
<1>5. OneEstablished(q) /\ Head(q) = "established" => NoneEstablished(Tail(q))
  <2> SUFFICES ASSUME OneEstablished(q), Head(q) = "established", NEW i \in 1 .. Len(Tail(q)),
                      Tail(q)[i] = "established"
               PROVE  FALSE
    BY DEF NoneEstablished
  <2>1. q[1] = "established" /\ 1 \in 1 .. Len(q)
    BY <1>1
  <2>2. i + 1 = 1
    BY <1>2, <2>1 DEF OneEstablished
  <2> QED BY <2>2, <1>1
<1> QED BY <1>1, <1>3, <1>4, <1>5 DEF Quietly

\* Where none is queued, one may be.
LEMMA EstablishOnce ==
  ASSUME NEW q \in Seq(Events), NoneEstablished(q)
  PROVE  Append(q, "established") \in Seq(Events) /\ OneEstablished(Append(q, "established"))
<1>1. "established" \in Events
  BY DEF Events
<1> QED BY <1>1 DEF NoneEstablished, OneEstablished

\* What handlers and signals do to the queue.
LEMMA PostingIsQuiet ==
  ASSUME posted \in Seq(Events), NEW e \in Events \ {"established"}
  PROVE  /\ Quietly(posted, posted)
         /\ Quietly(posted, Append(posted, e))
         /\ Quietly(posted, posted \o Heard(e))
         /\ posted # << >> => Quietly(posted, Tail(posted)) /\ Quietly(posted, Append(Tail(posted), e))
<1>1. Quietly(posted, posted) /\ Quietly(posted, Append(posted, e))
  BY AppendIsQuiet DEF Quietly
<1>2. \/ posted \o Heard(e) = posted
      \/ posted \o Heard(e) = Append(posted, e)
      \/ posted \o Heard(e) = Append(Append(posted, e), "sessionClosed")
  <2>1. posted \o << >> = posted
    OBVIOUS
  <2>2. posted \o (<< e >> \o << >>) = Append(posted, e)
    OBVIOUS
  <2>3. posted \o (<< e >> \o << "sessionClosed" >>) = Append(Append(posted, e), "sessionClosed")
    BY DEF Events
  <2> QED BY <2>1, <2>2, <2>3 DEF Heard
<1>3. Quietly(posted, Append(Append(posted, e), "sessionClosed"))
  <2>1. "sessionClosed" \in Events \ {"established"} /\ Append(posted, e) \in Seq(Events)
    BY DEF Events
  <2>2. Quietly(Append(posted, e), Append(Append(posted, e), "sessionClosed"))
    BY <2>1, AppendIsQuiet
  <2> QED BY <1>1, <2>2 DEF Quietly
<1>4. ASSUME posted # << >>
      PROVE  Quietly(posted, Tail(posted)) /\ Quietly(posted, Append(Tail(posted), e))
  <2>1. Quietly(posted, Tail(posted))
    BY <1>4, TailIsQuiet
  <2>2. Quietly(Tail(posted), Append(Tail(posted), e))
    BY <2>1, AppendIsQuiet DEF Quietly
  <2> QED BY <2>1, <2>2 DEF Quietly
<1> QED BY <1>1, <1>2, <1>3, <1>4
-----------------------------------------------------------------------------
(* What each step does to the parts of the invariant *)

\* Only a request can establish the session.
LEMMA StepIsQuiet ==
  ASSUME posted \in Seq(Events), [Next]_vars, \A good \in BOOLEAN : ~Request(good)
  PROVE  Quietly(posted, posted')
<1> USE PostingIsQuiet DEF Events
<1>1. CASE UNCHANGED posted
  <2>1. "first" \in Events \ {"established"}
    OBVIOUS
  <2> QED BY <1>1, <2>1
<1>2. CASE TransportShutdown
  BY <1>2 DEF TransportShutdown
<1>3. CASE ShutdownComplete
  <2>1. UNCHANGED posted \/ posted' = posted \o Heard("closed")
    BY <1>3 DEF ShutdownComplete
  <2> QED BY <1>1, <2>1
<1>4. ASSUME NEW refused \in BOOLEAN, DatagramReceived(refused)
      PROVE  Quietly(posted, posted')
  <2>1. \/ UNCHANGED posted \/ posted' = Append(posted, "first")
        \/ posted' = Append(posted, "signalError")
    BY <1>4 DEF DatagramReceived
  <2> QED BY <1>1, <2>1
<1>5. CASE ReceiverWaitedTooLong
  BY <1>5 DEF ReceiverWaitedTooLong
<1>6. ASSUME NEW sent \in BOOLEAN, SenderSendsExit(sent)
      PROVE  Quietly(posted, posted')
  BY <1>6 DEF SenderSendsExit
<1>7. CASE \/ OnEstablished \/ OnLatePacket \/ OnWaitedTooLong \/ OnSessionClosed
           \/ OnProtocolEnd \/ OnGone \/ DeleteSession \/ DeleteWorker
  <2>1. posted # << >> /\ posted' = Tail(posted)
    BY <1>7 DEF OnEstablished, OnLatePacket, OnWaitedTooLong, OnSessionClosed, OnProtocolEnd,
                OnGone, DeleteSession, DeleteWorker, Delivered
  <2> QED BY <2>1, TailIsQuiet
<1>8. CASE OnStopped \/ HandleWorkerRemoval \/ \E o \in Outcomes : OnFirstPacket(o)
  <2>1. /\ posted # << >>
        /\ \/ posted' = Tail(posted) \/ posted' = Append(Tail(posted), "deleteWorker")
           \/ posted' = Append(Tail(posted), "stopped")
    BY <1>8 DEF OnStopped, HandleWorkerRemoval, OnFirstPacket, Outcomes, Delivered, ReleaseThread
  <2> QED BY <2>1, TailIsQuiet
<1>9. CASE CloseAudio \/ SignalRemoveThread \/ CloseSession \/ CloseSessionForGood
  <2>1. \/ UNCHANGED posted \/ posted' = Append(posted, "stopped")
        \/ posted' = Append(posted, "removeThread") \/ posted' = Append(posted, "deleteSession")
    BY <1>9 DEF CloseAudio, SignalRemoveThread, CloseSession, CloseSessionForGood, LetGo
  <2> QED BY <1>1, <2>1
<1>10. CASE DeleteChildren
  <2> DEFINE kept == {i \in 1 .. Len(posted) : posted[i] = "removeThread"}
  <2>1. Len(posted) \in Nat
    OBVIOUS
  <2>2. IsFiniteSet(kept)
    <3>1. IsFiniteSet(1 .. Len(posted))
      BY <2>1, FS_Interval
    <3>2. kept \subseteq 1 .. Len(posted)
      OBVIOUS
    <3> QED BY <3>1, <3>2, FS_Subset
  <2>3. posted' = [k \in 1 .. Cardinality(kept) |-> "removeThread"]
    BY <1>10 DEF DeleteChildren
  <2> HIDE DEF kept
  <2>5. Cardinality(kept) \in Nat
    BY <2>2, FS_CardinalityType
  <2>4. posted' \in Seq(Events) /\ Len(posted') = Cardinality(kept)
    BY <2>5, <2>3
  <2> QED BY <2>5, <2>3, <2>4 DEF Quietly, NoneEstablished, OneEstablished
<1>11. CASE \/ ClientVanishes \/ StreamEnds \/ PeerShutdown \/ LocalShutdown \/ ReceiverEnds
            \/ JoinSender \/ JoinReceiver \/ SessionDeleted \/ DeleteProtocols
            \/ (\E b \in Buffers, final \in BOOLEAN : SendStateChanged(b, final))
            \/ (\E p \in {"sender", "receiver"} : WaitEnds(p) \/ \E c \in BOOLEAN : Run(p, c))
            \/ (\E b \in Buffers \cup {NoBuffer} : SenderEnds(b) \/ AudioFills(b))
            \/ AudioSend \/ UNCHANGED vars
  <2>1. UNCHANGED posted
    BY <1>11 DEF ClientVanishes, StreamEnds, PeerShutdown, LocalShutdown, ReceiverEnds,
                 JoinSender, JoinReceiver, SessionDeleted, DeleteProtocols, SendStateChanged,
                 WaitEnds, Run, SenderEnds, AudioFills, AudioSend, AudioSends, vars
  <2> QED BY <1>1, <2>1
<1> QED
  BY <1>2, <1>3, <1>4, <1>5, <1>6, <1>7, <1>8, <1>9, <1>10, <1>11
     DEF Next, Client, MsQuic, Hub, Sender, Receiver

\* The session's state, and that it never becomes CONNECTING again.
LEMMA SessionKept ==
  ASSUME PoolTypes, [Next]_vars
  PROVE  /\ session' \in [life : {"alive", "deleting", "deleted"}, mState : SessionStates,
                          callback : {"worker", "receiver", "none"}]
         /\ session'.mState = "CONNECTING" => session.mState = "CONNECTING"
<1> DEFINE Goal ==
      /\ session' \in [life : {"alive", "deleting", "deleted"}, mState : SessionStates,
                       callback : {"worker", "receiver", "none"}]
      /\ session'.mState = "CONNECTING" => session.mState = "CONNECTING"
<1> USE DEF PoolTypes, SessionStates
<1>1. UNCHANGED session => Goal
  OBVIOUS
<1>2. close => Goal
  BY DEF close
<1>3. DestroySession => Goal
  BY DEF DestroySession
<1>4. ASSUME NEW good \in BOOLEAN, Request(good) PROVE Goal
  BY <1>4 DEF Request, sendConnectResponse
<1>5. CASE PeerShutdown \/ TransportShutdown \/ ShutdownComplete
  BY <1>5 DEF PeerShutdown, TransportShutdown, ShutdownComplete
<1>6. ASSUME NEW o \in Outcomes, OnFirstPacket(o) PROVE Goal
  BY <1>6 DEF OnFirstPacket
<1>7. CASE SessionDeleted \/ DeleteProtocols
  BY <1>7 DEF SessionDeleted, DeleteProtocols
<1>8. CASE \/ StreamEnds \/ ReceiverEnds \/ OnWaitedTooLong \/ CloseSession
           \/ CloseSessionForGood
  <2>1. close \/ UNCHANGED session
    BY <1>8 DEF StreamEnds, ReceiverEnds, OnWaitedTooLong, CloseSession, CloseSessionForGood, LetGo
  <2> QED BY <2>1, <1>1, <1>2
<1>9. CASE DeleteSession \/ DeleteChildren
  <2>1. DestroySession \/ UNCHANGED session
    BY <1>9 DEF DeleteSession, DeleteChildren
  <2> QED BY <2>1, <1>1, <1>3
<1>10. CASE \/ ClientVanishes \/ LocalShutdown \/ ReceiverWaitedTooLong
            \/ (\E refused \in BOOLEAN : DatagramReceived(refused))
            \/ (\E b \in Buffers, final \in BOOLEAN : SendStateChanged(b, final))
            \/ Sender \/ (\E c \in BOOLEAN : Run("receiver", c)) \/ WaitEnds("receiver")
            \/ AudioSend \/ (\E b \in Buffers : AudioFills(b)) \/ UNCHANGED vars
            \/ OnEstablished \/ OnLatePacket \/ OnSessionClosed \/ OnProtocolEnd \/ OnStopped
            \/ OnGone \/ JoinSender \/ JoinReceiver \/ CloseAudio \/ SignalRemoveThread
            \/ HandleWorkerRemoval \/ DeleteWorker
  <2>1. UNCHANGED session
    BY <1>10 DEF ClientVanishes, LocalShutdown, ReceiverWaitedTooLong, DatagramReceived,
         SendStateChanged, Sender, Run, WaitEnds, SenderEnds, SenderSendsExit, AudioSend,
         AudioSends, AudioFills, vars, OnEstablished, OnLatePacket, OnSessionClosed,
         OnProtocolEnd, OnStopped, OnGone, JoinSender, JoinReceiver, CloseAudio,
         SignalRemoveThread, HandleWorkerRemoval, DeleteWorker
  <2> QED BY <2>1, <1>1
<1> QED
  BY <1>4, <1>5, <1>6, <1>7, <1>8, <1>9, <1>10 DEF Next, Client, MsQuic, Hub, Receiver

\* The worker, and that only OnEstablished makes it spawn.
LEMMA WorkerKept ==
  ASSUME PoolTypes, [Next]_vars
  PROVE  /\ worker' \in [life : {"alive", "deleted"}, mSpawning : BOOLEAN,
                         mRunning : BOOLEAN, mWebTransportSession : BOOLEAN]
         /\ worker'.mSpawning => worker.mSpawning \/ OnEstablished
<1> DEFINE Goal ==
      /\ worker' \in [life : {"alive", "deleted"}, mSpawning : BOOLEAN,
                      mRunning : BOOLEAN, mWebTransportSession : BOOLEAN]
      /\ worker'.mSpawning => worker.mSpawning \/ OnEstablished
<1> USE DEF PoolTypes
<1>1. CASE OnEstablished
  BY <1>1 DEF OnEstablished
<1>2. ASSUME NEW o \in Outcomes, OnFirstPacket(o) PROVE Goal
  BY <1>2 DEF OnFirstPacket
<1>3. CASE OnStopped \/ OnGone \/ DeleteWorker
  BY <1>3 DEF OnStopped, OnGone, DeleteWorker
<1>4. CASE CloseSession \/ CloseSessionForGood \/ DeleteChildren
  BY <1>4 DEF CloseSession, CloseSessionForGood, LetGo, DeleteChildren
<1>5. CASE \/ Client \/ MsQuic \/ Sender \/ Receiver \/ TransportShutdown
           \/ ReceiverWaitedTooLong \/ AudioSend \/ UNCHANGED vars
           \/ (\E b \in Buffers : SendStateChanged(b, FALSE) \/ AudioFills(b))
           \/ OnLatePacket \/ OnWaitedTooLong \/ OnSessionClosed \/ OnProtocolEnd
           \/ JoinSender \/ JoinReceiver \/ CloseAudio \/ SignalRemoveThread
           \/ HandleWorkerRemoval \/ DeleteSession \/ SessionDeleted \/ DeleteProtocols
  <2>1. UNCHANGED worker
    BY <1>5 DEF Client, MsQuic, Sender, Receiver, ClientVanishes, StreamEnds, PeerShutdown,
         Request, DatagramReceived, LocalShutdown, ShutdownComplete, SendStateChanged, Run,
         WaitEnds, SenderEnds, SenderSendsExit, ReceiverEnds, TransportShutdown,
         ReceiverWaitedTooLong, AudioSend, AudioSends, AudioFills, OnLatePacket,
         OnWaitedTooLong, OnSessionClosed, OnProtocolEnd, JoinSender, JoinReceiver, CloseAudio,
         SignalRemoveThread, HandleWorkerRemoval, DeleteSession, SessionDeleted,
         DeleteProtocols, workerVars, vars
  <2> QED BY <2>1
<1> QED
  BY <1>1, <1>2, <1>3, <1>4, <1>5 DEF Next, Hub

\* JackTrip's phase changes in three handlers.
LEMMA PhaseKept ==
  ASSUME [Next]_vars
  PROVE  UNCHANGED jackTrip \/ OnEstablished \/ CloseAudio \/ \E o \in Outcomes : OnFirstPacket(o)
BY DEF Next, Client, MsQuic, Hub, Sender, Receiver, AudioSend, ClientVanishes, StreamEnds,
       PeerShutdown, Request, DatagramReceived, LocalShutdown, ShutdownComplete,
       SendStateChanged, Run, WaitEnds, SenderEnds, SenderSendsExit, ReceiverEnds,
       TransportShutdown, ReceiverWaitedTooLong, AudioSends, AudioFills, OnLatePacket,
       OnWaitedTooLong, OnSessionClosed, OnProtocolEnd, OnStopped, OnGone, JoinSender,
       JoinReceiver, CloseSession, CloseSessionForGood, LetGo, SignalRemoveThread,
       HandleWorkerRemoval, DeleteSession, SessionDeleted, DeleteWorker, DeleteProtocols,
       DeleteChildren, workerVars, vars

\* The event that establishes the session is posted by the first good request only,
\* and JackTrip leaves "none" when the hub takes it.
LEMMA EstablishedOnceKept ==
  ASSUME PoolInv, [Next]_vars
  PROVE  EstablishedOnce' /\ posted' \in Seq(Events)
<1> USE DEF PoolInv, EstablishedOnce
<1>1. session'.mState = "CONNECTING" => session.mState = "CONNECTING"
  BY SessionKept
<1>2. worker'.mSpawning => worker.mSpawning \/ OnEstablished
  BY WorkerKept
<1>3. posted \in Seq(Events)
  BY DEF PoolTypes
<1>4. ASSUME NEW good \in BOOLEAN, Request(good)
      PROVE  EstablishedOnce' /\ posted' \in Seq(Events)
  <2>1. UNCHANGED <<jackTrip, worker>>
    BY <1>4 DEF Request, workerVars
  <2>2. session'.mState # "CONNECTING"
    BY <1>4 DEF Request, sendConnectResponse, PoolTypes
  <2>3. CASE session.mState = "CONNECTING" /\ posted' = posted \o << "established" >>
    <3>1. posted' = Append(posted, "established")
      BY <2>3, <1>3
    <3>2. jackTrip = "none" /\ NoneEstablished(posted)
      BY <2>3
    <3> QED BY <3>1, <3>2, <2>1, <2>2, <1>3, EstablishOnce
  <2>4. CASE Quietly(posted, posted')
    BY <2>1, <2>2, <2>4 DEF Quietly
  <2>5. \/ session.mState = "CONNECTING" /\ posted' = posted \o << "established" >>
        \/ posted' = posted \o << >>
        \/ posted' = posted \o Heard("failed")
    BY <1>4 DEF Request, sendConnectResponse, processConnectRequest
  <2>6. Quietly(posted, posted \o << >>) /\ Quietly(posted, posted \o Heard("failed"))
    <3>1. posted \o << >> = posted
      BY <1>3
    <3>2. "failed" \in Events \ {"established"}
      BY DEF Events
    <3> QED BY <3>1, <3>2, <1>3, PostingIsQuiet
  <2> QED BY <2>3, <2>4, <2>5, <2>6
<1>5. CASE \A good \in BOOLEAN : ~Request(good)
  <2>1. Quietly(posted, posted')
    BY <1>3, <1>5, StepIsQuiet
  <2>2. CASE OnEstablished
    <3>1. posted # << >> /\ Head(posted) = "established" /\ posted' = Tail(posted)
      BY <2>2 DEF OnEstablished, Delivered
    <3>2. NoneEstablished(posted')
      BY <3>1, <1>3, TailIsQuiet
    <3>3. jackTrip = "none" /\ session.mState # "CONNECTING"
      BY <3>1, <1>3 DEF NoneEstablished
    <3>4. worker'.mSpawning => jackTrip' = "ready"
      BY <2>2, <3>3 DEF OnEstablished, PoolTypes
    <3> QED BY <2>1, <3>2, <3>3, <3>4, <1>1 DEF Quietly
  <2>3. ASSUME NEW o \in Outcomes, OnFirstPacket(o) PROVE EstablishedOnce'
    <3>1. worker.mSpawning /\ ~worker'.mSpawning
      BY <2>3 DEF OnFirstPacket, PoolTypes
    <3>2. jackTrip = "ready"
      BY <3>1
    <3> QED BY <2>1, <3>1, <3>2, <1>1 DEF Quietly
  <2>4. CASE CloseAudio
    <3>1. jackTrip = "running" /\ worker' = worker /\ session' = session
      BY <2>4 DEF CloseAudio, HoldersRun
    <3> QED BY <2>1, <3>1 DEF Quietly
  <2>5. CASE UNCHANGED jackTrip /\ ~OnEstablished
    BY <2>1, <2>5, <1>1, <1>2 DEF Quietly
  <2> QED BY <2>1, <2>2, <2>3, <2>4, <2>5, PhaseKept DEF Quietly
<1> QED BY <1>4, <1>5

\* The steps that touch the pool, or the threads that use it.
LEMMA PoolSteps ==
  ASSUME [Next]_vars
  PROVE  \/ UNCHANGED <<exit, inUse, allocated, lent, audio, thread>>
         \/ \E b \in Buffers, final \in BOOLEAN : SendStateChanged(b, final)
         \/ \E p \in {"sender", "receiver"} : WaitEnds(p) \/ \E c \in BOOLEAN : Run(p, c)
         \/ \E b \in Buffers \cup {NoBuffer} : SenderEnds(b)
         \/ \E sent \in BOOLEAN : SenderSendsExit(sent) \/ AudioSends(sent)
         \/ \E b \in Buffers : AudioFills(b)
         \/ \E o \in Outcomes : OnFirstPacket(o)
         \/ ReceiverEnds \/ CloseAudio \/ DeleteProtocols
<1>1. CASE \/ ClientVanishes \/ StreamEnds \/ PeerShutdown \/ LocalShutdown \/ ShutdownComplete
           \/ (\E good \in BOOLEAN : Request(good)) \/ TransportShutdown
           \/ (\E refused \in BOOLEAN : DatagramReceived(refused))
           \/ ReceiverWaitedTooLong \/ UNCHANGED vars
  BY <1>1 DEF ClientVanishes, StreamEnds, PeerShutdown, LocalShutdown, ShutdownComplete, Request,
       TransportShutdown, DatagramReceived, ReceiverWaitedTooLong, vars, threadVars, poolVars
<1>2. CASE \/ OnEstablished \/ OnLatePacket \/ OnWaitedTooLong \/ OnSessionClosed
           \/ OnProtocolEnd \/ OnStopped \/ OnGone \/ JoinSender \/ JoinReceiver
           \/ CloseSession \/ SignalRemoveThread \/ HandleWorkerRemoval \/ DeleteSession
           \/ SessionDeleted \/ DeleteWorker \/ CloseSessionForGood \/ DeleteChildren
  BY <1>2 DEF OnEstablished, OnLatePacket, OnWaitedTooLong, OnSessionClosed, OnProtocolEnd,
       OnStopped, OnGone, JoinSender, JoinReceiver, CloseSession, SignalRemoveThread,
       HandleWorkerRemoval, DeleteSession, SessionDeleted, DeleteWorker, CloseSessionForGood,
       LetGo, DeleteChildren, threadVars, poolVars
<1> QED BY <1>1, <1>2 DEF Next, Client, MsQuic, Hub, Sender, Receiver, AudioSend

\* The other variables stay in range.
LEMMA TypesKept ==
  ASSUME PoolTypes, [Next]_vars, posted' \in Seq(Events), hub' \in [at : Places, after : Afters]
  PROVE  PoolTypes'
<1> DEFINE Ranges ==
      /\ thread \in [sender : ThreadPlaces, receiver : ThreadPlaces]
      /\ inUse \in [Buffers -> BOOLEAN] /\ allocated \in BOOLEAN /\ lent \subseteq Buffers
      /\ audio \in Buffers \cup {"off", "idle"} /\ exit \in Buffers \cup {NoBuffer}
<1> USE DEF PoolTypes, ThreadPlaces
<1>1. CASE UNCHANGED <<exit, inUse, allocated, lent, audio, thread>>
  <2>1. Ranges'
    BY <1>1
  <2> QED BY <2>1, SessionKept, WorkerKept
<1>2. ASSUME NEW b \in Buffers, NEW final \in BOOLEAN, SendStateChanged(b, final) PROVE Ranges'
  BY <1>2 DEF SendStateChanged, threadVars
<1>3. ASSUME NEW p \in {"sender", "receiver"}, WaitEnds(p) PROVE Ranges'
  BY <1>3 DEF WaitEnds, poolVars
<1>4. ASSUME NEW p \in {"sender", "receiver"}, NEW c \in BOOLEAN, Run(p, c) PROVE Ranges'
  BY <1>4 DEF Run
<1>5. ASSUME NEW b \in Buffers \cup {NoBuffer}, SenderEnds(b) PROVE Ranges'
  BY <1>5 DEF SenderEnds, Acquire
<1>6. ASSUME NEW sent \in BOOLEAN, SenderSendsExit(sent) PROVE Ranges'
  BY <1>6 DEF SenderSendsExit
<1>7. ASSUME NEW sent \in BOOLEAN, AudioSends(sent) PROVE Ranges'
  BY <1>7 DEF AudioSends
<1>8. ASSUME NEW b \in Buffers, AudioFills(b) PROVE Ranges'
  BY <1>8 DEF AudioFills, Acquire
<1>9. ASSUME NEW o \in Outcomes, OnFirstPacket(o) PROVE Ranges'
  BY <1>9 DEF OnFirstPacket, Outcomes, poolVars
<1>10. CASE ReceiverEnds
  <2>1. Ranges'
    BY <1>10 DEF ReceiverEnds, poolVars
  <2> QED BY <2>1, SessionKept, WorkerKept
<1>11. CASE CloseAudio \/ DeleteProtocols
  <2>1. Ranges'
    BY <1>11 DEF CloseAudio, DeleteProtocols, poolVars, threadVars
  <2> QED BY <2>1, SessionKept, WorkerKept
<1> QED
  BY <1>1, <1>2, <1>3, <1>4, <1>5, <1>6, <1>7, <1>8, <1>9, <1>10, <1>11, PoolSteps,
     SessionKept, WorkerKept

\* How the hub's thread moves: it enters JackTrip::stop of a JackTrip that runs, and
\* goes past the call where none does.
LEMMA HubSteps ==
  ASSUME hub \in [at : Places, after : Afters], [Next]_vars
  PROVE  /\ hub' \in [at : Places, after : Afters]
         /\ \/ UNCHANGED hub
            \/ hub'.at \in {"idle", "crashed", "remove", "awaitShutdown", "deleteChildren"}
            \/ hub'.at = "stopSender" /\ jackTrip = "running"
            \/ hub'.at \in {"close", "closeForGood"} /\ jackTrip # "running" /\ UNCHANGED jackTrip
            \/ hub'.at = "deleteProtocols" /\ hub.at = "closeForGood" /\ UNCHANGED jackTrip
            \/ JoinSender \/ JoinReceiver \/ CloseAudio
<1> USE DEF Places, Afters
<1>1. CASE \/ Client \/ MsQuic \/ Sender \/ Receiver \/ TransportShutdown \/ AudioSend
           \/ ReceiverWaitedTooLong \/ OnEstablished \/ OnLatePacket \/ OnWaitedTooLong
           \/ OnSessionClosed \/ UNCHANGED vars
           \/ (\E b \in Buffers : SendStateChanged(b, FALSE) \/ AudioFills(b))
  <2>1. UNCHANGED hub
    BY <1>1 DEF Client, MsQuic, Sender, Receiver, ClientVanishes, StreamEnds, PeerShutdown,
         Request, DatagramReceived, LocalShutdown, ShutdownComplete, SendStateChanged, Run,
         WaitEnds, SenderEnds, SenderSendsExit, ReceiverEnds, TransportShutdown,
         ReceiverWaitedTooLong, AudioSend, AudioSends, AudioFills, OnEstablished, OnLatePacket,
         OnWaitedTooLong, OnSessionClosed, vars
  <2> QED BY <2>1
<1>2. ASSUME NEW o \in Outcomes, OnFirstPacket(o)
      PROVE  UNCHANGED hub \/ hub' = [Idle EXCEPT !.at = "crashed"]
  BY <1>2 DEF OnFirstPacket, Outcomes, ReleaseThread
<1>3. CASE OnStopped \/ HandleWorkerRemoval
  <2>1. UNCHANGED hub \/ hub' = [Idle EXCEPT !.at = "crashed"]
    BY <1>3 DEF OnStopped, HandleWorkerRemoval, ReleaseThread
  <2> QED BY <2>1 DEF Idle
<1>4. CASE OnProtocolEnd \/ OnGone \/ DeleteWorker
  BY <1>4 DEF OnProtocolEnd, OnGone, DeleteWorker, StopJackTrip, workerVars
<1>5. CASE CloseSession \/ CloseSessionForGood
  BY <1>5 DEF CloseSession, CloseSessionForGood, LetGo
<1>6. CASE \/ SignalRemoveThread \/ DeleteSession \/ SessionDeleted \/ DeleteProtocols
           \/ DeleteChildren
  BY <1>6 DEF SignalRemoveThread, DeleteSession, SessionDeleted, DeleteProtocols,
       DeleteChildren, Idle
<1>7. CASE JoinSender \/ JoinReceiver \/ CloseAudio
  BY <1>7 DEF JoinSender, JoinReceiver, CloseAudio
<1>8. [Idle EXCEPT !.at = "crashed"] = [at |-> "crashed", after |-> "idle"]
  BY DEF Idle
<1> QED BY <1>1, <1>2, <1>3, <1>4, <1>5, <1>6, <1>7, <1>8 DEF Next, Hub

\* A JackTrip is started from "ready", and so only when no former one is running.
LEMMA HoldersRunKept ==
  ASSUME PoolInv, [Next]_vars
  PROVE  HoldersRun'
<1> USE DEF PoolInv, PoolTypes, HoldersRun
<1>1. ASSUME NEW o \in Outcomes, OnFirstPacket(o) PROVE HoldersRun'
  <2>1. jackTrip = "ready" /\ hub.at = "idle"
    BY <1>1 DEF OnFirstPacket, EstablishedOnce, Delivered
  <2>2. hub'.at \in {"idle", "crashed"}
    BY <1>1, <2>1 DEF OnFirstPacket, ReleaseThread, Idle, Outcomes
  <2>3. jackTrip' # "running" => audio' = audio /\ thread' = thread
    BY <1>1 DEF OnFirstPacket, Outcomes
  <2> QED BY <2>1, <2>2, <2>3
<1>2. CASE OnEstablished
  <2>1. jackTrip # "running" /\ hub.at = "idle"
    <3>1. jackTrip = "none"
      BY <1>2 DEF OnEstablished, Delivered, EstablishedOnce, NoneEstablished
    <3> QED BY <3>1, <1>2 DEF OnEstablished, Delivered
  <2> QED BY <1>2, <2>1 DEF OnEstablished, threadVars
<1>3. CASE CloseAudio
  BY <1>3 DEF CloseAudio, Afters
<1>4. CASE UNCHANGED jackTrip /\ ~CloseAudio /\ \A o \in Outcomes : ~OnFirstPacket(o)
  <2> USE WebTransportAssumption
  <2>1. thread'.sender = thread.sender \/ thread.sender \in {"started", "waits", "loops", "ends"}
    <3>1. CASE ReceiverEnds
      BY <3>1 DEF ReceiverEnds
    <3>2. CASE DeleteProtocols
      BY <3>2 DEF DeleteProtocols, threadVars
    <3> QED
      BY <1>4, <3>1, <3>2, PoolSteps DEF SendStateChanged, WaitEnds, Run, SenderEnds,
         SenderSendsExit, AudioSends, AudioFills, threadVars
  <2>2. audio = "off" => audio' = "off"
    BY <1>4, PoolSteps DEF SendStateChanged, WaitEnds, Run, SenderEnds, SenderSendsExit,
       AudioSends, AudioFills, ReceiverEnds, DeleteProtocols, threadVars
  <2>3. (jackTrip # "running" => audio = "off" /\ thread.sender \in {"none", "done"})'
    BY <1>4, <2>1, <2>2
  <2>4. CASE JoinSender
    BY <1>4, <2>3, <2>4 DEF JoinSender, Places, Afters
  <2>5. CASE JoinReceiver
    BY <1>4, <2>3, <2>5 DEF JoinReceiver, threadVars, Places, Afters
  <2>6. hub.at \in {"stopReceiver", "closeAudio"} => thread'.sender = "done"
    BY <2>1
  <2> QED BY <1>4, <2>3, <2>4, <2>5, <2>6, HubSteps
<1> QED BY <1>1, <1>2, <1>3, <1>4, PhaseKept

\* The sender and the audio thread hold what they have acquired, in a pool that is
\* there until both have ended and msquic has given back what it holds.
LEMMA HoldersKept ==
  ASSUME PoolInv, [Next]_vars, ~WaitMayExpire
  PROVE  HoldersMark' /\ LentBuffersUntouched'
<1> USE WebTransportAssumption DEF PoolInv, PoolTypes, HoldersMark, LentBuffersUntouched
<1>1. CASE UNCHANGED <<exit, inUse, allocated, lent, audio, thread>>
  BY <1>1
<1>2. ASSUME NEW b \in Buffers, NEW final \in BOOLEAN, SendStateChanged(b, final)
      PROVE  HoldersMark' /\ LentBuffersUntouched'
  BY <1>2 DEF SendStateChanged, threadVars
<1>3. ASSUME NEW p \in {"sender", "receiver"}, WaitEnds(p)
      PROVE  HoldersMark' /\ LentBuffersUntouched'
  BY <1>3 DEF WaitEnds, poolVars
<1>4. ASSUME NEW p \in {"sender", "receiver"}, NEW c \in BOOLEAN, Run(p, c)
      PROVE  HoldersMark' /\ LentBuffersUntouched'
  BY <1>4 DEF Run
<1>5. ASSUME NEW b \in Buffers \cup {NoBuffer}, SenderEnds(b)
      PROVE  HoldersMark' /\ LentBuffersUntouched'
  BY <1>5 DEF SenderEnds, Acquire
<1>6. ASSUME NEW sent \in BOOLEAN, SenderSendsExit(sent)
      PROVE  HoldersMark' /\ LentBuffersUntouched'
  BY <1>6 DEF SenderSendsExit
<1>7. ASSUME NEW sent \in BOOLEAN, AudioSends(sent)
      PROVE  HoldersMark' /\ LentBuffersUntouched'
  BY <1>7 DEF AudioSends
<1>8. ASSUME NEW b \in Buffers, AudioFills(b)
      PROVE  HoldersMark' /\ LentBuffersUntouched'
  BY <1>8 DEF AudioFills, Acquire
<1>9. ASSUME NEW o \in Outcomes, OnFirstPacket(o)
      PROVE  HoldersMark' /\ LentBuffersUntouched'
  <2>1. audio = "off" /\ thread.sender \in {"none", "done"} /\ exit = NoBuffer
    BY <1>9 DEF OnFirstPacket, HoldersRun, EstablishedOnce
  <2>2. UNCHANGED poolVars /\ audio' \in {"off", "idle"}
        /\ thread'.sender \in {"none", "done", "started"}
    BY <1>9, <2>1 DEF OnFirstPacket, Outcomes
  <2> QED BY <2>1, <2>2 DEF poolVars
<1>10. CASE ReceiverEnds
  BY <1>10 DEF ReceiverEnds, poolVars
<1>11. CASE CloseAudio
  BY <1>11 DEF CloseAudio, poolVars
<1>12. CASE DeleteProtocols
  <2>1. audio = "off" /\ thread.sender \in {"none", "done"} /\ lent = {}
    BY <1>12 DEF DeleteProtocols, HoldersRun
  <2> QED BY <1>12, <2>1 DEF DeleteProtocols, threadVars
<1> QED BY <1>1, <1>2, <1>3, <1>4, <1>5, <1>6, <1>7, <1>8, <1>9, <1>10, <1>11, <1>12, PoolSteps

\* The invariant is inductive as long as no wait for a buffer expires.
LEMMA NextPoolInv ==
  ASSUME ~WaitMayExpire
  PROVE  PoolInv /\ [Next]_vars => PoolInv'
<1> SUFFICES ASSUME PoolInv, [Next]_vars PROVE PoolInv'
  OBVIOUS
<1>1. EstablishedOnce' /\ posted' \in Seq(Events)
  BY EstablishedOnceKept
<1>2. PoolTypes'
  BY <1>1, TypesKept, HubSteps DEF PoolInv, PoolTypes
<1> QED BY <1>1, <1>2, HoldersRunKept, HoldersKept DEF PoolInv

\* The invariant holds of a worker just created.
LEMMA InitPoolInv == Init => PoolInv
<1> SUFFICES ASSUME Init PROVE PoolInv
  OBVIOUS
<1> USE WebTransportAssumption DEF Init, Idle
<1>1. PoolTypes
  <2>1. posted \in Seq(Events) /\ lent \subseteq Buffers /\ inUse \in [Buffers -> BOOLEAN]
    OBVIOUS
  <2>2. hub \in [at : Places, after : Afters]
    BY DEF Afters, Places
  <2>3. thread \in [sender : ThreadPlaces, receiver : ThreadPlaces]
    BY DEF ThreadPlaces
  <2>4. session \in [life : {"alive", "deleting", "deleted"}, mState : SessionStates,
                     callback : {"worker", "receiver", "none"}]
    BY DEF SessionStates
  <2>5. worker \in [life : {"alive", "deleted"}, mSpawning : BOOLEAN, mRunning : BOOLEAN,
                    mWebTransportSession : BOOLEAN]
    OBVIOUS
  <2> QED BY <2>1, <2>2, <2>3, <2>4, <2>5 DEF PoolTypes
<1>2. HoldersMark /\ HoldersRun /\ LentBuffersUntouched
  BY DEF HoldersMark, HoldersRun, LentBuffersUntouched
<1>3. EstablishedOnce
  <2>1. Len(posted) = 0
    OBVIOUS
  <2> QED BY <2>1 DEF EstablishedOnce, NoneEstablished, OneEstablished
<1> QED BY <1>1, <1>2, <1>3 DEF PoolInv

\* For every pool: while msquic holds a buffer, the buffer is marked as in use and not
\* freed, and neither the audio callback nor the exit packet writes to it
\* (WebTransportDataProtocol.cpp:178-280 and 422-470).  It needs that no wait in the
\* destructor expires (lines 123-135), which frees a buffer all the same.
THEOREM LentBuffersAreUntouched ==
  ASSUME ~WaitMayExpire
  PROVE  Spec => []LentBuffersUntouched
<1>1. PoolInv => LentBuffersUntouched
  BY DEF PoolInv
<1> QED BY <1>1, InitPoolInv, NextPoolInv, PTL DEF Spec
=============================================================================
