------------------------- MODULE ClientSessionProofs -------------------------
(* Proofs about JackTripSession, for every number of channels and of slots, *)
(* every kind of peer, and whether or not JACK refuses or other sessions    *)
(* reset the flag they share, also when it is connected after stop(); and   *)
(* about ClientSession: a session with what precedes it is a session, so    *)
(* that all this holds of it too.  Last, what the handshake is for.         *)
EXTENDS ClientSession, TLAPS

-----------------------------------------------------------------------------
(* The session *)

Unstarted == receiver = "new" /\ sender = "new"
BothStarted == Started(receiver) /\ Started(sender)
Joining == main \in {"joiningSender", "joiningReceiver", "stopped"}

\* How far the threads are when the event loop's thread is in each place: once
\* it is past completeConnection both have started, and stop() finds both or
\* neither.  A completeConnection that comes after stop() finds both as stop()
\* left them.
ThreadsFollowMain ==
  /\ main = "idle" => Unstarted
  /\ main = "startingReceiver" => receiver # "new" /\ Joinable(sender) /\ mStopped.sender
  /\ main = "startingSender" => Started(receiver) /\ sender # "new"
  /\ main \in {"startingAudio", "running", "crashed"} => BothStarted
  /\ Joining => Unstarted \/ BothStarted
  /\ main \in {"joiningReceiver", "stopped"} => Joinable(sender)
  /\ main = "stopped" => Joinable(receiver)

\* waitForStart has something to wait for: a thread that is being started has
\* mStopped set until it says that it runs.
UnstartedIsStopped ==
  /\ ~Started(receiver) => mStopped.receiver
  /\ ~Started(sender) => mStopped.sender

\* The audio follows the event loop's thread.
AudioFollowsMain ==
  audio \in {"on", "dead"}
    => BothStarted /\ main \in {"running", "joiningSender", "joiningReceiver"}

\* The inductive invariant.
SessionInv == /\ TypeOK /\ ThreadsFollowMain /\ UnstartedIsStopped
              /\ AudioFollowsMain /\ StopSticks

-----------------------------------------------------------------------------
\* The send ring buffer starts half full, and an overflow leaves it in range.
LEMMA HalfInRange == NumSlots \div 2 \in 0 .. NumSlots /\ NumSlots - NumSlots \div 2 \in 0 .. NumSlots
BY SessionAssumption

\* The invariant holds when the JackTrip is constructed.
LEMMA InitSessionInv == Init => SessionInv
<1> SUFFICES ASSUME Init PROVE SessionInv
  OBVIOUS
<1>1. mFullSlots \in 0 .. NumSlots
  BY HalfInRange DEF Init
<1>2. TypeOK
  <2>1. mStopped \in [{"receiver", "sender"} -> BOOLEAN]
    BY DEF Init
  <2> QED BY <1>1, <2>1 DEF Init, TypeOK
<1>3. ThreadsFollowMain
  BY DEF Init, ThreadsFollowMain, Unstarted, Joining
<1>4. UnstartedIsStopped /\ AudioFollowsMain /\ StopSticks
  BY DEF Init, UnstartedIsStopped, AudioFollowsMain, StopSticks
<1> QED BY <1>2, <1>3, <1>4 DEF SessionInv

\* Every step keeps the variables in range.
LEMMA NextTypeOK == TypeOK /\ [Next]_vars => TypeOK'
<1> SUFFICES ASSUME TypeOK, [Next]_vars PROVE TypeOK'
  OBVIOUS
<1> USE DEF TypeOK, flags
<1>1. CASE EventLoop \/ CompleteConnection \/ StopCalled \/ ConstructAnother
  <2>1. CASE StopPosted \/ StopCalled
    BY <2>1 DEF StopPosted, StopCalled, StopBegin
  <2>2. CASE JoinSender
    BY <2>2 DEF JoinSender
  <2>3. CASE CompleteConnection \/ ReceiverStarted \/ SenderStarted
    BY <2>3 DEF CompleteConnection, ReceiverStarted, SenderStarted
  <2>4. CASE StartAudio \/ StartAudioOfNone
    BY <2>4 DEF StartAudio, StartAudioOfNone
  <2>5. CASE JoinReceiver \/ ConstructAnother
    BY <2>5 DEF JoinReceiver, ConstructAnother
  <2> QED BY <1>1, <2>1, <2>2, <2>3, <2>4, <2>5 DEF EventLoop
<1>2. CASE ReceiverStarts
  BY <1>2, ZenonT(40) DEF ReceiverStarts
<1>3. CASE ReceiverTimeout
  BY <1>3, ZenonT(40) DEF ReceiverTimeout
<1>13. CASE ReceiverEnds
  BY <1>13, ZenonT(40) DEF ReceiverEnds
<1>4. ASSUME NEW kind \in PeerSends, ReceiverFirst(kind)
      PROVE  TypeOK'
  BY <1>4 DEF ReceiverFirst
<1>5. ASSUME NEW kind \in PeerSends, ReceiverPacket(kind)
      PROVE  TypeOK'
  <2>1. mStopped' \in [{"receiver", "sender"} -> BOOLEAN]
    BY <1>5 DEF ReceiverPacket
  <2> QED BY <1>5, <2>1 DEF ReceiverPacket
<1>6. CASE SenderStarts
  BY <1>6, ZenonT(40) DEF SenderStarts
<1>7. CASE SenderLoop
  BY <1>7, ZenonT(40) DEF SenderLoop
<1>8. CASE SenderReads
  BY <1>8, SessionAssumption DEF SenderReads
<1>9. CASE SenderWaits \/ SenderWakes
  BY <1>9 DEF SenderWaits, SenderWakes
<1>10. CASE AudioCallback
  BY <1>10, HalfInRange, SessionAssumption DEF AudioCallback
<1>11. CASE JackShutdown \/ PeerLeaves
  BY <1>11 DEF JackShutdown, PeerLeaves
<1>12. CASE UNCHANGED vars
  BY <1>12 DEF vars
<1> QED
  BY <1>1, <1>2, <1>3, <1>4, <1>5, <1>6, <1>7, <1>8, <1>9, <1>10, <1>11, <1>12, <1>13
     DEF Next, Receiver, Sender

\* Every step of the threads, the audio and the peer preserves the invariant.
LEMMA NextSessionInv == SessionInv /\ [Next]_vars => SessionInv'
<1> SUFFICES ASSUME SessionInv, [Next]_vars
             PROVE  (ThreadsFollowMain /\ UnstartedIsStopped /\ AudioFollowsMain /\ StopSticks)'
  BY NextTypeOK DEF SessionInv
<1>m. DOMAIN mStopped = {"receiver", "sender"}
  BY DEF SessionInv, TypeOK
<1> USE <1>m DEF SessionInv, ThreadsFollowMain, UnstartedIsStopped, AudioFollowsMain,
            StopSticks, Unstarted, BothStarted, Joining, Started, Joinable, flags
<1>1. CASE CompleteConnection
  BY <1>1 DEF CompleteConnection
<1>2. CASE ReceiverStarted
  BY <1>2 DEF ReceiverStarted
<1>3. CASE SenderStarted
  BY <1>3 DEF SenderStarted
<1>4. CASE StartAudio \/ StartAudioOfNone
  BY <1>4 DEF StartAudio, StartAudioOfNone
<1>5. CASE StopPosted
  BY <1>5 DEF StopPosted, StopBegin
<1>6. CASE StopCalled
  BY <1>6 DEF StopCalled, StopBegin
<1>7. CASE JoinSender
  BY <1>7 DEF JoinSender
<1>8. CASE JoinReceiver
  BY <1>8 DEF JoinReceiver
<1>9. CASE ConstructAnother
  BY <1>9 DEF ConstructAnother
<1>10. CASE ReceiverStarts
  BY <1>10 DEF ReceiverStarts
<1>11. CASE ReceiverTimeout
  BY <1>11 DEF ReceiverTimeout
<1>12. CASE ReceiverEnds
  BY <1>12 DEF ReceiverEnds
<1>13. CASE SenderStarts
  BY <1>13 DEF SenderStarts
<1>14. CASE SenderLoop
  BY <1>14 DEF SenderLoop
<1>15. CASE SenderReads
  BY <1>15 DEF SenderReads
<1>16. CASE SenderWaits \/ SenderWakes
  BY <1>16 DEF SenderWaits, SenderWakes
<1>17. CASE AudioCallback
  BY <1>17 DEF AudioCallback
<1>18. CASE JackShutdown
  BY <1>18 DEF JackShutdown
<1>19. CASE PeerLeaves
  BY <1>19 DEF PeerLeaves
<1>20. ASSUME NEW kind \in PeerSends, ReceiverFirst(kind)
      PROVE  (ThreadsFollowMain /\ UnstartedIsStopped /\ AudioFollowsMain /\ StopSticks)'
  BY <1>20 DEF ReceiverFirst
<1>21. ASSUME NEW kind \in PeerSends, ReceiverPacket(kind)
      PROVE  (ThreadsFollowMain /\ UnstartedIsStopped /\ AudioFollowsMain /\ StopSticks)'
  BY <1>21 DEF ReceiverPacket
<1>22. CASE UNCHANGED vars
  BY <1>22 DEF vars
<1> QED
  BY <1>1, <1>2, <1>3, <1>4, <1>5, <1>6, <1>7, <1>8, <1>9, <1>10, <1>11, <1>12, <1>13, <1>14, <1>15, <1>16, <1>17, <1>18, <1>19, <1>20, <1>21, <1>22
     DEF Next, EventLoop, Receiver, Sender

\* The invariant holds of every reachable state.
THEOREM SessionInvariant == Spec => []SessionInv
<1>1. Init => SessionInv
  BY InitSessionInv
<1>2. SessionInv /\ [Next]_vars => SessionInv'
  BY NextSessionInv
<1> QED BY <1>1, <1>2, PTL DEF Spec

-----------------------------------------------------------------------------
\* The threads, the flags and the send ring buffer stay in range, whatever its
\* number of slots.
THEOREM SessionTypeCorrect == Spec => []TypeOK
<1>1. SessionInv => TypeOK
  BY DEF SessionInv
<1> QED BY <1>1, SessionInvariant, PTL

\* The audio callback is called only when the receiver and the sender have
\* started, and stop() deletes the audio interface only when both have ended or
\* were never started (completeConnection, JackTrip.cpp:743-775; stop, 1285-1304).
\* A session that is connected after stop() keeps to it: its audio stays closed.
THEOREM AudioStaysWithinThreads == Spec => AudioWithinThreads
<1> DEFINE Within == /\ audio' = "on" => Started(receiver)' /\ Started(sender)'
                     /\ audio # "closed" /\ audio' = "closed"
                          => Joinable(receiver) /\ Joinable(sender)
<1>1. SessionInv /\ SessionInv' /\ [Next]_vars => [Within]_vars
  <2> SUFFICES ASSUME SessionInv, SessionInv', Next PROVE Within
    OBVIOUS
  <2>1. audio' = "on" => Started(receiver)' /\ Started(sender)'
    BY DEF SessionInv, AudioFollowsMain, BothStarted
  <2>2. ASSUME audio # "closed", audio' = "closed"
        PROVE  Joinable(receiver) /\ Joinable(sender)
    <3>1. JoinReceiver
      BY <2>2 DEF Next, EventLoop, CompleteConnection, ReceiverStarted, SenderStarted, StartAudio,
                  StartAudioOfNone, StopPosted, StopCalled, StopBegin, JoinSender, ConstructAnother,
                  Receiver, ReceiverStarts, ReceiverTimeout, ReceiverEnds, ReceiverFirst,
                  ReceiverPacket, Sender, SenderStarts, SenderLoop, SenderReads, SenderWaits,
                  SenderWakes, AudioCallback, JackShutdown, PeerLeaves
    <3> QED BY <3>1 DEF JoinReceiver, SessionInv, ThreadsFollowMain
  <2> QED BY <2>1, <2>2
<1> QED BY <1>1, SessionInvariant, PTL DEF Spec, AudioWithinThreads

\* A thread that stop() waits for was not told to run again: waitForStart in
\* completeConnection keeps threadHasStarted from coming late (DataProtocol.cpp:66-80),
\* also when completeConnection is called once more after stop().
THEOREM StopHoldsWhileItWaits == Spec => []StopSticks
<1>1. SessionInv => StopSticks
  BY DEF SessionInv
<1> QED BY <1>1, SessionInvariant, PTL

-----------------------------------------------------------------------------
(* The handshake *)

\* The places between completeConnection and stop.
Connected == main \in {"startingReceiver", "startingSender", "startingAudio", "running"}

\* What each message on its way says of the two sides.
MessagesMean ==
  /\ toHub = "port" => ~mUseAuth
  /\ hub = "secured" => hubKind = "authenticating"
  /\ toHub = "credentials" => mUseAuth /\ hubKind = "authenticating"
  /\ toClient \in Codes \cup {"port", Nothing}
  /\ toClient = "port" => assigned /\ (mUseAuth \/ hubKind # "authenticating")

\* Only a client that authenticates encrypts, and only with a hub that asks for it.
SecuredMeans ==
  /\ tcp = "securing" => mUseAuth
  /\ tcp = "secured" => mUseAuth /\ hubKind = "authenticating"

\* The inductive invariant.
HandshakeInv == MessagesMean /\ SecuredMeans /\ ConnectedClientHasWorker

-----------------------------------------------------------------------------
\* A step of the composition is one of the session, or leaves it alone.
LEMMA ClientStepIsSessionStep == [ClientNext]_<<vars, clientVars>> => [Next]_vars
<1> SUFFICES ASSUME ClientNext PROVE [Next]_vars
  OBVIOUS
<1>s. Stop => [Next]_vars
  BY DEF Stop, StopPosted, StopCalled, Next, EventLoop
<1>1. CASE ReceivedFirstPacketUDP \/ UdpTimerTick
  BY <1>1, <1>s DEF ReceivedFirstPacketUDP, UdpTimerTick, Next
<1>2. CASE SessionStep
  BY <1>2 DEF SessionStep, Next
<1>3. CASE ReceivedConnectionTCP \/ Refused \/ ConnectionSecured
  BY <1>3 DEF ReceivedConnectionTCP, Refused, ConnectionSecured
<1>4. CASE ReceivedErrorTCP
  BY <1>4, <1>s DEF ReceivedErrorTCP
<1>5. CASE TcpTimerTick
  BY <1>5, <1>s DEF TcpTimerTick
<1>6. CASE ReceivedAuthAnswer
  BY <1>6, <1>s DEF ReceivedAuthAnswer
<1>7. CASE ReceivedDataTCP
  BY <1>7, <1>s DEF ReceivedDataTCP, Next
<1>8. CASE HubReadsPlain \/ HubReadsCredentials
  BY <1>8 DEF HubReadsPlain, HubReadsCredentials
<1> QED
  BY <1>1, <1>2, <1>3, <1>4, <1>5, <1>6, <1>7, <1>8 DEF ClientNext, Handshake

\* The handshake and the hub's wait for a datagram only decide when
\* completeConnection and stop() are called, also in which order: what
\* JackTripSession says of a session holds with them (JackTrip.cpp:888-1262).
THEOREM ClientImplementsSession == ClientSpec => Spec
<1>1. ClientInit => Init
  BY DEF ClientInit
<1> QED BY <1>1, ClientStepIsSessionStep, PTL DEF ClientSpec, Spec

\* In particular the audio of a client, too, runs only within its threads' lives.
THEOREM ClientAudioStaysWithinThreads == ClientSpec => AudioWithinThreads
BY ClientImplementsSession, AudioStaysWithinThreads, PTL

-----------------------------------------------------------------------------
\* A session gets connected by completeConnection alone.
LEMMA OnlyCompleteConnectionConnects ==
  ASSUME [Next]_vars, ~CompleteConnection, Connected'
  PROVE  Connected
<1> USE DEF Connected
<1>1. CASE EventLoop
  BY <1>1 DEF EventLoop, ReceiverStarted, SenderStarted, StartAudio, StartAudioOfNone, StopPosted, StopBegin,
              JoinSender, JoinReceiver
<1>2. CASE StopCalled
  BY <1>2 DEF StopCalled, StopBegin
<1>3. CASE ConstructAnother
  BY <1>3 DEF ConstructAnother
<1>4. CASE Receiver
  BY <1>4 DEF Receiver, ReceiverStarts, ReceiverTimeout, ReceiverEnds, ReceiverFirst, ReceiverPacket
<1>5. CASE Sender
  BY <1>5 DEF Sender, SenderStarts, SenderLoop, SenderReads, SenderWaits, SenderWakes
<1>6. CASE AudioCallback \/ JackShutdown \/ PeerLeaves
  BY <1>6 DEF AudioCallback, JackShutdown, PeerLeaves
<1>7. CASE UNCHANGED vars
  BY <1>7 DEF vars
<1> QED BY <1>1, <1>2, <1>3, <1>4, <1>5, <1>6, <1>7 DEF Next

\* A connected client stays one with a worker as long as nothing but its session
\* or its messages change.
LEMMA WorkerIsKept ==
  ASSUME ConnectedClientHasWorker, [Next]_vars, ~CompleteConnection,
         UNCHANGED options, assigned => assigned'
  PROVE  ConnectedClientHasWorker'
<1>1. Connected' => Connected
  BY OnlyCompleteConnectionConnects
<1> QED BY <1>1 DEF Connected, ConnectedClientHasWorker, options

\* A session that is being stopped is not being connected.
LEMMA StopDoesNotConnect == Stop => [Next]_vars /\ ~CompleteConnection
<1>1. Stop => [Next]_vars
  BY DEF Stop, StopPosted, StopCalled, Next, EventLoop
<1>2. StopBegin => main' = "joiningSender"
  BY DEF StopBegin
<1>3. CompleteConnection => main \in {"idle", "stopped"} /\ main' = "startingReceiver"
  BY DEF CompleteConnection
<1>4. Stop => ~CompleteConnection
  BY <1>2, <1>3 DEF Stop, vars
<1> QED BY <1>1, <1>4

LEMMA StandingStillDoesNotConnect == UNCHANGED vars => [Next]_vars /\ ~CompleteConnection
BY DEF CompleteConnection, vars

LEMMA SessionStepDoesNotConnect == SessionStep => [Next]_vars /\ ~CompleteConnection
<1> SUFFICES ASSUME SessionStep PROVE [Next]_vars /\ ~CompleteConnection
  OBVIOUS
<1>1. [Next]_vars
  BY DEF SessionStep, Next
<1>2. ~(main \in {"idle", "stopped"} /\ main' = "startingReceiver")
  <2>1. CASE EventLoop
    BY <2>1 DEF EventLoop, ReceiverStarted, SenderStarted, StartAudio, StartAudioOfNone, StopPosted, StopBegin,
                JoinSender, JoinReceiver
  <2>2. CASE StopCalled
    BY <2>2 DEF StopCalled, StopBegin
  <2>3. CASE ConstructAnother
    BY <2>3 DEF ConstructAnother
  <2>4. CASE Receiver
    BY <2>4 DEF Receiver, ReceiverStarts, ReceiverTimeout, ReceiverEnds, ReceiverFirst, ReceiverPacket
  <2>5. CASE Sender
    BY <2>5 DEF Sender, SenderStarts, SenderLoop, SenderReads, SenderWaits, SenderWakes
  <2>6. CASE AudioCallback \/ JackShutdown \/ PeerLeaves
    BY <2>6 DEF AudioCallback, JackShutdown, PeerLeaves
  <2> QED BY <2>1, <2>2, <2>3, <2>4, <2>5, <2>6 DEF SessionStep
<1> QED BY <1>1, <1>2 DEF CompleteConnection

\* Every step of the client, the hub and the session preserves the invariant.
LEMMA NextHandshakeInv ==
  HandshakeInv /\ [ClientNext]_<<vars, clientVars>> => HandshakeInv'
<1> SUFFICES ASSUME HandshakeInv, [ClientNext]_<<vars, clientVars>> PROVE HandshakeInv'
  OBVIOUS
<1> USE DEF HandshakeInv
<1>1. CASE ReceivedFirstPacketUDP
  <2>1. MessagesMean' /\ SecuredMeans'
    BY <1>1 DEF ReceivedFirstPacketUDP, options, wire, MessagesMean, SecuredMeans
  <2>2. ConnectedClientHasWorker'
    BY <1>1 DEF ReceivedFirstPacketUDP, options, ConnectedClientHasWorker
  <2> QED BY <2>1, <2>2
<1>10. CASE UdpTimerTick
  <2>1. MessagesMean' /\ SecuredMeans'
    BY <1>10 DEF UdpTimerTick, options, wire, MessagesMean, SecuredMeans
  <2>2. ConnectedClientHasWorker'
    BY <1>10, StopDoesNotConnect, StandingStillDoesNotConnect, WorkerIsKept DEF UdpTimerTick
  <2> QED BY <2>1, <2>2
<1>2. CASE SessionStep \/ UNCHANGED <<vars, clientVars>>
  <2>1. MessagesMean' /\ SecuredMeans'
    BY <1>2 DEF SessionStep, clientVars, options, wire, MessagesMean, SecuredMeans
  <2>2. [Next]_vars /\ ~CompleteConnection
    BY <1>2, SessionStepDoesNotConnect, StandingStillDoesNotConnect
  <2>3. ConnectedClientHasWorker'
    BY <1>2, <2>2, WorkerIsKept DEF SessionStep, clientVars
  <2> QED BY <2>1, <2>3
<1>3. CASE ReceivedConnectionTCP \/ Refused \/ ConnectionSecured
  <2>1. MessagesMean' /\ SecuredMeans'
    BY <1>3 DEF ReceivedConnectionTCP, Refused, ConnectionSecured, options, wire, MessagesMean,
                SecuredMeans, Nothing
  <2>2. ConnectedClientHasWorker'
    BY <1>3, StandingStillDoesNotConnect, WorkerIsKept
       DEF ReceivedConnectionTCP, Refused, ConnectionSecured
  <2> QED BY <2>1, <2>2
<1>4. CASE ReceivedErrorTCP
  <2>1. MessagesMean' /\ SecuredMeans'
    BY <1>4 DEF ReceivedErrorTCP, Hangup, options, MessagesMean, SecuredMeans, Nothing
  <2>2. ConnectedClientHasWorker'
    BY <1>4, StopDoesNotConnect, WorkerIsKept DEF ReceivedErrorTCP
  <2> QED BY <2>1, <2>2
<1>5. CASE TcpTimerTick
  <2>1. MessagesMean' /\ SecuredMeans'
    BY <1>5 DEF TcpTimerTick, Hangup, options, wire, MessagesMean, SecuredMeans, Nothing
  <2>2. ConnectedClientHasWorker'
    BY <1>5, StopDoesNotConnect, StandingStillDoesNotConnect, WorkerIsKept DEF TcpTimerTick
  <2> QED BY <2>1, <2>2
<1>6. CASE ReceivedAuthAnswer
  <2>1. MessagesMean' /\ SecuredMeans'
    BY <1>6 DEF ReceivedAuthAnswer, Hangup, options, MessagesMean, SecuredMeans, Nothing
  <2>2. ConnectedClientHasWorker'
    BY <1>6, StopDoesNotConnect, StandingStillDoesNotConnect, WorkerIsKept DEF ReceivedAuthAnswer
  <2> QED BY <2>1, <2>2
<1>7. CASE ReceivedDataTCP
  <2>1. MessagesMean' /\ SecuredMeans'
    BY <1>7 DEF ReceivedDataTCP, Hangup, options, MessagesMean, SecuredMeans, Nothing
  <2>2. CASE IsPort(toClient)
    <3>1. toClient = "port" /\ assigned
      BY <1>7, <2>2 DEF ReceivedDataTCP, IsPort, MessagesMean
    <3>2. mUseAuth <=> hubKind = "authenticating"
      BY <1>7, <3>1 DEF ReceivedDataTCP, MessagesMean, SecuredMeans
    <3> QED BY <1>7, <2>1, <3>1, <3>2 DEF ReceivedDataTCP, ConnectedClientHasWorker, options
  <2>3. CASE ~IsPort(toClient)
    BY <1>7, <2>1, <2>3, StopDoesNotConnect, WorkerIsKept DEF ReceivedDataTCP
  <2> QED BY <2>2, <2>3
<1>8. CASE HubReadsPlain
  <2>1. MessagesMean'
    BY <1>8 DEF HubReadsPlain, Refuse, AssignPort, options, MessagesMean, Nothing, Codes
  <2>2. SecuredMeans' /\ ConnectedClientHasWorker'
    BY <1>8, StandingStillDoesNotConnect, WorkerIsKept
       DEF HubReadsPlain, Refuse, AssignPort, options, SecuredMeans
  <2> QED BY <2>1, <2>2
<1>9. CASE HubReadsCredentials
  <2>1. MessagesMean'
    BY <1>9 DEF HubReadsCredentials, Refuse, AssignPort, options, MessagesMean, Nothing, Codes
  <2>2. SecuredMeans' /\ ConnectedClientHasWorker'
    BY <1>9, StandingStillDoesNotConnect, WorkerIsKept
       DEF HubReadsCredentials, Refuse, AssignPort, options, SecuredMeans
  <2> QED BY <2>1, <2>2
<1> QED
  BY <1>1, <1>2, <1>3, <1>4, <1>5, <1>6, <1>7, <1>8, <1>9, <1>10 DEF ClientNext, Handshake

\* A client that is connected has a worker at its hub, and the two agree whether
\* it has authenticated (receivedDataTCP, JackTrip.cpp:945-1058; readyRead,
\* UdpHubListener.cpp:332-556), for every number of retries.
THEOREM ConnectedClientsHaveWorkers == ClientSpec => []ConnectedClientHasWorker
<1>1. ClientInit => HandshakeInv
  BY DEF ClientInit, Init, HandshakeInv, MessagesMean, SecuredMeans, ConnectedClientHasWorker, Nothing
<1>2. HandshakeInv => ConnectedClientHasWorker
  BY DEF HandshakeInv
<1> QED BY <1>1, <1>2, NextHandshakeInv, PTL DEF ClientSpec

-----------------------------------------------------------------------------
(* What is waited for before a session is connected, and not after *)

\* Who waits for something has no threads yet: stop() does not end the wait, but
\* being connected does.
AwaitingInv ==
  /\ tcp # "unconnected" \/ mAwaitingTcp => role = "client"
  /\ mAwaitingUdp => role = "server"
  /\ tcp \in {"connected", "securing", "secured"} => ~mAwaitingTcp
  /\ tcp # "unconnected" \/ mAwaitingTcp \/ mAwaitingUdp => receiver = "new"

\* completeConnection alone starts the receiver's thread.
LEMMA OnlyCompleteConnectionStarts ==
  ASSUME SessionInv, [Next]_vars, ~CompleteConnection
  PROVE  /\ receiver = "new" => receiver' = "new"
         /\ receiver' = "starting" => receiver = "starting"
<1> USE DEF SessionInv, ThreadsFollowMain, BothStarted, Started
<1>1. CASE EventLoop
  BY <1>1 DEF EventLoop, ReceiverStarted, SenderStarted, StartAudio, StartAudioOfNone, StopPosted,
              StopBegin, JoinSender, JoinReceiver
<1>2. CASE StopCalled
  BY <1>2 DEF StopCalled, StopBegin
<1>3. CASE ConstructAnother
  BY <1>3 DEF ConstructAnother
<1>4. CASE Receiver
  BY <1>4 DEF Receiver, ReceiverStarts, ReceiverTimeout, ReceiverEnds, ReceiverFirst, ReceiverPacket
<1>5. CASE Sender
  BY <1>5 DEF Sender, SenderStarts, SenderLoop, SenderReads, SenderWaits, SenderWakes
<1>6. CASE AudioCallback \/ JackShutdown \/ PeerLeaves
  BY <1>6 DEF AudioCallback, JackShutdown, PeerLeaves
<1>7. CASE UNCHANGED vars
  BY <1>7 DEF vars
<1> QED BY <1>1, <1>2, <1>3, <1>4, <1>5, <1>6, <1>7 DEF Next

\* A step that connects nobody, and after which nothing new is waited for.
LEMMA WaitingIsKept ==
  ASSUME SessionInv, AwaitingInv, [Next]_vars, ~CompleteConnection, UNCHANGED options,
         mAwaitingTcp' => mAwaitingTcp, mAwaitingUdp' => mAwaitingUdp,
         tcp' # "unconnected" => tcp # "unconnected" \/ mAwaitingTcp,
         tcp' \in {"connected", "securing", "secured"} => ~mAwaitingTcp'
  PROVE  AwaitingInv' /\ (receiver # "starting" /\ receiver' = "starting" => receiver = "new")
<1>1. /\ receiver = "new" => receiver' = "new"
      /\ receiver' = "starting" => receiver = "starting"
  BY OnlyCompleteConnectionStarts
<1> QED BY <1>1 DEF AwaitingInv, options

\* Every step preserves the invariant, and starts no receiver a second time.
LEMMA NextAwaitingInv ==
  SessionInv /\ AwaitingInv /\ [ClientNext]_<<vars, clientVars>>
    => AwaitingInv' /\ (receiver # "starting" /\ receiver' = "starting" => receiver = "new")
<1> SUFFICES ASSUME SessionInv, AwaitingInv, [ClientNext]_<<vars, clientVars>>
             PROVE  /\ AwaitingInv'
                    /\ receiver # "starting" /\ receiver' = "starting" => receiver = "new"
  OBVIOUS
<1>1. CASE ReceivedFirstPacketUDP
  BY <1>1 DEF ReceivedFirstPacketUDP, AwaitingInv, options
<1>2. CASE UdpTimerTick
  <2>1. [Next]_vars /\ ~CompleteConnection
    BY <1>2, StopDoesNotConnect, StandingStillDoesNotConnect DEF UdpTimerTick
  <2> QED BY <1>2, <2>1, WaitingIsKept DEF UdpTimerTick, AwaitingInv
<1>3. CASE SessionStep \/ UNCHANGED <<vars, clientVars>>
  <2>1. [Next]_vars /\ ~CompleteConnection
    BY <1>3, SessionStepDoesNotConnect, StandingStillDoesNotConnect
  <2> QED BY <1>3, <2>1, WaitingIsKept DEF SessionStep, clientVars, dialVars, AwaitingInv
<1>4. CASE ReceivedConnectionTCP \/ Refused \/ ConnectionSecured
  <2>1. [Next]_vars /\ ~CompleteConnection
    BY <1>4, StandingStillDoesNotConnect DEF ReceivedConnectionTCP, Refused, ConnectionSecured
  <2> QED BY <1>4, <2>1, WaitingIsKept
          DEF ReceivedConnectionTCP, Refused, ConnectionSecured, dialVars, AwaitingInv
<1>5. CASE ReceivedErrorTCP
  <2>1. [Next]_vars /\ ~CompleteConnection
    BY <1>5, StopDoesNotConnect DEF ReceivedErrorTCP
  <2> QED BY <1>5, <2>1, WaitingIsKept DEF ReceivedErrorTCP, Hangup
<1>6. CASE TcpTimerTick
  <2>1. [Next]_vars /\ ~CompleteConnection
    BY <1>6, StopDoesNotConnect, StandingStillDoesNotConnect DEF TcpTimerTick
  <2> QED BY <1>6, <2>1, WaitingIsKept DEF TcpTimerTick, Hangup
<1>7. CASE ReceivedAuthAnswer
  <2>1. [Next]_vars /\ ~CompleteConnection
    BY <1>7, StopDoesNotConnect, StandingStillDoesNotConnect DEF ReceivedAuthAnswer
  <2> QED BY <1>7, <2>1, WaitingIsKept DEF ReceivedAuthAnswer, Hangup, dialVars, AwaitingInv
<1>8. CASE ReceivedDataTCP
  <2>1. CASE IsPort(toClient)
    BY <1>8, <2>1 DEF ReceivedDataTCP, Hangup, AwaitingInv, options, dialVars
  <2>2. CASE ~IsPort(toClient)
    <3>1. [Next]_vars /\ ~CompleteConnection
      BY <1>8, <2>2, StopDoesNotConnect DEF ReceivedDataTCP
    <3> QED BY <1>8, <3>1, WaitingIsKept DEF ReceivedDataTCP, Hangup, dialVars
  <2> QED BY <2>1, <2>2
<1>9. CASE HubReadsPlain \/ HubReadsCredentials
  <2>1. [Next]_vars /\ ~CompleteConnection
    BY <1>9, StandingStillDoesNotConnect DEF HubReadsPlain, HubReadsCredentials
  <2> QED BY <1>9, <2>1, WaitingIsKept DEF HubReadsPlain, HubReadsCredentials, dialVars, AwaitingInv
<1> QED
  BY <1>1, <1>2, <1>3, <1>4, <1>5, <1>6, <1>7, <1>8, <1>9 DEF ClientNext, Handshake

\* A session's threads are started once: what the timers, the hub or the network
\* bring after stop() starts no session that was connected before
\* (completeConnection's callers, JackTrip.cpp:1057 and 1177), for every number of
\* retries.
THEOREM SessionsConnectOnce == ClientSpec => ConnectsOnce
<1>1. ClientInit => AwaitingInv
  BY DEF ClientInit, Init, AwaitingInv
<1>2. SessionInv /\ AwaitingInv /\ [ClientNext]_<<vars, clientVars>>
        => AwaitingInv' /\ [receiver # "starting" /\ receiver' = "starting" => receiver = "new"]_vars
  BY NextAwaitingInv
<1>3. ClientSpec => []SessionInv
  BY ClientImplementsSession, SessionInvariant, PTL
<1> QED BY <1>1, <1>2, <1>3, PTL DEF ClientSpec, ConnectsOnce
=============================================================================
