---------------------------- MODULE ClientSession ----------------------------
(***************************************************************************)
(* How a session comes to completeConnection: JackTripSession composed     *)
(* with what precedes it (src/src/JackTrip.cpp).  A client of a hub (mode   *)
(* CLIENTTOPINGSERVER) goes through a TCP handshake with it                 *)
(* (UdpHubListener::readyRead), with and without authentication: it dials,  *)
(* retries while it is refused or nobody answers, and gives up in the end;  *)
(* the hub answers with a UDP port or with a code above 65535.  A session   *)
(* of the hub's own waits for its client's first datagram, for some time.   *)
(* Neither forgets what it waits for when it is stopped.                    *)
(*                                                                         *)
(* The hub, and the client when it expects a port, wait for the rest of a   *)
(* message that comes in parts; the client that expects the hub's leave to  *)
(* encrypt does not.  Left out: what TLS does, SIGINT, and a server of its  *)
(* own (mode SERVER), which waits for ever.                                 *)
(***************************************************************************)
EXTENDS JackTripSession

CONSTANT
  EndTicks   \* bound: ticks of the timer before mEndTime, 30 s or 10 s, is over

ASSUME ClientAssumption == EndTicks \in Nat

VARIABLES
  role,         \* "client", or "server" for a session of the hub's
  mUseAuth,     \* the client wants to authenticate
  hubKind,      \* "open", "authenticating" (mRequireAuth), or "legacy", which knows no codes
  tcp,          \* mTcpClient: "unconnected", "dialling", "connected", "securing", "secured"
  mAwaitingTcp,
  mAwaitingUdp, \* and mTimeoutTimer is running
  retryTimer,   \* mRetryTimer is running
  ticks,        \* mElapsedTime
  hub,          \* the hub's end of the connection: "none", "open", "secured", "closed"
  toHub,        \* what the client has written and the hub has not read
  toClient,     \* what the hub has written and the client has not read
  assigned      \* a worker and a port of the hub are this client's

options == <<role, mUseAuth, hubKind>>
dialVars == <<mAwaitingTcp, mAwaitingUdp, retryTimer, ticks>>
wire == <<hub, toHub, toClient>>
clientVars == <<options, tcp, dialVars, wire, assigned>>

Nothing == "nothing"
Codes == {"ok", "notRequired", "required", "wrongCreds", "wrongTime"}   \* Auth::AuthResponseT

\* clientPingToServerStart has been called, or serverStart.
ClientInit ==
  /\ Init
  /\ role \in {"client", "server"} /\ mUseAuth \in BOOLEAN
  /\ hubKind \in {"open", "authenticating", "legacy"}
  /\ tcp = (IF role = "client" THEN "dialling" ELSE "unconnected")
  /\ mAwaitingTcp = (role = "client") /\ retryTimer = (role = "client")
  /\ mAwaitingUdp = (role = "server") /\ ticks = 0
  /\ hub = "none" /\ toHub = Nothing /\ toClient = Nothing
  /\ assigned = FALSE

-----------------------------------------------------------------------------
(* The client, on its event loop's thread *)

\* The thread is back in the event loop, before or after this session.
InLoop == main \in {"idle", "stopped"}

\* stop(): mHasShutdown makes a second call return.
Stop == IF mHasShutdown THEN UNCHANGED vars ELSE StopBegin

\* mTcpClient.close() or abort(): what was written may still arrive at the hub,
\* what was not read is lost.
Hangup == tcp' = "unconnected" /\ toClient' = Nothing /\ UNCHANGED <<hub, toHub>>

\* receivedConnectionTCP: the port is sent, or the wish to authenticate.
ReceivedConnectionTCP ==
  /\ InLoop /\ tcp = "dialling" /\ mAwaitingTcp
  /\ tcp' = "connected" /\ hub' = "open"
  /\ mAwaitingTcp' = FALSE /\ retryTimer' = FALSE
  /\ toHub' = IF mUseAuth THEN "auth" ELSE "port"
  /\ UNCHANGED <<vars, options, mAwaitingUdp, ticks, toClient, assigned>>

\* receivedErrorTCP with ConnectionRefusedError: nothing, the timer dials again.
Refused ==
  /\ InLoop /\ tcp = "dialling"
  /\ tcp' = "unconnected"
  /\ UNCHANGED <<vars, options, dialVars, wire, assigned>>

\* receivedErrorTCP with any other error: the hub has closed the connection, or
\* the network or TLS failed.
ReceivedErrorTCP ==
  /\ InLoop /\ tcp # "unconnected"
  /\ Hangup /\ retryTimer' = FALSE /\ Stop
  /\ UNCHANGED <<options, mAwaitingTcp, mAwaitingUdp, ticks, assigned>>

\* The early ends of tcpTimerTick and udpTimerTick.
GivesUp == mHasShutdown \/ sAudioStopped \/ ticks = EndTicks

\* MUTANT the single-shot timer is not started again.
TcpTimerTickOnce ==
  /\ InLoop /\ retryTimer /\ mAwaitingTcp
  /\ retryTimer' = FALSE
  /\ IF GivesUp
     THEN Hangup /\ mAwaitingTcp' = FALSE /\ Stop /\ UNCHANGED ticks
     ELSE tcp' = "dialling" /\ ticks' = ticks + 1 /\ UNCHANGED <<vars, mAwaitingTcp, wire>>
  /\ UNCHANGED <<options, mAwaitingUdp, assigned>>

\* tcpTimerTick: give up, or abort and dial again.
TcpTimerTick ==
  /\ InLoop /\ retryTimer /\ mAwaitingTcp
  /\ retryTimer' = ~GivesUp
  /\ IF GivesUp
     THEN Hangup /\ mAwaitingTcp' = FALSE /\ Stop /\ UNCHANGED ticks
     ELSE tcp' = "dialling" /\ ticks' = ticks + 1 /\ UNCHANGED <<vars, mAwaitingTcp, wire>>
  /\ UNCHANGED <<options, mAwaitingUdp, assigned>>

\* What four bytes say when only some of them have come: the rest is what the new
\* buffer held before.
AuthAnswers == Codes \cup {"port"}

\* receivedDataTCP before the connection is encrypted, when it should be: only a
\* hub that says OK is one to go on with.  Nothing asks whether all of it is there.
ReceivedAuthAnswer ==
  /\ InLoop /\ tcp = "connected" /\ mUseAuth /\ toClient # Nothing
  /\ \E authResponse \in AuthAnswers :
       IF authResponse = "ok"
       THEN tcp' = "securing" /\ toClient' = Nothing /\ UNCHANGED <<vars, hub, toHub>>
       ELSE Stop /\ Hangup
  /\ UNCHANGED <<options, dialVars, assigned>>

\* connectionSecured: the port and the credentials.
ConnectionSecured ==
  /\ InLoop /\ tcp = "securing" /\ hub = "secured"
  /\ tcp' = "secured" /\ toHub' = "credentials"
  /\ UNCHANGED <<vars, options, dialVars, hub, toClient, assigned>>

\* MUTANT a code above 65535 is taken for a port.
IsPortOrCode(answer) == TRUE

\* udp_port <= 65535.
IsPort(answer) == answer \notin Codes

\* receivedDataTCP: the port, or why there is none.
ReceivedDataTCP ==
  /\ InLoop /\ toClient # Nothing
  /\ tcp = (IF mUseAuth THEN "secured" ELSE "connected")
  /\ Hangup
  /\ IF IsPort(toClient) THEN CompleteConnection ELSE Stop
  /\ UNCHANGED <<options, dialVars, assigned>>

-----------------------------------------------------------------------------
(* The hub, in its own process *)

\* sendUdpPort of a code, and the end of the connection.
Refuse(code) == toClient' = code /\ hub' = "closed" /\ UNCHANGED assigned

\* createWorker and what follows: there may be no slot.
AssignPort ==
  /\ hub' = "closed"
  /\ \/ toClient' = Nothing /\ UNCHANGED assigned
     \/ toClient' = "port" /\ assigned' = TRUE

\* readyRead of a connection that is not encrypted.  To a legacy hub the wish to
\* authenticate is a port.
HubReadsPlain ==
  /\ hub = "open" /\ toHub \in {"auth", "port"}
  /\ toHub' = Nothing
  /\ \/ toHub = "auth" /\ hubKind = "authenticating"
        /\ toClient' = "ok" /\ hub' = "secured" /\ UNCHANGED assigned
     \/ toHub = "auth" /\ hubKind = "open" /\ Refuse("notRequired")
     \/ toHub = "port" /\ hubKind = "authenticating" /\ Refuse("required")
     \/ hubKind = "legacy" /\ AssignPort
     \/ toHub = "port" /\ hubKind = "open" /\ AssignPort
  /\ UNCHANGED <<vars, options, tcp, dialVars>>

\* readyRead of an encrypted one: checkAuthAndReadPort.
HubReadsCredentials ==
  /\ hub = "secured" /\ toHub = "credentials"
  /\ toHub' = Nothing
  /\ Refuse("wrongCreds") \/ Refuse("wrongTime") \/ AssignPort
  /\ UNCHANGED <<vars, options, tcp, dialVars>>

-----------------------------------------------------------------------------
(* A session of the hub's, on the hub's event loop's thread *)

\* MUTANT mAwaitingUdp stays set.
ReceivedFirstPacketUDPAwaits ==
  /\ role = "server" /\ mAwaitingUdp
  /\ CompleteConnection
  /\ UNCHANGED clientVars

\* receivedFirstPacketUDP, which the timer or stop() may have preceded.
ReceivedFirstPacketUDP ==
  /\ role = "server" /\ mAwaitingUdp
  /\ mAwaitingUdp' = FALSE /\ CompleteConnection
  /\ UNCHANGED <<options, tcp, mAwaitingTcp, retryTimer, ticks, wire, assigned>>

\* udpTimerTick: give up, or wait for another interval.
UdpTimerTick ==
  /\ InLoop /\ mAwaitingUdp
  /\ mAwaitingUdp' = ~GivesUp
  /\ IF GivesUp THEN Stop /\ UNCHANGED ticks
                ELSE ticks' = ticks + 1 /\ UNCHANGED vars
  /\ UNCHANGED <<options, tcp, mAwaitingTcp, retryTimer, wire, assigned>>

-----------------------------------------------------------------------------
\* What sessions do once they are connected, and stop().
SessionStep ==
  /\ \/ EventLoop \/ StopCalled \/ ConstructAnother \/ Receiver \/ Sender
     \/ AudioCallback \/ JackShutdown \/ PeerLeaves
  /\ UNCHANGED clientVars

Handshake ==
  \/ ReceivedConnectionTCP \/ TcpTimerTick
  \/ ReceivedAuthAnswer \/ ConnectionSecured \/ ReceivedDataTCP
  \/ HubReadsPlain \/ HubReadsCredentials

ClientNext == ReceivedFirstPacketUDP \/ UdpTimerTick \/ SessionStep \/ Handshake \/ Refused \/ ReceivedErrorTCP

ClientSpec == ClientInit /\ [][ClientNext]_<<vars, clientVars>>

\* In addition to the session's fairness the timers fire, the hub reads what
\* arrives, what it writes or closes arrives, and TLS comes to an end.
ClientFairSpec ==
  /\ ClientSpec /\ Fairness
  /\ WF_<<vars, clientVars>>(TcpTimerTick) /\ WF_<<vars, clientVars>>(UdpTimerTick)
  /\ WF_<<vars, clientVars>>(HubReadsPlain \/ HubReadsCredentials)
  /\ WF_<<vars, clientVars>>(ReceivedAuthAnswer \/ ReceivedDataTCP \/ ConnectionSecured)
  /\ WF_<<vars, clientVars>>(hub = "closed" /\ toClient = Nothing /\ ReceivedErrorTCP)

-----------------------------------------------------------------------------
\* A session does not hang before it is connected: it is connected or stopped in
\* the end, whether nobody listens, the hub is full or wants other credentials,
\* or the client's first datagram does not come.
HandshakeEnds == main = "idle" ~> main # "idle"

\* A session that was connected is never connected again: neither a timer, a
\* connection, a port nor a datagram that is handled after stop() starts the threads
\* of a session that has had its own (JackTrip.cpp:727-750).  One that had none when
\* it was stopped may still be connected, and then StoppedForGood is violated.
ConnectsOnce ==
  [][receiver # "starting" /\ receiver' = "starting" => receiver = "new"]_vars

\* A client sends audio only to a hub that has a worker for it, and both agree
\* whether the client has authenticated: a refusal is not taken for a port, nor
\* the port of a hub that knows no authentication for a success of it.
ConnectedClientHasWorker ==
  role = "client" /\ main \in {"startingReceiver", "startingSender", "startingAudio", "running"}
    => assigned /\ (mUseAuth <=> hubKind = "authenticating")
=============================================================================
