--------------------------- MODULE JackTripSession ---------------------------
(***************************************************************************)
(* src/src/JackTrip.cpp, DataProtocol.cpp and UdpDataProtocol.cpp: how one  *)
(* session starts and stops.  The event loop's thread (completeConnection,  *)
(* stop) starts and joins the receiver's and the sender's threads, and the  *)
(* audio callback feeds the sender through a RingBuffer whose reader        *)
(* blocks.  HubListener takes completeConnection and stop as one step each; *)
(* this module shows when they return at all.                               *)
(*                                                                         *)
(* Left out: what the datagrams carry (UdpRedundancy), the receiver's       *)
(* buffer, the Windows and polling variants of the receiver's loop, what    *)
(* the event loop does for other sessions, except that it may construct     *)
(* another JackTrip, and the stop() of a session that was stopped before,   *)
(* which returns at once.                                                   *)
(***************************************************************************)
EXTENDS Naturals

CONSTANTS
  ReceiveChannels,  \* getNumOutputChannels
  SendChannels,     \* getNumInputChannels
  NumSlots,         \* gDefaultOutputQueueLength: slots of the send ring buffer
  PeerSends,        \* the kinds of datagram the peer may send
  JackMayRefuse,    \* jack_activate may fail
  OtherSessions     \* another JackTrip may be constructed

Kinds == {"audio",       \* what the receiver expects
          "exit",        \* the peer's exit packet
          "invalid",     \* validatePeerHeader fails
          "mismatched",  \* checkPeerSettings fails
          "resized"}     \* writeAudioBuffer refuses the packet's size

ASSUME SessionAssumption ==
  /\ ReceiveChannels \in Nat /\ SendChannels \in Nat /\ NumSlots \in Nat \ {0}
  /\ PeerSends \subseteq Kinds
  /\ JackMayRefuse \in BOOLEAN /\ OtherSessions \in BOOLEAN

VARIABLES
  main,          \* where the event loop's thread is in this session
  receiver,      \* where the receiver's thread is in run()
  sender,        \* where the sender's thread is in run()
  mStopped,      \* DataProtocol::mStopped of either
  mHasShutdown,  \* stop() has been called
  audio,         \* the audio interface: setup, on, dead, closed
  sAudioStopped, \* JackTrip::sAudioStopped, shared by all sessions
  mFullSlots,    \* slots of the send ring buffer that wait for the sender
  stopPosted,    \* a queued call of JackTrip::stop
  peer           \* alive, or gone without an exit packet

flags == <<sAudioStopped, mHasShutdown, stopPosted>>
vars == <<main, receiver, sender, mStopped, audio, flags, mFullSlots, peer>>

Init ==
  /\ main = "idle" /\ receiver = "new" /\ sender = "new"
  /\ mStopped = [thread \in {"receiver", "sender"} |-> TRUE]
  /\ audio = "setup" /\ sAudioStopped = FALSE /\ mHasShutdown = FALSE
  /\ mFullSlots = NumSlots \div 2
  /\ stopPosted = FALSE /\ peer = "alive"

-----------------------------------------------------------------------------
(* The event loop *)

\* completeConnection, up to mDataProtocolReceiver->start().  Nothing asks whether
\* the session was stopped.
CompleteConnection ==
  /\ main \in {"idle", "stopped"}
  /\ main' = "startingReceiver" /\ receiver' = "starting"
  /\ UNCHANGED <<sender, mStopped, audio, flags, mFullSlots, peer>>

\* MUTANT completeConnection does not wait for the receiver to start.
ReceiverStartedUnwaited ==
  /\ main = "startingReceiver"
  /\ main' = "startingSender" /\ sender' = "starting"
  /\ UNCHANGED <<receiver, mStopped, audio, flags, mFullSlots, peer>>

\* waitForStart returns for the receiver, and the sender is started.
ReceiverStarted ==
  /\ main = "startingReceiver" /\ ~mStopped.receiver
  /\ main' = "startingSender" /\ sender' = "starting"
  /\ UNCHANGED <<receiver, mStopped, audio, flags, mFullSlots, peer>>

\* waitForStart returns for the sender.
SenderStarted ==
  /\ main = "startingSender" /\ ~mStopped.sender
  /\ main' = "startingAudio"
  /\ UNCHANGED <<receiver, sender, mStopped, audio, flags, mFullSlots, peer>>

\* initPlugins, and startProcess, whose return value nobody looks at.
StartAudio ==
  /\ main = "startingAudio" /\ audio # "closed"
  /\ main' = "running"
  /\ \/ audio' = "on"
     \/ JackMayRefuse /\ audio' = "setup"
  /\ UNCHANGED <<receiver, sender, mStopped, flags, mFullSlots, peer>>

\* After stop() mAudioInterface is NULL: the process ends, and its threads with it.
StartAudioOfNone ==
  /\ main = "startingAudio" /\ audio = "closed"
  /\ main' = "crashed" /\ receiver' = "done" /\ sender' = "done"
  /\ UNCHANGED <<mStopped, audio, flags, mFullSlots, peer>>

\* stop(), up to mDataProtocolSender->stop().
StopBegin ==
  /\ main \in {"idle", "running"} /\ ~mHasShutdown
  /\ main' = "joiningSender" /\ mHasShutdown' = TRUE
  /\ mStopped' = [mStopped EXCEPT !.sender = TRUE]
  /\ stopPosted' = FALSE
  /\ UNCHANGED <<receiver, sender, audio, sAudioStopped, mFullSlots, peer>>

\* A queued call is delivered; or the user, a timer or the hub calls stop().
StopPosted == stopPosted /\ StopBegin
StopCalled == ~stopPosted /\ StopBegin

\* QThread::wait returns at once for a thread that was not started.
Joinable(thread) == thread \in {"new", "done"}

\* MUTANT stop() does not wait for the sender.
JoinSenderUnwaited ==
  /\ main = "joiningSender"
  /\ main' = "joiningReceiver"
  /\ mStopped' = [mStopped EXCEPT !.receiver = TRUE]
  /\ UNCHANGED <<receiver, sender, audio, flags, mFullSlots, peer>>

\* mDataProtocolSender->wait(), then mDataProtocolReceiver->stop().
JoinSender ==
  /\ main = "joiningSender" /\ Joinable(sender)
  /\ main' = "joiningReceiver"
  /\ mStopped' = [mStopped EXCEPT !.receiver = TRUE]
  /\ UNCHANGED <<receiver, sender, audio, flags, mFullSlots, peer>>

\* mDataProtocolReceiver->wait(), then closeAudio() and the final signal.
JoinReceiver ==
  /\ main = "joiningReceiver" /\ Joinable(receiver)
  /\ main' = "stopped" /\ audio' = "closed"
  /\ UNCHANGED <<receiver, sender, mStopped, flags, mFullSlots, peer>>

\* The constructor of another JackTrip resets the flag of all of them.
ConstructAnother ==
  /\ OtherSessions /\ sAudioStopped
  /\ main \in {"idle", "running", "stopped"}
  /\ sAudioStopped' = FALSE
  /\ UNCHANGED <<main, receiver, sender, mStopped, audio, mFullSlots, mHasShutdown, stopPosted, peer>>

EventLoop == \/ ReceiverStarted \/ SenderStarted \/ StartAudio \/ StartAudioOfNone
             \/ StopPosted \/ JoinSender \/ JoinReceiver

-----------------------------------------------------------------------------
(* UdpDataProtocol::run of the receiver *)

\* Without channels the thread ends before threadHasStarted.
ReceiverStarts ==
  /\ receiver = "starting"
  /\ IF ReceiveChannels = 0
     THEN receiver' = "done" /\ UNCHANGED mStopped
     ELSE receiver' = "first" /\ mStopped' = [mStopped EXCEPT !.receiver = FALSE]
  /\ UNCHANGED <<main, sender, audio, flags, mFullSlots, peer>>

\* The first datagram shows whether the peer is one to listen to.
ReceiverFirst(kind) ==
  /\ receiver = "first" /\ peer = "alive"
  /\ receiver' = IF kind \in {"audio", "resized"} THEN "loop" ELSE "done"
  /\ stopPosted' = (stopPosted \/ kind \in {"exit", "mismatched"})
  /\ UNCHANGED <<main, sender, mStopped, audio, sAudioStopped, mHasShutdown, mFullSlots, peer>>

\* A datagram that follows.
ReceiverPacket(kind) ==
  /\ receiver = "loop" /\ ~mStopped.receiver /\ peer = "alive"
  /\ stopPosted' = (stopPosted \/ kind \in {"exit", "resized"})
  /\ mStopped' = [mStopped EXCEPT !.receiver = @ \/ kind = "resized"]
  /\ UNCHANGED <<main, receiver, sender, audio, sAudioStopped, mHasShutdown, mFullSlots, peer>>

\* MUTANT the timeout is reported to nobody.
ReceiverTimeoutUnreported ==
  /\ receiver = "loop" /\ ~mStopped.receiver /\ peer = "gone"
  /\ UNCHANGED vars

\* Nothing came for gClientGoneTimeoutMs; it is said again after as long again.
ReceiverTimeout ==
  /\ receiver = "loop" /\ ~mStopped.receiver /\ peer = "gone"
  /\ stopPosted' = TRUE
  /\ UNCHANGED <<main, receiver, sender, mStopped, audio, sAudioStopped, mHasShutdown, mFullSlots, peer>>

\* mStopped is seen while waiting for a datagram, the first or another one.
ReceiverEnds ==
  /\ receiver \in {"first", "loop"} /\ mStopped.receiver
  /\ receiver' = "done"
  /\ UNCHANGED <<main, sender, mStopped, audio, flags, mFullSlots, peer>>

-----------------------------------------------------------------------------
(* UdpDataProtocol::run of the sender *)

\* MUTANT the thread runs, but threadHasStarted is not called.
SenderStartsUnannounced ==
  /\ sender = "starting"
  /\ sender' = IF SendChannels = 0 THEN "done" ELSE "loop"
  /\ UNCHANGED <<main, receiver, mStopped, audio, flags, mFullSlots, peer>>

SenderStarts ==
  /\ sender = "starting"
  /\ IF SendChannels = 0
     THEN sender' = "done" /\ UNCHANGED mStopped
     ELSE sender' = "loop" /\ mStopped' = [mStopped EXCEPT !.sender = FALSE]
  /\ UNCHANGED <<main, receiver, audio, flags, mFullSlots, peer>>

\* The loop's condition; when it ends the exit packets are sent and stop() posted.
SenderLoop ==
  /\ sender = "loop"
  /\ IF mStopped.sender \/ sAudioStopped
     THEN sender' = "done" /\ stopPosted' = TRUE
     ELSE sender' = "reading" /\ UNCHANGED stopPosted
  /\ UNCHANGED <<main, receiver, mStopped, audio, sAudioStopped, mHasShutdown, mFullSlots, peer>>

\* RingBuffer::readSlotBlocking finds a slot, and the packet is sent.
SenderReads ==
  /\ sender = "reading" /\ mFullSlots > 0
  /\ sender' = "loop" /\ mFullSlots' = mFullSlots - 1
  /\ UNCHANGED <<main, receiver, mStopped, audio, flags, peer>>

\* It finds none and waits.
SenderWaits ==
  /\ sender = "reading" /\ mFullSlots = 0
  /\ sender' = "waiting"
  /\ UNCHANGED <<main, receiver, mStopped, audio, flags, mFullSlots, peer>>

\* MUTANT readSlotBlocking does not look at sAudioStopped.
SenderWakesUnaware ==
  /\ sender = "waiting"
  /\ sender' = "reading"
  /\ UNCHANGED <<main, receiver, mStopped, audio, flags, mFullSlots, peer>>

\* Woken by a new slot, or 200 ms later without one, it gives up if the audio
\* has stopped and looks again otherwise.
SenderWakes ==
  /\ sender = "waiting"
  /\ sender' = IF sAudioStopped THEN "loop" ELSE "reading"
  /\ UNCHANGED <<main, receiver, mStopped, audio, flags, mFullSlots, peer>>

-----------------------------------------------------------------------------
(* The audio callback, JACK and the peer *)

\* insertSlotNonBlocking; an overflow drops half of the slots and the new one.
AudioCallback ==
  /\ audio = "on"
  /\ mFullSlots' = IF mFullSlots = NumSlots THEN NumSlots - NumSlots \div 2
                                            ELSE mFullSlots + 1
  /\ UNCHANGED <<main, receiver, sender, mStopped, audio, flags, peer>>

\* JackAudioInterface::jackShutdown.
JackShutdown ==
  /\ audio = "on"
  /\ audio' = "dead" /\ sAudioStopped' = TRUE
  /\ UNCHANGED <<main, receiver, sender, mStopped, mFullSlots, mHasShutdown, stopPosted, peer>>

PeerLeaves ==
  /\ peer = "alive"
  /\ peer' = "gone"
  /\ UNCHANGED <<main, receiver, sender, mStopped, audio, flags, mFullSlots>>

-----------------------------------------------------------------------------
Receiver == \/ ReceiverStarts \/ ReceiverTimeout \/ ReceiverEnds
            \/ \E kind \in PeerSends : ReceiverFirst(kind) \/ ReceiverPacket(kind)

Sender == SenderStarts \/ SenderLoop \/ SenderReads \/ SenderWaits \/ SenderWakes

Next == \/ CompleteConnection \/ EventLoop \/ StopCalled \/ ConstructAnother
        \/ Receiver \/ Sender
        \/ AudioCallback \/ JackShutdown \/ PeerLeaves

Spec == Init /\ [][Next]_vars

\* The threads run, the event loop runs, the audio callback is called while the
\* interface is on.  The peer owes nothing, and nobody has to call stop().
Fairness ==
  /\ WF_vars(EventLoop)
  /\ WF_vars(ReceiverStarts) /\ WF_vars(ReceiverEnds) /\ WF_vars(ReceiverTimeout)
  /\ WF_vars(Sender)
  /\ WF_vars(AudioCallback)

-----------------------------------------------------------------------------
\* The variables are in range.
TypeOK ==
  /\ main \in {"idle", "startingReceiver", "startingSender", "startingAudio", "running",
               "joiningSender", "joiningReceiver", "stopped", "crashed"}
  /\ receiver \in {"new", "starting", "first", "loop", "done"}
  /\ sender \in {"new", "starting", "loop", "reading", "waiting", "done"}
  /\ mStopped \in [{"receiver", "sender"} -> BOOLEAN]
  /\ audio \in {"setup", "on", "dead", "closed"}
  /\ mFullSlots \in 0 .. NumSlots
  /\ sAudioStopped \in BOOLEAN /\ mHasShutdown \in BOOLEAN /\ stopPosted \in BOOLEAN
  /\ peer \in {"alive", "gone"}

Started(thread) == thread \notin {"new", "starting"}

\* The audio callback is called only once both threads have started ("audio
\* starts after receiver and sender", JackTrip.cpp:753), and the interface is
\* deleted only when both have ended: the two share the ring buffers with it.
AudioWithinThreads ==
  [][/\ audio' = "on" => Started(receiver)' /\ Started(sender)'
     /\ audio # "closed" /\ audio' = "closed" => Joinable(receiver) /\ Joinable(sender)]_vars

\* A thread that stop() waits for stays told to stop: threadHasStarted, which
\* clears mStopped (DataProtocol.cpp:66-71), does not come between, and comes
\* after stop() only if completeConnection is called again.
StopSticks ==
  /\ main \in {"joiningSender", "joiningReceiver", "stopped"} => mStopped.sender
  /\ main \in {"joiningReceiver", "stopped"} => mStopped.receiver

\* "Stop the processing threads" (JackTrip.h:205): when stop() has returned none
\* of them runs.  The code violates it: a session that is stopped while it waits
\* for a datagram or a port starts its threads when that comes after all.
StoppedForGood ==
  mHasShutdown /\ main \notin {"joiningSender", "joiningReceiver"}
    => Joinable(receiver) /\ Joinable(sender)

\* waitForStart looks at mStopped only after the receiver's thread has ended: a
\* peer that sends no audio, or packets whose size changed, wedges the event loop.
NeverStarts == main = "startingReceiver" /\ receiver = "done"

\* No callback will fill the ring buffer again and the flag that would end the
\* sender's wait is not set: JACK refused, or the flag was reset for another session.
AudioLost == /\ main \in {"running", "joiningSender"} /\ sender \notin {"new", "done"}
             /\ audio \in {"setup", "dead"} /\ ~sAudioStopped

\* completeConnection returns to the event loop, which serves the other clients:
\* each waitForStart (JackTrip.cpp:744, 750) meets a thread that still runs.  After
\* stop() it ends the process instead, for want of an audio interface.
StartReturns ==
  main \in {"startingReceiver", "startingSender", "startingAudio"}
    ~> (main = (IF mHasShutdown THEN "crashed" ELSE "running") \/ NeverStarts)

\* stop() "stops the processing threads" (JackTrip.h:205): unless the audio is
\* lost it returns, although the sender may be blocked for want of audio.
StopReturns == main \in {"joiningSender", "joiningReceiver"} ~> (main = "stopped" \/ AudioLost)

\* A session whose peer vanished after it was heard, and that was not stopped
\* before, is stopped, by nobody else than its own receiver.
VanishedPeerIsNoticed ==
  peer = "gone" /\ receiver = "loop" /\ ~mHasShutdown ~> (main = "stopped" \/ AudioLost \/ NeverStarts)

\* A session whose audio died is stopped: the sender, blocked or not, gets to
\* see sAudioStopped, if no other session resets it first.
DeadAudioEndsSession == audio = "dead" ~> (main = "stopped" \/ AudioLost)
=============================================================================
