----------------------------- MODULE AudioSocket -----------------------------
(***************************************************************************)
(* src/src/AudioSocket.cpp: audio exchanged with another process over a    *)
(* local socket.  The worker's thread connects, exchanges headers and      *)
(* moves packets between the socket and two queues; the audio callback     *)
(* fills one queue and empties the other, through a ring of extra samples  *)
(* when its period is not the peer's.  The owner's destructor asks the     *)
(* worker to stop and waits for it.                                        *)
(*                                                                         *)
(* A queue's push and pop are one step each, which WaitFreeRingBuffer      *)
(* justifies.  The peer's samples are counted; its stream is counted in    *)
(* units, several to a sample, because a read may end anywhere.  Left out: *)
(* the conversion of sample rates, the mixing of channels, and passing the *)
(* input through.                                                          *)
(***************************************************************************)
EXTENDS Integers, Sequences

CONSTANTS
  QueueSize,       \* AudioSocketMaxQueueSize - 1, what a queue holds
  RingSize,        \* AudioSocketMaxSamplesPerBlock
  Frames,          \* nframes of a callback
  UnitsPerSample,  \* BytesForFullSample
  HeaderUnits,     \* AudioSocketHeaderSize
  Chunks,          \* how many units the peer writes at a time
  FirstCheck,      \* 2 s, in callbacks
  LastCheck,       \* 512 s, in callbacks
  MaxSamples,      \* bound: samples the peer sends
  MaxCallbacks,    \* bound: audio callbacks
  MaxFaults        \* bound: connections that the peer breaks or refuses

ASSUME AudioSocketAssumption ==
  /\ {QueueSize, RingSize, Frames, UnitsPerSample, HeaderUnits, FirstCheck, LastCheck}
       \subseteq Nat \ {0}
  /\ Chunks \subseteq Nat \ {0}
  /\ {MaxSamples, MaxCallbacks, MaxFaults} \subseteq Nat

VARIABLES
  worker,                  \* where the worker's thread is
  mInitialized,            \* mLocalSampleRate and mLocalBufferSize are set
  mIsEstablished, mStopRequested, mRetryConnection,
  socket,                  \* "none", "connected", or "lost"
  listening,               \* a process listens for connections
  unwritten,               \* bytes wait to be written to the socket
  base,                    \* the number of this connection's first sample
  sent, read,              \* units that came on this connection, and were read
  faults,                  \* connections that broke or were refused
  mSendQueue,              \* how many packets wait to be sent
  mReceiveQueue,
  audio,                   \* where the audio callback is
  reg,                     \* the index it has loaded
  packet,                  \* the packet it has popped
  left,                    \* frames it still has to fill
  mExtraSamples, mNextExtraSample, mLastExtraSample,
  mMinQueuePackets, mQueueCheckSec, mNextQueueCheck,
  callbacks,               \* callbacks so far
  heard, lastHeard,        \* samples played, and the last of them
  dropped,                 \* samples given up
  raced                    \* the callback ran while the worker reset its indices

flags == <<mInitialized, mStopRequested, mRetryConnection>>
link == <<mIsEstablished, socket, unwritten>>
peer == <<listening, faults>>
stream == <<base, sent, read>>
queues == <<mSendQueue, mReceiveQueue>>
ring == <<mExtraSamples, mNextExtraSample, mLastExtraSample>>
stats == <<mMinQueuePackets, mQueueCheckSec, mNextQueueCheck>>
call == <<audio, reg, packet, left, callbacks, heard, lastHeard>>
audioVars == <<call, ring, stats, dropped, raced>>
socketVars == <<worker, flags, link, peer, stream, queues, audioVars>>

Ring == 0 .. RingSize - 1
Torn == -1                       \* a sample put together from two
Nothing == [first |-> 0, n |-> 0]

\* Samples begun in n units of a connection, and samples that are whole in them.
Begun(n) == IF n <= HeaderUnits THEN 0
            ELSE (n - HeaderUnits + UnitsPerSample - 1) \div UnitsPerSample
Whole(n) == IF n <= HeaderUnits THEN 0 ELSE (n - HeaderUnits) \div UnitsPerSample

\* The constructors: one dials and may retry, the other has a socket that the
\* server accepted.
SocketInit ==
  /\ worker = "loop" /\ mIsEstablished = FALSE
  /\ mInitialized = FALSE /\ mStopRequested = FALSE
  /\ \/ mRetryConnection \in BOOLEAN /\ socket = "none"
     \/ mRetryConnection = FALSE /\ socket = "connected"
  /\ listening = FALSE /\ unwritten = FALSE /\ faults = 0
  /\ base = 1 /\ sent = 0 /\ read = 0
  /\ mSendQueue = 0 /\ mReceiveQueue = << >>
  /\ audio = "idle" /\ reg = 0 /\ packet = Nothing /\ left = 0
  /\ mExtraSamples = [i \in Ring |-> Torn]
  /\ mNextExtraSample = 0 /\ mLastExtraSample = 0
  /\ mMinQueuePackets = 0 /\ mQueueCheckSec = 0 /\ mNextQueueCheck = 0
  /\ callbacks = 0 /\ heard = 0 /\ lastHeard = 0 /\ dropped = 0 /\ raced = FALSE

-----------------------------------------------------------------------------
(* The peer and the socket *)

PeerListens ==
  /\ ~listening
  /\ listening' = TRUE
  /\ UNCHANGED <<worker, flags, link, faults, stream, queues, audioVars>>

\* The socket takes the bytes, the peer having read earlier ones.
PeerReads ==
  /\ socket = "connected" /\ unwritten
  /\ unwritten' = FALSE
  /\ UNCHANGED <<worker, flags, mIsEstablished, socket, listening, faults, stream, queues,
                 audioVars>>

\* It writes its header, and then audio.
PeerSendsHeader ==
  /\ socket = "connected" /\ sent = 0
  /\ sent' = HeaderUnits
  /\ UNCHANGED <<worker, flags, link, peer, base, read, queues, audioVars>>

PeerSendsAudio(n) ==
  /\ socket = "connected" /\ sent >= HeaderUnits
  /\ sent + n <= HeaderUnits + UnitsPerSample * (MaxSamples - base + 1)
  /\ sent' = sent + n
  /\ UNCHANGED <<worker, flags, link, peer, base, read, queues, audioVars>>

\* It goes away; its process may end as well.
PeerCloses ==
  /\ socket = "connected" /\ faults < MaxFaults
  /\ socket' = "lost"
  /\ listening' \in {listening, FALSE}
  /\ unwritten' = FALSE
  /\ faults' = faults + 1
  /\ UNCHANGED <<worker, flags, mIsEstablished, stream, queues, audioVars>>

\* The destructor, which then waits for the worker.
Stop ==
  /\ ~mStopRequested
  /\ mStopRequested' = TRUE
  /\ UNCHANGED <<worker, mInitialized, mRetryConnection, link, peer, stream, queues, audioVars>>

-----------------------------------------------------------------------------
(* AudioSocketWorker::run *)

isConnected == socket = "connected"

\* MUTANT mIsEstablished stays
closeSocketOnly ==
  /\ mIsEstablished' = mIsEstablished
  /\ socket' = IF isConnected THEN "lost" ELSE socket
  /\ unwritten' = FALSE

\* close(), the connection's unread units being lost with it.
close ==
  /\ mIsEstablished' = FALSE
  /\ socket' = IF isConnected THEN "lost" ELSE socket
  /\ unwritten' = FALSE

\* The end of run().
RunEnds ==
  /\ worker = "end" \/ (worker = "loop" /\ mStopRequested)
  /\ close
  /\ worker' = "done"
  /\ UNCHANGED <<flags, peer, stream, queues, audioVars>>

\* connect() failed.
ConnectFailed == worker' = IF mStopRequested \/ ~mRetryConnection THEN "end" ELSE "loop"

\* connect(): a socket that is not connected, even one the server had accepted,
\* dials; the two headers are written.
Dial ==
  /\ worker = "loop" /\ ~mStopRequested /\ mInitialized /\ ~mIsEstablished
  /\ \/ /\ isConnected
        /\ unwritten' = TRUE /\ worker' = "greet"
        /\ UNCHANGED <<socket, stream, dropped>>
     \/ /\ ~isConnected /\ listening
        /\ socket' = "connected"
        /\ base' = base + Begun(sent) /\ sent' = 0 /\ read' = 0
        /\ dropped' = dropped + Begun(sent) - Whole(read)
        /\ unwritten' = TRUE /\ worker' = "greet"
     \/ /\ ~isConnected /\ ~listening
        /\ ConnectFailed
        /\ UNCHANGED <<socket, unwritten, stream, dropped>>
  /\ UNCHANGED <<flags, mIsEstablished, listening, faults, queues, call, ring, stats, raced>>

\* sendAudioHeader's waitForBytesWritten(-1) returns.
HeaderWritten ==
  /\ worker = "greet"
  /\ \/ ~isConnected /\ close /\ ConnectFailed
     \/ isConnected /\ ~unwritten /\ worker' = "header" /\ UNCHANGED link
  /\ UNCHANGED <<flags, peer, stream, queues, audioVars>>

\* MUTANT only the peer ends the wait
GivesUpHeaderLate == ~isConnected /\ read = sent

\* What ends the loop of readAudioHeader before the header has come.
GivesUpHeader == (mStopRequested \/ ~isConnected) /\ read = sent

\* readAudioHeader, and with a good header mIsEstablished.
ReadAudioHeader ==
  /\ worker = "header"
  /\ \/ GivesUpHeader /\ close /\ ConnectFailed /\ UNCHANGED <<read, faults>>
     \/ /\ sent > read
        /\ read' = HeaderUnits
        /\ \/ /\ mIsEstablished' = TRUE /\ worker' = "resetNext"
              /\ UNCHANGED <<socket, unwritten, faults>>
           \/ /\ faults < MaxFaults /\ faults' = faults + 1
              /\ close /\ ConnectFailed
  /\ UNCHANGED <<flags, listening, base, sent, queues, audioVars>>

\* The callback is between its test of mIsEstablished and its end.
Computing == audio \notin {"idle", "check"}

\* handleConnectionEstablished, on the worker's thread, one assignment after the
\* other.
ResetNext ==
  /\ worker = "resetNext"
  /\ mNextExtraSample' = 0
  /\ dropped' = dropped + ((mLastExtraSample - mNextExtraSample) % RingSize)
  /\ raced' = (raced \/ Computing)
  /\ worker' = "resetLast"
  /\ UNCHANGED <<flags, link, peer, stream, queues, call, mExtraSamples, mLastExtraSample, stats>>

\* MUTANT the write index is kept
ResetLastKept ==
  /\ worker = "resetLast"
  /\ worker' = "resetStats"
  /\ UNCHANGED <<flags, link, peer, stream, queues, audioVars>>

ResetLast ==
  /\ worker = "resetLast"
  /\ mLastExtraSample' = 0
  /\ worker' = "resetStats"
  /\ UNCHANGED <<flags, link, peer, stream, queues, call, mExtraSamples, mNextExtraSample, stats,
                 dropped, raced>>

\* resetQueueStats with the interval sec.
resetQueueStats(sec) ==
  /\ mMinQueuePackets' = QueueSize + 1
  /\ mNextQueueCheck' = sec
  /\ mQueueCheckSec' = IF sec < LastCheck THEN 2 * sec ELSE sec

ResetCheck ==
  /\ worker = "resetStats"
  /\ resetQueueStats(FirstCheck)
  /\ worker' = "send"
  /\ UNCHANGED <<flags, link, peer, stream, queues, call, ring, dropped, raced>>

\* sendAudio failed.
IoFailed ==
  IF mStopRequested \/ ~mRetryConnection THEN worker' = "end" /\ UNCHANGED link
                                         ELSE worker' = "loop" /\ close

\* sendAudio: its test, at once after connect() or in the loop's next turn.
SendAudio ==
  /\ \/ worker = "send"
     \/ worker = "loop" /\ ~mStopRequested /\ mInitialized /\ mIsEstablished
  /\ \/ (mStopRequested \/ ~isConnected) /\ IoFailed
     \/ /\ ~mStopRequested /\ isConnected
        /\ worker' = IF mSendQueue = 0 THEN "receive" ELSE "pop"
        /\ UNCHANGED link
  /\ UNCHANGED <<flags, peer, stream, queues, audioVars>>

\* One turn of its loop, or what ends it: waitForBytesWritten(-1).
SendNext ==
  /\ worker = "pop"
  /\ \/ /\ mSendQueue > 0
        /\ unwritten' = isConnected
        /\ mSendQueue' = mSendQueue - 1
        /\ UNCHANGED <<worker, mIsEstablished, socket>>
     \/ mSendQueue = 0 /\ ~isConnected /\ IoFailed /\ UNCHANGED mSendQueue
     \/ /\ mSendQueue = 0 /\ isConnected /\ ~unwritten
        /\ worker' = "receive"
        /\ UNCHANGED <<link, mSendQueue>>
  /\ UNCHANGED <<flags, peer, stream, mReceiveQueue, audioVars>>

\* What fits into mRecvBuffer of what has come.
Readable == LET most == RingSize * UnitsPerSample
            IN  IF sent - read > most THEN most ELSE sent - read

\* Whole samples.
BytesToRead == Readable - (Readable % UnitsPerSample)

\* The packet of the next n units.
PacketOf(n) ==
  LET at == read - HeaderUnits
  IN  [first |-> IF at % UnitsPerSample = 0 THEN base + (at \div UnitsPerSample) ELSE Torn,
       n |-> n \div UnitsPerSample]

\* One turn of receiveAudio's loop; a packet that finds the queue full is lost.
ReceiveAudio ==
  /\ worker = "receive"
  /\ \/ /\ mStopRequested \/ ~isConnected \/ sent - read <= UnitsPerSample
        /\ worker' = "loop"
        /\ UNCHANGED <<read, mReceiveQueue, dropped>>
     \/ /\ ~mStopRequested /\ isConnected /\ sent - read > UnitsPerSample
        /\ read' = read + BytesToRead
        /\ \/ /\ Len(mReceiveQueue) < QueueSize
              /\ mReceiveQueue' = Append(mReceiveQueue, PacketOf(BytesToRead))
              /\ UNCHANGED dropped
           \/ /\ Len(mReceiveQueue) = QueueSize
              /\ dropped' = dropped + PacketOf(BytesToRead).n
              /\ UNCHANGED mReceiveQueue
        /\ UNCHANGED worker
  /\ UNCHANGED <<flags, link, peer, base, sent, mSendQueue, call, ring, stats, raced>>

Worker == RunEnds \/ Dial \/ HeaderWritten \/ ReadAudioHeader \/ ResetNext \/ ResetLast
          \/ ResetCheck \/ SendAudio \/ SendNext \/ ReceiveAudio

-----------------------------------------------------------------------------
(* The audio callback: AudioSocket::compute *)

\* ToAudioSocketPlugin::compute: the first callback initializes the worker.  A
\* packet that finds the queue full is lost.
ComputeTo ==
  /\ audio = "idle" /\ callbacks < MaxCallbacks
  /\ callbacks' = callbacks + 1
  /\ mInitialized' = TRUE
  /\ mSendQueue' = IF mInitialized /\ mIsEstablished /\ mSendQueue < QueueSize
                     THEN mSendQueue + 1 ELSE mSendQueue
  /\ audio' = "check"
  /\ UNCHANGED <<worker, mStopRequested, mRetryConnection, link, peer, stream, mReceiveQueue, reg,
                 packet, left, heard, lastHeard, ring, stats, dropped, raced>>

\* FromAudioSocketPlugin::compute: its test.
ComputeFrom ==
  /\ audio = "check"
  /\ audio' = IF mIsEstablished THEN "play" ELSE "idle"
  /\ left' = IF mIsEstablished THEN Frames ELSE 0
  /\ raced' = (raced \/ (mIsEstablished /\ worker = "resetLast"))
  /\ UNCHANGED <<worker, flags, link, peer, stream, queues, reg, packet, callbacks, heard,
                 lastHeard, ring, stats, dropped>>

\* An extra sample is played ...
PlayExtra ==
  /\ audio = "play" /\ left > 0 /\ mNextExtraSample # mLastExtraSample
  /\ heard' = heard + 1
  /\ lastHeard' = mExtraSamples[mNextExtraSample]
  /\ reg' = mNextExtraSample
  /\ audio' = "advance"
  /\ UNCHANGED <<worker, flags, link, peer, stream, queues, packet, left, callbacks, ring, stats,
                 dropped, raced>>

\* ... and the index is stored, by a callback that loaded it before.
Advance ==
  /\ audio = "advance"
  /\ mNextExtraSample' = (reg + 1) % RingSize
  /\ left' = left - 1
  /\ reg' = 0
  /\ audio' = "play"
  /\ UNCHANGED <<worker, flags, link, peer, stream, queues, packet, callbacks, heard,
                 lastHeard, mExtraSamples, mLastExtraSample, stats, dropped, raced>>

\* Without extra samples the next packet is taken ...
PopPacket ==
  /\ audio = "play" /\ left > 0 /\ mNextExtraSample = mLastExtraSample
  /\ mReceiveQueue # << >>
  /\ packet' = Head(mReceiveQueue)
  /\ mReceiveQueue' = Tail(mReceiveQueue)
  /\ reg' = mLastExtraSample
  /\ audio' = "fill"
  /\ UNCHANGED <<worker, flags, link, peer, stream, mSendQueue, left, callbacks, heard, lastHeard,
                 ring, stats, dropped, raced>>

\* MUTANT the last sample of a packet is left out
FillRingShort ==
  /\ audio = "fill"
  /\ mExtraSamples' =
       [i \in Ring |-> LET k == (i - reg) % RingSize
                       IN  IF k >= packet.n THEN mExtraSamples[i]
                           ELSE IF packet.first = Torn THEN Torn ELSE packet.first + k]
  /\ mLastExtraSample' = (reg + packet.n - 1) % RingSize
  /\ packet' = Nothing
  /\ reg' = 0
  /\ audio' = "play"
  /\ UNCHANGED <<worker, flags, link, peer, stream, queues, left, callbacks, heard, lastHeard,
                 mNextExtraSample, stats, dropped, raced>>

\* ... and copied into the ring.  One that fills the ring makes it look empty.
FillRing ==
  /\ audio = "fill"
  /\ mExtraSamples' =
       [i \in Ring |-> LET k == (i - reg) % RingSize
                       IN  IF k >= packet.n THEN mExtraSamples[i]
                           ELSE IF packet.first = Torn THEN Torn ELSE packet.first + k]
  /\ mLastExtraSample' = (reg + packet.n) % RingSize
  /\ dropped' = IF packet.n = RingSize THEN dropped + packet.n ELSE dropped
  /\ packet' = Nothing
  /\ reg' = 0
  /\ audio' = "play"
  /\ UNCHANGED <<worker, flags, link, peer, stream, queues, left, callbacks, heard, lastHeard,
                 mNextExtraSample, stats, raced>>

SamplesOf(q) ==
  LET upTo[k \in 0 .. Len(q)] == IF k = 0 THEN 0 ELSE upTo[k - 1] + q[k].n
  IN  upTo[Len(q)]

\* updateQueueStats: when a check is due, the packets that were never needed since
\* the last one are dropped ...
UpdateQueueStats ==
  /\ audio = "play"
  /\ left = 0 \/ (mNextExtraSample = mLastExtraSample /\ mReceiveQueue = << >>)
  /\ LET size  == Len(mReceiveQueue)
         least == IF size < mMinQueuePackets THEN size ELSE mMinQueuePackets
     IN  \/ /\ mNextQueueCheck > 1
            /\ mNextQueueCheck' = mNextQueueCheck - 1
            /\ mMinQueuePackets' = least
            /\ audio' = "idle"
            /\ UNCHANGED mQueueCheckSec
         \/ /\ mNextQueueCheck <= 1 /\ least > 0
            /\ mMinQueuePackets' = least
            /\ audio' = "drain"
            /\ UNCHANGED <<mQueueCheckSec, mNextQueueCheck>>
         \/ /\ mNextQueueCheck <= 1 /\ least = 0
            /\ resetQueueStats(mQueueCheckSec)
            /\ audio' = "idle"
  /\ left' = 0
  /\ UNCHANGED <<worker, flags, link, peer, stream, queues, reg, packet, callbacks, heard,
                 lastHeard, ring, dropped, raced>>

\* ... one after the other, counted down in mMinQueuePackets, which a reset by the
\* worker raises meanwhile.
DrainQueue ==
  /\ audio = "drain"
  /\ LET n == IF mReceiveQueue = << >> THEN 0 ELSE 1
     IN  /\ mReceiveQueue' = SubSeq(mReceiveQueue, n + 1, Len(mReceiveQueue))
         /\ dropped' = dropped + SamplesOf(SubSeq(mReceiveQueue, 1, n))
  /\ \/ /\ mMinQueuePackets > 1
        /\ mMinQueuePackets' = mMinQueuePackets - 1
        /\ UNCHANGED <<audio, mQueueCheckSec, mNextQueueCheck>>
     \/ /\ mMinQueuePackets <= 1
        /\ resetQueueStats(mQueueCheckSec)
        /\ audio' = "idle"
  /\ UNCHANGED <<worker, flags, link, peer, stream, mSendQueue, reg, packet, left, callbacks,
                 heard, lastHeard, ring, raced>>

Audio == ComputeTo \/ ComputeFrom \/ PlayExtra \/ Advance \/ PopPacket \/ FillRing
         \/ UpdateQueueStats \/ DrainQueue

-----------------------------------------------------------------------------
SocketNext ==
  \/ PeerListens \/ PeerReads \/ PeerSendsHeader \/ PeerCloses
  \/ \E n \in Chunks : PeerSendsAudio(n)
  \/ Stop \/ Worker \/ Audio

SocketSpec == SocketInit /\ [][SocketNext]_socketVars

\* The threads run; a process that listens comes back, and reads what it is sent.
FairSpec == SocketSpec /\ WF_socketVars(Worker) /\ WF_socketVars(Audio)
            /\ WF_socketVars(PeerListens) /\ WF_socketVars(PeerReads)

-----------------------------------------------------------------------------
\* The samples of a packet, oldest first.
Samples(p) == [k \in 1 .. p.n |-> IF p.first = Torn THEN Torn ELSE p.first + k - 1]

\* The samples of the packets in a queue, one after the other.
Queued(q) ==
  LET upTo[k \in 0 .. Len(q)] == IF k = 0 THEN << >> ELSE upTo[k - 1] \o Samples(q[k])
  IN  upTo[Len(q)]

\* The ring's samples, but for one that is being played.
Extra ==
  LET first == mNextExtraSample + (IF audio = "advance" THEN 1 ELSE 0)
  IN  [k \in 1 .. (mLastExtraSample - first) % RingSize |->
         mExtraSamples[(first + k - 1) % RingSize]]

\* What is to be played: the ring's samples, a packet on its way there, the queue.
Held == Extra \o Samples(packet) \o Queued(mReceiveQueue)

\* No callback ran while the worker, having set mIsEstablished (line 409), reset
\* the ring's indices (lines 247 and 248).
Undisturbed == ~raced /\ worker # "resetLast"

\* The peer's samples are played once each, whole and in the order they were
\* sent, over connections that break and come back: what waits is newer than
\* what was played, and in order.  Only a callback that runs while the worker
\* resets the ring's indices may play samples again.
PlayedInOrder ==
  Undisturbed =>
    LET all == <<lastHeard>> \o Held
    IN  \A i, j \in DOMAIN all : i < j => all[i] < all[j]

\* A sample that the peer sent is played, waits, or was dropped for one of five
\* reasons: the connection broke before it was read, the queue was full, a check
\* found the queue longer than needed, a new connection cleared the ring, or its
\* packet filled the ring.
SamplesAccounted ==
  Undisturbed => heard + Len(Held) + dropped = base - 1 + Whole(read)

\* The destructor's wait() returns.
StopEndsWorker == mStopRequested ~> worker = "done"

\* A worker that may retry dials again when it lost its connection, wherever the
\* loss met it, unless it is stopped.
LostConnectionIsRedialled ==
  (mInitialized /\ mRetryConnection /\ socket = "lost") ~> socket = "connected" \/ mStopRequested
=============================================================================
