# A verification of JackTrip's core in TLA+

JackTrip sends uncompressed audio between machines with as little delay as it
can. This directory holds TLA+ modules translated from the C++ code of the
repository (`src/src/`), the TLC configurations that check them on small
instances, and theorems about them that the TLA+ proof system checks for every
value of the constants. Line numbers below refer to the files in `src/src/`.
`PROJECT.json` lists, in a form tools can read, the components, the runs, the
source lines each definition models, the hazards and the theorems.

## 1. The system

A **session** (`JackTrip`) has an audio interface, whose callback runs on a
realtime thread, a **sender** and a **receiver** (`DataProtocol` and its UDP,
WebRTC and WebTransport subclasses), each a thread of its own, and a buffer in
each direction: a `RingBuffer` towards the network, and a `RingBuffer`, a
`JitterBuffer` or a `Regulator` from it. Everything else of a session runs on the
thread of a Qt event loop.

A **hub server** (`UdpHubListener`) accepts TCP clients, gives each a
`JackTripWorker` in one of `gMaxThreads` slots, and with the slot a UDP port. All
its workers share one event loop. The **patcher** connects the JACK ports of the
clients that are being served.

| component | state | operations | interacts through | hard because |
|---|---|---|---|---|
| `WaitFreeRingBuffer`, `WaitFreeFrameBuffer` | two atomic positions, slots | push, pop, size | shared memory of two threads | no lock; torn frames, stale positions |
| `UdpDataProtocol`, `DataProtocol` | sequence numbers, `mStopped` | run (both roles), sendPacketRedundancy, receivePacketRedundancy, waitForStart, stop | UDP; queued signals to `JackTrip`; the buffers | loss, reordering, restart of the peer, 16-bit numbers, threads that start and end |
| `JackTrip` | phase, `mStopped`, `mHasShutdown`, `mAwaitingUdp/Tcp`, the static `sAudioStopped` | startProcess, completeConnection, stop, timers, TCP handshake | threads it joins, signals to the worker | blocking waits in an event loop, timers, flags shared by sessions |
| `UdpHubListener`, `JackTripWorker` | slot table, counter; `mSpawning`, `mRunning`, `mPatched`, `mID`, port | readyRead, createWorker, releaseThread, releaseDuplicateThreads, stopCheck; setJackTrip, processPeerSettings, stopThread, jacktripStopped, alertPatcher | direct calls and queued signals both ways | what was queued arrives after the world changed; slots, ports and names are reused |
| `Patcher` | client lists, JACK client | registerClient, unregisterClient, port callbacks | JACK's threads | names are reused by JACK |
| `RingBuffer` | positions, `mFullSlots` | blocking and non-blocking insert and read, overflow and underrun resets | mutex and condition | a reader that blocks |
| `JitterBuffer` | 32-bit positions | insert, read, broadcast, loss | mutex | arithmetic that wraps |
| `Regulator`, `RegulatorWorker` | slots by sequence number, `mLastSeqNumIn`, a wait-free queue | pushPacket, pullPacket, pop | atomics only, three threads | races on the slots, window of 4096 numbers |
| `AudioSocket` | two wait-free queues, extra samples | process, send, receive, reconnect | audio thread, socket thread | connection lost and re-established under the callback |
| WebRTC, WebTransport, HTTP/3 | connection states, send buffers | library callbacks, run | threads of the libraries | callbacks during destruction |
| Auth, OSC, settings, front ends, plugins, meters and effects | | | | I/O or signal processing; see section 7 |

What makes them correct: the queues are FIFOs that tear and lose nothing; the
stream that reaches the audio buffer is the peer's stream, with what is missing
concealed and nothing else; sessions start and stop, and their audio runs only
while their threads do; a hub gives each client its own slot, port and patch and
takes back all of them however the client ends.

## 2. The modules

| module | models | status |
|---|---|---|
| `BoundedFifo` | what the wait-free queue promises: a FIFO of bounded length | abstract specification |
| `WaitFreeRingBuffer`, `MC...`, `...Proofs` | the wait-free queue | checked and proved |
| `UdpRedundancy`, `...Proofs` | the redundant UDP stream from sender to receiver | checked, all invariants proved |
| `JackTripSession` | starting and stopping one session's threads and audio | checked, safety proved in `ClientSessionProofs` |
| `ClientSession`, `...Proofs` | the session composed with what precedes it: a client's TCP handshake with a hub, or a hub's wait for a datagram | checked, implements the session, safety proved |
| `HubListener`, `MC...`, `...Proofs` | the hub's workers, slots, ports and patches | checked, all invariants proved for UDP clients |
| `Regulator`, `...Proofs` | the receive buffer of strategies 3 and 4, between two threads without a lock | checked, both invariants proved |
| `JitterBuffer`, `...Proofs` | the receive buffer of strategies 0 and 1, with the broadcast | checked and proved |
| `RingBuffer`, `RingProofs` | the send buffer, and the receive buffer of strategy -1 | checked and proved |
| `AudioSocket`, `RingProofs` | audio exchanged with another process over a local socket | checked, both invariants proved |
| `WebTransport`, `...Proofs` | one WebTransport client: session, protocols, worker, hub | checked, the buffer pool proved |

How they fit together. `WaitFreeRingBuffer` is the queue that `AudioSocket`,
`RegulatorWorker`, `Monitor` and `Analyzer` use; `AudioSocket` takes push and pop as
one step each, which the refinement of `BoundedFifo` justifies. `JackTripSession`
opens up two steps that `HubListener` takes as atomic, `completeConnection` and
`stop`: it shows when they return. `ClientSession` extends it with what leads a
client and a hub's session to `completeConnection`, and every run of the session is on
the composition. `UdpRedundancy` is what the receiver does in the
step `ReceiverPacket` of `JackTripSession`; what it hands over goes into a
`Regulator`, a `JitterBuffer` or a `RingBuffer`, each of which takes any stream that
a lossy network can produce. `RingBuffer` is the buffer whose filling
`JackTripSession` counts. `WebTransport` composes in one module the parts of
`UdpHubListener`, `JackTripWorker`, `JackTrip` and msquic that a WebTransport client
meets.

### WaitFreeRingBuffer

Each atomic load, each atomic store and the two ends of each `memcpy` are actions
(`PushLoadTail`, `PushWriteBegin`, `PushWriteEnd`, `PushStoreHead`; the same for
pop). A load of the other thread's position may return any value stored since the
last one seen (`Visible`), which is what acquire and release promise and less than
sequential consistency. A slot in the middle of a `memcpy` holds `Torn`. The
xrun counters are left out, and so is `clear()`, which nothing calls.

`FifoSpec` is the refinement: `mRing` from `mTailPtr` to `mHeadPtr` is the queue of
`BoundedFifo` with capacity `Size - 1`, so an item that `push` accepted comes out
of `pop` once, whole and in order.

### UdpRedundancy

The sender numbers its packets modulo `SeqMod` and puts `PeerRedundancy` of them in
each datagram, the newest first. The network delivers any of the last `Window`
datagrams in any order and any number of times; a datagram that is never
delivered is lost. The sender's process may be restarted without its exit packet
and counts from 0 again. `DropOutOfOrder` and `Accept` are the two ways through
`receivePacketRedundancy`; `Lost` is the `int16_t` of line 944, `IsNextExpected`
the comparison of line 967 in `int`, `Copies` the clamp of lines 991-995. The
variable `playout` records what `writeAudioBuffer` was given since the receiver
last synchronised. Packets are named by their sequence numbers, and a packet to be
concealed by `Concealed`.

Left out: the counters for `getStats`, packets that change their format in
mid-stream, and the simulated network problems (the network does worse).

### JackTripSession

`main` is where the event loop's thread is: in `completeConnection`
(`startingReceiver`, `startingSender`, `startingAudio`), in `stop`
(`joiningSender`, `joiningReceiver`) or in neither. `completeConnection` asks for no
flag, so it is possible before and after `stop` (`mHasShutdown`); after `stop` it starts
the threads again and ends the process when it comes to the audio interface that
`closeAudio` has deleted (`StartAudioOfNone`). `receiver` and `sender` are the
positions in `run()`, `mStopped` the flag that `threadHasStarted` clears and `stop`
sets, `mFullSlots` the filling of the send ring buffer whose `readSlotBlocking`
blocks the sender (`SenderWaits`, `SenderWakes`). `AudioCallback` inserts with
`overflowReset`. A datagram is one of five kinds by what the receiver does with
it. `stopPosted` stands for every queued call of `stop`. `ReceiverTimeout` is the
report of `gClientGoneTimeoutMs` without a datagram, which stops a hub's session
(`JackTripWorker.cpp:382`) and, with the option for it, a client's.

Left out: what datagrams carry, the receiver's buffer, the Windows and polling
receive loops, a second `stop`, which returns at once, the callbacks of other sessions,
which may set `sAudioStopped` too, and SIGINT, whose flag ends the sender's loop as
`stop` does.

### ClientSession

`tcp`, `mAwaitingTcp`, `retryTimer` and `ticks` (the elapsed part of the 30 s) are the
client's; `hub` is the hub's end of the connection, and `toHub` and `toClient` hold the
one message that may be on its way in each direction. The client's actions are its
slots: `receivedConnectionTCP`, `tcpTimerTick` (give up, or abort and dial again),
`receivedErrorTCP` (`Refused` is the error it ignores), `receivedDataTCP`
(`ReceivedAuthAnswer` before the connection is encrypted, `ReceivedDataTCP` for the
port) and `connectionSecured`. The hub's are the two halves of `readyRead`, without
and with credentials; `hubKind` says whether it asks for authentication, and a
`legacy` hub takes the wish to authenticate for a port. `assigned` records that the hub
has a worker for the client. A hub's session (`role = "server"`) waits for its client's
first datagram (`mAwaitingUdp`, `ReceivedFirstPacketUDP`) until its timer gives up
(`UdpTimerTick`). `stop` touches none of this: a connection, a port, a tick or a
datagram that was on its way is handled after it as before.

The hub waits for the rest of a message that comes in parts, and so does the client
for a port (`JackTrip.cpp:990`). For the hub's leave to encrypt it does not
(945-954): what is read of a part is completed by what the new buffer held, so
`ReceivedAuthAnswer` may read any answer. Left out: what TLS does, SIGINT, and a server
outside a hub (mode `SERVER`), whose wait has no end. The client's option to stop when its peer is silent is taken to be on.

### HubListener

All handlers run on one thread, so a handler is one action. `posted` is the queue
of posted events, first in first out: queued signals and `deleteLater`. Sockets,
timers and new clients may be served before any posted event. The receivers'
threads and the WebRTC library only post (`PeerGone`, `RtcSignal`, `RtcMessage`).
A record per worker holds the fields of `JackTripWorker` and what matters of its
`JackTrip`: the phase, the bound socket and the JACK client's name. Calls that
handlers make (`StopThread`, `ReleaseThread`, `ReleaseDuplicateThreads`, ...) are
functions of the whole state, applied in the code's order, and `Become` makes the
result the next state. `fatal` records a call in which the process would have
died; a dead process takes no step.

`releaseThread` counts before it looks: for an empty slot it calls `deleteLater()` on a
null pointer, of which Qt, depending on its version and the compiler, warns or dies
(`NullIsFatal`); the counter is decremented either way. `icePorts` is the port that a
WebRTC worker gives to libjuice, which may have bound it when the worker of a UDP client
wants it (`IcePort`). A client that was accepted before `stopCheck` closed the TCP server
is served after it too.

Left out: TLS and passwords, latency requests, the WebTransport worker (which
`WebTransport` models), and JACK's ports. All clients have the same JACK name, so
JACK numbers them and reuses the numbers.

### Regulator

`push` is where the receiver's thread is in `pushPacket`: it writes the arrival time
(`PushTiming`), copies the packet, and publishes `mLastSeqNumIn` last
(`PushPublish`, with the comparison of lines 622-624 in `IsNewer`). `pull` is where
the pulling thread is in `pullPacket`. Each way through it is an action: silence
before the first packet, a stashed packet, a search that finds nothing
(`PullUnderrun`), one that defers the adjustment by one packet (`PullDeferred`), one
that skips packets and stashes the one it found (`PullGlitch`), and the ordinary one
(`PullNext`, `PullCopied`: the two ends of the `memcpy`). A slot in the middle of a
`memcpy` is `Torn`. Packets are counted; a packet's slot is its sequence number
modulo `NumSlots`, and time passes in ticks of a packet. The tolerance is any of
`Tolerances` and may change every `AutoPeriod` ticks.

The search of lines 644-707 is one step: it reads the clock, `mLastSeqNumIn` and all
arrival times at one instant, where the code reads them one after the other while the
receiver may write. Each slot is read once, so a search that one packet interrupts finds
what it would have found with that packet before or after it. One that several packets
interrupt may see a later of them and not an earlier one, as if they had come in another
order, which is within the model only as far as `Jitter` and `MaxTroubles` allow it.

Left out: the prediction of lost audio, statistics, packets whose size is not the
callback's, the broadcast copy, and `RegulatorWorker`, whose queue is the wait-free
one.

### JitterBuffer

Every operation holds the mutex, so it is one action. Positions keep counting in
the model, and `Cell` reduces them modulo 2^32 and the buffer's size as the code's
types do. A cell holds the position it was written for, so that a read tells whether
it got what belongs there. `Correction` is the chain of conditions of lines 146-179.
The conditions on the floating-point level cannot fail in strategies 0 and 1.

Left out: strategy 2 and the auto queue, which depend on that level, statistics, and
the interpolated samples of the broadcast.

### RingBuffer

Positions count slots instead of bytes, packets are numbered as they are inserted.
A blocking read that finds nothing waits (`ReadSlotBlocking`), is woken by an insert
(`ReadSlotWoken`) or gives up because the audio stopped (`ReadSlotAborted`). `kind`
tells the send buffer from the two receive buffers, which differ in what an underrun
plays. The counters of `getStats` are kept, its floating-point levels are not;
`Garbage` are the values that the constructor leaves in two of them.

### AudioSocket

The worker's thread dials, exchanges headers, sends and receives and redials; the
audio callback's steps are its accesses to the indices that the worker resets
(`ComputeFrom`, `PlayExtra`, `Advance`, `PopPacket`, `FillRing`), and the packets it drops
from the receive queue one by one (`DrainQueue`), counted down in `mMinQueuePackets`, which
a new connection resets on the worker's thread. The peer's stream is
counted in units smaller than a sample, so that reads end inside headers and
samples. The other process may refuse, die, and come back `MaxFaults` times.
`dropped` counts samples given up on purpose and `raced` records that the callback
ran while the worker reset its indices.

`SocketInit`, `SocketNext`, `SocketSpec` and `ResetCheck` (the call of
`resetQueueStats` on a new connection) have names of their own because `RingProofs`
extends this module and `RingBuffer` together.

Left out: sample rate conversion, channel mixing, and passing the input through when
there is no connection.

### WebTransport

Six threads (see the module's head). `posted` is the event queue of the hub's thread
and `hub` the place inside a handler where that thread waits: in the two joins of
`JackTrip::stop`, in `~WebTransportSession` for msquic's last event, in the
protocols' destructor for lent buffers. `session`, `worker` and `protocols` have a
`life`, and `dangling` records a use of a deleted session. A buffer goes from the pool
to the audio thread or the exit packet, to msquic (`lent`) and back
(`SendStateChanged`).

Left out: the contents of packets, HTTP/3 streams before the CONNECT request, and
other clients; the client is in slot 0, the only slot a WebTransport worker
releases correctly (its `mID` stays 0, as a WebRTC worker's does). Of the two slots that
`signalWaitingTooLong` reaches, `OnWaitedTooLong` is `printWaitedTooLong`: the other,
`JackTrip::slotUdpWaitingTooLong`, only emits `signalUdpWaitingTooLong`, to which the client
front ends connect and a hub does not.

## 3. The runs

| run | bounds | what it shows |
|---|---|---|
| `ring` | 4 slots, 2 frames | `TypeOK`, no copy meets a copy, `size()` errs to the caller's safe side, the queue is a FIFO |
| `redundancy` | 11 datagrams, delay up to 5, receiver's factor 3 against the peer's 2, no wrap | the stream stays on its timeline; only what no copy held is concealed; the receiver is never deaf for long |
| `redundancy_wrap` | numbers modulo 10, 13 datagrams, factor 2 | **violation** of `Timeline`, see section 6 |
| `hub` | 3 UDP workers, 2 slots, 2 endpoints | workers hold their slots, slots do not leak, the counter counts, reconnecting replaces, the patcher follows; ended workers are released |
| `hub_webrtc` | 2 UDP and 1 WebRTC worker, 2 slots, double releases survived | the counter never exceeds the occupied slots; the patcher follows |
| `session` | `ClientSession`: client or server, 2 ticks, all kinds of hubs and datagrams, JACK may refuse, other sessions | audio starts and ends within the threads' lives, a thread that `stop` waits for stays told to stop; a session's threads are started once, whatever comes before or after `stop`; a client is connected only to a hub that has a worker for it and agrees about authentication; the wait for a connection ends, start and stop return, a vanished peer is noticed, dead audio ends the session |
| `regulator` | 8 slots, 12 ticks, 2 troubles, tolerances of 1 and 2 packets, one restart | packets are played once, whole and in order; each is played or counted as skipped; a restarted peer is heard within half a lap |
| `jitter_buffer` | slots of 2 units, a buffer of 18, positions that wrap at 32 | what is read is what was written for that position; nothing is replayed; the latency is bounded |
| `ring_buffer` | 4 slots, 8 inserts, 8 reads, all three kinds | the full slots are the newest packets in order; the statistics explain every slot |
| `audio_socket` | queues of 2, a ring of 3 samples, 4 callbacks of 2 frames, 7 samples, 1 fault | samples are played once and in order; every sample is accounted for; a stopped worker ends; a lost connection is redialled |
| `webtransport` | 2 buffers, 2 requests | a lent buffer is nobody else's; an ended session gives its slot back; the hub's thread never waits for ever |
| `webtransport_lifetime` | the same | **violation** of `SessionOutlivesProtocols`, see section 6 |

Why the bounds are enough. *ring*: with four slots the positions wrap, and every
filling from empty to full occurs at every position; two frames tell any two items
apart since frames are only copied. *redundancy*: 11 datagrams allow a gap longer
than `MaxGap` (3 here, 1000 in the code), a run of more than `ResyncAfter` (2 here,
5 in the code) drops, a restart and a recovery in one behaviour; `SeqMod` must
exceed `2 * MaxGap + 1` as 65536 exceeds 2001 (`StreamAssumption`). *hub*: with three
workers for two slots a slot, its port and its JACK name are reused while events
for the former owner are still queued, and two endpoints tell a reconnection from
another client. *hub_webrtc*: one WebRTC worker with two slots is enough to be in the
wrong slot, and to release a slot that is empty or another's. *session*: four slots are `gDefaultOutputQueueLength`; two ticks reach
a refused, an unanswered and an answered dial and the end of the time; nothing else is
bounded, and a session is connected at most once (`ConnectsOnce`). *regulator*: 12 ticks
are a lap and a half of 8 slots, so that slots of the last lap are met; two troubles let a loss and a late packet combine, and a
restart within the run makes numbers jump back. The peer takes 6 ticks to restart,
longer than the buffer may hold back its first packet, as `StartsInFirstLap` asks. The
tolerance stays below a quarter
of a lap as 4096 slots exceed any real tolerance. *jitter_buffer*: positions pass the
buffer's end twice and the wrap of the counter once; the packet sizes differ from the
slot, so packets straddle both. *ring_buffer*: 8 inserts overflow twice, and the
proofs cover all other sizes. *audio_socket*: a ring that is no multiple of the
period and reads that end inside samples reach every offset; one fault gives two
connections. The peer writes five units at a time, so packets are longer than a callback
and one is left for a check that drops it while a new connection resets the counts. *webtransport*: two buffers are enough for the audio thread and the exit
packet to compete while msquic holds one, and two requests for a second CONNECT.

Of the type invariants only that of the queue is in a run. Those of `JackTripSession`,
`RingBuffer` and `Regulator` are proved for all constants (section 5); those of
`HubListener`, `UdpRedundancy` and `JitterBuffer` document the variables: a value out of range would
break the properties that are checked.

Deadlock is checked in the runs of the queue and of the redundant stream. The other
systems may stop: a hub's instance runs out of workers, a session or a worker's thread
ends, and the counted buffers and streams reach their bounds.

## 4. Fairness

`HubListener!FairSpec`: the event loop delivers what is posted, and a running
single-shot or repeating timer fires (`GiveUpOnClient` is fed by `mTimeoutTimer`,
`JackTripTimeout` by `mTimeoutTimer` of `JackTrip`). No client has to connect or to
send anything.

`JackTripSession!Fairness`: threads that can run do run (the operating system's
scheduler), the event loop goes on with what it can do, and the audio callback is
called as long as the interface is on (JACK calls it once a period). Weak fairness
suffices, for no step is enabled only now and then: the receiver's timeout stays
enabled while the peer is gone. The peer owes nothing, and nobody has to call
`stop()`. The liveness properties say in their conclusions when they may fail
(`NeverStarts`, `AudioLost`): those are behaviours of the code, listed in section 6.

`ClientSession!ClientFairSpec` adds what precedes the session: the two timers fire, the
hub's event loop reads what has arrived, what it writes or closes arrives (TCP), and the TLS
handshake ends. Nothing says that the dialled host answers. That the hub reads is an
assumption that the code needs, see section 6.

`AudioSocket!FairSpec`: the worker and the audio callback run, a process listens again
in the end, and the other process reads what is sent to it. The last is an assumption
that the code needs: `waitForBytesWritten(-1)` has no limit.

`WebTransport!FairSpec`: the hub's loop and the two threads run, msquic delivers its
events and ends the connection of a client that is gone (its idle timeout). The client
owes nothing.

## 5. The proofs

TLC checks the instances above; the theorems hold for all values of the
constants under the named assumptions (`SizeAssumption`, `ItemsAssumption`,
`StreamAssumption`, `SessionAssumption`, `ClientAssumption`, `RingBufferAssumption`,
`PoolAssumption`, `JitterAssumption`, `RegulatorAssumption`, `AudioSocketAssumption`,
`WebTransportAssumption`). Where a theorem needs more than these, it says so in an
`ASSUME` of its own; each such hypothesis is named below with the behaviour of the code
that makes it necessary.

| theorem | states | for all |
|---|---|---|
| `WaitFreeRingBufferProofs`: `TypeCorrect`, `NoDataRace`, `SizeSafeForProducer`, `SizeSafeForConsumer`, `ImplementsFifo` | all properties of `ring` | sizes, items |
| `UdpRedundancyProofs`: `DeafnessIsBounded`, `RedundancyIsUsed` | `DeafnessBounded`, `ConcealedOnlyBeyondRedundancy` | moduli, factors, networks, restarts |
| `UdpRedundancyProofs`: `PlayoutKeepsTheTimeline` | `Timeline` | the same, with `Copies = 1` or before the wrap |
| `ClientSessionProofs`: `SessionTypeCorrect`, `AudioStaysWithinThreads`, `StopHoldsWhileItWaits`, `ClientImplementsSession`, `ConnectedClientsHaveWorkers`, `SessionsConnectOnce` | `TypeOK` and the safety properties of `session` | buffers, channels, peers, hubs |
| `HubListenerProofs`: `CounterIsNeverAbove` | `CountNeverAbove` | slots, endpoints, workers of both kinds |
| `HubListenerProofs`: `CountsMatchSlots`, `ServedWorkersHoldSlots`, `SlotsDoNotLeak`, `ClientsHaveOneWorker`, `PatcherKeepsTrack` | the other invariants of `hub` | slots, endpoints, UDP workers |
| `JitterBufferProofs`: `LatencyIsBounded`, `NothingIsReplayed` | `LatencyBounded`, `NeverReplays` | sizes, latencies, losses, beyond the wrap too |
| `JitterBufferProofs`: `WrittenIsPlayed` | `PlaysWhatWasWritten` | the same, with `RoomBeforeWrap` |
| `RegulatorProofs`: `RegulatorTypeCorrect` | `TypeOK` | all constants |
| `RegulatorProofs`: `DeafnessIsBounded` | `DeafForHalfALap` | laps, jitter, tolerances, with `ShortLosses` |
| `RegulatorProofs`: `SkipsAreAccounted` | `SkipsAccounted` | the same, with `StartsInFirstLap` |
| `RingProofs`: `RingBufferTypeCorrect`, `SlotsHeldInOrder`, `StatisticsBalance` | `TypeOK`, `HeldInOrder`, `BooksBalance` | sizes, kinds |
| `RingProofs`: `SocketPlaysInOrder`, `SocketAccountsForSamples` | `PlayedInOrder`, `SamplesAccounted` | rings, queues, sample sizes, reads, connections |
| `WebTransportProofs`: `LentBuffersAreUntouched` | `LentBuffersUntouched` | pools, requests, with `~WaitMayExpire` |

* `WaitFreeRingBufferProofs`. The inductive invariant adds to `TypeOK` what each
  thread knows about the other: the tail that the producer saw last lies between
  the real tail and the head, the head that the consumer saw last between the tail
  and the real head, so that a stale position is always one the owner has been
  at. From it follow `NoDataRace` (`CopiesDisjoint`), `SizeSafeForProducer` and
  `SizeSafeForConsumer` (the two sides on which `size()` may err) and
  `ImplementsFifo`: `PushStoreHead` appends to the abstract queue,
  `PopStoreTail` takes its head, all other steps stutter. The circular distance is
  handled by a few lemmas about `Between` and `next`.
* `UdpRedundancyProofs`. `DeafnessIsBounded`: a count above `ResyncAfter` implies
  `mInitialState`, and then nothing is dropped. `RedundancyIsUsed` rests on
  `AcceptExtends`: a datagram that is accepted adds its packets in order, and a gap
  before them only if all of its packets are used. This holds beyond the wrap.
  `PlayoutKeepsTheTimeline` needs more, namely that gap and packets make up for what was
  lost (`TimelineInv`: the last packet of the playout has the number of the last
  datagram), and this is what `IsNextExpected` breaks at the wrap. Hence the
  hypothesis: a receiver that looks at one packet of a datagram, or numbers that do
  not come within `MaxGap` of the wrap.
* `ClientSessionProofs`. `SessionInv` relates the session's three threads: past
  `completeConnection` both have started, `stop` finds both or neither
  (`ThreadsFollowMain`), a thread that has not said that it runs has `mStopped` set
  (`UnstartedIsStopped`), and the audio follows the event loop
  (`AudioFollowsMain`). `AudioWithinThreads` and `StopSticks` do not follow
  without them: `StopSticks` holds because `waitForStart` keeps `threadHasStarted`
  and `stop` apart, which is a fact about the event loop's position. All of it holds
  also when `completeConnection` comes after `stop`: what fails then is
  `StoppedForGood` (section 6), about which nothing is proved.
  Every step of the composition with what precedes a session is a step of the session or
  leaves it alone (`ClientImplementsSession`), so the session's theorems hold of clients
  and of a hub's sessions, whatever comes after `stop`.
  `ConnectedClientsHaveWorkers` needs `HandshakeInv`: what each message on its way says of
  the two sides (`MessagesMean`), and that only a client and a hub that both authenticate
  come to an encrypted connection, whatever the client took for the hub's leave
  (`SecuredMeans`). `SessionsConnectOnce` needs `AwaitingInv`: whoever still waits for a
  connection, a port or a datagram has no threads yet.
* `HubListenerProofs`. Each call that handlers make is a function of the hub's record;
  one lemma per call says what it changes (`StoppingThread`, `Releasing`, `Processing`,
  ...), and one per invariant that it preserves it, so that the proof of a handler
  follows the calls it makes. The loops of `releaseDuplicateThreads` and `stopAllThreads`,
  and the filter by which Qt drops a deleted object's events, are recursive functions;
  `LoopExists` and `LoopStays` prove that they are defined and keep a set of states, by
  the least number for which they would not.
  `CounterIsNeverAbove` needs only `Counted`: a worker in a slot has been created, so a new
  one is in none, and whoever empties a slot counts. The other theorems rest on
  `UdpHub(h, X)`, in which `X` are workers in the middle of a handler. Its parts: a slot is
  released while it is occupied, so the counter is exact (`Exact`, `CountsMatchSlots`); a
  worker that is to be released has its events in
  the queue, in an order that ends with its release (`SlotsDoNotLeak`); what is queued for
  a worker whose slot was given away does nothing to the new owner
  (`ServedWorkersHoldSlots`); the workers of one client are apart
  (`ClientsHaveOneWorker`). `PatcherKeepsTrack` adds `Patches(h, X)`, whose core is the
  order of posted events: the `jacktripStopped` of a worker that was stopped comes before
  the `alertPatcher` of the slot's next owner, which may have the same JACK name, and no
  `slotStopProcesses` comes before a worker's own `alertPatcher`. TLC checked these
  invariants on the instance of `hub` before they were proved.
  The hypothesis `RtcWorkers = {}` is needed: a WebRTC worker never learns its slot and
  releases slot 0 (section 6), which takes the slot from a worker that is served, or
  counts one that is already empty.
* `JitterBufferProofs`. `PositionInv` bounds the distance of writer and reader and has
  what was played behind both, so that neither a step back of the reader nor its reset to
  the writer replays it; `CorrectedLevel` is the chain of corrections as arithmetic.
  `ContentsInv` says that each cell holds the one position of the last lap that belongs
  there (`Holds`); `WrittenHolds` and `LapHolds` follow the two ways of writing.
  `RoomBeforeWrap` is needed because the size does not divide 2^32 (`AtWrap`,
  section 6), and because a queue longer than the buffer, or a broadcast further
  behind than there is room, reads what was overwritten.
* `RegulatorProofs`. `DeafnessIsBounded`: as long as packets are ignored, the slot of the
  newest lies at most half a lap behind `mLastSeqNumIn`, and each ignored packet brings it
  nearer (`Heard`); a burst of losses must not jump over the half in which packets are
  taken for newer (`ShortLosses`: less than half a lap in a row, and no revived packets).
  `SkipsAreAccounted`: `SearchDistances` shows that what the search through the laps
  settles on is exactly `Skipped` slots after the next packet, and the oldest good packet
  is the next one when one is skipped; `Accounts` carries this through the stash and
  through a copy in progress. Until a packet was played (`Starting`) the slots hold what
  belongs there, in the first lap (`StartsInFirstLap`): without `mLastSeqNumOut` the search
  goes down to slot 0 without regard to the lap, and meets at the end of the first lap
  a slot that is ahead of `mLastSeqNumIn`, perhaps half copied. The hypothesis asks that
  the first number, the tolerance and the jitter together fit into one lap (4096 packets;
  a peer's first number is 0) and that the peer is not restarted before it was heard.
  `RegulatorTypeCorrect` needs no hypothesis.
* `RingProofs` of `RingBuffer`. `RingInv` is `TypeOK` with `HeldInOrder`: the write position is
  the read position plus the count, modulo `NumSlots`, and the full slots hold
  increasing packets newer than the last one read. Lemmas on `Ahead` (it stays in the
  ring, it adds, it is injective on a lap) carry the inductive step; the insert has
  two cases, with and without `overflowReset`. `StatisticsBalance` proves the action
  property `BooksBalance` step by step from the types.
* `RingProofs` of `AudioSocket`. `SocketInv` says of the stream that what is read of a
  connection is its header and whole samples (`StreamInv`; `ReadsSamples` is the
  arithmetic of one read), of the threads that a callback between its test and its end
  holds the index it loaded, and none is there while the ring is cleared
  (`PlacesInv`), and of the samples that `lastHeard`, the ring, a packet on its way, the
  queue and the next sample to be read follow each other (`QueueInv`, `ExtrasInv`). The
  ring is written modulo `RingSize`, so `At` and `Gap` get their lemmas first. `Held` is
  a concatenation over the queue: `LoopExists` gives the recursive functions of
  `SamplesOf` and `Queued` their values, `CutSamples` and `QueuedSamples` say how these
  change with the queue. Once `raced` is set, only the types and `StreamInv` are left,
  which is what the two properties claim.
* `WebTransportProofs`. `PoolInv`: whoever holds a buffer, the audio callback, the exit
  packet or msquic, has marked it (`HoldersMark`); past `JackTrip::stop` neither thread
  touches one (`HoldersRun`); and a session is established once, so that there is one
  sender and one audio interface (`EstablishedOnce`, a fact about the event queue).
  `WaitMayExpire` is excluded because the destructor frees a buffer that msquic still
  holds when its wait of one second expires (section 6).

Only model-checked:

* `PlayedInOrder` of `Regulator`, whose search through arrival times orders packets of
  different laps;
* what the hypotheses above leave out: the hub with WebRTC clients (`hub_webrtc` checks
  the patcher), the jitter buffer's contents over the wrap;
* the liveness properties, and the action properties that go with them
  (`EndedWorkerIsReleased` and the others of section 3 that speak of an end): TLAPS
  proves nothing about fairness or `ENABLED`.

No module has `RECURSIVE` operators; what a recursive function computes for every input
would need induction over data, which the provers at hand cannot do. Where a proof needs
a loop's result, it goes by the least number instead.

## 6. Where the code and its comments disagree

Two have a run of their own, listed under `findings`.

* `redundancy_wrap`: at the wrap of the 16-bit sequence number the comparison
  `current_seq_num == (last_seq_num + 1)` (`UdpDataProtocol.cpp:967`) is false for 0
  after 65535, because both sides are `int`. With a redundancy factor above 1 the
  receiver plays packets again.
* `webtransport_lifetime`: `stopThread` posts the deletion of the session before
  anything posts the deletion of the worker, so the data protocols' destructors call
  `setDatagramCallback` on a deleted session (`WebTransportDataProtocol.cpp:115`).

Known divergences without a run. Those marked with a module are steps or states of it.

Sessions and the hub:

* `JackTripSession`, `StoppedForGood`: `stop` leaves `mAwaitingUdp` set and the sockets
  open, and neither `receivedFirstPacketUDP`, `receivedDataTCP` nor `completeConnection`
  looks at `mStopped` or `mHasShutdown` (`JackTrip.cpp:1117`, 945, 727). A datagram or a
  port that arrives between `stop` and the deletion of the object starts the threads of a
  stopped session, which no second `stop` ends, and `completeConnection` goes on to call
  `initPlugins` through a null `mAudioInterface` (774, the state `crashed`). TLC shows it
  when `StoppedForGood` is added to the invariants of `MCSession.cfg`.
* `HubListener` with WebRTC workers: such a worker never learns its slot
  (`UdpHubListener.cpp:971`, `JackTripWorker.cpp:525`): its `mID` stays 0, and when its
  channel closes or its connection fails, `handleWorkerRemoval` releases slot 0. When
  another client is served there, it loses its worker, and the WebRTC client's slot stays
  taken. When the slot is empty, because the first worker's timer has released it or
  because a closed channel and a failed connection were both queued for one worker,
  `mTotalRunningThreads` falls below the number of workers (line 854), before the null
  worker is touched (859; `fatal = "releaseThread"` where this is the end of the
  process). TLC shows it when `CountMatchesSlots`, `ServedWorkerHoldsSlot`, `NoSlotLeaks`
  or `OneWorkerPerClient` is added to `MCHubRtc.cfg`. A WebTransport worker's `mID` stays
  0 likewise.
* `JackTripSession`, `NeverStarts`: a client without inputs (`0xFF`) makes the
  receiver's `run()` return before `threadHasStarted()` (`UdpDataProtocol.cpp:536`), and
  the server's event loop waits forever in `waitForStart` (`JackTrip.cpp:744`). The same
  happens when a packet of another size comes right after the first one: the receiver
  sets `mStopped` itself (line 1023) before the event loop has looked
  (`DataProtocol.cpp:74-80`).
* `JackTripSession`, `AudioLost`: `completeConnection` ignores a refused
  `jack_activate` (`JackTrip.cpp:775`); the sender then waits for audio and `stop` for
  the sender. A JackTrip constructed within 200 ms of JACK's shutdown resets
  `sAudioStopped` (`JackTrip.cpp:163`) before a blocked sender saw it, with the same
  effect.
* `JackTripSession`: before the receiver's first datagram there is no timeout
  (`UdpDataProtocol.cpp:661`), and a receiver whose peer's header does not validate
  ends without a signal (671-676); the session stays.
* `ClientSession`: `receivedConnectionTCP` stops `mRetryTimer`, and no timeout follows: a
  hub that keeps the connection and says nothing keeps the client waiting.
* `HubListener`, `fatal = "completeConnection"`: the same as `StoppedForGood`, seen
  from the hub: a JackTrip stopped while it waits for its client's datagram is started by
  that datagram, and the process dies for want of an audio interface.
* `HubListener`, `fatal = "bind"`: the socket of a JackTrip that was stopped while
  it waited outlives the release of its slot until the worker is deleted, and
  `start()` throws for the next client (`JackTripWorker.cpp:220-225`). The same happens
  when a WebRTC connection still has the slot's port for ICE.
* WebRTC, not in a model: a failure inside the connection's constructor is signalled
  before anyone is connected, and a hang-up before the channel exists is ignored; both
  keep the slot. The report of a silent peer needs a time that is a multiple of both
  10,000 and 2,560 ms. `stopThread` closes the channel while it holds the worker's mutex.

Buffers:

* `Regulator` with `Revived` above 0 violates `PlayedInOrder`: revived packets of a
  datagram are all written under the newest one's number (`UdpDataProtocol.cpp:1019`).
* `Regulator` with an early `LossFrom`: an arrival time of 0.0 does not tell a slot never
  written from an early one, so a packet lost before the first lap is over may be
  played as zeros. With a small `RestartGap` a peer that restarts before the buffer has
  drained mixes its packets with those of its former stream. A stream that begins at
  the end of a lap (`FirstNumbers`) may be played out of order at once: before the first
  packet was played, `pullPacket` takes slot 0, which is being written, for an older
  packet than the one before the end, and meets it half copied.
* `RingBuffer`: `mReadsNew` and `mUnderrunsNew` are not initialised (`RingBuffer.h:182-183`),
  so the first insert books what they happen to hold, and the statistics count reads and
  underruns that never were. `BooksBalance` speaks of what each step adds.
* `RegulatorWorker::updateQueueTarget` returns only when the target exceeds `maxPackets`
  (`Regulator.h:418`), so the target ends one above it; not in a model.
* `JitterBuffer`, `AtWrap`: the buffer's size does not divide 2^32, so at the wrap of
  the positions one packet and one slot are misplaced. Packets longer than
  `mOverflowDropStep` let the latency grow beyond `mMaxLatency`.
* `AudioSocket`, `raced`: a callback between line 409 and the end of the reset plays old
  samples again. A packet of exactly `AudioSocketMaxSamplesPerBlock` samples fills the
  ring, which then looks empty (line 225). An accepted socket that is lost before its
  first callback makes the worker dial its own process's server (392). The queues are
  not cleared between connections.

WebTransport:

* A client that closes before its CONNECT request gives no signal, and its slot stays
  taken (`WebTransportSession.cpp:726-732`); `EndedSessionIsReleased` speaks of the
  others.
* `hub.at = "crashed"`: two signals of the session's end before the first removal is
  handled release the slot twice, and the second finds a null worker
  (`UdpHubListener.cpp:859`).
* With `WaitMayExpire` the destructor frees a buffer that msquic still holds after one
  second (`WebTransportDataProtocol.cpp:128-134`). The exit packet's buffer is not
  released when sending it fails.
* Not in the model: `setDatagramCallback` replaces a `std::function` without a lock
  while msquic's thread may call it; `processReceivedPacket` drops packets with a gap
  below 0 or above 1000 and never resynchronises; a connection for which the hub has no
  slot is left without a session.

## 7. What is not modelled, and what is left

Not modelled: signal processing and its generated Faust code (`*dsp.h`, about a third
of the repository's lines), sample conversion and device selection, the classic and
the Virtual Studio front ends and the host plugins (about as much again), parsing of
HTTP/3, JSON and OSC, TLS and password hashing, statistics and latency measurement.
They keep no state that the components above depend on, or are calls to libraries.
That is why the map covers only a small share of the repository's lines: the control
that can go wrong is in the few thousand lines of sessions, protocols, buffers and hub.

Left for later, in this order:

1. `RegulatorWorker`'s queue and target, composed with `Regulator` and `BoundedFifo`.
2. The WebRTC data protocol's takeover of the channel's callbacks.
3. Proofs: `PlayedInOrder` of `Regulator` under the bounds on tolerance and jitter that
   the run has, and `TypeOK` of `UdpRedundancy` and
   `WebTransport` as theorems of their own.
