# A TLA+ model of the webcam RTSP server

The program (`src/src`, `src/includes`) streams one V4L2 webcam, encoded with
x264, over RTSP. It is built on the live555 libraries vendored in
`src/libraries/live`; `src/libraries/x264` is the vendored encoder. Everything
runs in one thread, in live555's event loop.

Paths below are relative to the repository; `OD` is
`src/libraries/live/liveMedia/OnDemandServerMediaSubsession.cpp`, `RS` is
`src/libraries/live/liveMedia/RTSPServer.cpp`.

Contents: 1 inventory, 2 plan, 3 modules and how they correspond to the code,
4 runs, bounds and fairness, 5 proofs, 6 findings, 7 what is not modelled.

## 1. Inventory

| Component | State it keeps | Operations | What is hard about it |
|---|---|---|---|
| `x264Encoder`, set-up and teardown (`src/src/x264Encoder.cpp`) | descriptor, `buffers` (a **global** pointer), `mmap_buffer_cnt`, NAL buffers | `initilize`, `open_device`, `init_device`, `init_mmap`, `start_capturing`, `stop_capturing`, `uninit_device`, `close_device`, `unInitilize` | each can fail half-way; two encoders share one pointer and one camera |
| `LiveSourceWithx264`, life (`src/src/LiveSourceWithx264.cpp`) | static `referenceCount`, static `eventTriggerId` | `createNew`, `Livex264Setup`, `recursiveClean`, destructor | `recursiveClean` falls through its cases; every destructor deletes the shared trigger |
| `x264Encoder`, capture loop | V4L2 queue, `outputQueue` of pointers into the NAL buffers | `mainloop`, `read_frame`, `yuyv`, `getNalUnit` | pointers into buffers that every frame overwrites; time-outs, transient and permanent errors |
| `LiveSourceWithx264`, delivery | `nalQueue`, `currentTime`, `fIsCurrentlyAwaitingData` | `doGetNextFrame`, `encodeNewFrame`, `deliverFrame` | two queues over shared buffers; the empty queue |
| `H264LiveServerMediaSession` (`src/src/H264LiveServerMediaSession.cpp`) | `fAuxSDPLine`, `fDoneFlag`, `fDummyRTPSink` | `createNewStreamSource`, `getAuxSDPLine`, `checkForAuxSDPLine1` | runs the event loop *inside* a DESCRIBE |
| `OnDemandServerMediaSubsession`, `StreamState` | `fLastStreamToken`, `fSDPLines`, `fDestinationsHashTable`; reference count, sink, source, `fAreCurrentlyPlaying` | `sdpLines`, `getStreamParameters`, `startStream`, `pauseStream`, `deleteStream`, `reclaim` | a hand-written reference count shared by all clients |
| `RTSPServer`, client sessions | `fStreamStates`, `tcpSocketNum`, `fTCPStreamingDatabase` | SETUP, PLAY, PAUSE, TEARDOWN, GET/SET_PARAMETER | second SETUPs; the end of a session by request, time-out or lost connection, in any order |
| `RTSPServer`, client connections | request buffer, `fLastCRLF`, `fCurrentCSeq`, `fRecursionCount`, sockets | `incomingRequestHandler`, `handleAlternativeRequestByte`, `handleRequestBytes`, DESCRIBE | requests split and joined by TCP; the socket changes hands; re-entered from the nested event loop |
| `GenericMediaServer` | tables of connections, sessions, media; liveness tasks | add, remove, `livenessTimeoutTask` | deletion while in use |
| `BasicTaskScheduler` | list of handlers, `fReadSet`, `fMaxNumSockets`, bitmap of event triggers | `SingleStep`, `setBackgroundHandling`, `moveSocketHandling`, `createEventTrigger`, `deleteEventTrigger`, `triggerEvent` | fairness of two rotations, re-used descriptors, nesting, external threads |
| `DelayQueue` | delta list, `fLastSyncTime` | `addEntry`, `removeEntry`, `synchronize`, `timeToNextAlarm`, `handleAlarm` | a clock that goes back, equal deadlines, removals in the middle |
| Framer, `H264or5Fragmenter`, `MultiFramedRTPSink` | input buffer and offset, marker, sequence number | `doGetNextFrame`, `afterGettingFrame1`, `sendPacketIfNecessary` | fragments at the boundaries, headers written over data |
| `MultiFramedRTPSource`, `ReorderingPacketBuffer`, `H264VideoRTPSource` (a client's side) | list of packets, expected number, frame being put together | `storePacket`, `getNextCompletedPacket`, `doGetNextFrame1` | loss, repetition, another order, wrapping numbers |
| `RTPInterface`, `SocketDescriptor`, RTCP | `fTCPReadingState`, registered interfaces, `fNextTCPReadSize`, `fInBuf` | `tcpReadHandler1`, `handleRead`, `incomingReportHandler1`, `sendDataOverTCP` | packets in pieces; an interface that all clients share |
| groupsock | sockets, destinations | `changePort`, `output` | a socket's number changes |

**How they interact.** `webcam.cpp` makes one `RTSPServer` with one media
session of one `H264LiveServerMediaSession`, made with `fReuseFirstSource`. A
DESCRIBE asks the subsession for its SDP lines. The first time, this makes a
source (opening the camera), a framer and a sink, starts the sink and runs a
nested event loop until the framer has seen an SPS and a PPS. The first SETUP
makes a source again, within a `StreamState` that all later SETUPs share; PLAY
adds the client to the receivers and starts the sink; the end of the last
session deletes the state and closes the camera. While the sink plays, it asks
the source for one NAL at a time; the source answers from its queue, or first
captures and encodes a frame, blocking the only thread in `select`.

**What makes the components correct.**

* Set-up and teardown: a path that ends a source gives back the camera and everything
  else (those that do not are named in sections 4 and 6); no cleaning step touches what
  was not acquired; a new or failing source leaves the one in use alone.
* Capture and delivery: NALs arrive in order and completely, with their own bytes
  and time; queues are bounded; a request is answered.
* Sharing: a stream lives exactly as long as a session uses it; a stream is sent
  to nobody who did not ask for it or has left; one client cannot stop another; a DESCRIBE ends; a
  client whose PLAY was answered gets video; the transport is the one promised.
* Event loop: every ready socket, set trigger and due task gets its turn; tables
  that describe the same sockets agree; a task is neither early nor late
  whatever the clock does.
* RTP: packets carry every NAL unit within their size, the marker is where an
  access unit ends, and a client gets whole units in order, whatever the network
  does to packets.
* Connections: requests are handled once and in order, and packets are put together
  whole, however TCP cuts the stream up; a socket has one reader; reading stays
  within the buffer; the end of a connection is noticed where its socket is read.

## 2. Plan

The order is that of importance for this program: what its own code does to the
camera and its buffers, how clients share the result, the event loop that
everything relies on, and the way of a NAL unit to the network.

| # | Module | What it is | State |
|---|---|---|---|
| 1 | `WebcamCapture` | life of sources and encoders | checked, proved |
| 2 | `NalPipeline` | from camera buffers to the sink | checked, safety proved |
| 3 | `LiveSubsession` | clients and the shared stream | checked, safety proved |
| 4 | `SharedCamera` | abstract specification; `LiveSubsession` implements it | checked, proved |
| 5 | `DelayQueue` | the delta list of delayed tasks | checked, safety proved |
| 6 | `Timers` | abstract specification; `DelayQueue` implements it | checked, proved |
| 7 | `TaskScheduler` | event loop: sockets, triggers, nesting | checked, safety proved |
| 8 | `Packetizer` | fragmentation and packets | checked, proved |
| 9 | `Depacketizer` | composes 8 with a lossy network and a client | checked, proved |
| 10 | `RtspConnection` | what a client sends: requests and packets over one socket | checked, safety proved |

`ListLemmas` holds facts about sequences and least elements that the proofs about 5,
7, 8 and 9 share. What was considered and left out, and why, is section 7.

## 3. The modules

Names of variables and actions are those of the code where TLA+ allows it;
`PROJECT.json` "map" has the lines of each definition.

### WebcamCapture

The life of the source objects (`LiveSourceWithx264`), each at most once, and of
the encoder each one owns. `pc[s]` is the set-up stage or the
`clean_state_t` case that object `s` is in; one thread means that an object starts
only when no other one is inside a set-up or destructor (`Idle`). One action
per encoder operation, with an outcome for each point of failure: `Initilize` can
fail at either malloc of any NAL, `InitMmap` at REQBUFS, the buffer count, calloc
or any buffer, `StartCapturing` at any QBUF or at STREAMON, `UninitDevice` at
any munmap. `buffers` is global as in the code: `UninitDevice(s)` works on the array
of whoever set it last.

External, modelled from the code's use: V4L2's rule that REQBUFS makes an open
file the owner of the queue and is refused to other files for as long as that file exists
(`RequestBuffers`, `ReleaseCamera`). A mapping of a buffer refers to the open file as its
descriptor does, so `CloseDevice` gives back the camera only if nothing is mapped any
more. What survives its source is mapped until the process ends.

`LiveSourceWithx264` objects whose set-up failed are never deleted
(`createNewStreamSource` only drops the pointer), so `failed` is a final state.

### NalPipeline

One source from a successful `start_capturing` on. Queue entries are *indices of
NAL buffers*, as the code's are pointers into `nal_references`; `nal[i]` is the
frame whose bytes buffer `i` holds, so what an entry denotes can change while it
waits. Pixel data are abstracted to the frame's number, which is also the clock.
`pushed` and `delivered` are histories; `unproductive` remembers that a
`mainloop` came back without a NAL.

`Capture` and `Unplug` are the camera. `SelectReady`, `SelectGivesUp`,
`ReadFrame` and `ReadFrameFails` are `mainloop`; `SetupReturns` is the end of
the `mainloop` that set-up runs; `GetNextFrame`, `EncodeNewFrame`, `DeliverFrame`
and `DeliverFromEmptyQueue` are the source. The last one is undefined behaviour in
the code (`front()` and `pop()` of an empty `std::queue`), modelled as a choice
between the assertion's failure and a queue that is useless from then on.

Start-up: the access unit that set-up encodes stays in the encoder's queue, and
the first request's frame is encoded over its buffers. The first access unit
therefore carries the second one's bytes, and the first two are the same frame.
The properties except the first `MAX_NAL_COUNT` deliveries from the claim about
bytes for this reason.

### LiveSubsession

All clients and the shared stream. A client stands for its session and the
connection it uses. `subsession` is one record (the `StreamState` objects,
`fLastStreamToken`, who has the camera), so that the operations of
`OnDemandServerMediaSubsession` are functions of it, composed by handlers as the
code composes calls: a second SETUP is `GetStreamParameters` after
`DeleteStream`. Handlers are single actions, since one thread runs them;
DESCRIBE is two (`Describe` up to the nested event loop, `CheckForAuxSDPLine` from
its end), and everything else can happen in between. A SETUP that carries a `Range`
header or `x-playNow` is `Setup` followed by `Play`.

`NewSourceOutcomes` is what the two lower modules show of a set-up: while
another source has the camera, it fails (REQBUFS is refused; `WebcamCapture`);
otherwise it succeeds, or may fail if `CameraMayFail`. That includes the camera which a
failed source's mappings keep busy for ever (finding 1).

`CanRequest` expresses that a connection closed during its own DESCRIBE sends no
more requests (`fRecursionCount`, RS:614-622, 898-902).

`Teardown` is also the liveness time-out: nothing in the model says when it
comes, so it can come at any time.

Who is sent to over TCP depends on a connection as well. `tcpSocketNum` and
`destinations` say whether the connection is still there. `SendFails` is a send over TCP
that fails or times out (`RTPInterface.cpp:369-388`): the sink forgets the client, its
session goes on, and a PLAY adds it again. A session that the database has for a
connection ends with it (`StopTCPStreaming`); one that the database does not have, because its
second SETUP asked for UDP, goes on with a destination that is "closed"
(`LosesConnection`), and the sink forgets it now (`~SocketDescriptor`, 403-417) or at its
next send. That `~SocketDescriptor` finds a channel of the sink only if RTCP's has not taken
its place in the table is why this is a choice.

### SharedCamera

What the server promises about its camera, without streams, tokens, counts or
connections: sessions begin and end, a session that is alone gets the camera or
finds it taken by a DESCRIBE, nobody's coming takes it away, and it is free when
the last session has ended. A client's video stops only with its own session or with its own
connection (`Lose`). `LiveSubsession!Shared` maps the sessions with a token to
`users`, all receivers to `viewers` and the holder of the camera to `camera`. A
second SETUP is one `Begin`: `CameraWith` is who may have the camera after what the
client had before has ended. That a `Begin` may leave the camera with nobody,
although no DESCRIBE has it, is a set-up that fails, or the stream without a
source of finding 4.

### DelayQueue and Timers

The delta list of `scheduleDelayedTask`. The list's end is the queue object itself,
an entry due at `ETERNITY`, as in the code. The loops of `synchronize` (`EntryIsUp`,
`SynchronizeReturns`) and `addEntry` (`PassEntry`, `InsertEntry`) are one step per
entry, and the clock can tick or be set back between any two of them.
`HandleTimeout` removes the entry before its handler runs; what a handler
does to the queue, it does from the idle state like everybody else.

`time` (how much the queue has taken off), `due` and `promised` are history: `due` is
when a task is due on the scale of `time`, `promised` is the reading of the clock it was
scheduled for and how far the clock had been set back by then. `NeverEarly`
and `NeverLate` relate these two scales, which a step back of the clock moves apart.

`Timers` is the abstract specification: a set of due times, each task handled once,
not before it is due and not before another that was due earlier.
Tasks of equal time may be handled in any order there; that they take turns is
`PromisesAreKept`.

Assumptions on constants: no task is scheduled as far off as `ETERNITY` (68
years), and the clock does not run that long. In the code, `addEntry` with a
larger delay would run round the circle.
A clock set *forward* cannot be told from time that passes, so `Tick` covers it.

### TaskScheduler

`frames` is the stack of `SingleStep`s under way: a DESCRIBE's handler pushes
another one (`HandleDescribe`), and `LeaveEventLoop` ends it. `SelectSocket` is
the search over `fHandlers` in the order of the list, from behind
`fLastHandledSocketNum` on; `InTurn` is that order. `Selected` is
what `select` answers: ready sockets in the set given to it and below
`fMaxNumSockets`. Which handler runs depends on what the descriptor is open for:
`HandleServerSocket` accepts, `HandleRequest` ends the connection or opens, closes or
moves (`ChangePort`) a stream's RTCP socket, or uses event triggers. Readable,
writable and exceptional conditions are merged into one `ready`, since the server's
handlers are all registered to be called for reading. `HandleAlarm` is the delayed
task (`DelayQueue` says which one), which may time a stream out or use triggers.

Triggers are numbers rather than bits. `&=` in the loop and `|=` in an external thread
are a load and a store (`SelectTrigger`/`ClearTrigger`, `ThreadLoads`/`ThreadStores`);
in `Spec` there are no threads, as in this program, and in `ThreadedSpec` there
are. `signalled` is history: what was set and neither handled nor deleted since.

### Packetizer

Framer, fragmenter and sink, byte for byte. `fInputBuffer` is the fragmenter's
buffer with the byte 0 that the code keeps free for a header; `DeliverWhole`,
`DeliverFirst` and `DeliverNext` are the three cases of its `doGetNextFrame`, which
overwrite bytes already sent with the two header bytes. `Send` is what the
sink does with each result (H.264 allows one per packet, so every call ends in a
packet). `sink` tells whether its delayed task or the source's answer is awaited:
the real source answers in the same call, a slower one later.
`read`, `frames` and `part` are history: `frames` and `part` are what somebody gets who
unpacks every packet in order.

`PacketizerAssumption`: NAL units have types 1 to 23, since others are the
payload format's own; packets hold at least four bytes. With fewer, the headers of
the second fragment would overwrite those of the first.

### Depacketizer

A live555 client of those packets. `NetworkReadHandler` takes any packet that was
ever sent: packets are lost (never taken), repeated and reordered. `StorePacket`
is the `ReorderingPacketBuffer`; `UseExpected`, `GiveUp` and `Break` are the rounds of
`doGetNextFrame1`'s loop: the packet expected, one that is not and has waited
longer than the threshold, and one that goes on waiting. No clock is needed, as the
threshold can have passed or not. `place` and `skipped` are history: where in the
sender's order the packet expected is, and that the client joined late or gave packets
up, so that it may miss units.

`DepacketizerAssumption`: packets that come are at most `MaxDistance` places from the
one expected, which is less than half of the numbers (32768 packets in the code). The
client cannot tell a packet from further away from one on the other side, and neither
the code nor RTP does anything about it. `MaxPackets` is not bounded by it, so numbers
are used again and again.

### RtspConnection

What a client sends over its connection, byte by byte, and who reads it.
`socketHandler` says whose handler the event loop calls: `RTSPClientConnection`'s
(`ReadRequestBytes`: any number of the bytes that are there), from PLAY over TCP on the
`SocketDescriptor`'s (one action per case of `tcpReadHandler1`), or nobody's.
`TooBig`, `NeedMore` and `HandleRequest` are the three outcomes of one round of
`handleRequestBytes`; between rounds (`running`) nobody else runs.
`LineEnds` and `EmptyLineEnds` are its scan, which goes on at `fLastCRLF`; positions
count from 1, so `&fRequestBuffer[-3]` is -2. The `fRequestBytesAlreadySeen` bytes are
the contents of `fRequestBuffer`.

`StartPlaying`, `EndPlaying`, `SendFails` and `CloseConnection` hand the socket
over. `EndPlaying` clears the byte handler first, so that `ReaderAfter` is nobody.
`StuckInReport` is a descriptor whose client left in the middle of a report: the
interface has given up the socket, and the descriptor waits for the rest.
A read error deletes the connection, which ends the streams over it.
`RtspConnection` has of the sessions only that; the streams are in `LiveSubsession`.

`fNextTCPReadSize`, `fNextTCPReadStreamSocketNum` and `fInBuf` have no index for the client:
with `fReuseFirstSource` there is one sink and one `RTCPInstance` for all.

A request is a command's letter, line ends, perhaps a digit for its Content-Length and a
body. `MessageSizes` says what RFC 2326 calls a message, without reference to the
scan; the properties compare the two. `ConnectionAssumption`: requests do not contain
the bytes that mean something between packets (`$`, 0xFE, 0xFF) and packets
fit `fInBuf`. Clients behave: they play over TCP, on channels 0 and 1, send packets
while they play and wait for the answer to a session's request before the next.
`asked`, `packets`, `handled`, `reports` and `failed` are history.

## 4. Runs, bounds and fairness

| Run | Instance | Result |
|---|---|---|
| `capture_lifecycle` | 3 objects, 2 NAL buffers, REQBUFS grants 1, 2 or 3 buffers, symmetric objects | holds |
| `failed_mmap` | 1 object | `FailedMmapLeavesNothingMapped` violated |
| `nal_pipeline` | 3 NALs a frame, 2 capture buffers, 4 frames | holds |
| `empty_queue` | 2 NALs, 2 buffers, 2 frames | `PayloadAssertion` violated |
| `dead_camera` | 2 NALs, 2 buffers, 2 frames | `OnlyTransientErrorsRetry` violated |
| `live_subsession` | 3 clients, 2 streams, camera may fail | holds, implements `SharedCamera` |
| `dead_stream` | 3 clients, 2 streams, camera never fails | `PlayingClientsAreFed` violated |
| `transport` | 3 clients, 2 streams | `TransportAsAnswered` violated |
| `delay_queue` | 3 tasks, delays 0 and 2, 3 ticks, set back by 1 | holds, implements `Timers` |
| `task_scheduler` | 3 descriptors, 2 triggers, 3 creations, 1 loop in another | holds |
| `rtp_stream` | packets of 4 bytes, buffer of 7, 5 units, 6 packets, numbers modulo 5 from 3, packets at most 2 from the one expected | holds |
| `rtsp_connection` | 1 client, 4 messages out of 4 requests and 3 packets, buffer of 10 bytes, packets up to 3 | holds |

**capture_lifecycle** shows that each cleaning step finds what it releases, that a
ready source keeps camera, buffers and trigger whatever other sources do, and that
each exit gives back the camera and everything else, with exceptions. A failure
inside `init_mmap` gives back neither the earlier mappings and their array nor, for as long as
one of them exists, the camera; a munmap that fails leaves the buffers behind it mapped and
keeps the camera busy in the same way. Two
objects live at once are the most the server makes (a DESCRIBE's and a
stream's); the third meets what a failed and a destroyed one left behind. One
buffer is refused, two and three are the least that distinguish "some" from "all".

**nal_pipeline** shows order, bounds, bytes and times of deliveries, that the
empty queue is only reached after a capture without a result, and that
requests are answered. `MaxFrames` bounds the camera's counter: four frames are
set-up's, the one that overwrites it, and two in the steady state. Three NALs
distinguish an access unit from its reverse and from its neighbour. With two
capture buffers, frames get lost and buffers do too (a failed QBUF).

**live_subsession** shows that references, `fLastStreamToken`, the camera,
receivers and the TCP database agree, that no client stops another, and that a
DESCRIBE ends. Receivers are players always, and players are receivers if they are reached
over UDP: over TCP a failed send or the connection's end takes a client from the receivers
while its session goes on. The database has only sessions that stream over their
connection, and all of them but those moved to UDP by a second SETUP (finding 5).
Three clients are one that leaves, one that stays and one that comes; the second `StreamState` would show a second stream made while the first one is
used. The proofs lift these bounds for the safety properties. `SharedCameraSpec` says
that all of it amounts to one camera shared by those who use it.

**delay_queue** shows that the deltas add up, that tasks are neither early nor
late under a clock that is set back, that the list implements a set of timers,
and that a due task is handled however often others are scheduled with delay
zero. Three tasks give a list with a middle; with delays 0 and 2 deadlines can be
equal, different or past. The clock's bounds are not those of the
proofs.

**task_scheduler** shows that the tables of sockets agree, that no re-used trigger
inherits anything, and that each ready socket and each set trigger gets its turn,
at any depth. Three descriptors are the server's, a connection and a stream, each
number re-used for the other kinds; `MaxCreated` bounds how often triggers are
created (three creations re-use a slot of two).

**rtp_stream** shows that the packets carry the units and fit, that the marker is
right, and that the client's buffer stays in order and gives whole units only. The units are an
empty one, one of a single packet, one that fills a packet exactly, one of two
fragments, and one of three that is cut off at the buffer's end. Numbers wrap
behind the second packet, and the sixth has the number of the first. `MaxDistance` is
the largest for five numbers: RTP's numbers mean something only if packets are early or
late by less than half of their range (32768 packets in the code).

**rtsp_connection** shows that requests are handled once and in order, and
reports put together, wherever reads cut the stream: in the ends of lines, in
the middle of a frame's header, at the moment when the socket changes hands. It also
shows that what is sent is read and that the end of the connection is noticed, except
where nobody reads the socket (section 6) or the client left in the middle of a report.
Four messages are SETUP, PLAY,
and two of packets, TEARDOWN and OPTIONS. The last has a body that looks like the
end of a request; the buffer holds it and a part of the next one, so that
requests meet the end of the buffer as well. PLAY begins with a blank line. A packet
contains a `$` and a line feed, another one is empty, and a third goes to the sink,
which does not read. There is one client: what two do to the interface that they
share is in section 6.

Type invariants are proved for every module that has one (section 5), so the runs leave them out.

Deadlock is checked in `live_subsession`, `dead_stream`, `transport`, `delay_queue`
and `task_scheduler`. The other passing runs switch it off: their systems end (each
object is used up; an aborted process; no more frames, packets or messages within the
bound, or all connections closed).

**Fairness.** `NalPipeline!FairSpec`: `WF(Thread)`, because the one thread goes on
with the call it is in; `SF(ReadFrame)`, because the errors that VIDIOC_DQBUF gives on
a camera that is there (EAGAIN, EIO) are transient, and `mainloop` tries again each
time. It says nothing of a camera that is gone, for which `RequestsAreAnswered`
makes no promise, nor of `GetNextFrame`: a client need not ask. Frames need not
come, as `SelectGivesUp` is the time-out. `LiveSubsession!FairSpec`:
`WF(CheckForAuxSDPLine)`, because `checkForAuxSDPLine1` schedules itself again
after 100 ms until it is done; `WF(NextNal)`, because the nested loop serves the
sink, and the source answers: this is `RequestsAreAnswered`, so `DescribeEnds` is for a
camera that is neither gone nor silent. `DelayQueue!FairSpec`: `WF` of the loops and of
the handler's call, because one thread runs them to their end; `SF(HandleAlarm)`,
because every `SingleStep` ends with it whatever handlers did to the queue before.
`TaskScheduler!FairSpec`: `WF(LoopStep)`, because `select` never sleeps longer than
until the next alarm and the scheduler keeps one scheduled
(`maxSchedulerGranularity`, `BasicTaskScheduler.cpp:35-60`), and because handlers return;
the one that waits, a DESCRIBE's, is a loop that itself turns. Nothing says
that the inner loop ends. `ThreadedSpec` adds that a thread which has loaded the
bitmap also stores it. `rtp_stream` needs no fairness: packets may always be lost.
`RtspConnection!FairSpec`: `WF(ReadSocket)`, because the event loop serves each ready
socket (`ReadySocketsAreServed`) and one with data, or at its end, is ready;
`WF(HandleRequestBytes)`, because the one thread runs a handler to its end. There is
none of `SessionTimesOut` and `SendFails`: `DisconnectIsNoticed` is about what reading the
socket notices.

**Mutants.** Operators commented `Defect:` are plausible bugs (a dropped guard, a
cleaning step skipped, a reference not taken). Each checked property is paired with
one in `PROJECT.json`, and fails when the mapped definition is replaced by it.

## 5. Proofs

Invariants, action properties and two refinements are proved with TLAPS, for any
values of the constants that satisfy the modules' assumptions: `CaptureAssumption`
(finitely many sources, at least one NAL buffer), `PipelineAssumption` (at least
one NAL and one capture buffer), `SubsessionAssumption` (finitely many clients;
`NULL` and `Dummy` are no streams), `DelayQueueAssumption` (nothing is as far off as
`ETERNITY`), `TaskSchedulerAssumption` (at least one descriptor and one trigger),
`PacketizerAssumption` and `DepacketizerAssumption` (see `Packetizer` and
`Depacketizer` above) and `ConnectionAssumption` (see `RtspConnection`).

**WebcamCaptureProofs.** `IInv` ties each resource to the stages in which it is held:
`FileInv` (descriptor, ownership), `ArrayInv` (array, mappings, `buffers`), `NalInv`
and `FailureInv`. That `UninitDevice` works on its own array is not inductive by itself:
it follows because whoever got past REQBUFS owns the camera, and no other encoder
can change `buffers` while it does. `OneAtATime` and `CountInv` (the static
`referenceCount` is the number of live objects) complete it. Theorems:
`CaptureInvariant`, `CaptureTypeOK`, `CleanupSafe`, `ReadyCanCapture`,
`TriggerKept`, `CameraReleased`, `FinishedHoldsNothing`, `ArrayKept`.

**NalPipelineProofs.** `FifoInv`: what was pushed is what was delivered, then the
source's queue, then the encoder's. `UnitInv`: pushes are whole access units.
`PhaseInv`: how many entries are where at each stage, from which it follows that a
frame is encoded only over buffers none of whose entries are queued, the
start-up excepted. `BytesInv`, `FrameInv`, `ClockInv` and `FreshInv` carry bytes
and times. Theorems: `PipelineInvariant`, `PipelineTypeOK`, `DeliveryOrder`,
`QueuesBounded`, `BytesKept`, `TimesFollow`, `EmptyQueueOnlyAfterFailure`.

**LiveSubsessionProofs.** `SharingInv(s, token, pl)` relates a subsession's state to
the sessions' tokens and the clients that play: reference counts are numbers of
users, `fLastStreamToken` is the one stream in use, sources match the camera, receivers
are users that play, unused objects are empty. `UdpReached` adds that who plays over UDP is
among them. `SharingInv` is a formula of its
parameters because a handler composes operations: one lemma for each of
`DeleteStream`, `EndPlaying`, `GetStreamParameters` and `StartPlaying` says that it takes
`SharingInv` to `SharingInv` and what it does to the receivers, and the handlers chain
them. For `OthersAreNotStopped`, the same four are shown to go on serving everybody else;
the crucial case is `DeleteStreamServesOthers`, where the count of references
shows that the last one is not dropped while another session uses the stream.
Theorems: `SubsessionInvariant`, `SubsessionTypeOK`, `ReferencesCounted`,
`OneStreamShared`, `CameraUsedByOne`, `ReceiversPlay`, `DatabaseIsExact`,
`OthersAreNotStopped`, `CameraIsShared`. The last is the refinement: with `SharingInv`,
`DeleteStream` gives the camera back exactly when its client was the only user
(`DeleteStreamCamera`), `GetStreamParameters` leaves it to who has it or, for the
first user, takes it (`GetStreamParametersCamera`); so `Setup` is `Begin`, the
ends of sessions are `End`, a send that fails and the end of a connection whose session
goes on are `Lose`, and the end of a DESCRIBE whose client has left
meanwhile is `EndDescribe` with that client (`StepIsShared`).

**DelayQueueProofs.** Why the list works under such a clock: `DeltasAddUp` is
inductive if it is counted on the scale of `time`, which the loop of `synchronize`
moves forward by each delta that it takes off, so it holds in the middle of the
loop too. `AddingInv`: what `addEntry`'s loop has left of the new delay counts
from the entry passed last. `ClockInv`: what was taken off and is to be taken off is
never more than the clock's reading plus what it was set back by, hence below
`ETERNITY`, hence no loop comes round the circle, and no index leaves the list.
`EarlyInv` carries both scales. Theorems: `QueueInvariant`, `TypeCorrect`,
`DeltaListCorrect`, `NoTaskIsEarly`, `NoTaskIsLate`, and the refinement
`QueueIsTimers`: only the calls, `HandleTimeout` and the two steps that move `time` are
visible in `Timers`, and `QueueOK` shows that the head is due first.

**TaskSchedulerProofs.** Handlers do three things to the tables of sockets: open,
close and move; one lemma for each says that `HandlersAgree` is kept. The
descriptor that `accept`, `socket` and `changePort` get is the least free one, from
which follows that it has no handler yet (`LowestFreeIsFree`). `TriggerInv`, the bitmap is what was
signalled, needs `ControlInv`: what the loop is about to store is what is there
less the trigger in hand. Theorems: `SchedulerInvariant`, `TypeCorrect`,
`HandlersAlwaysAgree`, `NoTriggerIsStale`, `TriggersSurviveInOneThread`. The last says
that the violation in `MCExternalTrigger.cfg` is due to the threads alone.

**PacketizerProofs.** `InHand`: between two fragments the buffer holds, from the
offset on, the unit's own bytes (`HoldsRest`), its first two places hold the first
fragment's headers, and who unpacked the packets has the bytes below the
offset. `FirstFragment` and `NextFragment` show that a fragment carries the next bytes,
whose headers are written below the offset only, and that the offset moves by as many.
The client: each stored packet is one of those sent (`Located`), and as all of them are
within half of the numbers of the one expected, their numbers order them as their
places do (`NumbersTell`); so `Inserted` puts a packet where it belongs, and a packet with
an old number is an old packet. `PacketHistory` is what somebody has who unpacked the first
packets in order, and `InStep` that the client has the same part of a frame as long as it knows
of no loss: `UseExpectedKeeps` and `GiveUpKeeps` show that it knows of one after each
gap and forgets it only where a frame begins.
Theorems: `StreamInvariant`, `TypeCorrect` (of sink and client: no
index leaves the buffer), `PacketsAreCarriers`, `PacketsAlwaysFit`, `MarkerIsRight`,
`QueueOrdered`, `FramesWhole`.

**RtspConnectionProofs.** `ScanInv` is why the incremental scan misses nothing:
`fLastCRLF` is a line end of the buffer (or in front of it), no empty line ends before the
place where the scan goes on, and if one is known, the body behind it is still
incomplete. `ScanFindsEmptyLines`: what the scan finds then is the first empty
line of the whole buffer. `MoreBytes` and `RestOfRequest` carry this over a read and over
the move of what follows a request to the front, `NeedMoreWaits` shows that a round
which asks for more has no complete request. `RunInv` says that only an open
connection is in `handleRequestBytes`; with it `BufferHasRoom` and
`OneReader` are inductive, the latter because each path that takes an interface from the
descriptor also sets the handler (`CommandIsOK`, `EndedIsOK`). They hold for any number of
clients that share the interfaces.

What becomes of the bytes is the harder part. `Placed` says where all that a client has
sent is: there is a stream `S`, in which each request and each packet has its place, and a
position `got` in it; in front of `got` are the handled requests, the request buffer
and what the descriptor and RTCPInstance have of the packet that is being read,
behind it is the wire. One lemma per operation (a read into the buffer, a request found
and removed, each state of the descriptor, a read of RTCPInstance) says that it carries
`Placed` over. `StreamInv` claims `Placed` for each client whose connection has not failed and
who sends no packets while another does (`Sole`), as `readRTPOverTCP` puts the reports of all who
share one into one buffer; a client that nobody reads any more keeps only what its
histories say. `QuietInv` is what makes that enough: a client without packets never takes
part in the interface, and one who reads from it is registered. `OwnStream` is then
the step of the client itself, `OthersStream` that of another. Theorems:
`ConnectionInvariant`, `TypeCorrect`, `RoomIsLeft`, `ReadersExclude`, `RequestsSeen`,
`StreamInvariant`, `RequestsHandledInOrder`, `ReportsProcessed`.

**Model-checked only.** The liveness properties `RequestsAreAnswered`,
`DescribeEnds`, `PromisesAreKept`, `ReadySocketsAreServed`, `TriggersAreServed`,
`BytesAreRead` and `DisconnectIsNoticed`: liveness under fairness is beyond the prover.
Induction over data and recursive operators would be beyond the prover as
well; the modules use neither.

## 6. Findings

Each is a run whose property is quoted from the repository and which TLC finds
violated; `PROJECT.json` has the details.

1. `failed_mmap`: `LiveSourceWithx264.cpp:54` says that nothing is mapped after a
   failed `init_mmap`; earlier buffers stay mapped, their array allocated, and the camera
   busy although its descriptor is closed: no later set-up succeeds until the server ends.
2. `empty_queue`: after a capture without a result `deliverFrame` reads and pops an
   empty queue; its assertion (line 114) can fail.
3. `dead_camera`: `mainloop` retries every error, though its comments speak of
   transient ones; an unplugged camera keeps the only thread there.
4. `dead_stream`: a SETUP handled while another client's DESCRIBE has the camera
   makes a stream without a source, which all later clients share although the camera is
   free again.
5. `transport`: a second SETUP from TCP to UDP is answered with UDP and served over
   TCP, because `tcpSocketNum` is never reset. The database does not have the session any
   more, so that the end of the connection does not end it.

Four more configurations show what the properties of the passing runs leave out. They are
not among the runs of `PROJECT.json`; `tlc -config` with each of them ends in a violation.

* `MCDeafConnection.cfg` (`MCRtspConnection`), `OpenSocketsAreRead`: `RTPInterface.cpp:428-430`
  gives the socket back to the connection when the stream over it ends, but `endPlaying`
  (OD:585) has cleared the byte handler by then. After TEARDOWN or a time-out over TCP the
  connection stays open and nobody reads it, not even its end. The same becomes of a connection
  that breaks inside a report (`StuckInReport`): its end is not noticed there, the
  session times out, and the connection is never deleted. `DisconnectIsNoticed` excepts both.
* `MCStaleSocket.cfg` (`MCLiveSubsession`), `NoStreamOnClosedConnection`: RS:248 promises to
  close "any stream that is streaming over" the socket. SETUP over TCP, SETUP over UDP and the
  end of the connection leave a session whose destinations and `tcpSocketNum` are the number of a
  socket that is closed. `DatabaseHoldsTheTcpSessions` excepts such sessions.
* `MCSharedReports.cfg` (`MCRtspConnection`, two clients), `SharedReportsAreTheClients`:
  `RTPInterface.cpp:493` expects packets in pieces, but what has arrived of one is kept
  in the interface (555-557) and in `RTCPInstance`, which all clients over TCP share with
  `fReuseFirstSource`. A report can be put together from the pieces of two clients, and
  what is left of a packet is read as a request's bytes. `RequestsInOrder` and
  `ReportsAreTheClients` except clients that send packets while another does
  (`SharesInterface`).
* `MCExternalTrigger.cfg` (`MCTaskScheduler`, a thread for each trigger), `NoTriggerIsLost`:
  `UsageEnvironment.hh:156-158` offers `triggerEvent` to external threads; the word that
  holds all triggers is changed by unsynchronised `|=` and `&=`
  (`BasicTaskScheduler0.cpp:142`, `BasicTaskScheduler.cpp:183, 198`), and one can be lost.
  This program has one trigger and no such thread.

## 7. Not modelled

* Most of the repository's lines are two vendored libraries: `src/libraries/x264` (a
  numerical encoder with its assembly wrappers and tools) and the parts of
  `src/libraries/live` for other formats, file demuxers, proxies and test programs,
  which the server does not run. They are left out, so the share of all lines that
  the modules stand for stays small; the share of what the server does
  between the camera and a client's decoder is large.
* Client connections: requests handled by a nested call during a
  DESCRIBE and pointers into a dead frame (RS:738, 882, 898): `RtspConnection` has the bytes
  and `LiveSubsession` the nested handlers, and the two together are too large for TLC.
  Parsing beyond what `Command` and `ContentLength` keep of it, authentication, HTTP
  tunnelling with its Base64 and REGISTER are text and I/O.
* `RTPInterface`: partial writes, which end in success or in `SendFails`; packets larger than
  `fInBuf`, and requests that contain `$`. RTCP: statistics and report intervals, which
  nothing in the server depends on except that a report keeps a session alive. groupsock:
  socket options and addresses.
* What a PLAY with a closed destination leads to (`Play`, `MCStaleSocket.cfg`): the number may
  belong to another connection by then, which is sent the stream and whose reader is replaced; if
  it belongs to none, `select` fails on it and the scheduler aborts
  (`BasicTaskScheduler.cpp:92-125`). `LiveSubsession` has no socket numbers, and the sockets of
  `TaskScheduler` are handled only while they are open.
* A SETUP without a client port, which makes a stream without a sink; a subsession
  with several tracks; multicast: the server has one on-demand track.
* Real time: the ten seconds of `select`, the liveness interval, the sink's send
  times and the reordering threshold are not counted; a time-out can happen
  whenever its guard allows. That a packet behind a lost one waits until another arrives
  (`MultiFramedRTPSource.cpp:339`, no timer) is in `Break`.
* The sink's own splitting with overflow data (`MultiFramedRTPSink.cpp:280-306`): for
  H.264 the fragmenter's packets always fit (`PacketsFit`). Going on with a sink that was
  stopped in the middle of a unit: `pauseStream` returns early for this subsession
  (OD:233), and a stopped sink is deleted.
* At the client: aggregation packets, padding, header extensions, changing SSRCs,
  truncation to the client's buffer.
* In the event loop: a failing `select` (a closed descriptor in the set would end the
  program; `HandlersAgree` excludes it for sockets that are closed with their
  handlers), descriptors beyond `FD_SETSIZE`, `updateEntry` of
  the delay queue (no caller in the server).
* Pixel conversion, start codes, and how many units x264
  yields: data, or the vendored encoder's. `NalPipeline` takes the one access unit of
  `MAX_NAL_COUNT` units that the configured encoder yields.
