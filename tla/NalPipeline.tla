----------------------------- MODULE NalPipeline -----------------------------
(***************************************************************************)
(* From the camera's buffers to the RTP sink: x264Encoder's mainloop,      *)
(* read_frame and yuyv, LiveSourceWithx264's two ways of serving           *)
(* doGetNextFrame, and the request/answer contract of FramedSource.        *)
(*                                                                         *)
(* Both queues hold pointers into the encoder's MAX_NAL_COUNT NAL buffers, *)
(* which every encoded frame overwrites.  What a queue entry denotes is    *)
(* therefore the content of its buffer when the entry is taken, not when   *)
(* it was pushed.  A frame is the number the camera gave it; the clock     *)
(* counts the camera's frame periods.                                      *)
(***************************************************************************)
EXTENDS Integers, Sequences

CONSTANTS
  MAX_NAL_COUNT,   \* NAL units per frame, and NAL buffers per encoder
  MmapBuffers,     \* capture buffers queued when streaming starts
  MaxFrames        \* bound: frames the camera produces

ASSUME PipelineAssumption ==
  /\ MAX_NAL_COUNT \in Nat \ {0}
  /\ MmapBuffers \in Nat \ {0}
  /\ MaxFrames \in Nat

VARIABLES
  captured,        \* frames the camera has produced: also the time of day
  incoming,        \* empty buffers the driver has queued
  done,            \* filled buffers, oldest first, by their frame
  dead             \* the camera is gone (unplugged)

VARIABLES
  pc,              \* where the thread is, "idle" outside the source
  caller,          \* who called mainloop: "setup" or "client"
  errno,           \* why the last VIDIOC_DQBUF failed
  nal,             \* the frame whose bytes each NAL buffer holds, 0 for none
  outputQueue,     \* encoder's queue of NAL buffers
  nalQueue,        \* source's queue of NAL buffers
  currentTime,     \* source's time stamp
  awaiting         \* FramedSource::fIsCurrentlyAwaitingData

VARIABLES          \* history, for the properties
  pushed,          \* every queue entry ever pushed: its buffer and frame
  delivered,       \* every NAL delivered: its buffer, its bytes' frame, its time
  unproductive     \* some mainloop returned without a NAL

cameraVars  == <<captured, incoming, done, dead>>
encoderVars == <<nal, outputQueue, pushed>>
sourceVars  == <<nalQueue, currentTime, awaiting, delivered>>
vars == <<cameraVars, pc, caller, errno, encoderVars, sourceVars, unproductive>>

NalIndex == 1..MAX_NAL_COUNT

\* "aborted": the assertion of deliverFrame failed, or the pointer it is
\* about was no pointer.  "corrupted": a pop() of the empty queue went by
\* unnoticed; what the queue answers from then on is undefined.
Stages == {"select", "read_frame", "return", "deliver", "idle", "aborted", "corrupted"}

-----------------------------------------------------------------------------
(* The camera *)

\* A frame goes to an empty buffer, or is lost when there is none.
Capture ==
  /\ ~dead
  /\ captured < MaxFrames
  /\ captured' = captured + 1
  /\ \/ /\ incoming > 0
        /\ incoming' = incoming - 1
        /\ done' = Append(done, captured + 1)
     \/ /\ incoming = 0
        /\ UNCHANGED <<incoming, done>>
  /\ UNCHANGED <<dead, pc, caller, errno, encoderVars, sourceVars, unproductive>>

Unplug ==
  /\ ~dead
  /\ dead' = TRUE
  /\ UNCHANGED <<captured, incoming, done, pc, caller, errno, encoderVars,
                 sourceVars, unproductive>>

-----------------------------------------------------------------------------
(* x264Encoder *)

\* A descriptor with a frame is readable; so is one in error.  An
\* interrupted select is called again.
SelectReady ==
  /\ pc = "select"
  /\ done # <<>> \/ dead
  /\ pc' = "read_frame"
  /\ UNCHANGED <<cameraVars, caller, errno, encoderVars, sourceVars, unproductive>>

\* Ten seconds without a frame, or an error of select itself.
SelectGivesUp ==
  /\ pc = "select"
  /\ done = <<>> /\ ~dead
  /\ pc' = "return"
  /\ unproductive' = TRUE
  /\ UNCHANGED <<cameraVars, caller, errno, encoderVars, sourceVars>>

\* read_frame answers 0 whatever the error was, and mainloop selects again.
ReadFrameFails ==
  /\ pc = "read_frame"
  /\ errno' \in IF dead THEN {"ENODEV"} ELSE {"EAGAIN", "EIO"}
  /\ pc' = "select"
  /\ UNCHANGED <<cameraVars, caller, encoderVars, sourceVars, unproductive>>

\* Defect: the entries are pushed last NAL first.
YuyvReversed(frame) ==
  /\ nal' = [i \in NalIndex |-> frame]
  /\ outputQueue' = outputQueue \o [i \in NalIndex |-> MAX_NAL_COUNT + 1 - i]
  /\ pushed' = pushed \o [i \in NalIndex |-> [nal |-> MAX_NAL_COUNT + 1 - i, frame |-> frame]]

\* Encode one picture with an encoder of its own.  It yields one access unit
\* of MAX_NAL_COUNT units, from the first call or from the flush of delayed
\* frames; they are copied into the shared buffers and pushed in order.
Yuyv(frame) ==
  /\ nal' = [i \in NalIndex |-> frame]
  /\ outputQueue' = outputQueue \o [i \in NalIndex |-> i]
  /\ pushed' = pushed \o [i \in NalIndex |-> [nal |-> i, frame |-> frame]]

\* Dequeue the oldest filled buffer, encode it, queue it again.  Encoding
\* may fail silently; a buffer that cannot be queued again is lost.
ReadFrame ==
  /\ pc = "read_frame"
  /\ ~dead
  /\ done # <<>>
  /\ done' = Tail(done)
  /\ \/ Yuyv(Head(done)) /\ UNCHANGED unproductive
     \/ unproductive' = TRUE /\ UNCHANGED encoderVars
  /\ incoming' \in {incoming, incoming + 1}
  /\ pc' = "return"
  /\ UNCHANGED <<captured, dead, caller, errno, sourceVars>>

-----------------------------------------------------------------------------
(* LiveSourceWithx264 *)

\* The first frame stays in the encoder's queue.
SetupReturns ==
  /\ pc = "return" /\ caller = "setup"
  /\ pc' = "idle"
  /\ caller' = "client"
  /\ UNCHANGED <<cameraVars, errno, encoderVars, sourceVars, unproductive>>

\* Defect: a new frame is captured for every NAL asked for.
GetNextFrameAlwaysEncodes ==
  /\ pc = "idle" /\ ~awaiting
  /\ awaiting' = TRUE
  /\ pc' = "select"
  /\ UNCHANGED <<cameraVars, caller, errno, encoderVars, nalQueue, currentTime,
                 delivered, unproductive>>

\* FramedSource::getNextFrame, which marks the request, and doGetNextFrame,
\* which captures only when no entry is left.
GetNextFrame ==
  /\ pc = "idle" /\ ~awaiting
  /\ awaiting' = TRUE
  /\ pc' = IF nalQueue = <<>> THEN "select" ELSE "deliver"
  /\ UNCHANGED <<cameraVars, caller, errno, encoderVars, nalQueue, currentTime,
                 delivered, unproductive>>

\* Defect: one entry is taken from the encoder, not all of them.
EncodeNewFrameTakesOne ==
  /\ pc = "return" /\ caller = "client"
  /\ outputQueue # <<>>
  /\ nalQueue' = nalQueue \o SubSeq(outputQueue, 1, 1)
  /\ outputQueue' = SubSeq(outputQueue, 2, Len(outputQueue))
  /\ currentTime' = captured
  /\ pc' = "deliver"
  /\ UNCHANGED <<cameraVars, caller, errno, nal, pushed, awaiting, delivered, unproductive>>

\* Defect: the entries stay in the encoder's queue.
EncodeNewFrameTakesNone ==
  /\ pc = "return" /\ caller = "client"
  /\ currentTime' = captured
  /\ pc' = "deliver"
  /\ UNCHANGED <<cameraVars, caller, errno, encoderVars, nalQueue, awaiting, delivered,
                 unproductive>>

\* The rest of encodeNewFrame and of doGetNextFrame: take every entry of the
\* encoder's queue, then the time.
EncodeNewFrame ==
  /\ pc = "return" /\ caller = "client"
  /\ nalQueue' = nalQueue \o outputQueue
  /\ outputQueue' = <<>>
  /\ currentTime' = captured
  /\ pc' = "deliver"
  /\ UNCHANGED <<cameraVars, caller, errno, nal, pushed, awaiting, delivered, unproductive>>

\* Defect: every NAL is stamped with the time of its own delivery.
DeliverFrameStampsNow ==
  /\ pc = "deliver" /\ awaiting
  /\ nalQueue # <<>>
  /\ nalQueue' = Tail(nalQueue)
  /\ delivered' = Append(delivered, [nal |-> Head(nalQueue), frame |-> nal[Head(nalQueue)],
                                     time |-> captured])
  /\ awaiting' = FALSE
  /\ pc' = "idle"
  /\ UNCHANGED <<cameraVars, caller, errno, encoderVars, currentTime, unproductive>>

\* Defect: the request is not ended.
DeliverFrameWithoutAnswer ==
  /\ pc = "deliver" /\ awaiting
  /\ nalQueue # <<>>
  /\ nalQueue' = Tail(nalQueue)
  /\ delivered' = Append(delivered, [nal |-> Head(nalQueue), frame |-> nal[Head(nalQueue)],
                                     time |-> currentTime])
  /\ pc' = "idle"
  /\ UNCHANGED <<cameraVars, caller, errno, encoderVars, currentTime, awaiting, unproductive>>

\* deliverFrame, up to FramedSource::afterGetting, which ends the request.
DeliverFrame ==
  /\ pc = "deliver" /\ awaiting
  /\ nalQueue # <<>>
  /\ nalQueue' = Tail(nalQueue)
  /\ delivered' = Append(delivered, [nal |-> Head(nalQueue), frame |-> nal[Head(nalQueue)],
                                     time |-> currentTime])
  /\ awaiting' = FALSE
  /\ pc' = "idle"
  /\ UNCHANGED <<cameraVars, caller, errno, encoderVars, currentTime, unproductive>>

\* deliverFrame does not look whether the queue is empty.  What front() then
\* answers is whatever the deque's memory holds.
DeliverFromEmptyQueue ==
  /\ pc = "deliver" /\ awaiting
  /\ nalQueue = <<>>
  /\ pc' \in {"aborted", "corrupted"}
  /\ UNCHANGED <<cameraVars, caller, errno, encoderVars, sourceVars, unproductive>>

-----------------------------------------------------------------------------

\* start_capturing has just succeeded and Livex264Setup calls mainloop.
Init ==
  /\ captured = 0
  /\ incoming = MmapBuffers
  /\ done = <<>>
  /\ dead = FALSE
  /\ pc = "select"
  /\ caller = "setup"
  /\ errno = "none"
  /\ nal = [i \in NalIndex |-> 0]
  /\ outputQueue = <<>>
  /\ nalQueue = <<>>
  /\ currentTime = 0
  /\ awaiting = FALSE
  /\ pushed = <<>>
  /\ delivered = <<>>
  /\ unproductive = FALSE

Camera == Capture \/ Unplug

Thread ==
  \/ SelectReady
  \/ SelectGivesUp
  \/ ReadFrameFails
  \/ ReadFrame
  \/ SetupReturns
  \/ EncodeNewFrame
  \/ DeliverFrame
  \/ DeliverFromEmptyQueue

Next == Camera \/ Thread \/ GetNextFrame

Spec == Init /\ [][Next]_vars

\* The thread goes on with what it has begun.  Failures of VIDIOC_DQBUF on a
\* camera that is there are transient.
FairSpec == Spec /\ WF_vars(Thread) /\ SF_vars(ReadFrame)

-----------------------------------------------------------------------------
(* Properties *)

Delivery == [nal : NalIndex, frame : Nat, time : Nat]

TypeOK ==
  /\ captured \in 0..MaxFrames
  /\ incoming \in 0..MmapBuffers
  /\ done \in Seq(1..MaxFrames)
  /\ dead \in BOOLEAN
  /\ pc \in Stages
  /\ caller \in {"setup", "client"}
  /\ errno \in {"none", "EAGAIN", "EIO", "ENODEV"}
  /\ nal \in [NalIndex -> 0..MaxFrames]
  /\ outputQueue \in Seq(NalIndex)
  /\ nalQueue \in Seq(NalIndex)
  /\ currentTime \in 0..MaxFrames
  /\ awaiting \in BOOLEAN
  /\ pushed \in Seq([nal : NalIndex, frame : 1..MaxFrames])
  /\ delivered \in Seq(Delivery)
  /\ unproductive \in BOOLEAN

\* The buffer after i in an access unit, and the first one after the last.
Successor(i) == IF i = MAX_NAL_COUNT THEN 1 ELSE i + 1

\* The sink gets whole access units, NAL by NAL: parameter sets, SEI, slice,
\* parameter sets, ...  No NAL is skipped, repeated or out of its place, also
\* across the start-up, where two frames' entries are queued together.
DeliveredInOrder ==
  /\ delivered # <<>> => delivered[1].nal = 1
  /\ \A k \in 1..(Len(delivered) - 1) : delivered[k + 1].nal = Successor(delivered[k].nal)

\* Entries for one access unit never queue up behind another's, except for
\* the one that set-up left in the encoder's queue.
QueuesAreBounded ==
  /\ Len(outputQueue) + Len(nalQueue) <= 2 * MAX_NAL_COUNT
  /\ Len(delivered) >= MAX_NAL_COUNT => Len(outputQueue) + Len(nalQueue) <= MAX_NAL_COUNT
  /\ caller = "client" /\ nalQueue # <<>> => outputQueue = <<>>

\* After the first access unit every NAL is delivered with the bytes it was
\* pushed with: the buffer was not overwritten while its entry was queued.
\* (In the first access unit it can be: set-up's frame is encoded into the
\* buffers that the first request's frame is encoded into as well.)
BytesAreThoseThatWerePushed ==
  \A k \in 1..Len(delivered) :
    k > MAX_NAL_COUNT => delivered[k].frame = pushed[k].frame

\* Frames and time stamps never go back, no frame is stamped with a time
\* before it was captured, and the NALs of one frame have one time stamp.
TimesFollowFrames ==
  \A j, k \in 1..Len(delivered) :
    /\ delivered[k].time >= delivered[k].frame
    /\ j < k => /\ delivered[j].frame <= delivered[k].frame
                /\ delivered[j].time <= delivered[k].time
    /\ delivered[j].frame = delivered[k].frame => delivered[j].time = delivered[k].time

\* The source looks into an empty queue only if some mainloop came back
\* without a NAL, because of a timeout, a select error or a failed encoding.
EmptyQueueMeansNoCapture ==
  pc \in {"aborted", "corrupted"} => unproductive

\* assert(nal->p_payload != NULL) at LiveSourceWithx264.cpp:114.
PayloadAssertion == pc # "aborted"

\* "EAGAIN - continue select loop", says x264Encoder.cpp:331 of the loop, and
\* x264Encoder.cpp:507 "Could ignore EIO".
OnlyTransientErrorsRetry ==
  [][pc = "read_frame" /\ pc' = "select" => errno' \in {"EAGAIN", "EIO"}]_vars

\* A request is answered, or the source is found empty, unless the camera is
\* gone.
RequestsAreAnswered ==
  awaiting ~> (~awaiting \/ pc \in {"aborted", "corrupted"} \/ dead)

=============================================================================
