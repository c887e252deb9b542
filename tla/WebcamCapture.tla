---------------------------- MODULE WebcamCapture ----------------------------
(***************************************************************************)
(* The life of LiveSourceWithx264 objects: construction, Livex264Setup,    *)
(* recursiveClean and destruction, with the x264Encoder operations they    *)
(* call and the V4L2 camera those operations drive.                        *)
(*                                                                         *)
(* One thread runs everything, so a set-up or a destructor that has        *)
(* started runs to its end before another one starts.  Each stage of a     *)
(* set-up can fail; a failure enters recursiveClean, whose switch falls    *)
(* through from one clean_state_t to the next.                             *)
(*                                                                         *)
(* `buffers' is one global pointer for all encoders, while the number of   *)
(* entries it has, the mappings and the descriptor are per encoder: the    *)
(* camera's refusal of a second owner is all that keeps one encoder's      *)
(* teardown away from another's buffers.                                   *)
(***************************************************************************)
EXTENDS Integers, FiniteSets

CONSTANTS
  Sources,         \* LiveSourceWithx264 objects, each created at most once
  MAX_NAL_COUNT,   \* NAL buffers per encoder
  Grants,          \* buffer counts VIDIOC_REQBUFS can answer with
  NULL             \* no source

ASSUME CaptureAssumption ==
  /\ MAX_NAL_COUNT \in Nat \ {0}
  /\ Grants \subseteq Nat
  /\ IsFiniteSet(Sources)
  /\ NULL \notin Sources

VARIABLES
  pc,              \* where each object is in its life
  failure,         \* the set-up stage that failed, "none" when none did
  referenceCount,  \* LiveSourceWithx264::referenceCount
  eventTriggerId,  \* LiveSourceWithx264::eventTriggerId, 0 when there is none
  nal_references,  \* per encoder, the state of each NAL buffer
  video_dev_desc,  \* per encoder, "valid" or "invalid" (INVALID_FILE_DESC)
  mmap_buffer_cnt, \* per encoder, entries of its buffer array
  buffers,         \* global pointer: the encoder whose array it denotes
  arrays,          \* encoders whose buffer array is allocated
  mapped,          \* per encoder, the camera buffers that are mapped
  cleanupErrors    \* objects for which a cleaning call reported an error

VARIABLES
  opened,          \* encoders whose descriptor is open in the kernel
  owner,           \* encoder whose open file owns the camera's buffer queue
  queued,          \* camera buffers queued for filling
  streaming        \* is the camera streaming

objectVars == <<pc, failure, referenceCount, eventTriggerId, cleanupErrors>>
memoryVars == <<nal_references, mmap_buffer_cnt, buffers, arrays, mapped>>
cameraVars == <<owner, queued, streaming>>
vars == <<objectVars, memoryVars, cameraVars, video_dev_desc, opened>>

SetupStages == {"initilize", "open_device", "init_device", "init_mmap",
                "start_capturing", "mainloop"}
CleanStages == {"CS_CAPTURE_STOP", "CS_MUNMAP_FILE", "CS_CLOSE_FILE", "CS_FREE_MEM"}
RestStages  == {"absent", "ready", "failed", "deleted"}

NalIndex == 1..MAX_NAL_COUNT
\* "header": the x264_nal_t is allocated, its payload is not.
NalStates == {"null", "header", "full", "freed"}

\* The thread is in no set-up and no destructor: it can start one.
Idle == \A s \in Sources : pc[s] \in RestStages

Goto(s, stage) == pc' = [pc EXCEPT ![s] = stage]

\* Defect: recursiveClean starts one case too late, after munmap.
FailSkippingMunmap(s, clean) ==
  /\ failure' = [failure EXCEPT ![s] = pc[s]]
  /\ Goto(s, IF clean = "CS_MUNMAP_FILE" THEN "CS_CLOSE_FILE" ELSE clean)

\* Defect: every failure only frees memory.
FailSkippingClose(s, clean) ==
  /\ failure' = [failure EXCEPT ![s] = pc[s]]
  /\ Goto(s, "CS_FREE_MEM")

\* A set-up stage fails and calls recursiveClean(clean).
Fail(s, clean) ==
  /\ failure' = [failure EXCEPT ![s] = pc[s]]
  /\ Goto(s, clean)

Succeed(s, next) ==
  /\ Goto(s, next)
  /\ UNCHANGED failure

-----------------------------------------------------------------------------
(* Construction and Livex264Setup *)

CreateNew(s) ==
  /\ Idle
  /\ pc[s] = "absent"
  /\ Goto(s, "initilize")
  /\ referenceCount' = referenceCount + 1
  /\ UNCHANGED <<failure, eventTriggerId, cleanupErrors, memoryVars,
                 cameraVars, video_dev_desc, opened>>

\* Two mallocs per NAL; the first one that fails ends the loop.
Initilize(s) ==
  /\ pc[s] = "initilize"
  /\ \/ /\ nal_references' = [nal_references EXCEPT ![s] = [i \in NalIndex |-> "full"]]
        /\ Succeed(s, "open_device")
     \/ \E failed \in NalIndex, got \in {"null", "header"} :
          /\ nal_references' = [nal_references EXCEPT ![s] =
               [i \in NalIndex |-> IF i < failed THEN "full"
                                   ELSE IF i = failed THEN got ELSE "null"]]
          /\ Fail(s, "CS_FREE_MEM")
  /\ UNCHANGED <<referenceCount, eventTriggerId, cleanupErrors, mmap_buffer_cnt,
                 buffers, arrays, mapped, cameraVars, video_dev_desc, opened>>

OpenDevice(s) ==
  /\ pc[s] = "open_device"
  /\ \/ /\ opened' = opened \cup {s}
        /\ video_dev_desc' = [video_dev_desc EXCEPT ![s] = "valid"]
        /\ Succeed(s, "init_device")
     \/ /\ Fail(s, "CS_FREE_MEM")
        /\ UNCHANGED <<opened, video_dev_desc>>
  /\ UNCHANGED <<referenceCount, eventTriggerId, cleanupErrors, memoryVars, cameraVars>>

\* QUERYCAP, the capability tests and S_FMT can fail; CROPCAP and S_CROP
\* failures are ignored.
InitDevice(s) ==
  /\ pc[s] = "init_device"
  /\ Succeed(s, "init_mmap") \/ Fail(s, "CS_CLOSE_FILE")
  /\ UNCHANGED <<referenceCount, eventTriggerId, cleanupErrors, memoryVars,
                 cameraVars, video_dev_desc, opened>>

\* VIDIOC_REQBUFS: the driver makes the file the owner of the queue, and
\* refuses (EBUSY) a file that is not the owner of a queue that has one.
RequestBuffers(s) ==
  /\ owner \in {NULL, s}
  /\ owner' = s
  /\ UNCHANGED <<queued, streaming>>

\* Defect: the array is allocated before the camera is asked for buffers.
AllocateBuffersFirst(s) ==
  /\ pc[s] = "init_mmap"
  /\ buffers' = s
  /\ arrays' = arrays \cup {s}
  /\ \/ /\ UNCHANGED <<mmap_buffer_cnt, mapped, cameraVars>>
        /\ Fail(s, "CS_CLOSE_FILE")
     \/ \E granted \in Grants :
          /\ RequestBuffers(s)
          /\ mmap_buffer_cnt' = [mmap_buffer_cnt EXCEPT ![s] = granted]
          /\ mapped' = [mapped EXCEPT ![s] = 0..(granted - 1)]
          /\ Succeed(s, "start_capturing")
  /\ UNCHANGED <<referenceCount, eventTriggerId, cleanupErrors, nal_references,
                 video_dev_desc, opened>>

\* REQBUFS, calloc, then QUERYBUF and mmap for each buffer, all of which can
\* fail.  A failure between two buffers leaves the array and the earlier mappings.
InitMmap(s) ==
  /\ pc[s] = "init_mmap"
  /\ \/ /\ Fail(s, "CS_CLOSE_FILE")
        /\ UNCHANGED <<mmap_buffer_cnt, buffers, arrays, mapped, cameraVars>>
     \/ \E granted \in Grants :
          /\ RequestBuffers(s)
          /\ \/ /\ granted < 2
                /\ Fail(s, "CS_CLOSE_FILE")
                /\ UNCHANGED <<mmap_buffer_cnt, buffers, arrays, mapped>>
             \/ /\ granted >= 2
                /\ mmap_buffer_cnt' = [mmap_buffer_cnt EXCEPT ![s] = granted]
                /\ \/ /\ buffers' = NULL           \* calloc failed
                      /\ Fail(s, "CS_CLOSE_FILE")
                      /\ UNCHANGED <<arrays, mapped>>
                   \/ \E done \in 0..granted :
                        /\ buffers' = s
                        /\ arrays' = arrays \cup {s}
                        /\ mapped' = [mapped EXCEPT ![s] = 0..(done - 1)]
                        /\ IF done = granted THEN Succeed(s, "start_capturing")
                                             ELSE Fail(s, "CS_CLOSE_FILE")
  /\ UNCHANGED <<referenceCount, eventTriggerId, cleanupErrors, nal_references,
                 video_dev_desc, opened>>

\* Queue every buffer, then STREAMON; either can fail.
StartCapturing(s) ==
  /\ pc[s] = "start_capturing"
  /\ \/ /\ queued' = 0..(mmap_buffer_cnt[s] - 1)
        /\ streaming' = TRUE
        /\ Succeed(s, "mainloop")
     \/ \E done \in 0..mmap_buffer_cnt[s] :
          /\ queued' = 0..(done - 1)
          /\ Fail(s, "CS_MUNMAP_FILE")
          /\ UNCHANGED streaming
  /\ UNCHANGED <<referenceCount, eventTriggerId, cleanupErrors, memoryVars,
                 owner, video_dev_desc, opened>>

\* The first mainloop (its work is module NalPipeline's), then the trigger
\* all sources share.  Livex264Setup succeeds whether a frame came or not.
FirstMainloop(s) ==
  /\ pc[s] = "mainloop"
  /\ Succeed(s, "ready")
  /\ eventTriggerId' = IF eventTriggerId = 0 THEN 1 ELSE eventTriggerId
  /\ UNCHANGED <<referenceCount, cleanupErrors, memoryVars, cameraVars,
                 video_dev_desc, opened>>

-----------------------------------------------------------------------------
(* The destructor and recursiveClean *)

\* Defect: a source whose set-up failed is closed as well.
DestroyEvenIfFailed(s) ==
  /\ Idle
  /\ pc[s] \in {"ready", "failed"}
  /\ referenceCount' = referenceCount - 1
  /\ Goto(s, "CS_CAPTURE_STOP")
  /\ UNCHANGED <<failure, eventTriggerId, cleanupErrors, memoryVars,
                 cameraVars, video_dev_desc, opened>>

\* Medium::close of the framer in front of a source that was set up.  A
\* source whose set-up failed is never closed.
Destroy(s) ==
  /\ Idle
  /\ pc[s] = "ready"
  /\ referenceCount' = referenceCount - 1
  /\ Goto(s, "CS_CAPTURE_STOP")
  /\ UNCHANGED <<failure, eventTriggerId, cleanupErrors, memoryVars,
                 cameraVars, video_dev_desc, opened>>

StopCapturing(s) ==
  /\ pc[s] = "CS_CAPTURE_STOP"
  /\ Goto(s, "CS_MUNMAP_FILE")
  /\ \/ /\ owner = s
        /\ streaming' = FALSE
        /\ queued' = {}
        /\ UNCHANGED cleanupErrors
     \/ /\ cleanupErrors' = cleanupErrors \cup {s}
        /\ UNCHANGED <<streaming, queued>>
  /\ UNCHANGED <<failure, referenceCount, eventTriggerId, memoryVars, owner,
                 video_dev_desc, opened>>

\* munmap entry by entry of the global array; the first error returns
\* before free(buffers).  `buffers' itself keeps its value.
UninitDevice(s) ==
  /\ pc[s] = "CS_MUNMAP_FILE"
  /\ Goto(s, "CS_CLOSE_FILE")
  /\ \E done \in 0..mmap_buffer_cnt[s] :
       /\ mapped' = [mapped EXCEPT ![buffers] = {i \in @ : i >= done}]
       /\ IF done = mmap_buffer_cnt[s]
          THEN /\ arrays' = arrays \ {buffers}
               /\ UNCHANGED cleanupErrors
          ELSE /\ cleanupErrors' = cleanupErrors \cup {s}
               /\ UNCHANGED arrays
  /\ UNCHANGED <<failure, referenceCount, eventTriggerId, nal_references,
                 mmap_buffer_cnt, buffers, cameraVars, video_dev_desc, opened>>

\* The kernel releases the queue when nothing refers to the open file any
\* more: its descriptor is closed, whatever close() answers, and none of the
\* camera's buffers is still mapped through it.
ReleaseCamera(s) ==
  IF owner = s /\ mapped[s] = {}
  THEN owner' = NULL /\ queued' = {} /\ streaming' = FALSE
  ELSE UNCHANGED cameraVars

CloseDevice(s) ==
  /\ pc[s] = "CS_CLOSE_FILE"
  /\ Goto(s, "CS_FREE_MEM")
  /\ opened' = opened \ {s}
  /\ ReleaseCamera(s)
  /\ \/ /\ video_dev_desc' = [video_dev_desc EXCEPT ![s] = "invalid"]
        /\ UNCHANGED cleanupErrors
     \/ /\ cleanupErrors' = cleanupErrors \cup {s}
        /\ UNCHANGED video_dev_desc
  /\ UNCHANGED <<failure, referenceCount, eventTriggerId, memoryVars>>

\* Defect: a failed set-up deletes the trigger as the destructor does.
ReturnWithoutTrigger(s) ==
  /\ Goto(s, IF failure[s] = "none" THEN "deleted" ELSE "failed")
  /\ eventTriggerId' = 0

\* What follows recursiveClean: Livex264Setup returns false, or the
\* destructor deletes the trigger.
ReturnFromClean(s) ==
  \/ /\ failure[s] # "none"
     /\ Goto(s, "failed")
     /\ UNCHANGED eventTriggerId
  \/ /\ failure[s] = "none"
     /\ Goto(s, "deleted")
     /\ eventTriggerId' = 0

\* Frees what is allocated and leaves the pointers as they are.
UnInitilize(s) ==
  /\ pc[s] = "CS_FREE_MEM"
  /\ nal_references' = [nal_references EXCEPT ![s] =
       [i \in NalIndex |-> IF @[i] = "null" THEN "null" ELSE "freed"]]
  /\ ReturnFromClean(s)
  /\ UNCHANGED <<failure, referenceCount, cleanupErrors, mmap_buffer_cnt, buffers,
                 arrays, mapped, cameraVars, video_dev_desc, opened>>

-----------------------------------------------------------------------------

Init ==
  /\ pc = [s \in Sources |-> "absent"]
  /\ failure = [s \in Sources |-> "none"]
  /\ referenceCount = 0
  /\ eventTriggerId = 0
  /\ nal_references = [s \in Sources |-> [i \in NalIndex |-> "null"]]
  /\ video_dev_desc = [s \in Sources |-> "invalid"]
  /\ mmap_buffer_cnt = [s \in Sources |-> 0]
  /\ buffers = NULL
  /\ arrays = {}
  /\ mapped = [s \in Sources |-> {}]
  /\ cleanupErrors = {}
  /\ opened = {}
  /\ owner = NULL
  /\ queued = {}
  /\ streaming = FALSE

Setup(s) ==
  \/ CreateNew(s)
  \/ Initilize(s)
  \/ OpenDevice(s)
  \/ InitDevice(s)
  \/ InitMmap(s)
  \/ StartCapturing(s)
  \/ FirstMainloop(s)

Teardown(s) ==
  \/ Destroy(s)
  \/ StopCapturing(s)
  \/ UninitDevice(s)
  \/ CloseDevice(s)
  \/ UnInitilize(s)

Next == \E s \in Sources : Setup(s) \/ Teardown(s)

Spec == Init /\ [][Next]_vars

-----------------------------------------------------------------------------
(* Properties *)

TypeOK ==
  /\ pc \in [Sources -> SetupStages \cup CleanStages \cup RestStages]
  /\ failure \in [Sources -> SetupStages \cup {"none"}]
  /\ referenceCount \in Nat
  /\ eventTriggerId \in {0, 1}
  /\ nal_references \in [Sources -> [NalIndex -> NalStates]]
  /\ video_dev_desc \in [Sources -> {"valid", "invalid"}]
  /\ mmap_buffer_cnt \in [Sources -> Nat]
  /\ buffers \in Sources \cup {NULL}
  /\ arrays \subseteq Sources
  /\ mapped \in [Sources -> SUBSET Nat]
  /\ cleanupErrors \subseteq Sources
  /\ opened \subseteq Sources
  /\ owner \in Sources \cup {NULL}
  /\ queued \subseteq Nat
  /\ streaming \in BOOLEAN

-----------------------------------------------------------------------------

\* s holds nothing of what its set-up acquired.
HoldsNothing(s) ==
  /\ \A i \in NalIndex : nal_references[s][i] \in {"null", "freed"}
  /\ mapped[s] = {}
  /\ s \notin arrays
  /\ s \notin opened

\* Each call recursiveClean falls into finds what it releases: the global
\* `buffers' is this encoder's own live array with every entry mapped when
\* uninit_device walks it (x264Encoder.cpp:357-362), the descriptor is open
\* when it is used and closed, and no NAL buffer is freed a second time.
CleanupFindsItsResources ==
  \A s \in Sources :
    /\ pc[s] = "CS_MUNMAP_FILE" =>
         buffers = s /\ s \in arrays /\ mapped[s] = 0..(mmap_buffer_cnt[s] - 1)
    /\ pc[s] \in {"CS_CAPTURE_STOP", "CS_MUNMAP_FILE", "CS_CLOSE_FILE"} =>
         s \in opened /\ video_dev_desc[s] = "valid"
    /\ pc[s] = "CS_FREE_MEM" => \A i \in NalIndex : nal_references[s][i] # "freed"

\* A source that was handed out can capture for as long as it lives, whatever
\* other sources are created, fail or are destroyed meanwhile: it owns the
\* camera, the camera streams, and `buffers', which read_frame indexes
\* (x264Encoder.cpp:517), is its own fully mapped array of at least two.
ReadySourceCanCapture ==
  \A s \in Sources : pc[s] = "ready" =>
    /\ s \in opened /\ video_dev_desc[s] = "valid"
    /\ owner = s /\ streaming
    /\ buffers = s /\ s \in arrays
    /\ mmap_buffer_cnt[s] >= 2
    /\ mapped[s] = 0..(mmap_buffer_cnt[s] - 1)
    /\ \A i \in NalIndex : nal_references[s][i] = "full"

\* The trigger all sources share outlives none of them too early: it exists
\* while a source is set up, although every destructor deletes it.
TriggerWhileReady ==
  \A s \in Sources : pc[s] = "ready" => eventTriggerId # 0

\* Once a set-up has failed or a source was destroyed, the camera is free for
\* the next client, on every error path and whatever close() answered, unless
\* mappings survived: a failure inside init_mmap unmaps nothing
\* (x264Encoder.cpp:248-265), an error of munmap leaves the rest (358-361), and
\* the file these mappings keep open owns the camera until the server ends.
CameraIsReleased ==
  \A s \in Sources : owner = s =>
    \/ pc[s] \notin {"absent", "failed", "deleted"}
    \/ mapped[s] # {} /\ (failure[s] = "init_mmap" \/ s \in cleanupErrors)

\* A finished object keeps nothing, provided no cleaning call reported an
\* error, except after the one failure inside init_mmap that
\* FailedMmapLeavesNothingMapped is about.
FinishedSourceHoldsNothing ==
  \A s \in Sources :
    (/\ pc[s] \in {"failed", "deleted"}
     /\ failure[s] # "init_mmap"
     /\ s \notin cleanupErrors) => HoldsNothing(s)

\* LiveSourceWithx264.cpp:54 says of a failed init_mmap "we still don't have
\* the memory map set", and the code therefore cleans from CS_CLOSE_FILE on.
FailedMmapLeavesNothingMapped ==
  \A s \in Sources : failure[s] = "init_mmap" => mapped[s] = {}

\* The array outlives its mappings: no error path frees the addresses that
\* munmap still needs.
ArrayOutlivesMappings ==
  \A s \in Sources : mapped[s] # {} => s \in arrays

=============================================================================
