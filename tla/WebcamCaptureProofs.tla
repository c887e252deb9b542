------------------------ MODULE WebcamCaptureProofs ------------------------
(***************************************************************************)
(* Proofs about WebcamCapture, for every finite set of sources, number of  *)
(* NAL buffers and buffer count the driver grants.                         *)
(*                                                                         *)
(* The invariants hold because of what each stage of a source's life       *)
(* implies about the resources it holds and because only one source at a   *)
(* time is between stages: IInv says both.                                 *)
(***************************************************************************)
EXTENDS WebcamCapture, FiniteSetTheorems, TLAPS

\* Stages in which the camera's file is open, and in which the buffer array
\* is allocated and wholly mapped.
FileStages  == {"init_device", "init_mmap", "start_capturing", "mainloop", "ready",
                "CS_CAPTURE_STOP", "CS_MUNMAP_FILE", "CS_CLOSE_FILE"}
ArrayStages == {"start_capturing", "mainloop", "ready", "CS_CAPTURE_STOP",
                "CS_MUNMAP_FILE"}

FileInv(s) ==
  /\ s \in opened <=> pc[s] \in FileStages
  /\ s \in opened => video_dev_desc[s] = "valid"
  /\ owner = s => s \in opened \/ mapped[s] # {}

ArrayInv(s) ==
  /\ pc[s] \in ArrayStages =>
       /\ owner = s /\ buffers = s /\ s \in arrays
       /\ mmap_buffer_cnt[s] >= 2
       /\ mapped[s] = 0..(mmap_buffer_cnt[s] - 1)
  /\ pc[s] \in {"mainloop", "ready"} => streaming
  /\ pc[s] \in {"absent", "initilize", "open_device", "init_device", "init_mmap"} =>
       mapped[s] = {} /\ s \notin arrays
  /\ mapped[s] # {} => s \in arrays

NalInv(s) ==
  /\ pc[s] \in {"absent", "initilize"} => \A i \in NalIndex : nal_references[s][i] = "null"
  /\ pc[s] \in FileStages \cup {"open_device"} =>
       \A i \in NalIndex : nal_references[s][i] = "full"
  /\ pc[s] = "CS_FREE_MEM" => \A i \in NalIndex : nal_references[s][i] # "freed"
  /\ pc[s] \in {"failed", "deleted"} =>
       \A i \in NalIndex : nal_references[s][i] \in {"null", "freed"}

\* Is s being destroyed, as opposed to cleaned up after a failed set-up?
Dying(s) == pc[s] \in CleanStages /\ failure[s] = "none"

FailureInv(s) ==
  /\ pc[s] \in SetupStages \cup {"absent", "ready", "deleted", "CS_CAPTURE_STOP"} =>
       failure[s] = "none"
  /\ pc[s] = "failed" => failure[s] # "none"
  /\ (/\ pc[s] \in {"CS_CLOSE_FILE", "CS_FREE_MEM", "failed", "deleted"}
      /\ failure[s] # "init_mmap"
      /\ s \notin cleanupErrors) => mapped[s] = {} /\ s \notin arrays

\* Who is ready has a trigger, and nobody else is ready while the trigger is
\* about to be deleted.
TriggerInv ==
  /\ \A s \in Sources : pc[s] = "ready" => eventTriggerId # 0
  /\ \A s, t \in Sources : Dying(s) => pc[t] # "ready"

\* The thread is inside one set-up or destructor at most.
OneAtATime ==
  \A s, t \in Sources : pc[s] \notin RestStages /\ pc[t] \notin RestStages => s = t

\* The objects that referenceCount counts.
Counted == {s \in Sources : pc[s] \notin {"absent", "deleted"} /\ ~Dying(s)}

CountInv == referenceCount = Cardinality(Counted)

IInv ==
  /\ TypeOK
  /\ \A s \in Sources : FileInv(s) /\ ArrayInv(s) /\ NalInv(s) /\ FailureInv(s)
  /\ TriggerInv
  /\ OneAtATime
  /\ CountInv

-----------------------------------------------------------------------------
(* The initial state and two facts about counting *)

\* The objects counted are finitely many.
LEMMA CountedFinite == IsFiniteSet(Counted)
  BY CaptureAssumption, FS_Subset DEF Counted

\* Whoever is counted makes the count positive.
LEMMA CountedMember ==
  ASSUME NEW s \in Counted
  PROVE  Cardinality(Counted) - 1 \in Nat
<1>1. Counted # {}
  OBVIOUS
<1>2. Cardinality(Counted) \in Nat /\ Cardinality(Counted) # 0
  BY <1>1, CountedFinite, FS_CardinalityType, FS_EmptySet
<1>3. QED
  BY <1>2

\* The initial state satisfies the invariant.
LEMMA InitIInv == Init => IInv
<1> SUFFICES ASSUME Init PROVE IInv
  OBVIOUS
<1> USE CaptureAssumption
    DEF Init, SetupStages, CleanStages, RestStages, FileStages, ArrayStages, NalStates
<1>1. TypeOK
  BY DEF TypeOK
<1>2. ASSUME NEW s \in Sources PROVE FileInv(s) /\ ArrayInv(s)
  BY DEF FileInv, ArrayInv
<1>3. ASSUME NEW s \in Sources PROVE NalInv(s) /\ FailureInv(s)
  BY DEF NalInv, FailureInv
<1>4. TriggerInv /\ OneAtATime
  BY DEF TriggerInv, OneAtATime, Dying
<1>5. Counted = {}
  BY DEF Counted
<1>6. CountInv
  BY <1>5, FS_EmptySet DEF CountInv
<1>7. QED
  BY <1>1, <1>2, <1>3, <1>4, <1>6 DEF IInv

-----------------------------------------------------------------------------
(* Every action preserves the invariant *)

\* A new object is counted; nothing else changes.
LEMMA CreateNewStep ==
  ASSUME IInv, NEW s \in Sources, CreateNew(s)
  PROVE  IInv'
<1> USE CaptureAssumption
    DEF IInv, SetupStages, CleanStages, RestStages, ArrayStages, NalStates,
        CreateNew, Goto, Fail, Succeed,
        objectVars, memoryVars, cameraVars
<1>1. TypeOK'
  BY DEF TypeOK
<1>2. ASSUME NEW t \in Sources PROVE FileInv(t)'
  BY <1>2 DEF TypeOK, FileInv, FileStages, OneAtATime, ArrayInv
<1>3. ASSUME NEW t \in Sources PROVE ArrayInv(t)'
  BY <1>3 DEF TypeOK, FileInv, ArrayInv
<1>4. ASSUME NEW t \in Sources PROVE NalInv(t)'
  BY <1>4 DEF TypeOK, NalInv, FileStages
<1>5. ASSUME NEW t \in Sources PROVE FailureInv(t)'
  BY <1>5 DEF TypeOK, FailureInv, ArrayInv
<1>6. TriggerInv'
  <2>1. ASSUME NEW t \in Sources, pc'[t] = "ready" PROVE pc[t] = "ready"
    BY <2>1 DEF TypeOK
  <2>2. ASSUME NEW t \in Sources, Dying(t)' PROVE Dying(t)
    BY <2>2 DEF TypeOK, Dying
  <2>3. QED
    BY <2>1, <2>2 DEF TriggerInv
<1>7. OneAtATime'
  BY DEF TypeOK, OneAtATime, Idle
<1>8. CountInv'
  <2>1. Counted' = Counted \cup {s} /\ s \notin Counted
    BY DEF TypeOK, Counted, Dying
  <2>2. QED
    BY <2>1, CountedFinite, FS_AddElement DEF CountInv
<1>9. QED
  BY <1>1, <1>2, <1>3, <1>4, <1>5, <1>6, <1>7, <1>8

\* Only this encoder's NAL buffers and stage change.
LEMMA InitilizeStep ==
  ASSUME IInv, NEW s \in Sources, Initilize(s)
  PROVE  IInv'
<1> USE CaptureAssumption
    DEF IInv, SetupStages, CleanStages, RestStages, ArrayStages, NalStates,
        Initilize, Goto, Fail, Succeed,
        objectVars, memoryVars, cameraVars
<1>1. TypeOK'
  <2>1. nal_references' \in [Sources -> [NalIndex -> NalStates]]
    BY DEF TypeOK
  <2>2. pc' \in [Sources -> SetupStages \cup CleanStages \cup RestStages]
    BY DEF TypeOK
  <2>3. failure' \in [Sources -> SetupStages \cup {"none"}]
    BY DEF TypeOK
  <2>4. QED
    BY <2>1, <2>2, <2>3 DEF TypeOK
<1>2. ASSUME NEW t \in Sources PROVE FileInv(t)'
  BY <1>2 DEF TypeOK, FileInv, FileStages, OneAtATime, ArrayInv
<1>3. ASSUME NEW t \in Sources PROVE ArrayInv(t)'
  BY <1>3 DEF TypeOK, FileInv, ArrayInv
<1>4. ASSUME NEW t \in Sources PROVE NalInv(t)'
  <2>1. CASE t # s
    BY <2>1 DEF TypeOK, NalInv
  <2>2. CASE t = s /\ pc'[s] = "open_device"
    BY <2>2 DEF TypeOK, NalInv
  <2>3. CASE t = s /\ pc'[s] = "CS_FREE_MEM"
    BY <2>3 DEF TypeOK, NalInv, FileStages
  <2>4. QED
    BY <2>1, <2>2, <2>3 DEF TypeOK
<1>5. ASSUME NEW t \in Sources PROVE FailureInv(t)'
  BY <1>5 DEF TypeOK, FailureInv, ArrayInv
<1>6. TriggerInv'
  <2>1. ASSUME NEW t \in Sources, pc'[t] = "ready" PROVE pc[t] = "ready"
    BY <2>1 DEF TypeOK
  <2>2. ASSUME NEW t \in Sources, Dying(t)' PROVE Dying(t)
    BY <2>2 DEF TypeOK, Dying
  <2>3. QED
    BY <2>1, <2>2 DEF TriggerInv
<1>7. OneAtATime'
  BY DEF TypeOK, OneAtATime, Idle
<1>8. CountInv'
  <2>1. Counted' = Counted
    BY DEF TypeOK, Counted, Dying, FailureInv
  <2>2. QED
    BY <2>1 DEF CountInv
<1>9. QED
  BY <1>1, <1>2, <1>3, <1>4, <1>5, <1>6, <1>7, <1>8

\* The descriptor becomes valid exactly when the file is opened.
LEMMA OpenDeviceStep ==
  ASSUME IInv, NEW s \in Sources, OpenDevice(s)
  PROVE  IInv'
<1> USE CaptureAssumption
    DEF IInv, SetupStages, CleanStages, RestStages, ArrayStages, NalStates,
        OpenDevice, Goto, Fail, Succeed,
        objectVars, memoryVars, cameraVars
<1>1. TypeOK'
  BY DEF TypeOK
<1>2. ASSUME NEW t \in Sources PROVE FileInv(t)'
  BY <1>2 DEF TypeOK, FileInv, FileStages, OneAtATime, ArrayInv
<1>3. ASSUME NEW t \in Sources PROVE ArrayInv(t)'
  BY <1>3 DEF TypeOK, FileInv, ArrayInv
<1>4. ASSUME NEW t \in Sources PROVE NalInv(t)'
  BY <1>4 DEF TypeOK, NalInv, FileStages
<1>5. ASSUME NEW t \in Sources PROVE FailureInv(t)'
  <2>1. CASE t # s
    BY <2>1 DEF TypeOK, FailureInv
  <2>2. CASE t = s
    BY <2>2 DEF TypeOK, FailureInv, ArrayInv
  <2>3. QED
    BY <2>1, <2>2
<1>6. TriggerInv'
  <2>1. ASSUME NEW t \in Sources, pc'[t] = "ready" PROVE pc[t] = "ready"
    BY <2>1 DEF TypeOK
  <2>2. ASSUME NEW t \in Sources, Dying(t)' PROVE Dying(t)
    BY <2>2 DEF TypeOK, Dying
  <2>3. QED
    BY <2>1, <2>2 DEF TriggerInv
<1>7. OneAtATime'
  BY DEF TypeOK, OneAtATime, Idle
<1>8. CountInv'
  <2>1. Counted' = Counted
    BY DEF TypeOK, Counted, Dying, FailureInv
  <2>2. QED
    BY <2>1 DEF CountInv
<1>9. QED
  BY <1>1, <1>2, <1>3, <1>4, <1>5, <1>6, <1>7, <1>8

\* A probe, which changes nothing but the stage.
LEMMA InitDeviceStep ==
  ASSUME IInv, NEW s \in Sources, InitDevice(s)
  PROVE  IInv'
<1> USE CaptureAssumption
    DEF IInv, SetupStages, CleanStages, RestStages, ArrayStages, NalStates,
        InitDevice, Goto, Fail, Succeed,
        objectVars, memoryVars, cameraVars
<1>1. TypeOK'
  BY DEF TypeOK
<1>2. ASSUME NEW t \in Sources PROVE FileInv(t)'
  BY <1>2 DEF TypeOK, FileInv, FileStages, OneAtATime, ArrayInv
<1>3. ASSUME NEW t \in Sources PROVE ArrayInv(t)'
  BY <1>3 DEF TypeOK, FileInv, ArrayInv
<1>4. ASSUME NEW t \in Sources PROVE NalInv(t)'
  BY <1>4 DEF TypeOK, NalInv, FileStages
<1>5. ASSUME NEW t \in Sources PROVE FailureInv(t)'
  BY <1>5 DEF TypeOK, FailureInv, ArrayInv
<1>6. TriggerInv'
  <2>1. ASSUME NEW t \in Sources, pc'[t] = "ready" PROVE pc[t] = "ready"
    BY <2>1 DEF TypeOK
  <2>2. ASSUME NEW t \in Sources, Dying(t)' PROVE Dying(t)
    BY <2>2 DEF TypeOK, Dying
  <2>3. QED
    BY <2>1, <2>2 DEF TriggerInv
<1>7. OneAtATime'
  BY DEF TypeOK, OneAtATime, Idle
<1>8. CountInv'
  <2>1. Counted' = Counted
    BY DEF TypeOK, Counted, Dying, FailureInv
  <2>2. QED
    BY <2>1 DEF CountInv
<1>9. QED
  BY <1>1, <1>2, <1>3, <1>4, <1>5, <1>6, <1>7, <1>8

\* The queue's owner may change only if it had none, so no other source is in a
\* stage that relies on `buffers'.
LEMMA InitMmapStep ==
  ASSUME IInv, NEW s \in Sources, InitMmap(s)
  PROVE  IInv'
<1> USE CaptureAssumption
    DEF IInv, SetupStages, CleanStages, RestStages, ArrayStages, NalStates,
        InitMmap, RequestBuffers, Goto, Fail, Succeed,
        objectVars, memoryVars, cameraVars
<1>1. TypeOK'
  <2>1. \/ pc' = [pc EXCEPT ![s] = "start_capturing"]
        \/ pc' = [pc EXCEPT ![s] = "CS_CLOSE_FILE"]
    OBVIOUS
  <2>1a. pc' \in [Sources -> SetupStages \cup CleanStages \cup RestStages]
    BY <2>1 DEF TypeOK
  <2>2. failure' \in [Sources -> SetupStages \cup {"none"}]
    BY DEF TypeOK
  <2>3. mapped' \in [Sources -> SUBSET Nat]
    BY DEF TypeOK
  <2>4. mmap_buffer_cnt' \in [Sources -> Nat]
    BY DEF TypeOK
  <2>5. /\ owner' \in Sources \cup {NULL}
        /\ buffers' \in Sources \cup {NULL}
        /\ arrays' \subseteq Sources
    BY DEF TypeOK
  <2>6. QED
    BY <2>1a, <2>2, <2>3, <2>4, <2>5 DEF TypeOK
<1>2. ASSUME NEW t \in Sources PROVE FileInv(t)'
  BY <1>2 DEF TypeOK, FileInv, FileStages, OneAtATime, ArrayInv
<1>3. ASSUME NEW t \in Sources PROVE ArrayInv(t)'
  BY <1>3 DEF TypeOK, FileInv, ArrayInv
<1>4. ASSUME NEW t \in Sources PROVE NalInv(t)'
  <2>1. UNCHANGED nal_references
    OBVIOUS
  <2>2. t # s => pc'[t] = pc[t]
    BY DEF TypeOK
  <2>3. pc'[s] \in FileStages
    BY DEF TypeOK, FileStages
  <2>4. QED
    BY <2>1, <2>2, <2>3, <1>4 DEF NalInv, FileStages
<1>5. ASSUME NEW t \in Sources PROVE FailureInv(t)'
  BY <1>5 DEF TypeOK, FailureInv, ArrayInv
<1>6. TriggerInv'
  <2>1. ASSUME NEW t \in Sources, pc'[t] = "ready" PROVE pc[t] = "ready"
    BY <2>1 DEF TypeOK
  <2>2. ASSUME NEW t \in Sources, Dying(t)' PROVE Dying(t)
    BY <2>2 DEF TypeOK, Dying
  <2>3. QED
    BY <2>1, <2>2 DEF TriggerInv
<1>7. OneAtATime'
  <2>1. \/ pc' = [pc EXCEPT ![s] = "start_capturing"]
        \/ pc' = [pc EXCEPT ![s] = "CS_CLOSE_FILE"]
    OBVIOUS
  <2>2. ASSUME NEW t \in Sources, pc'[t] \notin RestStages PROVE t = s
    BY <2>1, <2>2 DEF TypeOK, OneAtATime
  <2>3. QED
    BY <2>2 DEF OneAtATime
<1>8. CountInv'
  <2>1. Counted' = Counted
    BY DEF TypeOK, Counted, Dying, FailureInv
  <2>2. QED
    BY <2>1 DEF CountInv
<1>9. QED
  BY <1>1, <1>2, <1>3, <1>4, <1>5, <1>6, <1>7, <1>8

\* Only the owner of the queue comes here.
LEMMA StartCapturingStep ==
  ASSUME IInv, NEW s \in Sources, StartCapturing(s)
  PROVE  IInv'
<1> USE CaptureAssumption
    DEF IInv, SetupStages, CleanStages, RestStages, ArrayStages, NalStates,
        StartCapturing, Goto, Fail, Succeed,
        objectVars, memoryVars, cameraVars
<1>1. TypeOK'
  <2>1. pc' \in [Sources -> SetupStages \cup CleanStages \cup RestStages]
    BY DEF TypeOK
  <2>2. failure' \in [Sources -> SetupStages \cup {"none"}]
    BY DEF TypeOK
  <2>3. \E n \in Int : queued' = 0..(n - 1)
    BY DEF TypeOK
  <2>4. streaming' \in BOOLEAN
    BY DEF TypeOK
  <2>5. QED
    BY <2>1, <2>2, <2>3, <2>4 DEF TypeOK
<1>2. ASSUME NEW t \in Sources PROVE FileInv(t)'
  BY <1>2 DEF TypeOK, FileInv, FileStages, OneAtATime, ArrayInv
<1>3. ASSUME NEW t \in Sources PROVE ArrayInv(t)'
  BY <1>3 DEF TypeOK, FileInv, ArrayInv
<1>4. ASSUME NEW t \in Sources PROVE NalInv(t)'
  <2>1. UNCHANGED nal_references
    OBVIOUS
  <2>2. t # s => pc'[t] = pc[t]
    BY DEF TypeOK
  <2>3. pc'[s] \in FileStages
    BY DEF TypeOK, FileStages
  <2>4. QED
    BY <2>1, <2>2, <2>3, <1>4 DEF NalInv, FileStages
<1>5. ASSUME NEW t \in Sources PROVE FailureInv(t)'
  BY <1>5 DEF TypeOK, FailureInv, ArrayInv
<1>6. TriggerInv'
  <2>1. ASSUME NEW t \in Sources, pc'[t] = "ready" PROVE pc[t] = "ready"
    BY <2>1 DEF TypeOK
  <2>2. ASSUME NEW t \in Sources, Dying(t)' PROVE Dying(t)
    BY <2>2 DEF TypeOK, Dying
  <2>3. QED
    BY <2>1, <2>2 DEF TriggerInv
<1>7. OneAtATime'
  BY DEF TypeOK, OneAtATime, Idle
<1>8. CountInv'
  <2>1. Counted' = Counted
    BY DEF TypeOK, Counted, Dying, FailureInv
  <2>2. QED
    BY <2>1 DEF CountInv
<1>9. QED
  BY <1>1, <1>2, <1>3, <1>4, <1>5, <1>6, <1>7, <1>8

\* Nobody is being destroyed while a set-up runs.
LEMMA FirstMainloopStep ==
  ASSUME IInv, NEW s \in Sources, FirstMainloop(s)
  PROVE  IInv'
<1> USE CaptureAssumption
    DEF IInv, SetupStages, CleanStages, RestStages, ArrayStages, NalStates,
        FirstMainloop, Goto, Fail, Succeed,
        objectVars, memoryVars, cameraVars
<1>1. TypeOK'
  BY DEF TypeOK
<1>2. ASSUME NEW t \in Sources PROVE FileInv(t)'
  BY <1>2 DEF TypeOK, FileInv, FileStages, OneAtATime, ArrayInv
<1>3. ASSUME NEW t \in Sources PROVE ArrayInv(t)'
  BY <1>3 DEF TypeOK, FileInv, ArrayInv
<1>4. ASSUME NEW t \in Sources PROVE NalInv(t)'
  BY <1>4 DEF TypeOK, NalInv, FileStages
<1>5. ASSUME NEW t \in Sources PROVE FailureInv(t)'
  BY <1>5 DEF TypeOK, FailureInv, ArrayInv
<1>6. TriggerInv'
  <2>1. ASSUME NEW t \in Sources PROVE ~Dying(t)'
    BY <2>1 DEF TypeOK, Dying, OneAtATime
  <2>2. eventTriggerId' # 0
    OBVIOUS
  <2>3. QED
    BY <2>1, <2>2 DEF TriggerInv
<1>7. OneAtATime'
  BY DEF TypeOK, OneAtATime, Idle
<1>8. CountInv'
  <2>1. Counted' = Counted
    BY DEF TypeOK, Counted, Dying, FailureInv
  <2>2. QED
    BY <2>1 DEF CountInv
<1>9. QED
  BY <1>1, <1>2, <1>3, <1>4, <1>5, <1>6, <1>7, <1>8

\* The source is the only ready one, since it owns the camera.
LEMMA DestroyStep ==
  ASSUME IInv, NEW s \in Sources, Destroy(s)
  PROVE  IInv'
<1> USE CaptureAssumption
    DEF IInv, SetupStages, CleanStages, RestStages, ArrayStages, NalStates,
        Destroy, Goto, Fail, Succeed,
        objectVars, memoryVars, cameraVars
<1>1. TypeOK'
  <2>1. s \in Counted
    BY DEF Counted, Dying
  <2>2. referenceCount' \in Nat
    BY <2>1, CountedMember DEF CountInv
  <2>3. QED
    BY <2>2 DEF TypeOK
<1>2. ASSUME NEW t \in Sources PROVE FileInv(t)'
  BY <1>2 DEF TypeOK, FileInv, FileStages, OneAtATime, ArrayInv
<1>3. ASSUME NEW t \in Sources PROVE ArrayInv(t)'
  BY <1>3 DEF TypeOK, FileInv, ArrayInv
<1>4. ASSUME NEW t \in Sources PROVE NalInv(t)'
  BY <1>4 DEF TypeOK, NalInv, FileStages
<1>5. ASSUME NEW t \in Sources PROVE FailureInv(t)'
  BY <1>5 DEF TypeOK, FailureInv, ArrayInv
<1>6. TriggerInv'
  <2>1. ASSUME NEW t \in Sources, pc'[t] = "ready" PROVE pc[t] = "ready" /\ t # s
    BY <2>1 DEF TypeOK
  <2>2. ASSUME NEW t \in Sources, pc'[t] = "ready" PROVE FALSE
    BY <2>1, <2>2 DEF ArrayInv
  <2>3. QED
    BY <2>2 DEF TriggerInv
<1>7. OneAtATime'
  BY DEF TypeOK, OneAtATime, Idle
<1>8. CountInv'
  <2>1. Counted' = Counted \ {s} /\ s \in Counted
    BY DEF TypeOK, Counted, Dying, FailureInv
  <2>2. QED
    BY <2>1, CountedFinite, FS_RemoveElement DEF CountInv
<1>9. QED
  BY <1>1, <1>2, <1>3, <1>4, <1>5, <1>6, <1>7, <1>8

\* Streaming matters only to stages this one is past.
LEMMA StopCapturingStep ==
  ASSUME IInv, NEW s \in Sources, StopCapturing(s)
  PROVE  IInv'
<1> USE CaptureAssumption
    DEF IInv, SetupStages, CleanStages, RestStages, ArrayStages, NalStates,
        StopCapturing, Goto, Fail, Succeed,
        objectVars, memoryVars, cameraVars
<1>1. TypeOK'
  BY DEF TypeOK
<1>2. ASSUME NEW t \in Sources PROVE FileInv(t)'
  BY <1>2 DEF TypeOK, FileInv, FileStages, OneAtATime, ArrayInv
<1>3. ASSUME NEW t \in Sources PROVE ArrayInv(t)'
  BY <1>3 DEF TypeOK, FileInv, ArrayInv
<1>4. ASSUME NEW t \in Sources PROVE NalInv(t)'
  BY <1>4 DEF TypeOK, NalInv, FileStages
<1>5. ASSUME NEW t \in Sources PROVE FailureInv(t)'
  BY <1>5 DEF TypeOK, FailureInv, ArrayInv
<1>6. TriggerInv'
  <2>1. ASSUME NEW t \in Sources, pc'[t] = "ready" PROVE pc[t] = "ready"
    BY <2>1 DEF TypeOK
  <2>2. ASSUME NEW t \in Sources, Dying(t)' PROVE Dying(t)
    BY <2>2 DEF TypeOK, Dying
  <2>3. QED
    BY <2>1, <2>2 DEF TriggerInv
<1>7. OneAtATime'
  BY DEF TypeOK, OneAtATime, Idle
<1>8. CountInv'
  <2>1. Counted' = Counted
    BY DEF TypeOK, Counted, Dying, FailureInv
  <2>2. QED
    BY <2>1 DEF CountInv
<1>9. QED
  BY <1>1, <1>2, <1>3, <1>4, <1>5, <1>6, <1>7, <1>8

\* `buffers' is this encoder's own array, so no other's mapping is removed.
LEMMA UninitDeviceStep ==
  ASSUME IInv, NEW s \in Sources, UninitDevice(s)
  PROVE  IInv'
<1> USE CaptureAssumption
    DEF IInv, SetupStages, CleanStages, RestStages, ArrayStages, NalStates,
        UninitDevice, Goto, Fail, Succeed,
        objectVars, memoryVars, cameraVars
<1>1. TypeOK'
  <2>1. buffers = s
    BY DEF ArrayInv
  <2>2. mapped' \in [Sources -> SUBSET Nat]
    BY <2>1 DEF TypeOK
  <2>3. arrays' \subseteq Sources /\ cleanupErrors' \subseteq Sources
    BY DEF TypeOK
  <2>4. pc' \in [Sources -> SetupStages \cup CleanStages \cup RestStages]
    BY DEF TypeOK
  <2>5. QED
    BY <2>2, <2>3, <2>4 DEF TypeOK
<1>2. ASSUME NEW t \in Sources PROVE FileInv(t)'
  BY <1>2 DEF TypeOK, FileInv, FileStages, OneAtATime, ArrayInv
<1>3. ASSUME NEW t \in Sources PROVE ArrayInv(t)'
  BY <1>3 DEF TypeOK, FileInv, ArrayInv
<1>4. ASSUME NEW t \in Sources PROVE NalInv(t)'
  BY <1>4 DEF TypeOK, NalInv, FileStages
<1>5. ASSUME NEW t \in Sources PROVE FailureInv(t)'
  BY <1>5 DEF TypeOK, FailureInv, ArrayInv
<1>6. TriggerInv'
  <2>1. ASSUME NEW t \in Sources, pc'[t] = "ready" PROVE pc[t] = "ready"
    BY <2>1 DEF TypeOK
  <2>2. ASSUME NEW t \in Sources, Dying(t)' PROVE Dying(t)
    BY <2>2 DEF TypeOK, Dying
  <2>3. QED
    BY <2>1, <2>2 DEF TriggerInv
<1>7. OneAtATime'
  BY DEF TypeOK, OneAtATime, Idle
<1>8. CountInv'
  <2>1. Counted' = Counted
    BY DEF TypeOK, Counted, Dying, FailureInv
  <2>2. QED
    BY <2>1 DEF CountInv
<1>9. QED
  BY <1>1, <1>2, <1>3, <1>4, <1>5, <1>6, <1>7, <1>8

\* The kernel takes the camera from this source only.
LEMMA CloseDeviceStep ==
  ASSUME IInv, NEW s \in Sources, CloseDevice(s)
  PROVE  IInv'
<1> USE CaptureAssumption
    DEF IInv, SetupStages, CleanStages, RestStages, ArrayStages, NalStates,
        CloseDevice, ReleaseCamera, Goto, Fail, Succeed,
        objectVars, memoryVars, cameraVars
<1>1. TypeOK'
  BY DEF TypeOK
<1>2. ASSUME NEW t \in Sources PROVE FileInv(t)'
  BY <1>2 DEF TypeOK, FileInv, FileStages, OneAtATime, ArrayInv
<1>3. ASSUME NEW t \in Sources PROVE ArrayInv(t)'
  BY <1>3 DEF TypeOK, FileInv, ArrayInv
<1>4. ASSUME NEW t \in Sources PROVE NalInv(t)'
  BY <1>4 DEF TypeOK, NalInv, FileStages
<1>5. ASSUME NEW t \in Sources PROVE FailureInv(t)'
  BY <1>5 DEF TypeOK, FailureInv, ArrayInv
<1>6. TriggerInv'
  <2>1. ASSUME NEW t \in Sources, pc'[t] = "ready" PROVE pc[t] = "ready"
    BY <2>1 DEF TypeOK
  <2>2. ASSUME NEW t \in Sources, Dying(t)' PROVE Dying(t)
    BY <2>2 DEF TypeOK, Dying
  <2>3. QED
    BY <2>1, <2>2 DEF TriggerInv
<1>7. OneAtATime'
  BY DEF TypeOK, OneAtATime, Idle
<1>8. CountInv'
  <2>1. Counted' = Counted
    BY DEF TypeOK, Counted, Dying, FailureInv
  <2>2. QED
    BY <2>1 DEF CountInv
<1>9. QED
  BY <1>1, <1>2, <1>3, <1>4, <1>5, <1>6, <1>7, <1>8

\* The trigger is deleted only when nobody is ready.
LEMMA UnInitilizeStep ==
  ASSUME IInv, NEW s \in Sources, UnInitilize(s)
  PROVE  IInv'
<1> USE CaptureAssumption
    DEF IInv, SetupStages, CleanStages, RestStages, ArrayStages, NalStates,
        UnInitilize, ReturnFromClean, Goto, Fail, Succeed,
        objectVars, memoryVars, cameraVars
<1>1. TypeOK'
  BY DEF TypeOK
<1>2. ASSUME NEW t \in Sources PROVE FileInv(t)'
  BY <1>2 DEF TypeOK, FileInv, FileStages, OneAtATime, ArrayInv
<1>3. ASSUME NEW t \in Sources PROVE ArrayInv(t)'
  BY <1>3 DEF TypeOK, FileInv, ArrayInv
<1>4. ASSUME NEW t \in Sources PROVE NalInv(t)'
  BY <1>4 DEF TypeOK, NalInv, FileStages
<1>5. ASSUME NEW t \in Sources PROVE FailureInv(t)'
  BY <1>5 DEF TypeOK, FailureInv, ArrayInv
<1>6. TriggerInv'
  <2>1. ASSUME NEW t \in Sources, pc'[t] = "ready" PROVE pc[t] = "ready"
    BY <2>1 DEF TypeOK
  <2>2. ASSUME NEW t \in Sources, Dying(t)' PROVE FALSE
    BY <2>2 DEF TypeOK, Dying, OneAtATime
  <2>3. CASE failure[s] = "none"
    <3>1. Dying(s)
      BY <2>3 DEF Dying
    <3>2. QED
      BY <2>1, <2>2, <3>1 DEF TriggerInv
  <2>4. CASE failure[s] # "none"
    BY <2>1, <2>2, <2>4 DEF TriggerInv
  <2>5. QED
    BY <2>3, <2>4
<1>7. OneAtATime'
  BY DEF TypeOK, OneAtATime, Idle
<1>8. CountInv'
  <2>1. Counted' = Counted
    BY DEF TypeOK, Counted, Dying, FailureInv
  <2>2. QED
    BY <2>1 DEF CountInv
<1>9. QED
  BY <1>1, <1>2, <1>3, <1>4, <1>5, <1>6, <1>7, <1>8

\* The invariant is inductive.
LEMMA NextIInv == IInv /\ [Next]_vars => IInv'
<1> SUFFICES ASSUME IInv, [Next]_vars PROVE IInv'
  OBVIOUS
<1>1. ASSUME NEW s \in Sources, Setup(s) PROVE IInv'
  BY <1>1, CreateNewStep, InitilizeStep, OpenDeviceStep, InitDeviceStep,
     InitMmapStep, StartCapturingStep, FirstMainloopStep DEF Setup
<1>2. ASSUME NEW s \in Sources, Teardown(s) PROVE IInv'
  BY <1>2, DestroyStep, StopCapturingStep, UninitDeviceStep, CloseDeviceStep,
     UnInitilizeStep DEF Teardown
<1>3. CASE UNCHANGED vars
  BY <1>3 DEF vars, objectVars, memoryVars, cameraVars, IInv, TypeOK, FileInv,
     ArrayInv, NalInv, FailureInv, TriggerInv, OneAtATime, CountInv, Counted, Dying
<1>4. QED
  BY <1>1, <1>2, <1>3 DEF Next

\* IInv holds in every state, for any number of sources, NAL buffers and
\* buffer counts that the camera may grant.
THEOREM CaptureInvariant == Spec => []IInv
  BY InitIInv, NextIInv, PTL DEF Spec

-----------------------------------------------------------------------------
(* What the invariant gives *)

\* Every variable keeps its type; in particular the unsigned static
\* referenceCount never goes below zero.
THEOREM CaptureTypeOK == Spec => []TypeOK
<1>1. IInv => TypeOK
  BY DEF IInv
<1>2. QED
  BY <1>1, CaptureInvariant, PTL

\* recursiveClean never frees, unmaps or closes what is not its own, on any
\* path, however many sources there are.
THEOREM CleanupSafe == Spec => []CleanupFindsItsResources
<1>1. IInv => CleanupFindsItsResources
  BY DEF IInv, CleanupFindsItsResources, FileInv, ArrayInv, NalInv, FileStages, ArrayStages
<1>2. QED
  BY <1>1, CaptureInvariant, PTL

\* A source that was handed out keeps everything it needs to capture.
THEOREM ReadyCanCapture == Spec => []ReadySourceCanCapture
<1>1. IInv => ReadySourceCanCapture
  BY DEF IInv, ReadySourceCanCapture, FileInv, ArrayInv, NalInv, FileStages, ArrayStages
<1>2. QED
  BY <1>1, CaptureInvariant, PTL

\* The shared trigger exists while a source is set up.
THEOREM TriggerKept == Spec => []TriggerWhileReady
<1>1. IInv => TriggerWhileReady
  BY DEF IInv, TriggerInv, TriggerWhileReady
<1>2. QED
  BY <1>1, CaptureInvariant, PTL

\* A finished object keeps the camera only through mappings that a failure
\* inside init_mmap or an error of a cleaning call left behind.
THEOREM CameraReleased == Spec => []CameraIsReleased
<1>1. ASSUME IInv, NEW s \in Sources, owner = s, pc[s] \in {"absent", "failed", "deleted"}
      PROVE  mapped[s] # {} /\ (failure[s] = "init_mmap" \/ s \in cleanupErrors)
  <2>1. s \notin opened
    BY <1>1 DEF IInv, FileInv, FileStages
  <2>2. mapped[s] # {}
    BY <1>1, <2>1 DEF IInv, FileInv
  <2>3. pc[s] # "absent"
    BY <1>1, <2>2 DEF IInv, ArrayInv
  <2>4. QED
    BY <1>1, <2>2, <2>3 DEF IInv, FailureInv
<1>2. IInv => CameraIsReleased
  BY <1>1 DEF CameraIsReleased
<1>3. QED
  BY <1>2, CaptureInvariant, PTL

\* A finished object keeps nothing, short of a reported error or a failure
\* inside init_mmap.
THEOREM FinishedHoldsNothing == Spec => []FinishedSourceHoldsNothing
<1>1. IInv => FinishedSourceHoldsNothing
  BY DEF IInv, FileInv, NalInv, FailureInv, FinishedSourceHoldsNothing,
     HoldsNothing, FileStages
<1>2. QED
  BY <1>1, CaptureInvariant, PTL

\* No path, an error in the middle of munmap included, frees the array of
\* addresses before the mappings are gone.
THEOREM ArrayKept == Spec => []ArrayOutlivesMappings
<1>1. IInv => ArrayOutlivesMappings
  BY DEF IInv, ArrayInv, ArrayOutlivesMappings
<1>2. QED
  BY <1>1, CaptureInvariant, PTL

=============================================================================
