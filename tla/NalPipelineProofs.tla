------------------------- MODULE NalPipelineProofs -------------------------
(***************************************************************************)
(* Proofs about NalPipeline, for any number of NAL units per frame, of     *)
(* capture buffers and of frames.                                          *)
(*                                                                         *)
(* The two queues, read one after the other behind what was delivered,     *)
(* are the history of pushes (FifoInv), and that history consists of whole *)
(* access units (UnitInv).  Buffers are overwritten only when nothing is   *)
(* queued, except once: when the first request finds set-up's access unit  *)
(* still in the encoder's queue (PhaseInv).                                *)
(***************************************************************************)
EXTENDS NalPipeline, SequenceTheorems, TLAPS

N == MAX_NAL_COUNT

\* What was pushed is what was delivered, then the source's queue, then the
\* encoder's.
FifoInv ==
  /\ Len(pushed) = Len(delivered) + Len(nalQueue) + Len(outputQueue)
  /\ \A k \in 1..Len(delivered) : delivered[k].nal = pushed[k].nal
  /\ \A k \in 1..Len(nalQueue) : nalQueue[k] = pushed[Len(delivered) + k].nal
  /\ \A k \in 1..Len(outputQueue) :
       outputQueue[k] = pushed[Len(delivered) + Len(nalQueue) + k].nal

\* Pushes come as whole access units.
UnitInv ==
  /\ pushed # <<>> => pushed[1].nal = 1 /\ pushed[Len(pushed)].nal = N
  /\ \A k \in 1..(Len(pushed) - 1) : pushed[k + 1].nal = Successor(pushed[k].nal)

\* How many entries are where, by stage.
PhaseInv ==
  /\ caller = "setup" =>
       /\ pc \in {"select", "read_frame", "return"}
       /\ Len(delivered) = 0 /\ Len(nalQueue) = 0
       /\ Len(outputQueue) \in {0, N}
       /\ pc # "return" => Len(outputQueue) = 0
  /\ caller = "client" =>
       /\ Len(nalQueue) > 0 => Len(outputQueue) = 0
       /\ Len(nalQueue) <= N \/ Len(delivered) + Len(nalQueue) = 2 * N
       /\ pc \in {"select", "read_frame", "return"} => Len(nalQueue) = 0
       /\ pc \in {"select", "read_frame", "idle"} =>
            Len(outputQueue) = 0 \/ (Len(outputQueue) = N /\ Len(delivered) = 0)
       /\ pc = "return" =>
            \/ Len(outputQueue) \in {0, N}
            \/ Len(outputQueue) = 2 * N /\ Len(delivered) = 0
       /\ pc \in {"deliver", "aborted", "corrupted"} => Len(outputQueue) = 0

\* From the second access unit on, a queued entry's buffer still holds the
\* frame it was pushed with, and a delivered one's did.
BytesInv ==
  \A k \in 1..Len(pushed) : k > N =>
    IF k <= Len(delivered) THEN delivered[k].frame = pushed[k].frame
                           ELSE nal[pushed[k].nal] = pushed[k].frame

\* A mainloop that came back without a NAL is on record by the time it matters.
EmptyInv ==
  /\ pc = "return" /\ Len(outputQueue) = 0 => unproductive
  /\ pc = "deliver" /\ Len(nalQueue) = 0 => unproductive
  /\ pc \in {"aborted", "corrupted"} => unproductive

\* All buffers hold one frame, older than any the camera has waiting; and
\* there are no more capture buffers than were mapped.
FrameInv ==
  /\ \A i \in NalIndex : nal[i] = nal[1]
  /\ nal[1] <= captured
  /\ incoming + Len(done) <= MmapBuffers
  /\ \A k \in 1..Len(done) : nal[1] < done[k] /\ done[k] <= captured
  /\ \A j, k \in 1..Len(done) : j < k => done[j] < done[k]

\* Nothing delivered is younger than the buffers' frame or the source's time
\* stamp; while a frame's entries are queued, what was delivered of that
\* frame carries the stamp that they will carry.
ClockInv ==
  /\ currentTime <= captured
  /\ \A k \in 1..Len(delivered) :
       delivered[k].frame <= nal[1] /\ delivered[k].time <= currentTime
  /\ Len(nalQueue) > 0 =>
       /\ nal[1] <= currentTime
       /\ \A k \in 1..Len(delivered) :
            delivered[k].frame = nal[1] => delivered[k].time = currentTime

\* A captured access unit's frame was never delivered before.
FreshInv ==
  pc = "return" /\ caller = "client" /\ Len(outputQueue) > 0 =>
    \A k \in 1..Len(delivered) : delivered[k].frame < nal[1]

QueueInv == FifoInv /\ UnitInv /\ PhaseInv /\ BytesInv /\ EmptyInv

TimeInv == ClockInv /\ FreshInv /\ TimesFollowFrames

IInv == TypeOK /\ QueueInv /\ FrameInv /\ TimeInv

-----------------------------------------------------------------------------
(* Sequences *)

\* A function on the indices of an access unit is a sequence of that length.
LEMMA UnitIsSeq ==
  ASSUME NEW S, NEW u \in [NalIndex -> S]
  PROVE  u \in Seq(S) /\ Len(u) = N
<1>1. N \in Nat
  BY PipelineAssumption DEF N
<1>2. u \in Seq(S)
  BY <1>1, SeqDef DEF NalIndex, N
<1>3. DOMAIN u = 1..N /\ DOMAIN u = 1..Len(u) /\ Len(u) \in Nat
  BY <1>2, LenProperties DEF NalIndex, N
<1>4. QED
  BY <1>1, <1>2, <1>3

\* An empty sequence is one of length zero.
LEMMA EmptyIffNoLength ==
  ASSUME NEW S, NEW s \in Seq(S)
  PROVE  Len(s) \in Nat /\ (s = <<>> <=> Len(s) = 0)
BY EmptySeq, LenProperties

\* The sizes of the queues are natural numbers.
LEMMA Sizes ==
  ASSUME TypeOK
  PROVE  /\ N \in Nat \ {0} /\ MAX_NAL_COUNT = N /\ NalIndex = 1..N /\ 1 \in NalIndex
         /\ Len(done) \in Nat /\ Len(outputQueue) \in Nat /\ Len(nalQueue) \in Nat
         /\ Len(pushed) \in Nat /\ Len(delivered) \in Nat
         /\ done = <<>> <=> Len(done) = 0
         /\ outputQueue = <<>> <=> Len(outputQueue) = 0
         /\ nalQueue = <<>> <=> Len(nalQueue) = 0
         /\ pushed = <<>> <=> Len(pushed) = 0
         /\ delivered = <<>> <=> Len(delivered) = 0
<1>1. N \in Nat \ {0} /\ MAX_NAL_COUNT = N /\ NalIndex = 1..N /\ 1 \in NalIndex
  BY PipelineAssumption DEF N, NalIndex
<1>2. Len(done) \in Nat /\ (done = <<>> <=> Len(done) = 0)
  BY EmptyIffNoLength DEF TypeOK
<1>3. Len(outputQueue) \in Nat /\ (outputQueue = <<>> <=> Len(outputQueue) = 0)
  BY EmptyIffNoLength DEF TypeOK
<1>4. Len(nalQueue) \in Nat /\ (nalQueue = <<>> <=> Len(nalQueue) = 0)
  BY EmptyIffNoLength DEF TypeOK
<1>5. Len(pushed) \in Nat /\ (pushed = <<>> <=> Len(pushed) = 0)
  BY EmptyIffNoLength DEF TypeOK
<1>6. Len(delivered) \in Nat /\ (delivered = <<>> <=> Len(delivered) = 0)
  BY EmptyIffNoLength DEF TypeOK
<1>7. QED
  BY <1>1, <1>2, <1>3, <1>4, <1>5, <1>6

\* The numbers among the variables.
LEMMA Numbers ==
  ASSUME TypeOK
  PROVE  /\ captured \in Nat /\ incoming \in Nat /\ currentTime \in Nat /\ MmapBuffers \in Nat
         /\ \A i \in NalIndex : nal[i] \in Nat
         /\ \A k \in 1..Len(done) : done[k] \in Nat
         /\ \A k \in 1..Len(delivered) : delivered[k].frame \in Nat /\ delivered[k].time \in Nat
<1>1. captured \in Nat /\ incoming \in Nat /\ currentTime \in Nat /\ MmapBuffers \in Nat
  BY PipelineAssumption DEF TypeOK
<1>2. \A i \in NalIndex : nal[i] \in Nat
  BY PipelineAssumption DEF TypeOK
<1>3. \A k \in 1..Len(done) : done[k] \in Nat
  BY PipelineAssumption, ElementOfSeq DEF TypeOK
<1>4. \A k \in 1..Len(delivered) : delivered[k] \in Delivery
  BY ElementOfSeq DEF TypeOK
<1>5. QED
  BY <1>1, <1>2, <1>3, <1>4 DEF Delivery

\* Steps that move no frame, no entry and no time.
LEMMA NothingMoves ==
  ASSUME IInv, UNCHANGED <<captured, incoming, done, encoderVars, nalQueue, currentTime, delivered>>
  PROVE  FifoInv' /\ UnitInv' /\ BytesInv' /\ FrameInv' /\ ClockInv' /\ TimesFollowFrames'
<1>1. FifoInv /\ UnitInv /\ BytesInv /\ FrameInv /\ ClockInv /\ TimesFollowFrames
  BY DEF IInv, QueueInv, TimeInv
<1>2. UNCHANGED <<captured, incoming, done, nal, outputQueue, pushed, nalQueue, currentTime, delivered>>
  BY DEF encoderVars
<1>3. FifoInv'
  BY <1>1, <1>2 DEF FifoInv
<1>4. UnitInv'
  BY <1>1, <1>2 DEF UnitInv
<1>5. BytesInv'
  BY <1>1, <1>2 DEF BytesInv
<1>6. FrameInv'
  BY <1>1, <1>2 DEF FrameInv
<1>7. ClockInv'
  BY <1>1, <1>2 DEF ClockInv
<1>8. TimesFollowFrames'
  BY <1>1, <1>2 DEF TimesFollowFrames
<1>9. QED
  BY <1>3, <1>4, <1>5, <1>6, <1>7, <1>8

-----------------------------------------------------------------------------
(* The initial state and every action *)

\* Nothing is queued when set-up calls mainloop.
LEMMA InitIInv == Init => IInv
<1> SUFFICES ASSUME Init PROVE IInv
  OBVIOUS
<1>1. TypeOK
  <2>1. captured \in 0..MaxFrames /\ incoming \in 0..MmapBuffers /\ currentTime \in 0..MaxFrames
    BY PipelineAssumption DEF Init
  <2>2. nal \in [NalIndex -> 0..MaxFrames]
    BY PipelineAssumption DEF Init
  <2>3. /\ done \in Seq(1..MaxFrames) /\ outputQueue \in Seq(NalIndex) /\ nalQueue \in Seq(NalIndex)
        /\ pushed \in Seq([nal : NalIndex, frame : 1..MaxFrames]) /\ delivered \in Seq(Delivery)
    BY EmptySeq DEF Init
  <2>4. QED
    BY <2>1, <2>2, <2>3 DEF Init, TypeOK, Stages
<1>2. /\ Len(done) = 0 /\ Len(outputQueue) = 0 /\ Len(nalQueue) = 0 /\ Len(pushed) = 0
      /\ Len(delivered) = 0
  BY <1>1, Sizes DEF Init
<1>3. FifoInv /\ UnitInv /\ BytesInv
  BY <1>2, <1>1, Sizes DEF FifoInv, UnitInv, BytesInv
<1>4. PhaseInv /\ EmptyInv /\ FreshInv
  BY <1>2 DEF Init, PhaseInv, EmptyInv, FreshInv
<1>5. \A i \in NalIndex : nal[i] = 0
  BY DEF Init
<1>6. FrameInv
  BY <1>1, <1>2, <1>5, Sizes, Numbers DEF Init, FrameInv
<1>7. ClockInv /\ TimesFollowFrames
  BY <1>2 DEF Init, ClockInv, TimesFollowFrames
<1>8. QED
  BY <1>1, <1>3, <1>4, <1>6, <1>7 DEF IInv, QueueInv, TimeInv

\* The camera's absence changes no queue.
LEMMA UnplugStep ==
  ASSUME IInv, Unplug
  PROVE  IInv'
<1>1. TypeOK /\ PhaseInv /\ EmptyInv /\ FreshInv
  BY DEF IInv, QueueInv, TimeInv
<1>2. UNCHANGED <<captured, incoming, done, encoderVars, nalQueue, currentTime, delivered>>
  BY DEF Unplug, cameraVars, sourceVars
<1>3. FifoInv' /\ UnitInv' /\ BytesInv' /\ FrameInv' /\ ClockInv' /\ TimesFollowFrames'
  BY <1>2, NothingMoves
<1>4. UNCHANGED <<outputQueue, nalQueue, delivered, nal>>
  BY <1>2 DEF encoderVars
<1>5. TypeOK'
  BY <1>1 DEF Unplug, cameraVars, sourceVars, encoderVars, TypeOK, Stages
<1>6. pc \in Stages /\ caller \in {"setup", "client"}
  BY <1>1 DEF TypeOK
<1>7. PhaseInv'
  BY <1>1, <1>4, <1>6, Sizes DEF Unplug, PhaseInv, Stages
<1>8. EmptyInv'
  BY <1>1, <1>4, <1>6, Sizes DEF Unplug, EmptyInv, PhaseInv, Stages
<1>9. FreshInv'
  BY <1>1, <1>4, <1>6, Sizes DEF Unplug, FreshInv, PhaseInv
<1>10. QED
  BY <1>3, <1>5, <1>7, <1>8, <1>9 DEF IInv, QueueInv, TimeInv

\* Only the stage changes.
LEMMA SelectReadyStep ==
  ASSUME IInv, SelectReady
  PROVE  IInv'
<1>1. TypeOK /\ PhaseInv /\ EmptyInv /\ FreshInv
  BY DEF IInv, QueueInv, TimeInv
<1>2. UNCHANGED <<captured, incoming, done, encoderVars, nalQueue, currentTime, delivered>>
  BY DEF SelectReady, cameraVars, sourceVars
<1>3. FifoInv' /\ UnitInv' /\ BytesInv' /\ FrameInv' /\ ClockInv' /\ TimesFollowFrames'
  BY <1>2, NothingMoves
<1>4. UNCHANGED <<outputQueue, nalQueue, delivered, nal>>
  BY <1>2 DEF encoderVars
<1>5. TypeOK'
  BY <1>1 DEF SelectReady, cameraVars, sourceVars, encoderVars, TypeOK, Stages
<1>6. pc \in Stages /\ caller \in {"setup", "client"}
  BY <1>1 DEF TypeOK
<1>7. PhaseInv'
  BY <1>1, <1>4, <1>6, Sizes DEF SelectReady, PhaseInv, Stages
<1>8. EmptyInv'
  BY <1>1, <1>4, <1>6, Sizes DEF SelectReady, EmptyInv, PhaseInv, Stages
<1>9. FreshInv'
  BY <1>1, <1>4, <1>6, Sizes DEF SelectReady, FreshInv, PhaseInv
<1>10. QED
  BY <1>3, <1>5, <1>7, <1>8, <1>9 DEF IInv, QueueInv, TimeInv

\* The mainloop's failure goes on record.
LEMMA SelectGivesUpStep ==
  ASSUME IInv, SelectGivesUp
  PROVE  IInv'
<1>1. TypeOK /\ PhaseInv /\ EmptyInv /\ FreshInv
  BY DEF IInv, QueueInv, TimeInv
<1>2. UNCHANGED <<captured, incoming, done, encoderVars, nalQueue, currentTime, delivered>>
  BY DEF SelectGivesUp, cameraVars, sourceVars
<1>3. FifoInv' /\ UnitInv' /\ BytesInv' /\ FrameInv' /\ ClockInv' /\ TimesFollowFrames'
  BY <1>2, NothingMoves
<1>4. UNCHANGED <<outputQueue, nalQueue, delivered, nal>>
  BY <1>2 DEF encoderVars
<1>5. TypeOK'
  BY <1>1 DEF SelectGivesUp, cameraVars, sourceVars, encoderVars, TypeOK, Stages
<1>6. pc \in Stages /\ caller \in {"setup", "client"}
  BY <1>1 DEF TypeOK
<1>7. PhaseInv'
  BY <1>1, <1>4, <1>6, Sizes DEF SelectGivesUp, PhaseInv, Stages
<1>8. EmptyInv'
  BY <1>1, <1>4, <1>6, Sizes DEF SelectGivesUp, EmptyInv, PhaseInv, Stages
<1>9. FreshInv'
  BY <1>1, <1>4, <1>6, Sizes DEF SelectGivesUp, FreshInv, PhaseInv
<1>10. QED
  BY <1>3, <1>5, <1>7, <1>8, <1>9 DEF IInv, QueueInv, TimeInv

\* Only the stage and errno change.
LEMMA ReadFrameFailsStep ==
  ASSUME IInv, ReadFrameFails
  PROVE  IInv'
<1>1. TypeOK /\ PhaseInv /\ EmptyInv /\ FreshInv
  BY DEF IInv, QueueInv, TimeInv
<1>2. UNCHANGED <<captured, incoming, done, encoderVars, nalQueue, currentTime, delivered>>
  BY DEF ReadFrameFails, cameraVars, sourceVars
<1>3. FifoInv' /\ UnitInv' /\ BytesInv' /\ FrameInv' /\ ClockInv' /\ TimesFollowFrames'
  BY <1>2, NothingMoves
<1>4. UNCHANGED <<outputQueue, nalQueue, delivered, nal>>
  BY <1>2 DEF encoderVars
<1>5. TypeOK'
  BY <1>1 DEF ReadFrameFails, cameraVars, sourceVars, encoderVars, TypeOK, Stages
<1>6. pc \in Stages /\ caller \in {"setup", "client"}
  BY <1>1 DEF TypeOK
<1>7. PhaseInv'
  BY <1>1, <1>4, <1>6, Sizes DEF ReadFrameFails, PhaseInv, Stages
<1>8. EmptyInv'
  BY <1>1, <1>4, <1>6, Sizes DEF ReadFrameFails, EmptyInv, PhaseInv, Stages
<1>9. FreshInv'
  BY <1>1, <1>4, <1>6, Sizes DEF ReadFrameFails, FreshInv, PhaseInv
<1>10. QED
  BY <1>3, <1>5, <1>7, <1>8, <1>9 DEF IInv, QueueInv, TimeInv

\* Set-up's access unit, if there is one, waits in the encoder's queue.
LEMMA SetupReturnsStep ==
  ASSUME IInv, SetupReturns
  PROVE  IInv'
<1>1. TypeOK /\ PhaseInv /\ EmptyInv /\ FreshInv
  BY DEF IInv, QueueInv, TimeInv
<1>2. UNCHANGED <<captured, incoming, done, encoderVars, nalQueue, currentTime, delivered>>
  BY DEF SetupReturns, cameraVars, sourceVars
<1>3. FifoInv' /\ UnitInv' /\ BytesInv' /\ FrameInv' /\ ClockInv' /\ TimesFollowFrames'
  BY <1>2, NothingMoves
<1>4. UNCHANGED <<outputQueue, nalQueue, delivered, nal>>
  BY <1>2 DEF encoderVars
<1>5. TypeOK'
  BY <1>1 DEF SetupReturns, cameraVars, sourceVars, encoderVars, TypeOK, Stages
<1>6. pc \in Stages /\ caller \in {"setup", "client"}
  BY <1>1 DEF TypeOK
<1>7. PhaseInv'
  BY <1>1, <1>4, <1>6, Sizes DEF SetupReturns, PhaseInv, Stages
<1>8. EmptyInv'
  BY <1>1, <1>4, <1>6, Sizes DEF SetupReturns, EmptyInv, PhaseInv, Stages
<1>9. FreshInv'
  BY <1>1, <1>4, <1>6, Sizes DEF SetupReturns, FreshInv, PhaseInv
<1>10. QED
  BY <1>3, <1>5, <1>7, <1>8, <1>9 DEF IInv, QueueInv, TimeInv

\* A request with an empty queue captures; with entries left it delivers.
LEMMA GetNextFrameStep ==
  ASSUME IInv, GetNextFrame
  PROVE  IInv'
<1>1. TypeOK /\ PhaseInv /\ EmptyInv /\ FreshInv
  BY DEF IInv, QueueInv, TimeInv
<1>2. UNCHANGED <<captured, incoming, done, encoderVars, nalQueue, currentTime, delivered>>
  BY DEF GetNextFrame, cameraVars, sourceVars
<1>3. FifoInv' /\ UnitInv' /\ BytesInv' /\ FrameInv' /\ ClockInv' /\ TimesFollowFrames'
  BY <1>2, NothingMoves
<1>4. UNCHANGED <<outputQueue, nalQueue, delivered, nal>>
  BY <1>2 DEF encoderVars
<1>5. TypeOK'
  BY <1>1 DEF GetNextFrame, cameraVars, sourceVars, encoderVars, TypeOK, Stages
<1>6. pc \in Stages /\ caller \in {"setup", "client"}
  BY <1>1 DEF TypeOK
<1>7. PhaseInv'
  BY <1>1, <1>4, <1>6, Sizes DEF GetNextFrame, PhaseInv, Stages
<1>8. EmptyInv'
  BY <1>1, <1>4, <1>6, Sizes DEF GetNextFrame, EmptyInv, PhaseInv, Stages
<1>9. FreshInv'
  BY <1>1, <1>4, <1>6, Sizes DEF GetNextFrame, FreshInv, PhaseInv
<1>10. QED
  BY <1>3, <1>5, <1>7, <1>8, <1>9 DEF IInv, QueueInv, TimeInv

\* Nothing is delivered.
LEMMA DeliverFromEmptyQueueStep ==
  ASSUME IInv, DeliverFromEmptyQueue
  PROVE  IInv'
<1>1. TypeOK /\ PhaseInv /\ EmptyInv /\ FreshInv
  BY DEF IInv, QueueInv, TimeInv
<1>2. UNCHANGED <<captured, incoming, done, encoderVars, nalQueue, currentTime, delivered>>
  BY DEF DeliverFromEmptyQueue, cameraVars, sourceVars
<1>3. FifoInv' /\ UnitInv' /\ BytesInv' /\ FrameInv' /\ ClockInv' /\ TimesFollowFrames'
  BY <1>2, NothingMoves
<1>4. UNCHANGED <<outputQueue, nalQueue, delivered, nal>>
  BY <1>2 DEF encoderVars
<1>5. TypeOK'
  BY <1>1 DEF DeliverFromEmptyQueue, cameraVars, sourceVars, encoderVars, TypeOK, Stages
<1>6. pc \in Stages /\ caller \in {"setup", "client"}
  BY <1>1 DEF TypeOK
<1>7. PhaseInv'
  BY <1>1, <1>4, <1>6, Sizes DEF DeliverFromEmptyQueue, PhaseInv, Stages
<1>8. EmptyInv'
  BY <1>1, <1>4, <1>6, Sizes DEF DeliverFromEmptyQueue, EmptyInv, PhaseInv, Stages
<1>9. FreshInv'
  BY <1>1, <1>4, <1>6, Sizes DEF DeliverFromEmptyQueue, FreshInv, PhaseInv
<1>10. QED
  BY <1>3, <1>5, <1>7, <1>8, <1>9 DEF IInv, QueueInv, TimeInv

\* The new frame is younger than all others.
LEMMA CaptureStep ==
  ASSUME IInv, Capture
  PROVE  IInv'
<1>1. TypeOK /\ QueueInv /\ FrameInv /\ ClockInv /\ FreshInv /\ TimesFollowFrames
  BY DEF IInv, TimeInv
<1>2. UNCHANGED <<dead, pc, caller, errno, nal, outputQueue, pushed, nalQueue, currentTime,
                  awaiting, delivered, unproductive>>
  BY DEF Capture, encoderVars, sourceVars
<1>3. captured' = captured + 1 /\ captured' \in 0..MaxFrames /\ captured \in Nat
  BY <1>1, PipelineAssumption DEF Capture, TypeOK
<1>4. /\ incoming' \in 0..MmapBuffers
      /\ done' \in Seq(1..MaxFrames)
      /\ incoming' + Len(done') <= MmapBuffers
      /\ \A k \in 1..Len(done') : \/ k \in 1..Len(done) /\ done'[k] = done[k]
                                  \/ k = Len(done) + 1 /\ done'[k] = captured + 1
  <2>1. incoming + Len(done) <= MmapBuffers
    BY <1>1 DEF FrameInv
  <2>2. CASE incoming > 0 /\ incoming' = incoming - 1 /\ done' = Append(done, captured + 1)
    <3>1. captured + 1 \in 1..MaxFrames /\ done \in Seq(1..MaxFrames)
      BY <1>1, <1>3 DEF TypeOK
    <3>2. /\ done' \in Seq(1..MaxFrames)
          /\ Len(done') = Len(done) + 1
          /\ \A k \in 1..Len(done) : done'[k] = done[k]
          /\ done'[Len(done) + 1] = captured + 1
      BY <2>2, <3>1, AppendProperties
    <3>3. incoming' \in 0..MmapBuffers
      BY <1>1, <2>2, PipelineAssumption DEF TypeOK
    <3>4. Len(done) \in Nat /\ incoming \in Nat /\ MmapBuffers \in Nat
      BY <1>1, Sizes, Numbers
    <3>5. incoming' + Len(done') <= MmapBuffers
      BY <2>1, <2>2, <3>2, <3>4
    <3>6. \A k \in 1..Len(done') : k \in 1..Len(done) \/ k = Len(done) + 1
      BY <3>2, <3>4
    <3>7. QED
      BY <3>2, <3>3, <3>5, <3>6
  <2>3. CASE UNCHANGED <<incoming, done>>
    BY <1>1, <2>1, <2>3, Sizes DEF TypeOK
  <2>4. QED
    BY <2>2, <2>3 DEF Capture
<1>5. TypeOK'
  BY <1>1, <1>2, <1>3, <1>4 DEF TypeOK
<1>6. QueueInv'
  BY <1>1, <1>2 DEF QueueInv, FifoInv, UnitInv, PhaseInv, BytesInv, EmptyInv
<1>7. FrameInv'
  <2>1. nal[1] \in Nat /\ nal[1] <= captured /\ \A i \in NalIndex : nal[i] = nal[1]
    BY <1>1, Sizes, Numbers DEF FrameInv
  <2>2. \A k \in 1..Len(done) : done[k] \in Nat /\ nal[1] < done[k] /\ done[k] <= captured
    BY <1>1, Numbers DEF FrameInv
  <2>3. \A k \in 1..Len(done') : nal'[1] < done'[k] /\ done'[k] <= captured'
    BY <1>2, <1>3, <1>4, <2>1, <2>2
  <2>4. ASSUME NEW j \in 1..Len(done'), NEW k \in 1..Len(done'), j < k
        PROVE  done'[j] < done'[k]
    <3>1. j \in 1..Len(done) /\ done'[j] = done[j]
      BY <1>1, <1>4, <2>4, Sizes
    <3>2. CASE k \in 1..Len(done) /\ done'[k] = done[k]
      BY <1>1, <2>4, <3>1, <3>2 DEF FrameInv
    <3>3. CASE done'[k] = captured + 1
      BY <1>3, <2>2, <3>1, <3>3
    <3>4. QED
      BY <1>4, <3>2, <3>3
  <2>5. QED
    BY <1>2, <1>3, <1>4, <2>1, <2>3, <2>4 DEF FrameInv
<1>8. ClockInv'
  BY <1>1, <1>2, <1>3, Numbers DEF ClockInv
<1>9. FreshInv' /\ TimesFollowFrames'
  BY <1>1, <1>2 DEF FreshInv, TimesFollowFrames
<1>10. QED
  BY <1>5, <1>6, <1>7, <1>8, <1>9 DEF IInv, TimeInv

\* The encoder's entries go to the end of the source's empty queue.
LEMMA EncodeNewFrameStep ==
  ASSUME IInv, EncodeNewFrame
  PROVE  IInv'
<1>1. /\ TypeOK /\ FifoInv /\ UnitInv /\ PhaseInv /\ BytesInv /\ EmptyInv /\ FrameInv
      /\ ClockInv /\ FreshInv /\ TimesFollowFrames
  BY DEF IInv, QueueInv, TimeInv
<1>2. UNCHANGED <<captured, incoming, done, dead, caller, errno, nal, pushed, awaiting,
                  delivered, unproductive>>
  BY DEF EncodeNewFrame, cameraVars
<1>3. pc = "return" /\ caller = "client" /\ pc' = "deliver" /\ currentTime' = captured
  BY DEF EncodeNewFrame
<1>4. Len(nalQueue) = 0 /\ nalQueue = <<>>
  BY <1>1, <1>3, Sizes DEF PhaseInv
<1>5. nalQueue' = outputQueue /\ outputQueue' = <<>>
  BY <1>1, <1>4, ConcatEmptySeq DEF EncodeNewFrame, TypeOK
<1>6. Len(outputQueue') = 0 /\ Len(nalQueue') = Len(outputQueue)
  BY <1>5, EmptySeq
<1>7. TypeOK'
  BY <1>1, <1>2, <1>3, <1>5 DEF TypeOK, Stages
<1>8. FifoInv'
  BY <1>1, <1>2, <1>4, <1>5, <1>6, Sizes DEF FifoInv
<1>9. UnitInv' /\ BytesInv' /\ FrameInv' /\ TimesFollowFrames'
  BY <1>1, <1>2 DEF UnitInv, BytesInv, FrameInv, TimesFollowFrames
<1>10. PhaseInv'
  BY <1>1, <1>2, <1>3, <1>6, Sizes DEF PhaseInv
<1>11. EmptyInv' /\ FreshInv'
  BY <1>1, <1>2, <1>3, <1>6 DEF EmptyInv, FreshInv
<1>12. ClockInv'
  <2>1. nal[1] \in Nat /\ nal[1] <= captured /\ currentTime <= captured
    BY <1>1, Sizes, Numbers DEF FrameInv, ClockInv
  <2>2. \A k \in 1..Len(delivered) :
          delivered[k].frame <= nal[1] /\ delivered[k].time <= captured
    BY <1>1, <2>1, Numbers DEF ClockInv
  <2>3. Len(outputQueue) > 0 => \A k \in 1..Len(delivered) : delivered[k].frame # nal[1]
    BY <1>1, <1>3, <2>1, Numbers DEF FreshInv
  <2>4. QED
    BY <1>1, <1>2, <1>3, <1>6, <2>1, <2>2, <2>3, Numbers DEF ClockInv
<1>13. QED
  BY <1>7, <1>8, <1>9, <1>10, <1>11, <1>12 DEF IInv, QueueInv, TimeInv

\* The head of the source's queue becomes the last delivery.
LEMMA DeliverFrameStep ==
  ASSUME IInv, DeliverFrame
  PROVE  IInv'
<1> DEFINE d == [nal |-> Head(nalQueue), frame |-> nal[Head(nalQueue)], time |-> currentTime]
<1>1. /\ TypeOK /\ FifoInv /\ UnitInv /\ PhaseInv /\ BytesInv /\ EmptyInv /\ FrameInv
      /\ ClockInv /\ FreshInv /\ TimesFollowFrames
  BY DEF IInv, QueueInv, TimeInv
<1>2. UNCHANGED <<captured, incoming, done, dead, caller, errno, nal, outputQueue, pushed,
                  currentTime, unproductive>>
  BY DEF DeliverFrame, cameraVars, encoderVars
<1>3. /\ pc = "deliver" /\ pc' = "idle" /\ awaiting' = FALSE
      /\ Len(nalQueue) \in Nat \ {0} /\ Len(delivered) \in Nat
  BY <1>1, Sizes DEF DeliverFrame
<1>4. /\ Head(nalQueue) \in NalIndex
      /\ Head(nalQueue) = nalQueue[1]
      /\ nalQueue' \in Seq(NalIndex)
      /\ Len(nalQueue') = Len(nalQueue) - 1
      /\ \A k \in 1..Len(nalQueue') : nalQueue'[k] = nalQueue[k + 1]
  BY <1>1, HeadTailProperties DEF DeliverFrame, TypeOK
<1>5. d \in Delivery
  BY <1>1, <1>4, Numbers DEF Delivery
<1>6. /\ d.nal = nalQueue[1] /\ d.frame = nal[1] /\ d.time = currentTime
      /\ nal[1] \in Nat /\ currentTime \in Nat
  BY <1>1, <1>4, Sizes, Numbers DEF FrameInv
<1>7. delivered' = Append(delivered, d)
  BY DEF DeliverFrame
<1> HIDE DEF d
<1>8. /\ delivered' \in Seq(Delivery)
      /\ Len(delivered') = Len(delivered) + 1
      /\ \A k \in 1..Len(delivered) : delivered'[k] = delivered[k]
      /\ delivered'[Len(delivered) + 1] = d
  BY <1>1, <1>5, <1>7, AppendProperties DEF TypeOK
<1>9. \A k \in 1..Len(delivered') : k \in 1..Len(delivered) \/ k = Len(delivered) + 1
  BY <1>3, <1>8
<1>10. TypeOK'
  BY <1>1, <1>2, <1>3, <1>4, <1>8 DEF TypeOK, Stages
<1>11. FifoInv'
  <2>1. Len(pushed') = Len(delivered') + Len(nalQueue') + Len(outputQueue')
    <3>1. Len(pushed) = Len(delivered) + Len(nalQueue) + Len(outputQueue)
      BY <1>1 DEF FifoInv
    <3>2. Len(pushed) \in Nat /\ Len(outputQueue) \in Nat
      BY <1>1, Sizes
    <3>3. Len(pushed') = Len(pushed) /\ Len(outputQueue') = Len(outputQueue)
      BY <1>2
    <3>4. QED
      BY <1>3, <1>4, <1>8, <3>1, <3>2, <3>3
  <2>2. \A k \in 1..Len(delivered') : delivered'[k].nal = pushed'[k].nal
    BY <1>1, <1>2, <1>3, <1>6, <1>8, <1>9 DEF FifoInv
  <2>3. ASSUME NEW k \in 1..Len(nalQueue')
        PROVE  nalQueue'[k] = pushed'[Len(delivered') + k].nal
    <3>1. k + 1 \in 1..Len(nalQueue) /\ Len(delivered') + k = Len(delivered) + (k + 1)
      BY <1>3, <1>4, <1>8
    <3>2. QED
      BY <1>1, <1>2, <1>4, <3>1 DEF FifoInv
  <2>4. Len(delivered') + Len(nalQueue') = Len(delivered) + Len(nalQueue)
    BY <1>3, <1>4, <1>8
  <2>5. QED
    BY <1>1, <1>2, <2>1, <2>2, <2>3, <2>4 DEF FifoInv
<1>12. UnitInv' /\ FrameInv'
  BY <1>1, <1>2 DEF UnitInv, FrameInv
<1>13. PhaseInv'
  BY <1>1, <1>2, <1>3, <1>4, <1>8, Sizes DEF PhaseInv
<1>14. BytesInv'
  <2>1. SUFFICES ASSUME NEW k \in 1..Len(pushed), k > N, k = Len(delivered) + 1
                 PROVE  d.frame = pushed[k].frame
    <3>1. \A k \in 1..Len(pushed) : k <= Len(delivered') =>
            k = Len(delivered) + 1 \/ (k \in 1..Len(delivered) /\ k <= Len(delivered))
      BY <1>1, <1>3, <1>8, Sizes
    <3>2. \A k \in 1..Len(pushed) : ~(k <= Len(delivered')) => ~(k <= Len(delivered))
      BY <1>1, <1>3, <1>8, Sizes
    <3>3. QED
      BY <1>1, <1>2, <1>8, <2>1, <3>1, <3>2 DEF BytesInv
  <2>2. pushed[k].nal = nalQueue[1]
    BY <1>1, <1>3, <2>1 DEF FifoInv
  <2>3. ~(k <= Len(delivered))
    BY <1>3, <2>1
  <2>4. nal[nalQueue[1]] = pushed[k].frame
    BY <1>1, <2>1, <2>2, <2>3 DEF BytesInv
  <2>5. QED
    BY <1>1, <2>4, <1>4, <1>6 DEF FrameInv
<1>15. EmptyInv' /\ FreshInv'
  BY <1>1, <1>2, <1>3 DEF EmptyInv, FreshInv
<1>16. /\ nal[1] <= currentTime
       /\ \A k \in 1..Len(delivered) :
            /\ delivered[k].frame <= d.frame /\ delivered[k].time <= d.time
            /\ delivered[k].frame = d.frame => delivered[k].time = d.time
  BY <1>1, <1>3, <1>6 DEF ClockInv
<1>17. ClockInv'
  <2>1. \A k \in 1..Len(delivered') :
          /\ delivered'[k].frame <= nal[1] /\ delivered'[k].time <= currentTime
          /\ delivered'[k].frame = nal[1] => delivered'[k].time = currentTime
    BY <1>6, <1>8, <1>9, <1>16
  <2>2. QED
    BY <1>1, <1>2, <1>16, <2>1 DEF ClockInv
<1>18. TimesFollowFrames'
  <2>1. SUFFICES ASSUME NEW j \in 1..Len(delivered'), NEW k \in 1..Len(delivered')
                 PROVE  /\ delivered'[k].time >= delivered'[k].frame
                        /\ j < k => /\ delivered'[j].frame <= delivered'[k].frame
                                    /\ delivered'[j].time <= delivered'[k].time
                        /\ delivered'[j].frame = delivered'[k].frame =>
                             delivered'[j].time = delivered'[k].time
    BY DEF TimesFollowFrames
  <2>2. CASE j \in 1..Len(delivered) /\ k \in 1..Len(delivered)
    BY <1>1, <1>8, <2>2 DEF TimesFollowFrames
  <2>3. CASE j \in 1..Len(delivered) /\ k = Len(delivered) + 1
    BY <1>6, <1>8, <1>16, <2>3
  <2>4. CASE j = Len(delivered) + 1 /\ k \in 1..Len(delivered)
    <3>1. ~(j < k)
      BY <1>3, <2>4
    <3>2. delivered[k].time >= delivered[k].frame
      BY <1>1, <2>4 DEF TimesFollowFrames
    <3>3. QED
      BY <1>8, <1>16, <2>4, <3>1, <3>2
  <2>5. CASE j = Len(delivered) + 1 /\ k = Len(delivered) + 1
    BY <1>3, <1>6, <1>8, <1>16, <2>5
  <2>6. QED
    BY <1>9, <2>2, <2>3, <2>4, <2>5
<1>19. QED
  BY <1>10, <1>11, <1>12, <1>13, <1>14, <1>15, <1>17, <1>18 DEF IInv, QueueInv, TimeInv

\* A new access unit is pushed when nothing is queued, or only set-up's unit is.
LEMMA ReadFrameStep ==
  ASSUME IInv, ReadFrame
  PROVE  IInv'
<1> DEFINE Push == [nal : NalIndex, frame : 1..MaxFrames]
<1>1. /\ TypeOK /\ FifoInv /\ UnitInv /\ PhaseInv /\ BytesInv /\ EmptyInv /\ FrameInv
      /\ ClockInv /\ FreshInv /\ TimesFollowFrames
  BY DEF IInv, QueueInv, TimeInv
<1>2. UNCHANGED <<captured, dead, caller, errno, nalQueue, currentTime, awaiting, delivered>>
  BY DEF ReadFrame, sourceVars
<1>3. pc = "read_frame" /\ pc' = "return" /\ caller \in {"setup", "client"}
  BY <1>1 DEF ReadFrame, TypeOK
<1>4. /\ Head(done) \in 1..MaxFrames
      /\ Head(done) = done[1]
      /\ done' \in Seq(1..MaxFrames)
      /\ Len(done') = Len(done) - 1
      /\ \A k \in 1..Len(done') : done'[k] = done[k + 1]
  <2>1. done \in Seq(1..MaxFrames) /\ done # <<>> /\ done' = Tail(done)
    BY <1>1 DEF ReadFrame, TypeOK
  <2>2. /\ Head(done) \in 1..MaxFrames
        /\ done' \in Seq(1..MaxFrames)
        /\ Len(done') = Len(done) - 1
        /\ \A k \in 1..Len(done') : done'[k] = done[k + 1]
    BY <2>1, HeadTailProperties
  <2>3. Head(done) = done[1]
    BY <2>1
  <2>4. QED
    BY <2>2, <2>3
<1>5. Len(done) \in Nat \ {0}
  BY <1>1, Sizes DEF ReadFrame
<1>6. /\ nal[1] < done[1] /\ done[1] <= captured /\ nal[1] \in Nat /\ done[1] \in Nat
      /\ captured \in Nat
  BY <1>1, <1>5, Sizes, Numbers DEF FrameInv
<1>7. incoming' \in 0..MmapBuffers /\ incoming' + Len(done') <= MmapBuffers
  <2>1. incoming \in Nat /\ MmapBuffers \in Nat /\ incoming + Len(done) <= MmapBuffers
    BY <1>1, Numbers DEF FrameInv
  <2>2. incoming' \in {incoming, incoming + 1}
    BY DEF ReadFrame
  <2>3. QED
    BY <1>4, <1>5, <2>1, <2>2
<1>8. /\ \A k \in 1..Len(done') : done[1] < done'[k] /\ done'[k] <= captured
      /\ \A j, k \in 1..Len(done') : j < k => done'[j] < done'[k]
  <2>1. ASSUME NEW k \in 1..Len(done')
        PROVE  done[1] < done'[k] /\ done'[k] <= captured
    <3>1. k + 1 \in 1..Len(done) /\ 1 \in 1..Len(done) /\ 1 < k + 1
      BY <1>4, <1>5
    <3>2. QED
      BY <1>1, <1>4, <3>1 DEF FrameInv
  <2>2. ASSUME NEW j \in 1..Len(done'), NEW k \in 1..Len(done'), j < k
        PROVE  done'[j] < done'[k]
    <3>1. j + 1 \in 1..Len(done) /\ k + 1 \in 1..Len(done) /\ j + 1 < k + 1
      BY <1>4, <1>5, <2>2
    <3>2. QED
      BY <1>1, <1>4, <3>1 DEF FrameInv
  <2>3. QED
    BY <2>1, <2>2
<1>9. CASE unproductive' = TRUE /\ UNCHANGED encoderVars
  <2>1. UNCHANGED <<nal, outputQueue, pushed>>
    BY <1>9 DEF encoderVars
  <2>2. TypeOK'
    BY <1>1, <1>2, <1>3, <1>4, <1>7, <1>9, <2>1 DEF TypeOK, Stages
  <2>3. FifoInv' /\ UnitInv' /\ BytesInv' /\ TimesFollowFrames'
    BY <1>1, <1>2, <2>1 DEF FifoInv, UnitInv, BytesInv, TimesFollowFrames
  <2>4. PhaseInv'
    BY <1>1, <1>2, <1>3, <2>1, Sizes DEF PhaseInv
  <2>5. EmptyInv'
    BY <1>3, <1>9 DEF EmptyInv
  <2>6. FrameInv'
    <3>1. \A k \in 1..Len(done') : nal[1] < done'[k]
      BY <1>1, <1>4, <1>5, <1>6, <1>8 DEF FrameInv
    <3>2. QED
      BY <1>1, <1>2, <1>7, <1>8, <2>1, <3>1 DEF FrameInv
  <2>7. ClockInv'
    BY <1>1, <1>2, <2>1 DEF ClockInv
  <2>8. FreshInv'
    BY <1>1, <1>2, <1>3, <2>1, Sizes DEF FreshInv, PhaseInv
  <2>9. QED
    BY <2>2, <2>3, <2>4, <2>5, <2>6, <2>7, <2>8 DEF IInv, QueueInv, TimeInv
<1>10. CASE Yuyv(Head(done)) /\ UNCHANGED unproductive
  <2> DEFINE unit == [i \in NalIndex |-> i]
             units == [i \in NalIndex |-> [nal |-> i, frame |-> Head(done)]]
  <2>1. unit \in Seq(NalIndex) /\ Len(unit) = N
    BY UnitIsSeq
  <2>2. units \in Seq(Push) /\ Len(units) = N
    <3>1. units \in [NalIndex -> Push]
      BY <1>4
    <3>2. QED
      BY <3>1, UnitIsSeq
  <2>3. /\ \A i \in NalIndex : unit[i] = i
        /\ \A i \in NalIndex : units[i].nal = i /\ units[i].frame = done[1]
    BY <1>4
  <2>4. outputQueue' = outputQueue \o unit /\ pushed' = pushed \o units
    BY <1>10 DEF Yuyv
  <2>5. /\ \A i \in NalIndex : nal'[i] = done[1]
        /\ nal' \in [NalIndex -> 0..MaxFrames]
        /\ UNCHANGED unproductive
    BY <1>4, <1>10 DEF Yuyv
  <2> HIDE DEF unit, units
  <2>6. /\ N \in Nat \ {0} /\ NalIndex = 1..N
        /\ Len(outputQueue) \in Nat /\ Len(nalQueue) \in Nat /\ Len(pushed) \in Nat
        /\ Len(delivered) \in Nat
    BY <1>1, Sizes
  <2>7. /\ outputQueue' \in Seq(NalIndex)
        /\ Len(outputQueue') = Len(outputQueue) + N
        /\ \A k \in 1..(Len(outputQueue) + N) : outputQueue'[k] =
             IF k <= Len(outputQueue) THEN outputQueue[k] ELSE unit[k - Len(outputQueue)]
    BY <1>1, <2>1, <2>4, ConcatProperties DEF TypeOK
  <2>8. /\ \A k \in 1..Len(outputQueue) : outputQueue'[k] = outputQueue[k]
        /\ \A i \in 1..N : outputQueue'[Len(outputQueue) + i] = i
    <3>1. ASSUME NEW k \in 1..Len(outputQueue) PROVE outputQueue'[k] = outputQueue[k]
      BY <2>6, <2>7
    <3>2. ASSUME NEW i \in 1..N PROVE outputQueue'[Len(outputQueue) + i] = i
      <4>1. /\ Len(outputQueue) + i \in 1..(Len(outputQueue) + N)
            /\ ~(Len(outputQueue) + i <= Len(outputQueue))
            /\ (Len(outputQueue) + i) - Len(outputQueue) = i
        BY <2>6
      <4>2. outputQueue'[Len(outputQueue) + i] = unit[i]
        BY <4>1, <2>7
      <4>3. QED
        BY <4>2, <2>3, <2>6
    <3>3. QED
      BY <3>1, <3>2
  <2>9. /\ pushed' \in Seq(Push)
        /\ Len(pushed') = Len(pushed) + N
        /\ \A k \in 1..(Len(pushed) + N) : pushed'[k] =
             IF k <= Len(pushed) THEN pushed[k] ELSE units[k - Len(pushed)]
    BY <1>1, <2>2, <2>4, ConcatProperties DEF TypeOK
  <2>10. /\ \A k \in 1..Len(pushed) : pushed'[k] = pushed[k]
         /\ \A i \in 1..N : /\ pushed'[Len(pushed) + i].nal = i
                            /\ pushed'[Len(pushed) + i].frame = done[1]
    <3>1. ASSUME NEW k \in 1..Len(pushed) PROVE pushed'[k] = pushed[k]
      <4>1. k \in 1..(Len(pushed) + N) /\ k <= Len(pushed)
        BY <2>6
      <4>2. QED
        BY <2>9, <4>1
    <3>2. ASSUME NEW i \in 1..N
          PROVE  pushed'[Len(pushed) + i].nal = i /\ pushed'[Len(pushed) + i].frame = done[1]
      <4>1. /\ Len(pushed) + i \in 1..(Len(pushed) + N)
            /\ ~(Len(pushed) + i <= Len(pushed))
            /\ (Len(pushed) + i) - Len(pushed) = i
        BY <2>6
      <4>2. pushed'[Len(pushed) + i] = units[i]
        BY <4>1, <2>9
      <4>3. QED
        BY <4>2, <2>3, <2>6
    <3>3. QED
      BY <3>1, <3>2
  <2>11. /\ Len(nalQueue) = 0
         /\ Len(outputQueue) = 0 \/ (Len(outputQueue) = N /\ Len(delivered) = 0)
         /\ Len(pushed) = Len(delivered) + Len(outputQueue)
         /\ caller = "setup" => Len(outputQueue) = 0 /\ Len(delivered) = 0
    BY <1>1, <1>3, <2>6 DEF PhaseInv, FifoInv
  <2>12. \A k \in 1..Len(pushed') :
           \/ k \in 1..Len(pushed)
           \/ k - Len(pushed) \in 1..N /\ k = Len(pushed) + (k - Len(pushed))
    BY <2>6, <2>9
  <2>13. TypeOK'
    BY <1>1, <1>2, <1>3, <1>4, <1>7, <2>5, <2>7, <2>9 DEF TypeOK, Stages
  <2>14. FifoInv'
    <3>1. Len(pushed') = Len(delivered') + Len(nalQueue') + Len(outputQueue')
      BY <1>2, <2>6, <2>7, <2>9, <2>11
    <3>2. \A k \in 1..Len(delivered') : delivered'[k].nal = pushed'[k].nal
      <4>1. \A k \in 1..Len(delivered) : k \in 1..Len(pushed)
        BY <2>6, <2>11
      <4>2. QED
        BY <1>1, <1>2, <2>10, <4>1 DEF FifoInv
    <3>3. \A k \in 1..Len(nalQueue') : nalQueue'[k] = pushed'[Len(delivered') + k].nal
      BY <1>2, <2>11
    <3>4. ASSUME NEW k \in 1..Len(outputQueue')
          PROVE  outputQueue'[k] = pushed'[Len(delivered') + Len(nalQueue') + k].nal
      <4>1. Len(delivered') + Len(nalQueue') + k = Len(delivered) + k
        BY <1>2, <2>6, <2>11, <2>7
      <4>2. CASE k <= Len(outputQueue)
        <5>1. k \in 1..Len(outputQueue) /\ Len(delivered) + k \in 1..Len(pushed)
          BY <2>6, <2>11, <4>2
        <5>2. outputQueue[k] = pushed[Len(delivered) + k].nal
          <6>1. Len(delivered) + Len(nalQueue) + k = Len(delivered) + k
            BY <2>6, <2>11
          <6>2. QED
            BY <1>1, <5>1, <6>1 DEF FifoInv
        <5>3. QED
          BY <2>8, <2>10, <4>1, <5>1, <5>2
      <4>3. CASE k > Len(outputQueue)
        <5>1. PICK i \in 1..N : k = Len(outputQueue) + i
          <6>1. k - Len(outputQueue) \in 1..N /\ k = Len(outputQueue) + (k - Len(outputQueue))
            BY <2>6, <2>7, <4>3
          <6>2. QED
            BY <6>1
        <5>2. Len(delivered) + k = Len(pushed) + i
          BY <2>6, <2>11, <5>1
        <5>3. QED
          BY <2>8, <2>10, <4>1, <5>1, <5>2
      <4>4. QED
        BY <2>6, <2>7, <4>2, <4>3
    <3>5. QED
      BY <3>1, <3>2, <3>3, <3>4 DEF FifoInv
  <2>15. UnitInv'
    <3>1. pushed'[1].nal = 1
      <4>1. CASE Len(pushed) = 0
        <5>1. Len(pushed) + 1 = 1 /\ 1 \in 1..N
          BY <2>6, <4>1
        <5>2. QED
          BY <2>10, <5>1
      <4>2. CASE Len(pushed) > 0
        <5>1. pushed # <<>> /\ 1 \in 1..Len(pushed)
          BY <1>1, <2>6, <4>2, Sizes
        <5>2. QED
          BY <1>1, <2>10, <5>1 DEF UnitInv
      <4>3. QED
        BY <2>6, <4>1, <4>2
    <3>2. pushed'[Len(pushed')].nal = N
      BY <2>6, <2>9, <2>10
    <3>3. ASSUME NEW k \in 1..(Len(pushed') - 1)
          PROVE  pushed'[k + 1].nal = Successor(pushed'[k].nal)
      <4>1. CASE k < Len(pushed)
        <5>1. k \in 1..(Len(pushed) - 1) /\ k \in 1..Len(pushed) /\ k + 1 \in 1..Len(pushed)
          BY <2>6, <4>1
        <5>2. QED
          BY <1>1, <2>10, <5>1 DEF UnitInv
      <4>2. CASE k = Len(pushed)
        <5>1. pushed'[k].nal = N
          BY <1>1, <2>6, <2>10, <4>2, Sizes DEF UnitInv
        <5>2. pushed'[k + 1].nal = 1
          BY <2>6, <2>10, <4>2
        <5>3. QED
          BY <1>1, <5>1, <5>2, Sizes DEF Successor
      <4>3. CASE k > Len(pushed)
        <5>1. PICK i \in 1..N : k = Len(pushed) + i /\ i + 1 \in 1..N
          <6>1. /\ k - Len(pushed) \in 1..N /\ k = Len(pushed) + (k - Len(pushed))
                /\ (k - Len(pushed)) + 1 \in 1..N
            <7>1. k \in Nat /\ k <= Len(pushed) + N - 1
              BY <2>6, <2>9, <3>3
            <7>2. QED
              BY <2>6, <4>3, <7>1
          <6>2. QED
            BY <6>1
        <5>2. k + 1 = Len(pushed) + (i + 1)
          BY <2>6, <5>1
        <5>3. pushed'[k].nal = i /\ pushed'[k + 1].nal = i + 1
          BY <2>10, <5>1, <5>2
        <5>4. i # MAX_NAL_COUNT
          BY <1>1, <2>6, <5>1, Sizes
        <5>5. QED
          BY <5>3, <5>4 DEF Successor
      <4>4. QED
        BY <2>6, <2>9, <4>1, <4>2, <4>3
    <3>4. QED
      BY <3>1, <3>2, <3>3 DEF UnitInv
  <2>16. PhaseInv'
    <3>1. /\ Len(delivered') = Len(delivered) /\ Len(nalQueue') = 0
          /\ Len(outputQueue') = N \/ (Len(outputQueue') = 2 * N /\ Len(delivered) = 0)
          /\ caller' = "setup" => Len(outputQueue') = N /\ Len(delivered) = 0
      <4>1. UNCHANGED <<caller, nalQueue, delivered>>
        BY <1>2
      <4>2. Len(outputQueue') = N \/ (Len(outputQueue') = 2 * N /\ Len(delivered) = 0)
        <5>1. 0 + N = N /\ N + N = 2 * N
          BY <2>6
        <5>2. QED
          BY <5>1, <2>7, <2>11
      <4>3. caller = "setup" => Len(outputQueue') = N /\ Len(delivered) = 0
        BY <2>6, <2>7, <2>11
      <4>4. QED
        BY <4>1, <4>2, <4>3, <2>11
    <3>2. QED
      BY <1>3, <2>6, <3>1 DEF PhaseInv
  <2>17. BytesInv'
    <3>1. SUFFICES ASSUME NEW k \in 1..Len(pushed'), k > N
                   PROVE  IF k <= Len(delivered) THEN delivered[k].frame = pushed'[k].frame
                                                 ELSE nal'[pushed'[k].nal] = pushed'[k].frame
      BY <1>2 DEF BytesInv
    <3>2. CASE k \in 1..Len(pushed)
      <4>1. k <= Len(delivered)
        BY <2>6, <2>11, <3>1, <3>2
      <4>2. QED
        BY <1>1, <2>10, <3>1, <3>2, <4>1 DEF BytesInv
    <3>3. CASE k - Len(pushed) \in 1..N /\ k = Len(pushed) + (k - Len(pushed))
      <4>1. PICK i \in 1..N : k = Len(pushed) + i
        BY <3>3
      <4>2. pushed'[k].nal = i /\ pushed'[k].frame = done[1]
        BY <2>10, <4>1
      <4>3. ~(k <= Len(delivered))
        BY <2>6, <2>11, <4>1
      <4>4. QED
        BY <2>5, <2>6, <4>2, <4>3
    <3>4. QED
      BY <2>12, <3>2, <3>3
  <2>18. EmptyInv'
    BY <1>3, <2>6, <2>7 DEF EmptyInv
  <2>19. FrameInv'
    <3>1. nal'[1] = done[1]
      BY <2>5, <2>6
    <3>2. QED
      BY <1>2, <1>6, <1>7, <1>8, <2>5, <3>1 DEF FrameInv
  <2>20. \A k \in 1..Len(delivered) : delivered[k].frame < done[1]
    BY <1>1, <1>6, Numbers DEF ClockInv
  <2>21. nal'[1] = done[1]
    BY <2>5, <2>6
  <2>22. ClockInv'
    <3>1. \A k \in 1..Len(delivered) :
            delivered[k].frame <= done[1] /\ delivered[k].time <= currentTime
      BY <1>1, <1>6, <2>20, Numbers DEF ClockInv
    <3>2. currentTime <= captured
      BY <1>1 DEF ClockInv
    <3>3. QED
      BY <1>2, <2>11, <2>21, <3>1, <3>2 DEF ClockInv
  <2>23. FreshInv'
    BY <1>2, <2>20, <2>21 DEF FreshInv
  <2>24. TimesFollowFrames'
    BY <1>1, <1>2 DEF TimesFollowFrames
  <2>25. QED
    BY <2>13, <2>14, <2>15, <2>16, <2>17, <2>18, <2>19, <2>22, <2>23, <2>24
       DEF IInv, QueueInv, TimeInv
<1>11. QED
  BY <1>9, <1>10 DEF ReadFrame

\* The invariant is inductive.
LEMMA NextIInv == IInv /\ [Next]_vars => IInv'
<1> SUFFICES ASSUME IInv, [Next]_vars PROVE IInv'
  OBVIOUS
<1>1. CASE Camera
  BY <1>1, CaptureStep, UnplugStep DEF Camera
<1>2. CASE Thread
  BY <1>2, SelectReadyStep, SelectGivesUpStep, ReadFrameFailsStep, ReadFrameStep,
     SetupReturnsStep, EncodeNewFrameStep, DeliverFrameStep, DeliverFromEmptyQueueStep
     DEF Thread
<1>3. CASE GetNextFrame
  BY <1>3, GetNextFrameStep
<1>4. CASE UNCHANGED vars
  <2>1. UNCHANGED <<captured, incoming, done, encoderVars, nalQueue, currentTime, delivered>>
    BY <1>4 DEF vars, cameraVars, sourceVars
  <2>2. FifoInv' /\ UnitInv' /\ BytesInv' /\ FrameInv' /\ ClockInv' /\ TimesFollowFrames'
    BY <2>1, NothingMoves
  <2>3. TypeOK'
    BY <1>4 DEF vars, cameraVars, encoderVars, sourceVars, IInv, TypeOK
  <2>4. PhaseInv' /\ EmptyInv' /\ FreshInv'
    BY <1>4 DEF vars, cameraVars, encoderVars, sourceVars, IInv, QueueInv, TimeInv,
       PhaseInv, EmptyInv, FreshInv
  <2>5. QED
    BY <2>2, <2>3, <2>4 DEF IInv, QueueInv, TimeInv
<1>5. QED
  BY <1>1, <1>2, <1>3, <1>4 DEF Next

\* IInv holds in every state, for any number of NALs, capture buffers and
\* frames.
THEOREM PipelineInvariant == Spec => []IInv
  BY InitIInv, NextIInv, PTL DEF Spec

-----------------------------------------------------------------------------
(* What the invariant gives *)

\* Every variable keeps its type: queue entries are the encoder's own
\* buffers, and no more capture buffers come back than were mapped.
THEOREM PipelineTypeOK == Spec => []TypeOK
<1>1. IInv => TypeOK
  BY DEF IInv
<1>2. QED
  BY <1>1, PipelineInvariant, PTL

\* The sink gets whole access units, whatever failed in between.
THEOREM DeliveryOrder == Spec => []DeliveredInOrder
<1>1. ASSUME IInv PROVE DeliveredInOrder
  <2>1. TypeOK /\ FifoInv /\ UnitInv
    BY <1>1 DEF IInv, QueueInv
  <2>2. /\ Len(delivered) \in Nat /\ Len(pushed) \in Nat /\ Len(delivered) <= Len(pushed)
        /\ delivered # <<>> => Len(delivered) > 0 /\ pushed # <<>>
    BY <2>1, Sizes DEF FifoInv
  <2>3. delivered # <<>> => delivered[1].nal = 1
    BY <2>1, <2>2 DEF FifoInv, UnitInv
  <2>4. ASSUME NEW k \in 1..(Len(delivered) - 1)
        PROVE  delivered[k + 1].nal = Successor(delivered[k].nal)
    <3>1. k \in 1..Len(delivered) /\ k + 1 \in 1..Len(delivered) /\ k \in 1..(Len(pushed) - 1)
      BY <2>2
    <3>2. QED
      BY <2>1, <3>1 DEF FifoInv, UnitInv
  <2>5. QED
    BY <2>3, <2>4 DEF DeliveredInOrder
<1>2. QED
  BY <1>1, PipelineInvariant, PTL

\* At most one access unit is queued, two before the first one is delivered.
THEOREM QueuesBounded == Spec => []QueuesAreBounded
<1>1. ASSUME IInv PROVE QueuesAreBounded
  <2>1. TypeOK /\ PhaseInv /\ caller \in {"setup", "client"} /\ pc \in Stages
    BY <1>1 DEF IInv, QueueInv, TypeOK
  <2>2. CASE caller = "setup"
    BY <2>1, <2>2, Sizes DEF PhaseInv, QueuesAreBounded
  <2>3. CASE caller = "client"
    <3>1. nalQueue # <<>> => outputQueue = <<>>
      BY <2>1, <2>3, Sizes DEF PhaseInv
    <3>2. Len(nalQueue) <= N \/ Len(delivered) + Len(nalQueue) = 2 * N
      BY <2>1, <2>3 DEF PhaseInv
    <3>3. \/ Len(outputQueue) = 0 \/ Len(outputQueue) = N
          \/ Len(outputQueue) = 2 * N /\ Len(delivered) = 0
      BY <2>1, <2>3 DEF PhaseInv, Stages
    <3>4. Len(nalQueue) > 0 => Len(outputQueue) = 0
      BY <2>1, <2>3 DEF PhaseInv
    <3>5. QED
      BY <2>1, <3>1, <3>2, <3>3, <3>4, Sizes DEF QueuesAreBounded
  <2>4. QED
    BY <2>1, <2>2, <2>3
<1>2. QED
  BY <1>1, PipelineInvariant, PTL

\* After the first access unit no queued entry's buffer is overwritten.
THEOREM BytesKept == Spec => []BytesAreThoseThatWerePushed
<1>1. ASSUME IInv PROVE BytesAreThoseThatWerePushed
  <2>1. TypeOK /\ FifoInv /\ BytesInv
    BY <1>1 DEF IInv, QueueInv
  <2>2. SUFFICES ASSUME NEW k \in 1..Len(delivered), k > N
                 PROVE  delivered[k].frame = pushed[k].frame
    BY <2>1, Sizes DEF BytesAreThoseThatWerePushed
  <2>3. k \in 1..Len(pushed) /\ k <= Len(delivered)
    BY <2>1, Sizes DEF FifoInv
  <2>4. QED
    BY <2>1, <2>2, <2>3 DEF BytesInv
<1>2. QED
  BY <1>1, PipelineInvariant, PTL

\* Time stamps are one per frame and follow the frames.
THEOREM TimesFollow == Spec => []TimesFollowFrames
<1>1. IInv => TimesFollowFrames
  BY DEF IInv, TimeInv
<1>2. QED
  BY <1>1, PipelineInvariant, PTL

\* As long as every mainloop brings a frame, the empty queue is never read.
THEOREM EmptyQueueOnlyAfterFailure == Spec => []EmptyQueueMeansNoCapture
<1>1. IInv => EmptyQueueMeansNoCapture
  BY DEF IInv, QueueInv, EmptyInv, EmptyQueueMeansNoCapture
<1>2. QED
  BY <1>1, PipelineInvariant, PTL

=============================================================================
