----------------------------- MODULE Depacketizer -----------------------------
(***************************************************************************)
(* From RTP packets back to NAL units, at a client: MultiFramedRTPSource,  *)
(* its ReorderingPacketBuffer, and H264VideoRTPSource.  Packets may be     *)
(* lost, come in another order, and more than once.                        *)
(*                                                                         *)
(* doGetNextFrame1 is a loop over the packets that have come, one step     *)
(* for each; nothing else happens at the client while it runs.             *)
(***************************************************************************)
EXTENDS Packetizer, FiniteSetsExt

CONSTANT
  MaxDistance            \* how far a packet that comes may be, in the order in
                         \* which they were sent, from the one expected

\* Numbers wrap: what is half of them away would pass for the opposite.
ASSUME DepacketizerAssumption ==
  MaxDistance \in Nat /\ 2 * MaxDistance < SeqModulus

VARIABLES                        \* ReorderingPacketBuffer
  fHaveSeenFirstPacket,
  fNextExpectedSeqNo,
  queue                          \* the list from fHeadPacket on

VARIABLES                        \* MultiFramedRTPSource
  fNeedDelivery,
  fPacketLossInFragmentedFrame,
  to,                            \* the bytes at fSavedTo: fFrameSize many
  looping                        \* whether doGetNextFrame1 is running

VARIABLES                        \* history
  place,                         \* the place in sent of the packet expected
  delivered,                     \* the frames the client got
  skipped                        \* whether it joined late, or gave a packet up

bufferVars   == <<fHaveSeenFirstPacket, fNextExpectedSeqNo, queue>>
receiverVars == <<bufferVars, fNeedDelivery, fPacketLossInFragmentedFrame, to, looping,
                  place, delivered, skipped>>

-----------------------------------------------------------------------------
(* ReorderingPacketBuffer *)

\* Defect: numbers are compared as if they never wrapped.
SeqNumLTPlain(s1, s2) == s1 < s2

\* Less than, on numbers that wrap: less than half of them lie between.
SeqNumLT(s1, s2) == s1 # s2 /\ 2 * ((s2 - s1) % SeqModulus) < SeqModulus

\* Defect: a late packet goes to the end of the list.
InsertedAtTheEnd(packet) == Append(queue, packet)

\* In front of the first packet with a higher number.
Inserted(packet) ==
  LET higher(i) == SeqNumLT(packet.seq, queue[i].seq) IN
  IF \E i \in DOMAIN queue : higher(i)
    THEN LET first == CHOOSE i \in DOMAIN queue :
                        higher(i) /\ \A j \in 1..(i - 1) : ~higher(j)
         IN  InsertAt(queue, first, packet)
    ELSE Append(queue, packet)

IsDuplicate(packet) == \E i \in DOMAIN queue : queue[i].seq = packet.seq

\* The first packet sets the number to begin with.  Packets behind the time,
\* and packets that are there already, are ignored.
StorePacket(packet) ==
  LET expected == IF fHaveSeenFirstPacket THEN fNextExpectedSeqNo ELSE packet.seq
      stored   == [seq |-> packet.seq, payload |-> packet.payload,
                   first |-> ~fHaveSeenFirstPacket] IN
  /\ fHaveSeenFirstPacket' = TRUE
  /\ fNextExpectedSeqNo' = expected
  /\ queue' = IF SeqNumLT(packet.seq, expected) \/ IsDuplicate(packet)
                THEN queue ELSE Inserted(stored)

-----------------------------------------------------------------------------
(* MultiFramedRTPSource and H264VideoRTPSource *)

\* networkReadHandler1, for any packet the sink has sent, the k-th: early,
\* late, or once more.
NetworkReadHandler(k) ==
  /\ ~looping
  /\ fHaveSeenFirstPacket => k \in (place - MaxDistance)..(place + MaxDistance)
  /\ StorePacket(sent[k])
  /\ looping' = fNeedDelivery
  /\ place' = IF fHaveSeenFirstPacket THEN place ELSE k
  /\ skipped' = (skipped \/ (~fHaveSeenFirstPacket /\ k # 1))
  /\ UNCHANGED <<fNeedDelivery, fPacketLossInFragmentedFrame, to, delivered>>

Begins(payload)    == IsFragment(payload) => StartBit(payload)
Completes(payload) == IsFragment(payload) => EndBit(payload)
Data(payload)      == IF IsFragment(payload) THEN FragmentData(payload) ELSE payload

\* Defect: the bytes of a frame that was not completed stay.
ForgetKeepsBytes(payload, loss) == to

\* The bytes to which a packet's are appended: when the previous frame is
\* not complete because of loss, what there is of it is forgotten.
Forget(payload, loss) ==
  IF Begins(payload) /\ (loss \/ fPacketLossInFragmentedFrame) THEN <<>> ELSE to

\* The head of the list is used, or rejected when a fragment before it is
\* missing.  fNeedDelivery ends the loop when a frame is complete.
UsePacket(loss) ==
  LET payload == Head(queue).payload
      useless == ~Begins(payload) /\ (loss \/ fPacketLossInFragmentedFrame)
      bytes   == Forget(payload, loss) \o Data(payload) IN
  /\ queue' = Tail(queue)
  /\ fNextExpectedSeqNo' = (Head(queue).seq + 1) % SeqModulus
  /\ place' = place + 1 + ((Head(queue).seq - fNextExpectedSeqNo) % SeqModulus)
  /\ fPacketLossInFragmentedFrame' = useless
  /\ IF useless
       THEN UNCHANGED <<to, delivered, fNeedDelivery, looping>>
       ELSE IF Completes(payload)
         THEN /\ delivered' = Append(delivered, bytes)
              /\ fNeedDelivery' = FALSE /\ looping' = FALSE
              /\ UNCHANGED to
         ELSE /\ to' = bytes
              /\ UNCHANGED <<delivered, fNeedDelivery, looping>>
  /\ UNCHANGED fHaveSeenFirstPacket

\* The head is the packet expected; the first of all packets counts as if
\* there had been loss before it.
UseExpected ==
  /\ looping
  /\ queue # <<>> /\ Head(queue).seq = fNextExpectedSeqNo
  /\ UsePacket(Head(queue).first)
  /\ UNCHANGED skipped

\* It is not, and has waited longer than the threshold: the packets missing
\* are given up.
GiveUp ==
  /\ looping
  /\ queue # <<>> /\ Head(queue).seq # fNextExpectedSeqNo
  /\ UsePacket(TRUE)
  /\ skipped' = TRUE

\* Or it goes on waiting, until the next packet comes: no timer is set.
Break ==
  /\ looping
  /\ queue # <<>> => Head(queue).seq # fNextExpectedSeqNo
  /\ looping' = FALSE
  /\ UNCHANGED <<bufferVars, fNeedDelivery, fPacketLossInFragmentedFrame, to,
                 place, delivered, skipped>>

\* The client asks for the next frame.
DoGetNextFrame ==
  /\ ~fNeedDelivery
  /\ fNeedDelivery' = TRUE
  /\ to' = <<>>
  /\ looping' = TRUE
  /\ UNCHANGED <<bufferVars, fPacketLossInFragmentedFrame, place, delivered, skipped>>

ReceiverInit ==
  /\ fHaveSeenFirstPacket = FALSE
  /\ fNextExpectedSeqNo = 0
  /\ queue = <<>>
  /\ fNeedDelivery = TRUE
  /\ fPacketLossInFragmentedFrame = FALSE
  /\ to = <<>>
  /\ looping = FALSE
  /\ place = 1
  /\ delivered = <<>>
  /\ skipped = FALSE

ReceiverStep ==
  \/ \E k \in DOMAIN sent : NetworkReadHandler(k)
  \/ UseExpected \/ GiveUp \/ Break
  \/ DoGetNextFrame

-----------------------------------------------------------------------------
(* Sink and client *)

vars == <<senderVars, receiverVars>>

Init == SenderInit /\ ReceiverInit

Next ==
  \/ SenderStep /\ UNCHANGED receiverVars
  \/ ReceiverStep /\ UNCHANGED senderVars

Spec == Init /\ [][Next]_vars

-----------------------------------------------------------------------------
(* Properties *)

StoredPacket == [seq : 0..(SeqModulus - 1), payload : Seq(Byte), first : BOOLEAN]

TypeOK ==
  /\ SenderTypeOK
  /\ fHaveSeenFirstPacket \in BOOLEAN
  /\ fNextExpectedSeqNo \in 0..(SeqModulus - 1)
  /\ queue \in Seq(StoredPacket)
  /\ fNeedDelivery \in BOOLEAN
  /\ fPacketLossInFragmentedFrame \in BOOLEAN
  /\ to \in Seq(Byte)
  /\ looping \in BOOLEAN
  /\ place \in Nat \ {0}
  /\ delivered \in Seq(Seq(Byte))
  /\ skipped \in BOOLEAN

\* What the buffer's code only asserts in comments: the packets are in order,
\* none twice, and none of them comes before the one expected.
QueueInOrder ==
  /\ \A i, j \in DOMAIN queue : i < j => SeqNumLT(queue[i].seq, queue[j].seq)
  /\ \A i \in DOMAIN queue : ~SeqNumLT(queue[i].seq, fNextExpectedSeqNo)

\* The client gets NAL units that were sent, whole, in order and none twice:
\* never one put together from two, whatever was lost, delayed or repeated.
\* As long as it gives no packet up, it misses none.
FramesAreNals ==
  /\ \E at \in [DOMAIN delivered -> DOMAIN frames] :
       /\ \A i, j \in DOMAIN delivered : i < j => at[i] < at[j]
       /\ \A i \in DOMAIN delivered : delivered[i] = frames[at[i]]
  /\ ~skipped => IsPrefix(delivered, frames)

=============================================================================
