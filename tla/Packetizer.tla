------------------------------ MODULE Packetizer ------------------------------
(***************************************************************************)
(* From NAL units to RTP packets: the marker of H264or5VideoStream-        *)
(* DiscreteFramer, H264or5Fragmenter and the packet loop of                *)
(* MultiFramedRTPSink, for H.264.                                          *)
(*                                                                         *)
(* A NAL unit that does not fit a packet is sent as fragmentation units.   *)
(* Each call of doGetNextFrame makes one of them, within the buffer that   *)
(* holds the NAL unit: the two header bytes overwrite bytes already sent.  *)
(* Bytes are the numbers 0..255; the low five bits of the first byte of a  *)
(* NAL unit are its type.                                                  *)
(***************************************************************************)
EXTENDS Integers, Sequences, SequencesExt

CONSTANTS
  NALs,                  \* what the source may deliver, as sequences of bytes
  fMaxOutputPacketSize,  \* the most a packet holds behind its RTP header
  OutPacketBufferMaxSize,
  SeqModulus,            \* sequence numbers are the numbers below it
  FirstSeqNos,           \* the sequence numbers the sink may begin with
  MaxPackets             \* bound: packets sent

Byte == 0..255

Type(byte) == byte % 32

\* With fewer than four bytes the headers of the second fragment would
\* overwrite those of the first before they are copied.
ASSUME PacketizerAssumption ==
  /\ NALs \subseteq Seq(Byte)
  /\ \A nal \in NALs : nal # <<>> => Type(nal[1]) \in 1..23
  /\ fMaxOutputPacketSize \in Nat /\ fMaxOutputPacketSize >= 4
  /\ OutPacketBufferMaxSize \in Nat \ {0}
  /\ SeqModulus \in Nat \ {0}
  /\ FirstSeqNos \subseteq 0..(SeqModulus - 1)
  /\ MaxPackets \in Nat

VARIABLES
  fPictureEndMarker              \* framer

VARIABLES                        \* fragmenter
  fInputBuffer,
  fNumValidDataBytes,            \* 1 when there is no NAL unit in the buffer
  fCurDataOffset,
  fLastFragmentCompletedNALUnit

VARIABLES                        \* sink
  sink,                          \* "waiting" for its delayed task, "reading", or "stopped"
  fSeqNo,
  sent                           \* every packet ever sent

VARIABLES                        \* history
  read,                          \* the NAL units read, as they came into the buffer
  frames,                        \* what one gets who unpacks every packet in order,
  part,                          \* and the frame he has begun;
  unpacked                       \* how many and which he had after each packet

fragmenterVars == <<fInputBuffer, fNumValidDataBytes, fCurDataOffset,
                    fLastFragmentCompletedNALUnit>>
packetVars == <<fSeqNo, sent, frames, part, unpacked>>
senderVars == <<fPictureEndMarker, fragmenterVars, sink, packetVars, read>>

-----------------------------------------------------------------------------
(* The payload format: RFC 6184 *)

FU_A == 28

\* (h & 0xE0) | 28, and 0x80 | (h & 0x1F) with the S bit.
FUIndicator(h) == (h \div 32) * 32 + FU_A
FUHeader(h) == 128 + Type(h)

IsFragment(payload) == Type(payload[1]) = FU_A
StartBit(payload) == payload[2] >= 128
EndBit(payload) == (payload[2] \div 64) % 2 = 1

\* A fragment's own bytes, the first one with the NAL unit's header restored.
FragmentData(payload) ==
  IF StartBit(payload)
    THEN <<(payload[1] \div 32) * 32 + Type(payload[2])>> \o SubSeq(payload, 3, Len(payload))
    ELSE SubSeq(payload, 3, Len(payload))

\* One who gets every packet, in order.
Unpack(payload) ==
  LET data == IF StartBit(payload) THEN FragmentData(payload)
              ELSE part \o FragmentData(payload) IN
  /\ CASE ~IsFragment(payload) ->
            frames' = Append(frames, payload) /\ part' = <<>>
       [] IsFragment(payload) /\ EndBit(payload) ->
            frames' = Append(frames, data) /\ part' = <<>>
       [] OTHER ->
            UNCHANGED frames /\ part' = data
  /\ unpacked' = Append(unpacked, [frames |-> Len(frames'), part |-> part'])

-----------------------------------------------------------------------------
(* MultiFramedRTPSink *)

\* Defect: the marker is set on every packet of the NAL unit.
SendMarksEveryPacket(payload, mark) ==
  /\ sent' = Append(sent, [seq |-> fSeqNo, marker |-> mark, payload |-> payload])
  /\ fPictureEndMarker' = (mark /\ ~fLastFragmentCompletedNALUnit')
  /\ fSeqNo' = (fSeqNo + 1) % SeqModulus
  /\ sink' = "waiting"
  /\ Unpack(payload)

\* afterGettingFrame1 and sendPacketIfNecessary: H.264 allows one frame per
\* packet, which has the marker bit when it ends an access unit.  The next
\* packet is built by a delayed task.
Send(payload, mark) ==
  LET marker == fLastFragmentCompletedNALUnit' /\ mark IN
  /\ sent' = Append(sent, [seq |-> fSeqNo, marker |-> marker, payload |-> payload])
  /\ fPictureEndMarker' = (mark /\ ~marker)
  /\ fSeqNo' = (fSeqNo + 1) % SeqModulus
  /\ sink' = "waiting"
  /\ Unpack(payload)

-----------------------------------------------------------------------------
(* H264or5Fragmenter *)

\* memmove.
Bytes(buffer, from, number) == [i \in 1..number |-> buffer[from + i - 1]]

\* Once all bytes are delivered, the pointers are reset.
Advance(offset, valid) ==
  /\ fCurDataOffset' = IF offset >= valid THEN 1 ELSE offset
  /\ fNumValidDataBytes' = IF offset >= valid THEN 1 ELSE valid

\* Case 1: a NAL unit that fits.
DeliverWhole(buffer, valid, mark) ==
  /\ fCurDataOffset = 1 /\ valid - 1 <= fMaxOutputPacketSize
  /\ fInputBuffer' = buffer
  /\ fLastFragmentCompletedNALUnit' = TRUE
  /\ Advance(valid, valid)
  /\ Send(Bytes(buffer, 1, valid - 1), mark)

\* Case 2: the first fragment.
DeliverFirst(buffer, valid, mark) ==
  /\ fCurDataOffset = 1 /\ valid - 1 > fMaxOutputPacketSize
  /\ fInputBuffer' = [buffer EXCEPT ![0] = FUIndicator(buffer[1]),
                                    ![1] = FUHeader(buffer[1])]
  /\ fLastFragmentCompletedNALUnit' = FALSE
  /\ Advance(fCurDataOffset + fMaxOutputPacketSize - 1, valid)
  /\ Send(Bytes(fInputBuffer', 0, fMaxOutputPacketSize), mark)

\* Defect: the header bytes are forgotten.
IsLastFragmentForgetsHeaders(valid) == (valid - fCurDataOffset) <= fMaxOutputPacketSize

\* Whether the rest fits behind two header bytes.
IsLastFragment(valid) == 2 + (valid - fCurDataOffset) <= fMaxOutputPacketSize

\* Defect: the two header bytes are counted as the NAL unit's own.
OffsetAfterCountsHeaders(number) == fCurDataOffset + number

OffsetAfter(number) == fCurDataOffset + number - 2

\* Case 3: the fragments behind it, the last one with the E bit.
DeliverNext(buffer, valid, mark) ==
  LET number == IF IsLastFragment(valid) THEN 2 + (valid - fCurDataOffset)
                ELSE fMaxOutputPacketSize IN
  /\ fCurDataOffset # 1
  /\ fInputBuffer' =
       [buffer EXCEPT ![fCurDataOffset - 2] = buffer[0],
                      ![fCurDataOffset - 1] = (buffer[1] % 128)
                                               + IF IsLastFragment(valid) THEN 64 ELSE 0]
  /\ fLastFragmentCompletedNALUnit' = IsLastFragment(valid)
  /\ Advance(OffsetAfter(number), valid)
  /\ Send(Bytes(fInputBuffer', fCurDataOffset - 2, number), mark)

\* doGetNextFrame with a NAL unit in the buffer.
DeliverFragment(buffer, valid, mark) ==
  \/ DeliverWhole(buffer, valid, mark)
  \/ DeliverFirst(buffer, valid, mark)
  \/ DeliverNext(buffer, valid, mark)

-----------------------------------------------------------------------------
(* The steps *)

\* buildAndSendPacket, when the fragmenter has nothing left.
SendNextReads ==
  /\ sink = "waiting"
  /\ Len(sent) < MaxPackets
  /\ fNumValidDataBytes = 1
  /\ sink' = "reading"
  /\ UNCHANGED <<fPictureEndMarker, fragmenterVars, packetVars, read>>

\* buildAndSendPacket, when it has.
SendNextContinues ==
  /\ sink = "waiting"
  /\ Len(sent) < MaxPackets
  /\ fNumValidDataBytes # 1
  /\ DeliverFragment(fInputBuffer, fNumValidDataBytes, fPictureEndMarker)
  /\ UNCHANGED read

\* What the framer takes for the end of an access unit: the types 1 to 5.
EndsAccessUnit(nal) == Type(nal[1]) \in 1..5

\* The NAL unit is read to fInputBuffer[1].
Lands(nal) ==
  [i \in 0..OutPacketBufferMaxSize |->
     IF i \in 1..Len(nal) THEN nal[i] ELSE fInputBuffer[i]]

\* What is left of a NAL unit too large for the buffer.
Truncated(nal) ==
  IF Len(nal) > OutPacketBufferMaxSize THEN SubSeq(nal, 1, OutPacketBufferMaxSize) ELSE nal

\* The source answers.  An empty NAL unit makes the fragmenter ask again.
AfterGettingFrame(nal) ==
  /\ sink = "reading"
  /\ nal # <<>>
  /\ read' = Append(read, Truncated(nal))
  /\ DeliverFragment(Lands(Truncated(nal)), 1 + Len(Truncated(nal)), EndsAccessUnit(nal))

AfterGettingNothing ==
  /\ sink = "reading"
  /\ <<>> \in NALs
  /\ fPictureEndMarker' = FALSE
  /\ UNCHANGED <<fragmenterVars, sink, packetVars, read>>

\* The last client has gone: the delayed task is cancelled, and what is left
\* of a NAL unit is forgotten.
StopPlaying ==
  /\ sink # "stopped"
  /\ sink' = "stopped"
  /\ fNumValidDataBytes' = 1 /\ fCurDataOffset' = 1
  /\ fLastFragmentCompletedNALUnit' = TRUE
  /\ UNCHANGED <<fInputBuffer, fPictureEndMarker, packetVars, read>>

SenderInit ==
  /\ fPictureEndMarker = FALSE
  /\ fInputBuffer = [i \in 0..OutPacketBufferMaxSize |-> 0]
  /\ fNumValidDataBytes = 1 /\ fCurDataOffset = 1
  /\ fLastFragmentCompletedNALUnit = TRUE
  /\ sink = "waiting"
  /\ fSeqNo \in FirstSeqNos
  /\ sent = <<>>
  /\ read = <<>> /\ frames = <<>> /\ part = <<>> /\ unpacked = <<>>

SenderStep ==
  \/ SendNextReads \/ SendNextContinues
  \/ \E nal \in NALs : AfterGettingFrame(nal)
  \/ AfterGettingNothing \/ StopPlaying

SenderSpec == SenderInit /\ [][SenderStep]_senderVars

-----------------------------------------------------------------------------
(* Properties *)

Packet == [seq : 0..(SeqModulus - 1), marker : BOOLEAN, payload : Seq(Byte)]

SenderTypeOK ==
  /\ fPictureEndMarker \in BOOLEAN
  /\ fInputBuffer \in [0..OutPacketBufferMaxSize -> Byte]
  /\ fNumValidDataBytes \in 1..(OutPacketBufferMaxSize + 1)
  /\ fCurDataOffset \in 1..(OutPacketBufferMaxSize + 1)
  /\ fLastFragmentCompletedNALUnit \in BOOLEAN
  /\ sink \in {"waiting", "reading", "stopped"}
  /\ fSeqNo \in 0..(SeqModulus - 1)
  /\ sent \in Seq(Packet)
  /\ read \in Seq(Seq(Byte)) /\ frames \in Seq(Seq(Byte)) /\ part \in Seq(Byte)
  /\ unpacked \in Seq([frames : Nat, part : Seq(Byte)])

\* The packets carry the NAL units that were read: unpacked in order they
\* give every one of them, byte for byte, and of the one being sent a part
\* from its beginning; the headers never destroy a byte still to be sent.
PacketsCarryTheNals ==
  \/ frames = read /\ part = <<>>
  \/ /\ read # <<>> /\ frames = Front(read)
     /\ part # <<>> /\ IsPrefix(part, Last(read)) /\ part # Last(read)

\* No packet is larger than the sink can send: then the sink's own splitting,
\* which knows nothing of NAL units, never sets in.  No packet is without
\* data, and none is both the first and the last fragment.
PacketsFit ==
  \A i \in DOMAIN sent :
    LET payload == sent[i].payload IN
    /\ Len(payload) \in 1..fMaxOutputPacketSize
    /\ IsFragment(payload) => /\ Len(payload) > 2
                              /\ ~(StartBit(payload) /\ EndBit(payload))

\* The marker bit is on the packet that completes a NAL unit which ends an
\* access unit, and on no other.
MarkerEndsAccessUnit ==
  [][sent' # sent =>
       (Last(sent').marker <=> frames' # frames /\ EndsAccessUnit(Last(frames')))]_senderVars

=============================================================================
