------------------------- MODULE RtspConnectionProofs -------------------------
(***************************************************************************)
(* Proofs about RtspConnection, for any number of clients, any requests    *)
(* and packets, and any sizes of buffers.                                  *)
(*                                                                         *)
(* That no complete request waits in the buffer rests on where the scan    *)
(* stands (ScanInv): fLastCRLF is a line end and never behind the end of a *)
(* header, and between two reads either there is no end of a header at all *)
(* or fLastCRLF is on the first one, and the body is still to come.        *)
(*                                                                         *)
(* That requests and reports keep their order and their bytes rests on     *)
(* where all that a client ever sent is (Placed): wire, request buffer,    *)
(* the descriptor's state and RTCPInstance's buffer hold between them what *)
(* comes behind the requests and the reports that were handled.            *)
(***************************************************************************)
EXTENDS RtspConnection, ListLemmas, SequenceTheorems, TLAPS

\* The connection in handleRequestBytes exists.
RunInv == running # NULL => open[running]

\* fLastCRLF is on a line end, or still before the first.
OnLineEnd(b, last) == last = -2 \/ (last \in 1..(Len(b) - 1) /\ CrLfAt(b, last))

\* The scan has gone past no end of a header.
NotBehind(b, last) == \A e \in EmptyLines(b) : last <= e

\* What is in the buffer has been looked at, and is no request yet.
Waiting(b, last) ==
  \/ EmptyLines(b) = {}
  \/ /\ last \in EmptyLines(b) /\ NotBehind(b, last)
     /\ Len(b) < last + 3 + ContentLength(SubSeq(b, 1, last + 1))

ScanInv ==
  \A c \in Clients :
    /\ OnLineEnd(fRequestBuffer[c], fLastCRLF[c])
    /\ IF running = c THEN NotBehind(fRequestBuffer[c], fLastCRLF[c])
                      ELSE Waiting(fRequestBuffer[c], fLastCRLF[c])

\* The inductive invariant.
IInv ==
  /\ TypeOK
  /\ BufferHasRoom
  /\ RunInv
  /\ OneReader
  /\ ScanInv

-----------------------------------------------------------------------------
(* Bytes and requests *)

\* The Content-Length is a digit.
LEMMA ContentLengthIsDigit ==
  ASSUME NEW header
  PROVE  ContentLength(header) \in 0..9
BY DEF ContentLength

\* Splitting a sequence of bytes gives sequences of bytes.
LEMMA Splitting ==
  ASSUME NEW T, NEW s \in Seq(T), NEW n \in 0..Len(s)
  PROVE  /\ SubSeq(s, 1, n) \in Seq(T) /\ Len(SubSeq(s, 1, n)) = n
         /\ SubSeq(s, n + 1, Len(s)) \in Seq(T) /\ Len(SubSeq(s, n + 1, Len(s))) = Len(s) - n
<1>1. Len(s) \in Nat
  OBVIOUS
<1>2. CASE n = 0
  BY <1>1, <1>2, SubSeqProperties
<1>3. CASE n # 0
  <2>1. 1 \in 1..(Len(s) + 1) /\ n \in 0..Len(s) /\ n + 1 \in 1..(Len(s) + 1)
    BY <1>1, <1>3
  <2> QED
    BY <1>1, <2>1, SubSeqProperties
<1> QED
  BY <1>2, <1>3

\* A size that is not larger than the largest takes two bytes.
LEMMA TwoBytes ==
  ASSUME NEW n \in Nat, NEW m \in Nat, n <= m, m < 256 * 256
  PROVE  n \div 256 \in 0..255 /\ n % 256 \in 0..255
<1>1. n < 256 * 256
  OBVIOUS
<1>2. n \div 256 \in Nat /\ n % 256 \in 0..255
  OBVIOUS
<1>3. n \div 256 < 256
  BY <1>1
<1> QED
  BY <1>2, <1>3

\* Four bytes.
LEMMA FourBytes ==
  ASSUME NEW T, NEW p \in T, NEW q \in T, NEW r \in T, NEW s \in T
  PROVE  <<p, q, r, s>> \in Seq(T)
OBVIOUS

\* A packet in its frame is a sequence of bytes.
LEMMA FramedIsBytes ==
  ASSUME NEW packet \in Packets
  PROVE  Framed(packet) \in Seq(Byte)
<1>1. packet.data \in Seq(Byte) /\ packet.interface \in Interfaces
  <2>1. packet \in [interface : Interfaces, data : Seq(Byte)]
    BY ConnectionAssumption, Zenon
  <2> QED
    BY <2>1
<1>2. /\ Len(packet.data) <= maxRTCPPacketSize /\ maxRTCPPacketSize \in Nat
      /\ maxRTCPPacketSize < 256 * 256
  BY ConnectionAssumption, Zenon
<1>3. Len(packet.data) \div 256 \in Byte /\ Len(packet.data) % 256 \in Byte
  <2>1. Len(packet.data) \in Nat
    BY <1>1
  <2> QED
    BY <1>2, <2>1, TwoBytes, Zenon DEF Byte
<1>4. Dollar \in Byte /\ ChannelId(packet.interface) \in Byte
  BY DEF Byte, Dollar, ChannelId
<1> DEFINE frame == <<Dollar, ChannelId(packet.interface), Len(packet.data) \div 256,
                      Len(packet.data) % 256>>
<1>5. frame \in Seq(Byte)
  BY <1>3, <1>4, FourBytes, ZenonT(30)
<1>6. Framed(packet) = frame \o packet.data
  BY DEF Framed
<1> HIDE DEF frame
<1> QED
  BY <1>1, <1>5, <1>6, ConcatProperties

\* The scan of handleRequestBytes finds exactly the ends of headers.
LEMMA ScanFindsEmptyLines ==
  ASSUME NEW c \in Clients, fRequestBuffer[c] \in Seq(Byte), fLastCRLF[c] \in Int,
         OnLineEnd(fRequestBuffer[c], fLastCRLF[c]), NotBehind(fRequestBuffer[c], fLastCRLF[c])
  PROVE  /\ \A i \in EmptyLineEnds(c) : i - 2 \in EmptyLines(fRequestBuffer[c])
         /\ \A e \in EmptyLines(fRequestBuffer[c]) : e + 2 \in EmptyLineEnds(c)
<1> DEFINE b == fRequestBuffer[c]
           last == fLastCRLF[c]
<1>0. Len(b) \in Nat /\ last \in Int
  OBVIOUS
<1>1. \A i : i \in LineEnds(c) <=> /\ i \in 1..(Len(b) - 1) /\ CrLfAt(b, i)
                                   /\ last + 2 <= i
  BY <1>0 DEF LineEnds, OnLineEnd
<1>2. ASSUME NEW i \in EmptyLineEnds(c)
      PROVE  i - 2 \in EmptyLines(b)
  <2>1. i \in 1..(Len(b) - 1) /\ CrLfAt(b, i)
    BY <1>1 DEF EmptyLineEnds
  <2>2. i - 2 \in LineEnds(c) \/ i - 2 = last
    BY DEF EmptyLineEnds
  <2>3. i - 2 \in 1..(Len(b) - 1) /\ CrLfAt(b, i - 2)
    BY <1>0, <1>1, <2>1, <2>2 DEF OnLineEnd
  <2>4. i - 2 \in 1..(Len(b) - 3) /\ i - 2 + 2 = i
    BY <1>0, <2>1, <2>3
  <2> QED
    BY <2>1, <2>3, <2>4 DEF EmptyLines
<1>3. ASSUME NEW e \in EmptyLines(b)
      PROVE  e + 2 \in EmptyLineEnds(c)
  <2>1. e \in 1..(Len(b) - 3) /\ CrLfAt(b, e) /\ CrLfAt(b, e + 2)
    BY DEF EmptyLines
  <2>2. last <= e
    BY DEF NotBehind
  <2>3. last # e - 1
    <3>1. SUFFICES ASSUME last = e - 1 PROVE FALSE
      OBVIOUS
    <3>2. CrLfAt(b, last) \/ last = -2
      BY DEF OnLineEnd
    <3>3. last + 1 = e /\ last >= 0
      BY <1>0, <2>1, <3>1
    <3> QED
      BY <1>0, <2>1, <3>2, <3>3 DEF CrLfAt, CR, LF
  <2>4. e + 2 \in LineEnds(c)
    BY <1>0, <1>1, <2>1, <2>2
  <2>5. e = last \/ e \in LineEnds(c)
    BY <1>0, <1>1, <2>1, <2>2, <2>3
  <2> DEFINE i == e + 2
  <2>6. i - 2 = e
    BY <2>1
  <2> HIDE DEF i
  <2>7. i \in EmptyLineEnds(c)
    BY <2>4, <2>5, <2>6 DEF EmptyLineEnds, i
  <2> QED
    BY <2>7 DEF i
<1> QED
  BY <1>2, <1>3

\* More bytes behind those that were looked at: the scan goes on from where it
\* stands and misses nothing, even if they end a header that is split.
LEMMA MoreBytes ==
  ASSUME NEW b \in Seq(Byte), NEW x \in Seq(Byte), NEW last \in Int,
         OnLineEnd(b, last), Waiting(b, last)
  PROVE  OnLineEnd(b \o x, last) /\ NotBehind(b \o x, last)
<1> DEFINE a == b \o x
<1>0. Len(b) \in Nat /\ Len(x) \in Nat
  OBVIOUS
<1>1. a \in Seq(Byte) /\ Len(a) = Len(b) + Len(x) /\ \A j \in 1..Len(b) : a[j] = b[j]
  BY <1>0, ConcatProperties
<1> HIDE DEF a
<1>2. \A i \in 1..(Len(b) - 1) : CrLfAt(a, i) <=> CrLfAt(b, i)
  BY <1>0, <1>1 DEF CrLfAt
<1>3. OnLineEnd(a, last)
  BY <1>0, <1>1, <1>2 DEF OnLineEnd
<1>4. ASSUME NEW e \in EmptyLines(a)
      PROVE  last <= e
  <2>1. e \in 1..(Len(a) - 3) /\ CrLfAt(a, e) /\ CrLfAt(a, e + 2)
    BY DEF EmptyLines
  <2>2. CASE e <= Len(b) - 3
    <3>1. e \in EmptyLines(b)
      BY <1>0, <1>2, <2>1, <2>2 DEF EmptyLines
    <3> QED
      BY <3>1 DEF Waiting, NotBehind
  <2>3. CASE e > Len(b) - 3
    <3>1. CASE last <= Len(b) - 2
      BY <1>0, <2>1, <2>3, <3>1
    <3>2. CASE last > Len(b) - 2 /\ last # -2
      <4>1. last = Len(b) - 1 /\ last \in 1..(Len(b) - 1) /\ CrLfAt(b, last)
        BY <1>0, <3>2 DEF OnLineEnd
      <4>2. CrLfAt(a, last)
        BY <1>2, <4>1
      <4>3. e # last - 1
        BY <1>0, <2>1, <4>1, <4>2 DEF CrLfAt, CR, LF
      <4> QED
        BY <1>0, <2>1, <2>3, <4>1, <4>3
    <3>3. CASE last = -2
      BY <2>1, <3>3
    <3> QED
      BY <1>0, <3>1, <3>2, <3>3
  <2> QED
    BY <1>0, <2>1, <2>2, <2>3
<1> QED
  BY <1>3, <1>4 DEF NotBehind, a

-----------------------------------------------------------------------------
(* Types *)

Descriptor == [channels : SUBSET Interfaces, fTCPReadingState : States,
               fStreamChannel : Interfaces, fSizeByte1 : Byte, byteHandler : BOOLEAN]

\* A descriptor as it is before PLAY.
LEMMA NoDescriptorIsOne == NoDescriptor \in Descriptor
BY DEF NoDescriptor, Descriptor, Interfaces, States, Byte

\* What the steps change of a descriptor.
LEMMA DescriptorTypes ==
  ASSUME TypeOK, NEW c \in Clients
  PROVE  /\ descriptor \in [Clients -> Descriptor] /\ descriptor[c].channels \subseteq Interfaces
         /\ descriptor[c].fStreamChannel \in Interfaces /\ descriptor[c].fSizeByte1 \in Byte
         /\ [descriptor EXCEPT ![c] = NoDescriptor] \in [Clients -> Descriptor]
BY NoDescriptorIsOne DEF TypeOK, Descriptor

\* Which interfaces it serves.
LEMMA ChannelsChange ==
  ASSUME TypeOK, NEW c \in Clients, NEW S \in SUBSET Interfaces
  PROVE  /\ [descriptor EXCEPT ![c].channels = S] \in [Clients -> Descriptor]
         /\ [descriptor EXCEPT ![c].channels = S, ![c].byteHandler = TRUE]
              \in [Clients -> Descriptor]
<1>1. descriptor \in [Clients -> Descriptor]
  BY DescriptorTypes
<1>2. [descriptor EXCEPT ![c].channels = S] \in [Clients -> Descriptor]
  BY <1>1 DEF Descriptor
<1>3. [descriptor EXCEPT ![c].channels = S, ![c].byteHandler = TRUE] \in [Clients -> Descriptor]
  BY <1>1 DEF Descriptor
<1> QED
  BY <1>2, <1>3

\* Where in a packet it is.
LEMMA StateChanges ==
  ASSUME TypeOK, NEW c \in Clients, NEW state \in States
  PROVE  [descriptor EXCEPT ![c].fTCPReadingState = state] \in [Clients -> Descriptor]
BY DescriptorTypes DEF Descriptor

\* Whose packet it is.
LEMMA ChannelChanges ==
  ASSUME TypeOK, NEW c \in Clients, NEW state \in States, NEW i \in Interfaces
  PROVE  [descriptor EXCEPT ![c].fStreamChannel = i, ![c].fTCPReadingState = state]
           \in [Clients -> Descriptor]
BY DescriptorTypes, SMTT(30) DEF Descriptor

\* The packet's size.
LEMMA SizeChanges ==
  ASSUME TypeOK, NEW c \in Clients, NEW state \in States, NEW byte \in Byte
  PROVE  [descriptor EXCEPT ![c].fSizeByte1 = byte, ![c].fTCPReadingState = state]
           \in [Clients -> Descriptor]
BY DescriptorTypes DEF Descriptor

\* The end of a session, which may take the interfaces with it.
LEMMA EndSessionTypes ==
  ASSUME TypeOK, NEW c \in Clients, EndSession(c)
  PROVE  /\ session' \in [Clients -> {"none", "setup", "playing"}]
         /\ fNextTCPReadSize' \in [Interfaces -> Nat]
         /\ fNextTCPReadStreamSocketNum' \in [Interfaces -> Clients \cup {NULL}]
         /\ fInBuf' \in Seq(Byte)
<1>1. session' \in [Clients -> {"none", "setup", "playing"}]
  BY DEF TypeOK, EndSession
<1>2. CASE UNCHANGED interfaceVars
  BY <1>1, <1>2 DEF TypeOK, interfaceVars
<1>3. CASE /\ fNextTCPReadSize' = NoReadSize
           /\ fNextTCPReadStreamSocketNum' = NoSocketNum
           /\ fInBuf' = <<>>
  BY <1>1, <1>3 DEF NoReadSize, NoSocketNum
<1> QED
  BY <1>2, <1>3 DEF EndSession

\* Its stream ends with it.
LEMMA EndPlayingTypes ==
  ASSUME TypeOK, NEW c \in Clients, EndPlaying(c)
  PROVE  /\ descriptor' \in [Clients -> Descriptor]
         /\ socketHandler' \in [Clients -> {"connection", "descriptor", "none"}]
BY NoDescriptorIsOne DEF TypeOK, EndPlaying, ReaderAfter, Descriptor

\* The buffer's size.
LEMMA RoomIsNumber == REQUEST_BUFFER_SIZE \in Nat /\ REQUEST_BUFFER_SIZE > 0
<1>1. REQUEST_BUFFER_SIZE \in Nat \ {0}
  BY ConnectionAssumption, Zenon
<1> QED
  BY <1>1

\* A connection is deleted.
LEMMA CloseTypes ==
  ASSUME TypeOK, NEW c \in Clients, CloseConnection(c)
  PROVE  TypeOK'
<1>1. /\ session' \in [Clients -> {"none", "setup", "playing"}]
      /\ fNextTCPReadSize' \in [Interfaces -> Nat]
      /\ fNextTCPReadStreamSocketNum' \in [Interfaces -> Clients \cup {NULL}]
      /\ fInBuf' \in Seq(Byte)
  BY EndSessionTypes DEF CloseConnection
<1>2. /\ descriptor' \in [Clients -> Descriptor]
      /\ socketHandler' \in [Clients -> {"connection", "descriptor", "none"}]
  BY NoDescriptorIsOne DEF TypeOK, CloseConnection, Descriptor
<1>3. /\ wire' \in [Clients -> Seq(Byte)] /\ eof' \in [Clients -> BOOLEAN]
      /\ open' \in [Clients -> BOOLEAN] /\ fRequestBuffer' \in [Clients -> Seq(Byte)]
  <2>1. <<>> \in Seq(Byte)
    OBVIOUS
  <2>2. wire' \in [Clients -> Seq(Byte)] /\ fRequestBuffer' \in [Clients -> Seq(Byte)]
    BY <2>1 DEF TypeOK, CloseConnection
  <2>3. eof' \in [Clients -> BOOLEAN] /\ open' \in [Clients -> BOOLEAN]
    BY DEF TypeOK, CloseConnection
  <2> QED
    BY <2>2, <2>3
<1>4. /\ fRequestBufferBytesLeft' \in [Clients -> Nat] /\ fLastCRLF' \in [Clients -> Int]
      /\ running' \in Clients \cup {NULL} /\ newBytesRead' \in Nat
  <2>1. fRequestBufferBytesLeft' \in [Clients -> Nat]
    BY RoomIsNumber DEF TypeOK, CloseConnection
  <2>2. fLastCRLF' \in [Clients -> Int]
    BY DEF TypeOK, CloseConnection
  <2>3. running' \in Clients \cup {NULL} /\ newBytesRead' \in Nat
    BY DEF CloseConnection
  <2> QED
    BY <2>1, <2>2, <2>3
<1>5. /\ asked' \in [Clients -> Seq(Requests)] /\ packets' \in [Clients -> Seq(Packets)]
      /\ failed' \subseteq Clients
      /\ handled' \in [Clients -> Seq(Seq(Byte))] /\ reports' \in [Clients -> Seq(Seq(Byte))]
  <2>1. /\ asked' = asked /\ packets' = packets
        /\ failed' = failed /\ handled' = handled /\ reports' = reports
    BY DEF CloseConnection, historyVars
  <2> QED
    BY <2>1 DEF TypeOK
<1>6. failed' \subseteq Clients /\ descriptor' \in [Clients -> [channels : SUBSET Interfaces, fTCPReadingState : States,
               fStreamChannel : Interfaces, fSizeByte1 : Byte, byteHandler : BOOLEAN]]
  BY <1>2, <1>5 DEF Descriptor
<1> QED
  BY ONLY <1>1, <1>2, <1>3, <1>4, <1>5, <1>6 DEF TypeOK

\* The descriptor takes a byte.
LEMMA TakeByteTypes ==
  ASSUME TypeOK, NEW c \in Clients, TakeByte(c)
  PROVE  Head(wire[c]) \in Byte /\ wire' \in [Clients -> Seq(Byte)]
<1>1. wire[c] \in Seq(Byte) /\ wire[c] # <<>>
  BY DEF TypeOK, TakeByte
<1>2. Head(wire[c]) \in Byte /\ Tail(wire[c]) \in Seq(Byte)
  BY <1>1
<1> QED
  BY <1>2 DEF TypeOK, TakeByte

\* Bytes are taken from the front of what has been sent.
LEMMA FrontTaken ==
  ASSUME TypeOK, NEW c \in Clients, NEW n \in Nat, n <= Len(wire[c]),
         wire' = [wire EXCEPT ![c] = SubSeq(@, n + 1, Len(@))]
  PROVE  /\ SubSeq(wire[c], 1, n) \in Seq(Byte) /\ Len(SubSeq(wire[c], 1, n)) = n
         /\ wire' \in [Clients -> Seq(Byte)]
<1>1. wire[c] \in Seq(Byte) /\ n \in 0..Len(wire[c])
  BY DEF TypeOK
<1>2. /\ SubSeq(wire[c], 1, n) \in Seq(Byte) /\ Len(SubSeq(wire[c], 1, n)) = n
      /\ SubSeq(wire[c], n + 1, Len(wire[c])) \in Seq(Byte)
  BY <1>1, Splitting
<1> QED
  BY <1>2 DEF TypeOK

\* The client's steps.
LEMMA ClientTypes ==
  ASSUME TypeOK, NEW c \in Clients, Client(c)
  PROVE  TypeOK'
<1>1. ASSUME NEW request \in Requests, SendRequest(c, request)
      PROVE  TypeOK'
  <2>1. wire[c] \in Seq(Byte) /\ request \in Seq(Byte)
    <3>1. request \in Seq(Byte \ {Dollar, 254, 255})
      BY ConnectionAssumption, Zenon
    <3> QED
      BY <3>1 DEF TypeOK
  <2>2. wire[c] \o request \in Seq(Byte)
    BY <2>1, ConcatProperties
  <2>3. wire' \in [Clients -> Seq(Byte)]
    BY <1>1, <2>2 DEF TypeOK, SendRequest
  <2>4. asked' \in [Clients -> Seq(Requests)]
    BY <1>1 DEF TypeOK, SendRequest
  <2> QED
    BY <1>1, <2>3, <2>4 DEF TypeOK, SendRequest, bufferVars, runVars, readVars,
       interfaceVars, historyVars
<1>2. ASSUME NEW packet \in Packets, SendPacket(c, packet)
      PROVE  TypeOK'
  <2>1. wire[c] \in Seq(Byte) /\ Framed(packet) \in Seq(Byte)
    BY FramedIsBytes DEF TypeOK
  <2>2. wire[c] \o Framed(packet) \in Seq(Byte)
    BY <2>1, ConcatProperties
  <2>3. wire' \in [Clients -> Seq(Byte)]
    BY <1>2, <2>2 DEF TypeOK, SendPacket
  <2>4. packets' \in [Clients -> Seq(Packets)]
    BY <1>2 DEF TypeOK, SendPacket
  <2> QED
    BY <1>2, <2>3, <2>4 DEF TypeOK, SendPacket, bufferVars, runVars, readVars,
       interfaceVars, historyVars
<1>3. CASE Disconnect(c)
  <2>1. PICK n \in 0..Len(wire[c]) : wire' = [wire EXCEPT ![c] = SubSeq(@, 1, n)]
    BY <1>3 DEF Disconnect
  <2>2. wire[c] \in Seq(Byte)
    BY DEF TypeOK
  <2>3. SubSeq(wire[c], 1, n) \in Seq(Byte)
    BY <2>2, Splitting
  <2>4. wire' \in [Clients -> Seq(Byte)] /\ eof' \in [Clients -> BOOLEAN]
    BY <1>3, <2>1, <2>3 DEF TypeOK, Disconnect
  <2> QED
    BY <1>3, <2>4 DEF TypeOK, Disconnect, bufferVars, runVars, readVars,
       interfaceVars, historyVars
<1> QED
  BY <1>1, <1>2, <1>3 DEF Client

\* The end of a session by its time-out, or of a stream by a failed send.
LEMMA EndTypes ==
  ASSUME TypeOK, NEW c \in Clients,
         SessionTimesOut(c) \/ \E i \in Interfaces : SendFails(c, i)
  PROVE  TypeOK'
<1>1. CASE SessionTimesOut(c)
  <2>1. EndSession(c) /\ EndPlaying(c)
    BY <1>1 DEF SessionTimesOut
  <2>2. /\ session' \in [Clients -> {"none", "setup", "playing"}]
        /\ fNextTCPReadSize' \in [Interfaces -> Nat]
        /\ fNextTCPReadStreamSocketNum' \in [Interfaces -> Clients \cup {NULL}]
        /\ fInBuf' \in Seq(Byte)
    BY <2>1, EndSessionTypes
  <2>3. /\ descriptor' \in [Clients -> Descriptor]
        /\ socketHandler' \in [Clients -> {"connection", "descriptor", "none"}]
    BY <2>1, EndPlayingTypes
  <2> QED
    BY <1>1, <2>2, <2>3 DEF TypeOK, SessionTimesOut, Descriptor, clientVars, bufferVars, runVars,
       historyVars
<1>2. ASSUME NEW i \in Interfaces, SendFails(c, i)
      PROVE  TypeOK'
  <2>1. descriptor' \in [Clients -> Descriptor]
    <3>1. [descriptor EXCEPT ![c] = NoDescriptor] \in [Clients -> Descriptor]
      BY DescriptorTypes
    <3>2. CASE descriptor[c].channels = {i}
      BY <1>2, <3>1, <3>2 DEF SendFails
    <3>3. CASE descriptor[c].channels # {i}
      <4> DEFINE S == descriptor[c].channels \ {i}
      <4>1. S \in SUBSET Interfaces
        BY DescriptorTypes
      <4>2. descriptor' = [descriptor EXCEPT ![c].channels = S]
        BY <1>2, <3>3 DEF SendFails
      <4> HIDE DEF S
      <4> QED
        BY <4>1, <4>2, ChannelsChange
    <3> QED
      BY <3>2, <3>3
  <2>2. socketHandler' \in [Clients -> {"connection", "descriptor", "none"}]
    BY <1>2 DEF TypeOK, SendFails, ReaderAfter
  <2>3. failed' \subseteq Clients
    BY <1>2 DEF TypeOK, SendFails
  <2> QED
    BY <1>2, <2>1, <2>2, <2>3 DEF TypeOK, SendFails, Descriptor, clientVars, bufferVars, runVars,
       interfaceVars
<1> QED
  BY <1>1, <1>2

\* What the connection reads.
LEMMA ReadRequestTypes ==
  ASSUME TypeOK, NEW c \in Clients, ReadRequestBytes(c) \/ ReadEnd(c)
  PROVE  TypeOK'
<1>1. CASE ReadRequestBytes(c)
  <2>1. PICK n \in 1..fRequestBufferBytesLeft[c] :
          /\ n <= Len(wire[c])
          /\ fRequestBuffer' = [fRequestBuffer EXCEPT ![c] = @ \o SubSeq(wire[c], 1, n)]
          /\ wire' = [wire EXCEPT ![c] = SubSeq(@, n + 1, Len(@))]
          /\ newBytesRead' = n
    BY <1>1 DEF ReadRequestBytes
  <2>2. n \in Nat
    BY <2>1 DEF TypeOK
  <2>3. SubSeq(wire[c], 1, n) \in Seq(Byte) /\ wire' \in [Clients -> Seq(Byte)]
    BY <2>1, <2>2, FrontTaken
  <2>4. fRequestBuffer[c] \in Seq(Byte)
    BY DEF TypeOK
  <2>5. fRequestBuffer[c] \o SubSeq(wire[c], 1, n) \in Seq(Byte)
    BY <2>3, <2>4, ConcatProperties
  <2>6. fRequestBuffer' \in [Clients -> Seq(Byte)]
    BY <2>1, <2>5 DEF TypeOK
  <2>7. /\ running' \in Clients \cup {NULL} /\ newBytesRead' \in Nat
        /\ UNCHANGED <<eof, asked, packets, open, fRequestBufferBytesLeft, fLastCRLF, session,
                       readVars, interfaceVars, historyVars>>
    BY <1>1, <2>1, <2>2 DEF ReadRequestBytes
  <2> QED
    BY <2>3, <2>6, <2>7 DEF TypeOK, readVars, interfaceVars, historyVars
<1>2. CASE ReadEnd(c)
  BY <1>2, CloseTypes DEF ReadEnd
<1> QED
  BY <1>1, <1>2

\* What a command does.
LEMMA CommandTypes ==
  ASSUME TypeOK, NEW c \in Clients, NEW command, HandleCommand(c, command)
  PROVE  /\ session' \in [Clients -> {"none", "setup", "playing"}]
         /\ descriptor' \in [Clients -> Descriptor]
         /\ socketHandler' \in [Clients -> {"connection", "descriptor", "none"}]
         /\ fNextTCPReadSize' \in [Interfaces -> Nat]
         /\ fNextTCPReadStreamSocketNum' \in [Interfaces -> Clients \cup {NULL}]
         /\ fInBuf' \in Seq(Byte)
<1>1. CASE Setup(c)
  BY <1>1 DEF TypeOK, Setup, Descriptor, readVars, interfaceVars
<1>2. CASE Play(c)
  <2>1. descriptor' \in [Clients -> Descriptor]
    <3>1. Interfaces \in SUBSET Interfaces
      OBVIOUS
    <3>2. [descriptor EXCEPT ![c].channels = Interfaces, ![c].byteHandler = TRUE]
            \in [Clients -> Descriptor]
      BY <3>1, ChannelsChange
    <3> QED
      BY <1>2, <3>2 DEF Play, StartPlaying
  <2> QED
    BY <1>2, <2>1 DEF TypeOK, Play, StartPlaying, interfaceVars
<1>3. CASE TearDown(c)
  BY <1>3, EndSessionTypes, EndPlayingTypes DEF TearDown
<1>4. CASE UNCHANGED <<session, readVars, interfaceVars>>
  BY <1>4 DEF TypeOK, Descriptor, readVars, interfaceVars
<1> QED
  BY <1>1, <1>2, <1>3, <1>4 DEF HandleCommand

\* The scan of the buffer, and the handling of a request.
LEMMA HandleRequestBytesTypes ==
  ASSUME TypeOK, NEW c \in Clients, HandleRequestBytes(c)
  PROVE  TypeOK'
<1>1. CASE TooBig(c)
  BY <1>1, CloseTypes DEF TooBig
<1>2. CASE NeedMore(c)
  <2>1. fRequestBuffer[c] \in Seq(Byte) /\ fLastCRLF[c] \in Int
    BY DEF TypeOK
  <2>2. \A i \in LineEnds(c) : i \in Int
    BY <2>1 DEF LineEnds
  <2>3. fLastCRLF' \in [Clients -> Int]
    <3>1. \/ UNCHANGED fLastCRLF
          \/ \E i \in LineEnds(c) : fLastCRLF' = [fLastCRLF EXCEPT ![c] = i]
          \/ \E i \in LineEnds(c) : fLastCRLF' = [fLastCRLF EXCEPT ![c] = i - 2]
      BY <1>2 DEF NeedMore, NoteLineEnd
    <3>2. fLastCRLF \in [Clients -> Int]
      BY DEF TypeOK
    <3>3. \A i \in LineEnds(c) : i - 2 \in Int
      BY <2>2
    <3>4. \A i \in Int : [fLastCRLF EXCEPT ![c] = i] \in [Clients -> Int]
      BY <3>2
    <3> QED
      BY <2>2, <3>1, <3>2, <3>3, <3>4
  <2>4. fRequestBufferBytesLeft' \in [Clients -> Nat]
    BY <1>2 DEF TypeOK, NeedMore
  <2>5. running' \in Clients \cup {NULL} /\ newBytesRead' \in Nat
    BY <1>2 DEF NeedMore
  <2>6. UNCHANGED <<clientVars, open, fRequestBuffer, session, readVars, interfaceVars,
                    historyVars>>
    BY <1>2 DEF NeedMore
  <2> QED
    BY <2>3, <2>4, <2>5, <2>6 DEF TypeOK, clientVars, readVars, interfaceVars, historyVars
<1>3. CASE HandleRequest(c)
  <2>1. PICK end \in LineEnds(c) :
          /\ RequestSize(c, end) <= Len(fRequestBuffer[c])
          /\ HandleCommand(c, Command(SubSeq(fRequestBuffer[c], 1, end - 1)))
          /\ handled' = [handled EXCEPT
                           ![c] = Append(@, SubSeq(fRequestBuffer[c], 1, RequestSize(c, end)))]
          /\ KeepRest(c, RequestSize(c, end))
    BY <1>3 DEF HandleRequest
  <2> DEFINE size == RequestSize(c, end)
             rest == SubSeq(fRequestBuffer[c], size + 1, Len(fRequestBuffer[c]))
  <2>2. size \in Nat
    <3>1. end \in 1..(Len(fRequestBuffer[c]) - 1) /\ fLastCRLF[c] \in Int
      BY DEF LineEnds, TypeOK
    <3>2. ContentLength(SubSeq(fRequestBuffer[c], 1, end - 1)) \in 0..9
      BY ContentLengthIsDigit
    <3> QED
      BY <3>1, <3>2 DEF RequestSize
  <2>3. fRequestBuffer[c] \in Seq(Byte)
    BY DEF TypeOK
  <2>4. SubSeq(fRequestBuffer[c], 1, size) \in Seq(Byte) /\ rest \in Seq(Byte)
    BY <2>1, <2>2, <2>3, Splitting
  <2>5. handled' \in [Clients -> Seq(Seq(Byte))]
    <3>1. handled[c] \in Seq(Seq(Byte))
      BY DEF TypeOK
    <3>2. Append(handled[c], SubSeq(fRequestBuffer[c], 1, size)) \in Seq(Seq(Byte))
      BY <2>4, <3>1, AppendProperties
    <3> QED
      BY <2>1, <3>2 DEF TypeOK
  <2>6. /\ fRequestBuffer' \in [Clients -> Seq(Byte)]
        /\ running' \in Clients \cup {NULL} /\ newBytesRead' \in Nat
    <3>1. Len(rest) \in Nat
      BY <2>4
    <3>2. /\ fRequestBuffer' = [fRequestBuffer EXCEPT ![c] = rest]
          /\ newBytesRead' = Len(rest) /\ running' \in {c, NULL}
      BY <2>1 DEF KeepRest
    <3> HIDE DEF rest
    <3> QED
      BY <2>4, <3>1, <3>2 DEF TypeOK
  <2>7. /\ session' \in [Clients -> {"none", "setup", "playing"}]
        /\ descriptor' \in [Clients -> Descriptor]
        /\ socketHandler' \in [Clients -> {"connection", "descriptor", "none"}]
        /\ fNextTCPReadSize' \in [Interfaces -> Nat]
        /\ fNextTCPReadStreamSocketNum' \in [Interfaces -> Clients \cup {NULL}]
        /\ fInBuf' \in Seq(Byte)
    BY <2>1, CommandTypes
  <2>8. fRequestBufferBytesLeft' \in [Clients -> Nat] /\ fLastCRLF' \in [Clients -> Int]
    BY <1>3, RoomIsNumber, SMTT(30) DEF TypeOK, HandleRequest, ResetRequestBuffer
  <2>9. UNCHANGED <<clientVars, open, failed, reports>>
    BY <1>3 DEF HandleRequest
  <2> QED
    BY <2>5, <2>6, <2>7, <2>8, <2>9 DEF TypeOK, Descriptor, clientVars
<1> QED
  BY <1>1, <1>2, <1>3 DEF HandleRequestBytes

\* A packet's size, from its two bytes.
LEMMA SizeIsNumber ==
  ASSUME NEW p \in Byte, NEW q \in Byte
  PROVE  256 * p + q \in Nat
BY DEF Byte

\* Less is left to be read.
LEMMA LessToRead ==
  ASSUME fNextTCPReadSize \in [Interfaces -> Nat], NEW i \in Interfaces, NEW n \in Nat,
         n <= fNextTCPReadSize[i]
  PROVE  [fNextTCPReadSize EXCEPT ![i] = @ - n] \in [Interfaces -> Nat]
<1>1. fNextTCPReadSize[i] - n \in Nat
  OBVIOUS
<1> QED
  BY <1>1

\* What the descriptor reads byte by byte.
LEMMA ReadByteTypes ==
  ASSUME TypeOK, NEW c \in Clients,
         \/ PassRequestByte(c) \/ ReadDollar(c) \/ ReadChannel(c) \/ ReadSize1(c)
         \/ ReadSize2(c) \/ SkipByte(c)
  PROVE  TypeOK'
<1>1. /\ Head(wire[c]) \in Byte /\ wire' \in [Clients -> Seq(Byte)]
      /\ UNCHANGED <<eof, asked, packets, open, fRequestBufferBytesLeft, fLastCRLF, session,
                     socketHandler, fInBuf, failed, handled, reports>>
  <2>1. TakeByte(c)
    BY DEF PassRequestByte, ReadDollar, ReadChannel, ReadSize1, ReadSize2, SkipByte
  <2> QED
    BY <2>1, TakeByteTypes DEF TakeByte, historyVars
<1>2. /\ "AWAITING_DOLLAR" \in States /\ "AWAITING_STREAM_CHANNEL_ID" \in States
      /\ "AWAITING_SIZE1" \in States /\ "AWAITING_SIZE2" \in States
      /\ "AWAITING_PACKET_DATA" \in States
  BY DEF States
<1>3. /\ descriptor \in [Clients -> Descriptor] /\ descriptor[c].channels \subseteq Interfaces
      /\ descriptor[c].fStreamChannel \in Interfaces /\ descriptor[c].fSizeByte1 \in Byte
  BY DescriptorTypes
<1>4. /\ fRequestBuffer' \in [Clients -> Seq(Byte)]
      /\ running' \in Clients \cup {NULL} /\ newBytesRead' \in Nat
  <2>1. CASE UNCHANGED <<fRequestBuffer, running, newBytesRead>>
    BY <2>1 DEF TypeOK
  <2>2. CASE /\ fRequestBuffer' = [fRequestBuffer EXCEPT ![c] = Append(@, Head(wire[c]))]
             /\ running' = c /\ newBytesRead' = 1
    BY <1>1, <2>2 DEF TypeOK
  <2> QED
    BY <2>1, <2>2 DEF PassRequestByte, ReadDollar, ReadChannel, ReadSize1, ReadSize2, SkipByte,
       runVars
<1>5. descriptor' \in [Clients -> Descriptor]
  <2>1. CASE PassRequestByte(c) \/ SkipByte(c)
    BY <1>3, <2>1 DEF PassRequestByte, SkipByte
  <2>2. CASE ReadDollar(c) \/ ReadSize2(c)
    <3>1. \E state \in States : EnterState(c, state)
      BY <1>2, <2>2 DEF ReadDollar, ReadSize2
    <3> QED
      BY <3>1, StateChanges DEF EnterState
  <2>3. CASE ReadChannel(c)
    <3>1. ASSUME NEW i \in descriptor[c].channels,
                 descriptor' = [descriptor EXCEPT ![c].fStreamChannel = i,
                                                  ![c].fTCPReadingState = "AWAITING_SIZE1"]
          PROVE  descriptor' \in [Clients -> Descriptor]
      <4>1. i \in Interfaces
        BY <1>3
      <4> QED
        BY <1>2, <3>1, <4>1, ChannelChanges
    <3>2. CASE EnterState(c, "AWAITING_DOLLAR")
      BY <1>2, <3>2, StateChanges DEF EnterState
    <3> QED
      BY <2>3, <3>1, <3>2 DEF ReadChannel
  <2>4. CASE ReadSize1(c)
    <3> DEFINE byte == Head(wire[c])
    <3>1. /\ byte \in Byte
          /\ descriptor' = [descriptor EXCEPT ![c].fSizeByte1 = byte,
                                              ![c].fTCPReadingState = "AWAITING_SIZE2"]
      BY <1>1, <2>4 DEF ReadSize1
    <3> HIDE DEF byte
    <3> QED
      BY <1>2, <3>1, SizeChanges
  <2> QED
    BY <2>1, <2>2, <2>3, <2>4
<1>6. /\ fNextTCPReadSize' \in [Interfaces -> Nat]
      /\ fNextTCPReadStreamSocketNum' \in [Interfaces -> Clients \cup {NULL}]
  <2>1. CASE UNCHANGED <<fNextTCPReadSize, fNextTCPReadStreamSocketNum>>
    BY <2>1 DEF TypeOK
  <2>2. CASE ReadSize2(c)
    <3> DEFINE i == descriptor[c].fStreamChannel
               size == 256 * descriptor[c].fSizeByte1 + Head(wire[c])
    <3>1. size \in Nat
      BY <1>1, <1>3, SizeIsNumber
    <3>2. \/ /\ fNextTCPReadSize' = [fNextTCPReadSize EXCEPT ![i] = size]
             /\ fNextTCPReadStreamSocketNum' = [fNextTCPReadStreamSocketNum EXCEPT ![i] = c]
          \/ UNCHANGED <<fNextTCPReadSize, fNextTCPReadStreamSocketNum>>
      BY <2>2 DEF ReadSize2
    <3>3. i \in Interfaces
      BY <1>3
    <3>4. /\ fNextTCPReadSize \in [Interfaces -> Nat]
          /\ fNextTCPReadStreamSocketNum \in [Interfaces -> Clients \cup {NULL}]
      BY DEF TypeOK
    <3> HIDE DEF size, i
    <3> QED
      BY <3>1, <3>2, <3>3, <3>4
  <2>3. CASE SkipByte(c)
    <3>1. /\ fNextTCPReadSize["rtp"] > 0
          /\ fNextTCPReadSize' = [fNextTCPReadSize EXCEPT !["rtp"] = @ - 1]
          /\ UNCHANGED fNextTCPReadStreamSocketNum
      BY <2>3 DEF SkipByte
    <3>2. /\ fNextTCPReadSize \in [Interfaces -> Nat] /\ "rtp" \in Interfaces
          /\ fNextTCPReadStreamSocketNum \in [Interfaces -> Clients \cup {NULL}]
      BY DEF TypeOK, Interfaces
    <3>3. 1 \in Nat /\ 1 <= fNextTCPReadSize["rtp"]
      BY <3>1, <3>2
    <3> QED
      BY <3>1, <3>2, <3>3, LessToRead
  <2> QED
    BY <2>1, <2>2, <2>3 DEF PassRequestByte, ReadDollar, ReadChannel, ReadSize1
<1> QED
  BY <1>1, <1>4, <1>5, <1>6 DEF TypeOK, Descriptor

\* What RTCPInstance reads, and the end of a packet.
LEMMA ReadReportTypes ==
  ASSUME TypeOK, NEW c \in Clients,
         \/ EndOfPacket(c) \/ ReadReport(c) \/ ReadPartOfReport(c) \/ ReportBreaksOff(c)
  PROVE  TypeOK'
<1> DEFINE socket == fNextTCPReadStreamSocketNum["rtcp"]
<1>1. CASE EndOfPacket(c)
  <2>1. descriptor' \in [Clients -> Descriptor]
    BY <1>1, StateChanges DEF EndOfPacket, EnterState, States
  <2> QED
    BY <1>1, <2>1 DEF TypeOK, Descriptor, EndOfPacket, clientVars, bufferVars, runVars,
       interfaceVars, historyVars
<1>2. /\ "rtcp" \in Interfaces /\ fNextTCPReadSize["rtcp"] \in Nat
      /\ socket # NULL => socket \in Clients
  BY DEF TypeOK, Interfaces
<1>3. CASE ReadReport(c)
  <2>1. PICK n \in 1..Len(wire[socket]) :
          /\ reports' = [reports EXCEPT
                           ![socket] = Append(@, fInBuf \o SubSeq(wire[socket], 1, n))]
          /\ wire' = [wire EXCEPT ![socket] = SubSeq(@, n + 1, Len(@))]
    BY <1>3 DEF ReadReport
  <2>2. socket \in Clients
    BY <1>2, <1>3 DEF ReadReport
  <2>3. n \in Nat /\ n <= Len(wire[socket])
    BY <2>2 DEF TypeOK
  <2>4. SubSeq(wire[socket], 1, n) \in Seq(Byte) /\ wire' \in [Clients -> Seq(Byte)]
    BY <2>1, <2>2, <2>3, FrontTaken
  <2>5. fInBuf \o SubSeq(wire[socket], 1, n) \in Seq(Byte)
    BY <2>4, ConcatProperties DEF TypeOK
  <2>6. reports' \in [Clients -> Seq(Seq(Byte))]
    <3>1. reports[socket] \in Seq(Seq(Byte))
      BY <2>2 DEF TypeOK
    <3>2. Append(reports[socket], fInBuf \o SubSeq(wire[socket], 1, n)) \in Seq(Seq(Byte))
      BY <2>5, <3>1, AppendProperties
    <3> QED
      BY <2>1, <3>2 DEF TypeOK
  <2>7. /\ fNextTCPReadSize' \in [Interfaces -> Nat] /\ fInBuf' \in Seq(Byte)
        /\ fNextTCPReadStreamSocketNum' \in [Interfaces -> Clients \cup {NULL}]
    <3>1. /\ fNextTCPReadSize' = [fNextTCPReadSize EXCEPT !["rtcp"] = 0] /\ fInBuf' = <<>>
          /\ fNextTCPReadStreamSocketNum' = [fNextTCPReadStreamSocketNum EXCEPT !["rtcp"] = NULL]
      BY <1>3 DEF ReadReport
    <3>2. /\ fNextTCPReadSize \in [Interfaces -> Nat]
          /\ fNextTCPReadStreamSocketNum \in [Interfaces -> Clients \cup {NULL}]
      BY DEF TypeOK
    <3>3. <<>> \in Seq(Byte)
      OBVIOUS
    <3> QED
      BY <3>1, <3>2, <3>3
  <2>8. UNCHANGED <<eof, asked, packets, open, bufferVars, runVars, session, readVars,
                    failed, handled>>
    BY <1>3 DEF ReadReport
  <2> QED
    BY <2>4, <2>6, <2>7, <2>8 DEF TypeOK, bufferVars, runVars, readVars
<1>4. CASE ReadPartOfReport(c)
  <2>1. PICK n \in 1..Len(wire[socket]) :
          /\ n <= fNextTCPReadSize["rtcp"]
          /\ fInBuf' = fInBuf \o SubSeq(wire[socket], 1, n)
          /\ wire' = [wire EXCEPT ![socket] = SubSeq(@, n + 1, Len(@))]
          /\ fNextTCPReadSize' = [fNextTCPReadSize EXCEPT !["rtcp"] = @ - n]
    BY <1>4 DEF ReadPartOfReport, Gets
  <2>2. socket \in Clients
    BY <1>2, <1>4 DEF ReadPartOfReport
  <2>3. n \in Nat /\ n <= Len(wire[socket])
    BY <2>2 DEF TypeOK
  <2>4. SubSeq(wire[socket], 1, n) \in Seq(Byte) /\ wire' \in [Clients -> Seq(Byte)]
    BY <2>1, <2>2, <2>3, FrontTaken
  <2>5. fInBuf' \in Seq(Byte)
    BY <2>1, <2>4, ConcatProperties DEF TypeOK
  <2>6. fNextTCPReadSize' \in [Interfaces -> Nat]
    BY <1>2, <2>1, <2>3, LessToRead DEF TypeOK
  <2>7. UNCHANGED <<eof, asked, packets, open, bufferVars, runVars, session, readVars,
                    fNextTCPReadStreamSocketNum, historyVars>>
    BY <1>4 DEF ReadPartOfReport
  <2> QED
    BY <2>4, <2>5, <2>6, <2>7 DEF TypeOK, bufferVars, runVars, readVars, historyVars
<1>5. CASE ReportBreaksOff(c)
  <2>1. socket \in Clients
    BY <1>2, <1>5 DEF ReportBreaksOff
  <2>2. Len(wire[socket]) \in Nat /\ <<>> \in Seq(Byte)
    BY <2>1 DEF TypeOK
  <2>3. /\ wire' \in [Clients -> Seq(Byte)] /\ fInBuf' \in Seq(Byte)
        /\ fNextTCPReadStreamSocketNum' \in [Interfaces -> Clients \cup {NULL}]
    BY <1>5, <2>2 DEF ReportBreaksOff, TypeOK
  <2>4. fNextTCPReadSize' \in [Interfaces -> Nat]
    BY <1>2, <1>5, <2>2, LessToRead DEF ReportBreaksOff, Gets, TypeOK
  <2>5. UNCHANGED <<eof, asked, packets, open, bufferVars, runVars, session, readVars,
                    historyVars>>
    BY <1>5 DEF ReportBreaksOff
  <2> QED
    BY <2>3, <2>4, <2>5 DEF TypeOK, bufferVars, runVars, readVars, historyVars
<1> QED
  BY <1>1, <1>3, <1>4, <1>5

\* All steps keep the types.
LEMMA TypesKept ==
  ASSUME TypeOK, [Next]_vars
  PROVE  TypeOK'
<1>1. CASE Next
  <2>1. PICK c \in Clients :
          \/ Client(c) \/ ReadSocket(c) \/ HandleRequestBytes(c)
          \/ SessionTimesOut(c) \/ \E i \in Interfaces : SendFails(c, i)
    BY <1>1 DEF Next
  <2>2. CASE ReadSocket(c)
    BY <2>2, ReadRequestTypes, ReadByteTypes, ReadReportTypes, CloseTypes
       DEF ReadSocket, ReadError
  <2> QED
    BY <2>1, <2>2, ClientTypes, HandleRequestBytesTypes, EndTypes
<1>2. CASE UNCHANGED vars
  BY <1>2 DEF TypeOK, vars, clientVars, bufferVars, runVars, readVars, interfaceVars, historyVars
<1> QED
  BY <1>1, <1>2

-----------------------------------------------------------------------------
(* What the other parts of the invariant need to know of a step *)

\* A connection is deleted: its buffer is as at the beginning.
ClosesConnection(c) == ReadEnd(c) \/ ReadError(c) \/ TooBig(c)

\* Steps on which neither the buffers nor handleRequestBytes depend.
LeavesBuffers(c) ==
  \/ Client(c) \/ SessionTimesOut(c) \/ \E i \in Interfaces : SendFails(c, i)
  \/ ReadDollar(c) \/ ReadChannel(c) \/ ReadSize1(c) \/ ReadSize2(c) \/ SkipByte(c)
  \/ EndOfPacket(c) \/ ReadReport(c) \/ ReadPartOfReport(c) \/ ReportBreaksOff(c)

\* The steps, by what they do to buffers.
LEMMA Steps ==
  ASSUME [Next]_vars
  PROVE  \/ UNCHANGED vars
         \/ \E c \in Clients :
              \/ LeavesBuffers(c) \/ ClosesConnection(c)
              \/ ReadRequestBytes(c) \/ PassRequestByte(c) \/ NeedMore(c) \/ HandleRequest(c)
<1>1. ASSUME NEW c \in Clients,
             \/ Client(c) \/ ReadSocket(c) \/ HandleRequestBytes(c)
             \/ SessionTimesOut(c) \/ \E i \in Interfaces : SendFails(c, i)
      PROVE  \/ LeavesBuffers(c) \/ ClosesConnection(c)
             \/ ReadRequestBytes(c) \/ PassRequestByte(c) \/ NeedMore(c) \/ HandleRequest(c)
  BY <1>1 DEF ReadSocket, HandleRequestBytes, LeavesBuffers, ClosesConnection
<1> QED
  BY <1>1 DEF Next

\* Those that leave them alone.
LEMMA BuffersLeft ==
  ASSUME NEW c \in Clients, LeavesBuffers(c)
  PROVE  UNCHANGED <<open, fRequestBuffer, fRequestBufferBytesLeft, fLastCRLF, running, newBytesRead>>
<1>1. CASE Client(c)
  BY <1>1 DEF Client, SendRequest, SendPacket, Disconnect, bufferVars, runVars
<1>2. CASE SessionTimesOut(c) \/ \E i \in Interfaces : SendFails(c, i)
  BY <1>2 DEF SessionTimesOut, SendFails, bufferVars, runVars
<1>3. CASE \/ ReadDollar(c) \/ ReadChannel(c) \/ ReadSize1(c) \/ ReadSize2(c) \/ SkipByte(c)
  BY <1>3 DEF ReadDollar, ReadChannel, ReadSize1, ReadSize2, SkipByte, TakeByte, runVars
<1>4. CASE EndOfPacket(c) \/ ReadReport(c) \/ ReadPartOfReport(c) \/ ReportBreaksOff(c)
  BY <1>4 DEF EndOfPacket, ReadReport, ReadPartOfReport, ReportBreaksOff, bufferVars, runVars
<1> QED
  BY <1>1, <1>2, <1>3, <1>4 DEF LeavesBuffers

\* Those that delete a connection.
LEMMA Closes ==
  ASSUME NEW c \in Clients, ClosesConnection(c)
  PROVE  CloseConnection(c) /\ running \in {c, NULL}
BY DEF ClosesConnection, ReadEnd, ReadError, TooBig

\* What a handled request leaves in the buffer.
LEMMA RestOfRequest ==
  ASSUME TypeOK, NEW c \in Clients, HandleRequest(c)
  PROVE  \E rest \in Seq(Byte) :
           /\ Len(rest) <= Len(fRequestBuffer[c])
           /\ fRequestBuffer' = [fRequestBuffer EXCEPT ![c] = rest]
           /\ newBytesRead' = Len(rest)
           /\ running' = IF rest = <<>> THEN NULL ELSE c
<1>1. PICK end \in LineEnds(c) :
        /\ RequestSize(c, end) <= Len(fRequestBuffer[c])
        /\ KeepRest(c, RequestSize(c, end))
  BY DEF HandleRequest
<1> DEFINE size == RequestSize(c, end)
           rest == SubSeq(fRequestBuffer[c], size + 1, Len(fRequestBuffer[c]))
<1>2. size \in Nat
  <2>1. end \in 1..(Len(fRequestBuffer[c]) - 1) /\ fLastCRLF[c] \in Int
    BY DEF LineEnds, TypeOK
  <2>2. ContentLength(SubSeq(fRequestBuffer[c], 1, end - 1)) \in 0..9
    BY ContentLengthIsDigit
  <2> QED
    BY <2>1, <2>2 DEF RequestSize
<1>3. fRequestBuffer[c] \in Seq(Byte) /\ size \in 0..Len(fRequestBuffer[c])
  BY <1>1, <1>2 DEF TypeOK
<1>4. rest \in Seq(Byte) /\ Len(rest) = Len(fRequestBuffer[c]) - size
  BY <1>3, Splitting
<1>5. /\ fRequestBuffer' = [fRequestBuffer EXCEPT ![c] = rest]
      /\ newBytesRead' = Len(rest)
      /\ running' = IF rest = <<>> THEN NULL ELSE c
  BY <1>1 DEF KeepRest
<1>6. Len(rest) <= Len(fRequestBuffer[c])
  BY <1>2, <1>3, <1>4
<1> HIDE DEF rest
<1> QED
  BY <1>4, <1>5, <1>6

-----------------------------------------------------------------------------
(* Room in the buffer *)

\* What BufferHasRoom says of one connection.
Room(b, left, new, busy) ==
  /\ left + Len(b) - new = REQUEST_BUFFER_SIZE
  /\ new <= left
  /\ ~busy => left > 0

\* No step miscounts the room.
LEMMA RoomKept ==
  ASSUME TypeOK, BufferHasRoom, [Next]_vars
  PROVE  BufferHasRoom'
<1> DEFINE new(d) == IF running = d THEN newBytesRead ELSE 0
<1>1. NULL \notin Clients
  BY ConnectionAssumption, Zenon
<1>2. /\ fRequestBuffer \in [Clients -> Seq(Byte)]
      /\ fRequestBufferBytesLeft \in [Clients -> Nat] /\ newBytesRead \in Nat
      /\ \A d \in Clients : Len(fRequestBuffer[d]) \in Nat
  BY DEF TypeOK
<1>3. CASE UNCHANGED <<fRequestBuffer, fRequestBufferBytesLeft, running, newBytesRead>>
  BY <1>3 DEF BufferHasRoom
<1>4. ASSUME NEW c \in Clients, ClosesConnection(c)
      PROVE  BufferHasRoom'
  <2>1. /\ fRequestBuffer' = [fRequestBuffer EXCEPT ![c] = <<>>]
        /\ fRequestBufferBytesLeft' = [fRequestBufferBytesLeft EXCEPT ![c] = REQUEST_BUFFER_SIZE]
        /\ running' = NULL /\ running \in {c, NULL}
    BY <1>4, Closes DEF CloseConnection
  <2>2. SUFFICES ASSUME NEW d \in Clients
                 PROVE  Room(fRequestBuffer'[d], fRequestBufferBytesLeft'[d], 0, FALSE)
    BY <1>1, <2>1 DEF BufferHasRoom, Room
  <2>3. CASE d = c
    BY <1>2, <2>1, <2>3, RoomIsNumber DEF Room
  <2>4. CASE d # c
    BY <1>1, <1>2, <2>1, <2>4 DEF BufferHasRoom, Room
  <2> QED
    BY <2>3, <2>4
<1>5. ASSUME NEW c \in Clients, ReadRequestBytes(c)
      PROVE  BufferHasRoom'
  <2>1. PICK n \in 1..fRequestBufferBytesLeft[c] :
          /\ n <= Len(wire[c])
          /\ fRequestBuffer' = [fRequestBuffer EXCEPT ![c] = @ \o SubSeq(wire[c], 1, n)]
          /\ newBytesRead' = n
    BY <1>5 DEF ReadRequestBytes
  <2>2. /\ running = NULL /\ running' = c
        /\ fRequestBufferBytesLeft' = fRequestBufferBytesLeft
    BY <1>5 DEF ReadRequestBytes
  <2>3. wire[c] \in Seq(Byte) /\ n \in 0..Len(wire[c]) /\ n \in Nat
    BY <1>2, <2>1 DEF TypeOK
  <2>4. SubSeq(wire[c], 1, n) \in Seq(Byte) /\ Len(SubSeq(wire[c], 1, n)) = n
    BY <2>3, Splitting
  <2>5. Len(fRequestBuffer'[c]) = Len(fRequestBuffer[c]) + n
    BY <1>2, <2>1, <2>4, ConcatProperties
  <2>6. SUFFICES ASSUME NEW d \in Clients
                 PROVE  Room(fRequestBuffer'[d], fRequestBufferBytesLeft'[d], new(d)', running' = d)
    BY DEF BufferHasRoom, Room
  <2>7. CASE d = c
    BY <1>1, <1>2, <2>1, <2>2, <2>3, <2>5, <2>7 DEF BufferHasRoom, Room
  <2>8. CASE d # c
    BY <1>1, <1>2, <2>1, <2>2, <2>8 DEF BufferHasRoom, Room
  <2> QED
    BY <2>7, <2>8
<1>6. ASSUME NEW c \in Clients, PassRequestByte(c)
      PROVE  BufferHasRoom'
  <2>1. CASE UNCHANGED <<fRequestBuffer, runVars>>
    BY <1>3, <1>6, <2>1 DEF PassRequestByte, TakeByte, runVars
  <2>2. CASE /\ fRequestBuffer' = [fRequestBuffer EXCEPT ![c] = Append(@, Head(wire[c]))]
             /\ running' = c /\ newBytesRead' = 1 /\ fRequestBufferBytesLeft[c] # 0
    <3>1. running = NULL /\ fRequestBufferBytesLeft' = fRequestBufferBytesLeft
      BY <1>6 DEF PassRequestByte, InState, TakeByte
    <3>2. Len(fRequestBuffer'[c]) = Len(fRequestBuffer[c]) + 1
      BY <1>2, <2>2
    <3>3. SUFFICES ASSUME NEW d \in Clients
                   PROVE  Room(fRequestBuffer'[d], fRequestBufferBytesLeft'[d], new(d)', running' = d)
      BY DEF BufferHasRoom, Room
    <3>4. CASE d = c
      BY <1>1, <1>2, <2>2, <3>1, <3>2, <3>4 DEF BufferHasRoom, Room
    <3>5. CASE d # c
      BY <1>1, <1>2, <2>2, <3>1, <3>5 DEF BufferHasRoom, Room
    <3> QED
      BY <3>4, <3>5
  <2> QED
    BY <1>6, <2>1, <2>2 DEF PassRequestByte
<1>7. ASSUME NEW c \in Clients, NeedMore(c)
      PROVE  BufferHasRoom'
  <2>1. /\ running = c /\ newBytesRead < fRequestBufferBytesLeft[c] /\ running' = NULL
        /\ fRequestBuffer' = fRequestBuffer
        /\ fRequestBufferBytesLeft' = [fRequestBufferBytesLeft EXCEPT ![c] = @ - newBytesRead]
    BY <1>7 DEF NeedMore
  <2>2. SUFFICES ASSUME NEW d \in Clients
                 PROVE  Room(fRequestBuffer'[d], fRequestBufferBytesLeft'[d], 0, FALSE)
    BY <1>1, <2>1 DEF BufferHasRoom, Room
  <2>3. CASE d = c
    <3>1. /\ fRequestBufferBytesLeft[c] + Len(fRequestBuffer[c]) - newBytesRead = REQUEST_BUFFER_SIZE
          /\ fRequestBufferBytesLeft[c] \in Nat /\ Len(fRequestBuffer[c]) \in Nat
      BY <1>2, <2>1 DEF BufferHasRoom
    <3>2. /\ fRequestBufferBytesLeft'[c] = fRequestBufferBytesLeft[c] - newBytesRead
          /\ fRequestBuffer'[c] = fRequestBuffer[c]
      BY <1>2, <2>1
    <3>3. newBytesRead \in Nat /\ newBytesRead < fRequestBufferBytesLeft[c]
      BY <1>2, <2>1
    <3>4. fRequestBufferBytesLeft'[c] + Len(fRequestBuffer'[c]) = REQUEST_BUFFER_SIZE
      BY <3>1, <3>2, <3>3
    <3>5. fRequestBufferBytesLeft'[c] > 0
      BY <3>1, <3>2, <3>3
    <3> QED
      BY <2>3, <3>1, <3>2, <3>3, <3>4, <3>5 DEF Room
  <2>4. CASE d # c
    BY <1>1, <1>2, <2>1, <2>4 DEF BufferHasRoom, Room
  <2> QED
    BY <2>3, <2>4
<1>8. ASSUME NEW c \in Clients, HandleRequest(c)
      PROVE  BufferHasRoom'
  <2>1. PICK rest \in Seq(Byte) :
          /\ Len(rest) <= Len(fRequestBuffer[c])
          /\ fRequestBuffer' = [fRequestBuffer EXCEPT ![c] = rest]
          /\ newBytesRead' = Len(rest)
          /\ running' = IF rest = <<>> THEN NULL ELSE c
    BY <1>8, RestOfRequest
  <2>2. /\ running = c
        /\ fRequestBufferBytesLeft' = [fRequestBufferBytesLeft EXCEPT ![c] = REQUEST_BUFFER_SIZE]
    BY <1>8 DEF HandleRequest, ResetRequestBuffer
  <2>3. SUFFICES ASSUME NEW d \in Clients
                 PROVE  Room(fRequestBuffer'[d], fRequestBufferBytesLeft'[d], new(d)', running' = d)
    BY DEF BufferHasRoom, Room
  <2>4. CASE d = c
    <3>1. /\ fRequestBuffer'[d] = rest /\ fRequestBufferBytesLeft'[d] = REQUEST_BUFFER_SIZE
          /\ new(d)' = Len(rest) /\ Len(rest) \in Nat
      BY <1>1, <1>2, <2>1, <2>2, <2>4
    <3>2. Len(rest) <= REQUEST_BUFFER_SIZE
      BY <1>2, <2>1, <2>2, <3>1, RoomIsNumber DEF BufferHasRoom
    <3> QED
      BY <3>1, <3>2, RoomIsNumber DEF Room
  <2>5. CASE d # c
    BY <1>1, <1>2, <2>1, <2>2, <2>5 DEF BufferHasRoom, Room
  <2> QED
    BY <2>4, <2>5
<1> QED
  BY <1>3, <1>4, <1>5, <1>6, <1>7, <1>8, Steps, BuffersLeft DEF vars, bufferVars, runVars

-----------------------------------------------------------------------------
(* Who reads the socket *)

\* What OneReader says of one socket.
ReaderOK(reader, d, s, isOpen) ==
  /\ reader = "descriptor" <=> d.channels # {}
  /\ d.channels # {} => s = "playing" /\ d.byteHandler
  /\ ~isOpen => reader = "none" /\ s = "none"

\* OneReader speaks of each socket by itself.
LEMMA OneReaderOfEach ==
  OneReader <=> \A c \in Clients : ReaderOK(socketHandler[c], descriptor[c], session[c], open[c])
BY DEF OneReader, ReaderOK

\* A connection that is gone.
LEMMA NobodyReads ==
  ReaderOK("none", NoDescriptor, "none", FALSE)
BY DEF ReaderOK, NoDescriptor

\* A session that has ended.
LEMMA EndedIsOK ==
  ASSUME NEW c \in Clients, TypeOK, ReaderOK(socketHandler[c], descriptor[c], session[c], open[c]),
         EndSession(c), EndPlaying(c)
  PROVE  /\ ReaderOK(socketHandler'[c], descriptor'[c], session'[c], open[c])
         /\ \A d \in Clients \ {c} :
              /\ socketHandler'[d] = socketHandler[d] /\ descriptor'[d] = descriptor[d]
              /\ session'[d] = session[d]
<1>1. /\ session' = [session EXCEPT ![c] = "none"]
      /\ descriptor' = [descriptor EXCEPT ![c] = NoDescriptor]
      /\ socketHandler' = [socketHandler EXCEPT
                             ![c] = IF descriptor[c].channels = {} THEN @ ELSE "none"]
  BY DEF EndSession, EndPlaying, ReaderAfter
<1>2. /\ DOMAIN session = Clients /\ DOMAIN descriptor = Clients /\ DOMAIN socketHandler = Clients
      /\ NoDescriptor.channels = {}
  BY DEF TypeOK, NoDescriptor
<1>3. \A d \in Clients \ {c} :
        /\ socketHandler'[d] = socketHandler[d] /\ descriptor'[d] = descriptor[d]
        /\ session'[d] = session[d]
  BY <1>1, <1>2
<1>4. session'[c] = "none" /\ descriptor'[c] = NoDescriptor
  BY <1>1, <1>2
<1>5. socketHandler'[c] = IF descriptor[c].channels = {} THEN socketHandler[c] ELSE "none"
  BY <1>1, <1>2
<1> QED
  BY <1>2, <1>3, <1>4, <1>5 DEF ReaderOK

\* A command.
LEMMA CommandIsOK ==
  ASSUME NEW c \in Clients, NEW command, TypeOK, open[c], HandleCommand(c, command),
         ReaderOK(socketHandler[c], descriptor[c], session[c], open[c])
  PROVE  /\ ReaderOK(socketHandler'[c], descriptor'[c], session'[c], open[c])
         /\ \A d \in Clients \ {c} :
              /\ socketHandler'[d] = socketHandler[d] /\ descriptor'[d] = descriptor[d]
              /\ session'[d] = session[d]
<1>1. /\ DOMAIN session = Clients /\ DOMAIN descriptor = Clients /\ DOMAIN socketHandler = Clients
  BY DEF TypeOK
<1>2. CASE Setup(c)
  BY <1>1, <1>2 DEF Setup, readVars, ReaderOK
<1>3. CASE Play(c)
  <2>1. /\ session' = [session EXCEPT ![c] = "playing"]
        /\ socketHandler' = [socketHandler EXCEPT ![c] = "descriptor"]
        /\ descriptor' = [descriptor EXCEPT ![c].channels = Interfaces, ![c].byteHandler = TRUE]
    BY <1>3 DEF Play, StartPlaying
  <2>2. /\ session'[c] = "playing" /\ socketHandler'[c] = "descriptor"
        /\ descriptor'[c].channels = Interfaces /\ descriptor'[c].byteHandler = TRUE
    <3>1. descriptor[c] \in Descriptor
      BY DEF TypeOK, Descriptor
    <3>2. session'[c] = "playing" /\ socketHandler'[c] = "descriptor"
      BY <1>1, <2>1
    <3>3. descriptor'[c] = [descriptor[c] EXCEPT !.channels = Interfaces, !.byteHandler = TRUE]
      BY <1>1, <2>1
    <3>4. descriptor'[c].channels = Interfaces /\ descriptor'[c].byteHandler = TRUE
      BY <3>1, <3>3 DEF Descriptor
    <3> QED
      BY <3>2, <3>4
  <2>3. Interfaces # {}
    BY DEF Interfaces
  <2>4. ReaderOK(socketHandler'[c], descriptor'[c], session'[c], open[c])
    BY <2>2, <2>3 DEF ReaderOK
  <2>5. \A d \in Clients \ {c} :
          /\ socketHandler'[d] = socketHandler[d] /\ descriptor'[d] = descriptor[d]
          /\ session'[d] = session[d]
    BY <1>1, <2>1
  <2> QED
    BY <2>4, <2>5
<1>4. CASE TearDown(c)
  BY <1>4, EndedIsOK DEF TearDown
<1>5. CASE UNCHANGED <<session, readVars, interfaceVars>>
  BY <1>5 DEF readVars
<1> QED
  BY <1>2, <1>3, <1>4, <1>5 DEF HandleCommand

\* handleRequestBytes runs for connections that exist.
LEMMA RunningIsOpen ==
  ASSUME TypeOK, RunInv, OneReader, [Next]_vars
  PROVE  RunInv'
<1>1. NULL \notin Clients /\ DOMAIN open = Clients
  BY ConnectionAssumption, Zenon DEF TypeOK
<1>2. CASE UNCHANGED <<open, running>>
  BY <1>2 DEF RunInv
<1>3. ASSUME NEW c \in Clients, ClosesConnection(c)
      PROVE  RunInv'
  BY <1>3, Closes DEF CloseConnection, RunInv
<1>4. ASSUME NEW c \in Clients, ReadRequestBytes(c) \/ PassRequestByte(c)
      PROVE  RunInv'
  <2>1. open[c] /\ running' \in {running, c} /\ UNCHANGED open
    BY <1>4 DEF OneReader, ReadRequestBytes, PassRequestByte, InState, TakeByte, runVars
  <2> QED
    BY <2>1 DEF RunInv
<1>5. ASSUME NEW c \in Clients, NeedMore(c) \/ HandleRequest(c)
      PROVE  RunInv'
  <2>1. running = c /\ running' \in {NULL, c} /\ UNCHANGED open
    BY <1>5 DEF NeedMore, HandleRequest, KeepRest
  <2> QED
    BY <2>1 DEF RunInv
<1> QED
  BY <1>2, <1>3, <1>4, <1>5, Steps, BuffersLeft DEF vars, runVars

\* What the descriptor's state says of the packet has no part in it.
LEMMA ReaderLeft ==
  ASSUME TypeOK, NEW c \in Clients,
         \/ ReadDollar(c) \/ ReadChannel(c) \/ ReadSize1(c) \/ ReadSize2(c) \/ EndOfPacket(c)
  PROVE  /\ UNCHANGED <<open, session, socketHandler>>
         /\ \A d \in Clients : /\ descriptor'[d].channels = descriptor[d].channels
                               /\ descriptor'[d].byteHandler = descriptor[d].byteHandler
<1>1. UNCHANGED <<open, session, socketHandler>>
  BY DEF ReadDollar, ReadChannel, ReadSize1, ReadSize2, EndOfPacket, TakeByte
<1>2. descriptor \in [Clients -> Descriptor]
  BY DescriptorTypes
<1>3. \/ \E state \in States : EnterState(c, state)
      \/ \E i \in Interfaces :
           descriptor' = [descriptor EXCEPT ![c].fStreamChannel = i,
                                            ![c].fTCPReadingState = "AWAITING_SIZE1"]
      \/ \E byte \in Byte :
           descriptor' = [descriptor EXCEPT ![c].fSizeByte1 = byte,
                                            ![c].fTCPReadingState = "AWAITING_SIZE2"]
  <2>1. CASE ReadDollar(c) \/ ReadSize2(c) \/ EndOfPacket(c)
    BY <2>1 DEF ReadDollar, ReadSize2, EndOfPacket, States
  <2>2. CASE ReadChannel(c)
    BY <2>2, DescriptorTypes DEF ReadChannel, States
  <2>3. CASE ReadSize1(c)
    <3>1. Head(wire[c]) \in Byte
      BY <2>3, TakeByteTypes DEF ReadSize1
    <3> QED
      BY <2>3, <3>1 DEF ReadSize1
  <2> QED
    BY <2>1, <2>2, <2>3
<1>4. ASSUME NEW state \in States, EnterState(c, state), NEW d \in Clients
      PROVE  /\ descriptor'[d].channels = descriptor[d].channels
             /\ descriptor'[d].byteHandler = descriptor[d].byteHandler
  BY <1>2, <1>4 DEF EnterState, Descriptor
<1>5. ASSUME NEW i \in Interfaces, NEW d \in Clients,
             descriptor' = [descriptor EXCEPT ![c].fStreamChannel = i,
                                              ![c].fTCPReadingState = "AWAITING_SIZE1"]
      PROVE  /\ descriptor'[d].channels = descriptor[d].channels
             /\ descriptor'[d].byteHandler = descriptor[d].byteHandler
  BY <1>2, <1>5 DEF Descriptor
<1>6. ASSUME NEW byte \in Byte, NEW d \in Clients,
             descriptor' = [descriptor EXCEPT ![c].fSizeByte1 = byte,
                                              ![c].fTCPReadingState = "AWAITING_SIZE2"]
      PROVE  /\ descriptor'[d].channels = descriptor[d].channels
             /\ descriptor'[d].byteHandler = descriptor[d].byteHandler
  BY <1>2, <1>6 DEF Descriptor
<1> QED
  BY <1>1, <1>3, <1>4, <1>5, <1>6

\* One reader for each socket, whatever happens.
LEMMA OneReaderKept ==
  ASSUME TypeOK, RunInv, OneReader, [Next]_vars
  PROVE  OneReader'
<1>1. \A d \in Clients : ReaderOK(socketHandler[d], descriptor[d], session[d], open[d])
  BY OneReaderOfEach
<1>2. /\ DOMAIN session = Clients /\ DOMAIN descriptor = Clients
      /\ DOMAIN socketHandler = Clients /\ DOMAIN open = Clients
  BY DEF TypeOK
<1>3. CASE /\ UNCHANGED <<open, session, socketHandler>>
           /\ \A d \in Clients : /\ descriptor'[d].channels = descriptor[d].channels
                                 /\ descriptor'[d].byteHandler = descriptor[d].byteHandler
  BY <1>3 DEF OneReader
<1>4. ASSUME NEW c \in Clients, CloseConnection(c)
      PROVE  OneReader'
  <2>1. /\ open' = [open EXCEPT ![c] = FALSE] /\ session' = [session EXCEPT ![c] = "none"]
        /\ descriptor' = [descriptor EXCEPT ![c] = NoDescriptor]
        /\ socketHandler' = [socketHandler EXCEPT ![c] = "none"]
    BY <1>4 DEF CloseConnection, EndSession
  <2>2. SUFFICES ASSUME NEW d \in Clients
                 PROVE  ReaderOK(socketHandler'[d], descriptor'[d], session'[d], open'[d])
    BY DEF OneReader, ReaderOK
  <2>3. CASE d = c
    <3>1. /\ socketHandler'[d] = "none" /\ descriptor'[d] = NoDescriptor
          /\ session'[d] = "none" /\ open'[d] = FALSE
      BY <1>2, <2>1, <2>3
    <3> QED
      BY <3>1, NobodyReads
  <2>4. CASE d # c
    BY <1>1, <1>2, <2>1, <2>4
  <2> QED
    BY <2>3, <2>4
<1>5. ASSUME NEW c \in Clients, UNCHANGED open,
             ReaderOK(socketHandler'[c], descriptor'[c], session'[c], open[c]),
             \A d \in Clients \ {c} :
               /\ socketHandler'[d] = socketHandler[d] /\ descriptor'[d] = descriptor[d]
               /\ session'[d] = session[d]
      PROVE  OneReader'
  <2>1. SUFFICES ASSUME NEW d \in Clients
                 PROVE  ReaderOK(socketHandler'[d], descriptor'[d], session'[d], open'[d])
    BY DEF OneReader, ReaderOK
  <2>2. CASE d = c
    BY <1>5, <2>2
  <2>3. CASE d # c
    BY <1>1, <1>5, <2>3
  <2> QED
    BY <2>2, <2>3
<1>6. ASSUME NEW c \in Clients, SessionTimesOut(c)
      PROVE  OneReader'
  <2>1. EndSession(c) /\ EndPlaying(c) /\ UNCHANGED open
    BY <1>6 DEF SessionTimesOut
  <2> QED
    BY <1>1, <1>5, <2>1, EndedIsOK
<1>7. ASSUME NEW c \in Clients, NEW i \in Interfaces, SendFails(c, i)
      PROVE  OneReader'
  <2>1. i \in descriptor[c].channels /\ UNCHANGED <<open, session>>
    BY <1>7 DEF SendFails
  <2>2. open[c] /\ session[c] = "playing" /\ descriptor[c].byteHandler
        /\ socketHandler[c] = "descriptor"
    BY <1>1, <2>1 DEF ReaderOK
  <2>3. CASE descriptor[c].channels = {i}
    <3>1. /\ descriptor' = [descriptor EXCEPT ![c] = NoDescriptor]
          /\ socketHandler' = [socketHandler EXCEPT ![c] = "connection"]
      BY <1>7, <2>2, <2>3 DEF SendFails, ReaderAfter
    <3>2. /\ socketHandler'[c] = "connection" /\ descriptor'[c].channels = {}
      BY <1>2, <3>1 DEF NoDescriptor
    <3>3. ReaderOK(socketHandler'[c], descriptor'[c], session'[c], open[c])
      BY <2>2, <3>2 DEF ReaderOK
    <3>4. \A d \in Clients \ {c} :
            /\ socketHandler'[d] = socketHandler[d] /\ descriptor'[d] = descriptor[d]
            /\ session'[d] = session[d]
      BY <1>2, <2>1, <3>1
    <3> QED
      BY <1>5, <2>1, <3>3, <3>4
  <2>4. CASE descriptor[c].channels # {i}
    <3>1. /\ descriptor' = [descriptor EXCEPT ![c].channels = @ \ {i}]
          /\ UNCHANGED socketHandler
      BY <1>7, <2>4 DEF SendFails
    <3>2. /\ descriptor'[c].channels = descriptor[c].channels \ {i}
          /\ descriptor'[c].byteHandler = descriptor[c].byteHandler
      <4>1. descriptor \in [Clients -> Descriptor]
        BY DescriptorTypes
      <4> QED
        BY <3>1, <4>1 DEF Descriptor
    <3>3. descriptor'[c].channels # {}
      BY <2>1, <2>4, <3>2
    <3>4. ReaderOK(socketHandler'[c], descriptor'[c], session'[c], open[c])
      BY <2>1, <2>2, <3>1, <3>2, <3>3 DEF ReaderOK
    <3>5. \A d \in Clients \ {c} :
            /\ socketHandler'[d] = socketHandler[d] /\ descriptor'[d] = descriptor[d]
            /\ session'[d] = session[d]
      BY <1>2, <2>1, <3>1
    <3> QED
      BY <1>5, <2>1, <3>4, <3>5
  <2> QED
    BY <2>3, <2>4
<1>8. ASSUME NEW c \in Clients, HandleRequest(c)
      PROVE  OneReader'
  <2>1. running = c /\ UNCHANGED open
    BY <1>8 DEF HandleRequest
  <2>2. open[c]
    <3>1. NULL \notin Clients
      BY ConnectionAssumption, Zenon
    <3> QED
      BY <2>1, <3>1 DEF RunInv
  <2>3. \E command : HandleCommand(c, command)
    BY <1>8 DEF HandleRequest
  <2> QED
    BY <1>1, <1>5, <2>1, <2>2, <2>3, CommandIsOK
<1>9. ASSUME NEW c \in Clients,
             \/ Client(c) \/ ReadRequestBytes(c) \/ PassRequestByte(c) \/ NeedMore(c)
             \/ SkipByte(c) \/ ReadReport(c) \/ ReadPartOfReport(c) \/ ReportBreaksOff(c)
      PROVE  UNCHANGED <<open, session, socketHandler, descriptor>>
  <2>1. CASE Client(c)
    BY <2>1 DEF Client, SendRequest, SendPacket, Disconnect, readVars
  <2>2. CASE ReadRequestBytes(c) \/ PassRequestByte(c) \/ NeedMore(c)
    BY <2>2 DEF ReadRequestBytes, PassRequestByte, NeedMore, TakeByte, readVars
  <2>3. CASE SkipByte(c)
    BY <2>3 DEF SkipByte, TakeByte
  <2>4. CASE ReadReport(c) \/ ReadPartOfReport(c) \/ ReportBreaksOff(c)
    BY <2>4 DEF ReadReport, ReadPartOfReport, ReportBreaksOff, readVars
  <2> QED
    BY <1>9, <2>1, <2>2, <2>3, <2>4
<1>10. CASE UNCHANGED vars
  BY <1>3, <1>10 DEF vars, readVars
<1>11. ASSUME NEW c \in Clients,
             \/ LeavesBuffers(c) \/ ClosesConnection(c)
             \/ ReadRequestBytes(c) \/ PassRequestByte(c) \/ NeedMore(c) \/ HandleRequest(c)
       PROVE OneReader'
  BY <1>3, <1>4, <1>6, <1>7, <1>8, <1>9, <1>11, Closes, ReaderLeft DEF LeavesBuffers
<1> QED
  BY <1>10, <1>11, Steps

-----------------------------------------------------------------------------
(* Where the scan stands *)

\* What ScanInv says of one connection.
ScanOK(b, last, busy) ==
  /\ OnLineEnd(b, last)
  /\ IF busy THEN NotBehind(b, last) ELSE Waiting(b, last)

\* An empty buffer, or one that is to be scanned from the beginning.
LEMMA ScanBegins ==
  ASSUME NEW b \in Seq(Byte)
  PROVE  ScanOK(b, -2, TRUE) /\ (b = <<>> => ScanOK(b, -2, FALSE))
<1>1. Len(b) \in Nat
  OBVIOUS
<1>2. OnLineEnd(b, -2)
  BY DEF OnLineEnd
<1>3. NotBehind(b, -2)
  BY <1>1 DEF NotBehind, EmptyLines
<1>4. b = <<>> => EmptyLines(b) = {}
  BY DEF EmptyLines
<1> QED
  BY <1>2, <1>3, <1>4 DEF ScanOK, Waiting

\* The request is not complete: the scan can go on from where it leaves off.
LEMMA NeedMoreWaits ==
  ASSUME TypeOK, NEW c \in Clients, NeedMore(c),
         OnLineEnd(fRequestBuffer[c], fLastCRLF[c]), NotBehind(fRequestBuffer[c], fLastCRLF[c])
  PROVE  ScanOK(fRequestBuffer[c], fLastCRLF'[c], FALSE)
<1> DEFINE b == fRequestBuffer[c]
           last == fLastCRLF[c]
<1>1. b \in Seq(Byte) /\ Len(b) \in Nat /\ last \in Int /\ DOMAIN fLastCRLF = Clients
  BY DEF TypeOK
<1>2. /\ \A i \in EmptyLineEnds(c) : i - 2 \in EmptyLines(b)
      /\ \A e \in EmptyLines(b) : e + 2 \in EmptyLineEnds(c)
  BY <1>1, ScanFindsEmptyLines
<1>3. \A i \in LineEnds(c) : i \in 1..(Len(b) - 1) /\ CrLfAt(b, i)
  BY <1>1 DEF LineEnds
<1>4. CASE EmptyLineEnds(c) = {} /\ NoteLineEnd(c)
  <2>1. EmptyLines(b) = {}
    BY <1>2, <1>4
  <2>2. OnLineEnd(b, fLastCRLF'[c])
    BY <1>1, <1>3, <1>4 DEF NoteLineEnd, OnLineEnd
  <2> QED
    BY <2>1, <2>2 DEF ScanOK, Waiting
<1>5. ASSUME NEW i \in LineEnds(c), IsEndOfMsg(c, i), Len(b) < RequestSize(c, i),
             fLastCRLF' = [fLastCRLF EXCEPT ![c] = i - 2]
      PROVE  ScanOK(b, fLastCRLF'[c], FALSE)
  <2> DEFINE e == i - 2
  <2>1. fLastCRLF'[c] = e
    BY <1>1, <1>5
  <2>2. e \in EmptyLines(b) /\ i \in Int /\ e \in Int
    BY <1>2, <1>3, <1>5 DEF IsEndOfMsg
  <2>3. \A k \in EmptyLines(b) : e <= k
    <3> SUFFICES ASSUME NEW k \in EmptyLines(b) PROVE e <= k
      OBVIOUS
    <3>1. i <= k + 2 /\ k \in Int
      BY <1>2, <1>5 DEF IsEndOfMsg, EmptyLines
    <3> QED
      BY <2>2, <3>1
  <2>4. Len(b) < e + 3 + ContentLength(SubSeq(b, 1, e + 1))
    <3>1. e + 1 = i - 1 /\ e + 3 = i + 1
      BY <2>2
    <3>2. ContentLength(SubSeq(b, 1, i - 1)) \in 0..9
      BY ContentLengthIsDigit
    <3> QED
      BY <1>5, <3>1 DEF RequestSize
  <2>5. OnLineEnd(b, e)
    BY <1>1, <2>2 DEF OnLineEnd, EmptyLines
  <2> HIDE DEF e
  <2> QED
    BY <2>1, <2>2, <2>3, <2>4, <2>5 DEF ScanOK, Waiting, NotBehind
<1> QED
  BY <1>4, <1>5 DEF NeedMore

\* No step leaves the scan behind the end of a header.
LEMMA ScanKept ==
  ASSUME TypeOK, ScanInv, [Next]_vars
  PROVE  ScanInv'
<1>1. NULL \notin Clients
  BY ConnectionAssumption, Zenon
<1>2. /\ fRequestBuffer \in [Clients -> Seq(Byte)] /\ fLastCRLF \in [Clients -> Int]
  BY DEF TypeOK
<1>3. \A d \in Clients : ScanOK(fRequestBuffer[d], fLastCRLF[d], running = d)
  BY DEF ScanInv, ScanOK
<1>4. CASE UNCHANGED <<fRequestBuffer, fLastCRLF, running>>
  BY <1>4 DEF ScanInv
<1>5. ASSUME NEW c \in Clients, running \in {c, NULL}, running' \in {c, NULL},
             ScanOK(fRequestBuffer'[c], fLastCRLF'[c], running' = c),
             \A d \in Clients \ {c} :
               fRequestBuffer'[d] = fRequestBuffer[d] /\ fLastCRLF'[d] = fLastCRLF[d]
      PROVE  ScanInv'
  <2>1. SUFFICES ASSUME NEW d \in Clients
                 PROVE  ScanOK(fRequestBuffer'[d], fLastCRLF'[d], running' = d)
    BY DEF ScanInv, ScanOK
  <2>2. CASE d = c
    BY <1>5, <2>2
  <2>3. CASE d # c
    <3>1. running # d /\ running' # d
      BY <1>1, <1>5, <2>3
    <3>2. fRequestBuffer'[d] = fRequestBuffer[d] /\ fLastCRLF'[d] = fLastCRLF[d]
      BY <1>5, <2>3
    <3> QED
      BY <1>3, <3>1, <3>2 DEF ScanOK
  <2> QED
    BY <2>2, <2>3
<1>6. ASSUME NEW c \in Clients, ClosesConnection(c)
      PROVE  ScanInv'
  <2>1. /\ fRequestBuffer' = [fRequestBuffer EXCEPT ![c] = <<>>]
        /\ fLastCRLF' = [fLastCRLF EXCEPT ![c] = -2]
        /\ running' = NULL /\ running \in {c, NULL}
    BY <1>6, Closes DEF CloseConnection
  <2>2. fRequestBuffer'[c] = <<>> /\ fLastCRLF'[c] = -2 /\ running' # c
    BY <1>1, <1>2, <2>1
  <2>3. <<>> \in Seq(Byte)
    OBVIOUS
  <2>4. ScanOK(fRequestBuffer'[c], fLastCRLF'[c], running' = c)
    BY <2>2, <2>3, ScanBegins DEF ScanOK
  <2>5. \A d \in Clients \ {c} :
          fRequestBuffer'[d] = fRequestBuffer[d] /\ fLastCRLF'[d] = fLastCRLF[d]
    BY <1>2, <2>1
  <2> QED
    BY <1>5, <2>1, <2>4, <2>5
<1>7. ASSUME NEW c \in Clients, NEW x \in Seq(Byte), running = NULL, running' = c,
             UNCHANGED fLastCRLF, fRequestBuffer' = [fRequestBuffer EXCEPT ![c] = @ \o x]
      PROVE  ScanInv'
  <2>1. OnLineEnd(fRequestBuffer[c], fLastCRLF[c]) /\ Waiting(fRequestBuffer[c], fLastCRLF[c])
    BY <1>1, <1>3, <1>7 DEF ScanOK
  <2>2. fRequestBuffer[c] \in Seq(Byte) /\ fLastCRLF[c] \in Int
    BY <1>2
  <2>3. /\ OnLineEnd(fRequestBuffer[c] \o x, fLastCRLF[c])
        /\ NotBehind(fRequestBuffer[c] \o x, fLastCRLF[c])
    BY <2>1, <2>2, MoreBytes
  <2>4. ScanOK(fRequestBuffer'[c], fLastCRLF'[c], running' = c)
    BY <1>2, <1>7, <2>3 DEF ScanOK
  <2> QED
    BY <1>2, <1>5, <1>7, <2>4
<1>8. ASSUME NEW c \in Clients, ReadRequestBytes(c)
      PROVE  ScanInv'
  <2>1. PICK n \in 1..fRequestBufferBytesLeft[c] :
          /\ n <= Len(wire[c])
          /\ fRequestBuffer' = [fRequestBuffer EXCEPT ![c] = @ \o SubSeq(wire[c], 1, n)]
    BY <1>8 DEF ReadRequestBytes
  <2>2. wire[c] \in Seq(Byte) /\ n \in 0..Len(wire[c])
    BY <2>1 DEF TypeOK
  <2>3. SubSeq(wire[c], 1, n) \in Seq(Byte)
    BY <2>2, Splitting
  <2>4. running = NULL /\ running' = c /\ UNCHANGED fLastCRLF
    BY <1>8 DEF ReadRequestBytes
  <2> QED
    BY <1>7, <2>1, <2>3, <2>4
<1>9. ASSUME NEW c \in Clients, PassRequestByte(c)
      PROVE  ScanInv'
  <2>1. CASE UNCHANGED <<fRequestBuffer, runVars>>
    BY <1>4, <1>9, <2>1 DEF PassRequestByte, TakeByte, runVars
  <2>2. CASE /\ fRequestBuffer' = [fRequestBuffer EXCEPT ![c] = Append(@, Head(wire[c]))]
             /\ running' = c
    <3> DEFINE x == <<Head(wire[c])>>
    <3>1. Head(wire[c]) \in Byte /\ running = NULL /\ UNCHANGED fLastCRLF
      BY <1>9, TakeByteTypes DEF PassRequestByte, InState, TakeByte
    <3>2. x \in Seq(Byte)
      BY <3>1
    <3>3. fRequestBuffer' = [fRequestBuffer EXCEPT ![c] = @ \o x]
      BY <1>2, <2>2, <3>1, AppendIsConcat
    <3> HIDE DEF x
    <3> QED
      BY <1>7, <2>2, <3>1, <3>2, <3>3
  <2> QED
    BY <1>9, <2>1, <2>2 DEF PassRequestByte
<1>10. ASSUME NEW c \in Clients, NeedMore(c)
       PROVE  ScanInv'
  <2>1. running = c /\ running' = NULL /\ UNCHANGED fRequestBuffer
    BY <1>10 DEF NeedMore
  <2>2. OnLineEnd(fRequestBuffer[c], fLastCRLF[c]) /\ NotBehind(fRequestBuffer[c], fLastCRLF[c])
    BY <1>3, <2>1 DEF ScanOK
  <2>3. ScanOK(fRequestBuffer[c], fLastCRLF'[c], FALSE)
    BY <1>10, <2>2, NeedMoreWaits
  <2>4. ScanOK(fRequestBuffer'[c], fLastCRLF'[c], running' = c)
    BY <1>1, <2>1, <2>3 DEF ScanOK
  <2>5. \A d \in Clients \ {c} :
          fRequestBuffer'[d] = fRequestBuffer[d] /\ fLastCRLF'[d] = fLastCRLF[d]
    BY <1>2, <1>10, <2>1 DEF NeedMore, NoteLineEnd
  <2> QED
    BY <1>5, <2>1, <2>4, <2>5
<1>11. ASSUME NEW c \in Clients, HandleRequest(c)
       PROVE  ScanInv'
  <2>1. PICK rest \in Seq(Byte) :
          /\ fRequestBuffer' = [fRequestBuffer EXCEPT ![c] = rest]
          /\ running' = IF rest = <<>> THEN NULL ELSE c
    BY <1>11, RestOfRequest
  <2>2. running = c /\ fLastCRLF' = [fLastCRLF EXCEPT ![c] = -2]
    BY <1>11 DEF HandleRequest, ResetRequestBuffer
  <2>3. fRequestBuffer'[c] = rest /\ fLastCRLF'[c] = -2
    BY <1>2, <2>1, <2>2
  <2>4. ScanOK(rest, -2, running' = c)
    BY <1>1, <2>1, ScanBegins DEF ScanOK
  <2>5. \A d \in Clients \ {c} :
          fRequestBuffer'[d] = fRequestBuffer[d] /\ fLastCRLF'[d] = fLastCRLF[d]
    BY <1>2, <2>1, <2>2
  <2>6. running' \in {c, NULL}
    BY <2>1
  <2> QED
    BY <1>5, <2>2, <2>3, <2>4, <2>5, <2>6
<1> QED
  BY <1>4, <1>6, <1>8, <1>9, <1>10, <1>11, Steps, BuffersLeft DEF vars, bufferVars, runVars

-----------------------------------------------------------------------------
(* Theorems *)

\* The invariant holds in every reachable state.
THEOREM ConnectionInvariant == Spec => []IInv
<1>1. ASSUME Init PROVE IInv
  <2>1. TypeOK
    <3>1. /\ fRequestBufferBytesLeft \in [Clients -> Nat] /\ fLastCRLF \in [Clients -> Int]
          /\ running \in Clients \cup {NULL} /\ newBytesRead \in Nat
      BY <1>1, RoomIsNumber DEF Init
    <3>2. /\ fNextTCPReadSize \in [Interfaces -> Nat]
          /\ fNextTCPReadStreamSocketNum \in [Interfaces -> Clients \cup {NULL}]
      BY <1>1 DEF Init, NoReadSize, NoSocketNum
    <3>3. descriptor \in [Clients -> Descriptor]
      BY <1>1, NoDescriptorIsOne DEF Init
    <3>4. \A T : <<>> \in Seq(T)
      OBVIOUS
    <3>5. /\ wire \in [Clients -> Seq(Byte)] /\ eof \in [Clients -> BOOLEAN]
          /\ asked \in [Clients -> Seq(Requests)] /\ packets \in [Clients -> Seq(Packets)]
      BY <1>1, <3>4 DEF Init
    <3>6. /\ open \in [Clients -> BOOLEAN] /\ fRequestBuffer \in [Clients -> Seq(Byte)]
          /\ session \in [Clients -> {"none", "setup", "playing"}]
          /\ socketHandler \in [Clients -> {"connection", "descriptor", "none"}]
      BY <1>1, <3>4 DEF Init
    <3>7. /\ fInBuf \in Seq(Byte) /\ failed \subseteq Clients
          /\ handled \in [Clients -> Seq(Seq(Byte))] /\ reports \in [Clients -> Seq(Seq(Byte))]
      BY <1>1, <3>4 DEF Init
    <3> QED
      BY <3>1, <3>2, <3>3, <3>5, <3>6, <3>7 DEF TypeOK, Descriptor
  <2>2. NULL \notin Clients
    BY ConnectionAssumption, Zenon
  <2>3. BufferHasRoom
    BY <1>1, <2>2, RoomIsNumber DEF Init, BufferHasRoom
  <2>4. RunInv
    BY <1>1 DEF Init, RunInv
  <2>5. OneReader
    BY <1>1 DEF Init, OneReader, NoDescriptor
  <2>6. ScanInv
    <3>1. <<>> \in Seq(Byte)
      OBVIOUS
    <3>2. ScanOK(<<>>, -2, FALSE)
      BY <3>1, ScanBegins
    <3> QED
      BY <1>1, <2>2, <3>2 DEF Init, ScanInv, ScanOK
  <2> QED
    BY <2>1, <2>3, <2>4, <2>5, <2>6 DEF IInv
<1>2. IInv /\ [Next]_vars => IInv'
  BY TypesKept, RoomKept, RunningIsOpen, OneReaderKept, ScanKept DEF IInv
<1> QED
  BY <1>1, <1>2, PTL DEF Spec

\* Types: no count goes below zero and no index leaves a sequence.
THEOREM TypeCorrect == Spec => []TypeOK
BY ConnectionInvariant, PTL DEF IInv

\* The room left is counted right, so that no read goes beyond the buffer, and
\* there always is some (RTSPClientConnection::handleRequestBytes).
THEOREM RoomIsLeft == Spec => []BufferHasRoom
BY ConnectionInvariant, PTL DEF IInv

\* Connection and descriptor never read the same socket, and nobody reads one
\* that is closed (RTPInterface.cpp, RTSPClientConnection).
THEOREM ReadersExclude == Spec => []OneReader
BY ConnectionInvariant, PTL DEF IInv

\* No request is complete in the buffer while the connection waits for more
\* bytes, however they were split (RTSPClientConnection::handleRequestBytes).
THEOREM RequestsSeen == Spec => []RequestsAreSeen
<1>1. IInv => RequestsAreSeen
  <2> SUFFICES ASSUME IInv, NEW c \in Clients, running = NULL,
                      HoldsAMessage(fRequestBuffer[c])
               PROVE  FALSE
    BY DEF RequestsAreSeen
  <2> DEFINE b == fRequestBuffer[c]
             last == fLastCRLF[c]
  <2>1. NULL \notin Clients
    BY ConnectionAssumption, Zenon
  <2>2. Waiting(b, last)
    BY <2>1 DEF IInv, ScanInv
  <2>3. PICK i \in EmptyLines(b) :
          /\ \A k \in EmptyLines(b) : i <= k
          /\ i + 3 + ContentLength(SubSeq(b, 1, i + 1)) <= Len(b)
    BY DEF HoldsAMessage, MessageSizes
  <2>4. /\ last \in EmptyLines(b) /\ NotBehind(b, last)
        /\ Len(b) < last + 3 + ContentLength(SubSeq(b, 1, last + 1))
    BY <2>2, <2>3 DEF Waiting
  <2>5. i \in Int /\ last \in Int /\ i <= last /\ last <= i
    BY <2>3, <2>4, SMTT(30) DEF NotBehind, EmptyLines
  <2>6. i = last
    BY <2>5
  <2>7. Len(b) \in Nat
    BY DEF IInv, TypeOK
  <2> DEFINE n == ContentLength(SubSeq(b, 1, i + 1))
  <2>8. n \in Int
    BY ContentLengthIsDigit
  <2>9. Len(b) < i + 3 + n
    BY <2>4, <2>6
  <2>10. i + 3 + n <= Len(b)
    BY <2>3
  <2> HIDE DEF n
  <2> QED
    BY <2>5, <2>7, <2>8, <2>9, <2>10
<1> QED
  BY <1>1, ConnectionInvariant, PTL

-----------------------------------------------------------------------------
(* What a client has sent, and where it is *)

\* How many bytes a packet takes on the wire.
FrameSize(packet) == 4 + Len(packet.data)

\* Of a client that asked a and sent the packets p: S is all of its bytes, Q
\* those of its requests, and R[x] of them are among the first x bytes of S.
\* Its n-th request begins behind the first F[n] bytes of Q, its k-th packet
\* behind the first P[k] of S.
RequestsLaid(a, Q, F) ==
  /\ Q \in Seq(Byte) /\ \A j \in 1..Len(Q) : Q[j] \notin {Dollar, 254, 255}
  /\ F \in [1..(Len(a) + 1) -> Nat] /\ F[1] = 0 /\ F[Len(a) + 1] = Len(Q)
  /\ \A n \in 1..Len(a) :
       /\ F[n + 1] = F[n] + Len(a[n]) /\ F[n + 1] <= Len(Q)
       /\ \A j \in 1..Len(a[n]) : Q[F[n] + j] = a[n][j]

PacketAt(S, R, packet, from) ==
  /\ from + FrameSize(packet) <= Len(S)
  /\ \A i \in 1..FrameSize(packet) : S[from + i] = Framed(packet)[i] /\ R[from + i] = R[from]

PacketsLaid(p, S, R, P) ==
  /\ P \in [1..Len(p) -> Nat]
  /\ \A k \in 1..Len(p) : PacketAt(S, R, p[k], P[k])
  /\ \A j, k \in 1..Len(p) : j < k => P[j] + FrameSize(p[j]) <= P[k]

InAPacket(p, P, x) == \E k \in 1..Len(p) : P[k] < x /\ x <= P[k] + FrameSize(p[k])

BytesLaid(p, S, Q, R, P) ==
  /\ S \in Seq(Byte)
  /\ R \in [0..Len(S) -> 0..Len(Q)] /\ R[0] = 0 /\ R[Len(S)] = Len(Q)
  /\ \A x \in 1..Len(S) :
       (R[x] = R[x - 1] + 1 /\ S[x] = Q[R[x]]) \/ InAPacket(p, P, x)
  /\ p = <<>> => \A x \in 0..Len(S) : R[x] = x

Laid(a, p, S, Q, R, F, P) ==
  RequestsLaid(a, Q, F) /\ PacketsLaid(p, S, R, P) /\ BytesLaid(p, S, Q, R, P)

\* A sequence behind another.
LEMMA Behind ==
  ASSUME NEW T, NEW s \in Seq(T), NEW t \in Seq(T)
  PROVE  /\ s \o t \in Seq(T) /\ Len(s \o t) = Len(s) + Len(t)
         /\ \A i \in 1..Len(s) : (s \o t)[i] = s[i]
         /\ \A i \in 1..Len(t) : (s \o t)[Len(s) + i] = t[i]
<1>1. Len(s) \in Nat /\ Len(t) \in Nat
  OBVIOUS
<1>2. /\ s \o t \in Seq(T) /\ Len(s \o t) = Len(s) + Len(t)
      /\ \A i \in 1..(Len(s) + Len(t)) :
           (s \o t)[i] = IF i <= Len(s) THEN s[i] ELSE t[i - Len(s)]
  BY ConcatProperties
<1> QED
  BY <1>1, <1>2

\* A packet's bytes.
LEMMA FrameBytes ==
  ASSUME NEW packet \in Packets
  PROVE  /\ packet.data \in Seq(Byte) /\ packet.interface \in Interfaces
         /\ Len(packet.data) \in Nat /\ Len(packet.data) <= maxRTCPPacketSize
         /\ FrameSize(packet) \in Nat /\ FrameSize(packet) >= 4
         /\ Framed(packet) \in Seq(Byte) /\ Len(Framed(packet)) = FrameSize(packet)
         /\ Framed(packet)[1] = Dollar /\ Framed(packet)[2] = ChannelId(packet.interface)
         /\ Framed(packet)[3] = Len(packet.data) \div 256
         /\ Framed(packet)[4] = Len(packet.data) % 256
         /\ \A i \in 1..Len(packet.data) : Framed(packet)[4 + i] = packet.data[i]
<1>1. packet.data \in Seq(Byte) /\ packet.interface \in Interfaces
  <2>1. packet \in [interface : Interfaces, data : Seq(Byte)]
    BY ConnectionAssumption, Zenon
  <2> QED
    BY <2>1
<1>2. PICK data, n : data = packet.data /\ n = Len(data)
  OBVIOUS
<1>3. data \in Seq(Byte) /\ n \in Nat /\ n = Len(data)
  BY <1>1, <1>2
<1>4. PICK p, q, r, s :
        p = Dollar /\ q = ChannelId(packet.interface) /\ r = n \div 256 /\ s = n % 256
  OBVIOUS
<1>5. Framed(packet) = <<p, q, r, s>> \o data
  BY <1>2, <1>4 DEF Framed
<1>6. Framed(packet) \in Seq(Byte)
  BY FramedIsBytes
<1>7. n <= maxRTCPPacketSize /\ maxRTCPPacketSize \in Nat /\ maxRTCPPacketSize < 256 * 256
  BY <1>2, ConnectionAssumption, Zenon
<1>8. p \in Byte /\ q \in Byte /\ r \in Byte /\ s \in Byte
  <2>1. r \in 0..255 /\ s \in 0..255
    BY <1>3, <1>4, <1>7, TwoBytes
  <2>2. p \in Byte /\ q \in Byte
    BY <1>4 DEF Byte, Dollar, ChannelId
  <2> QED
    BY <2>1, <2>2 DEF Byte
<1>9. PICK head \in Seq(Byte) : head = <<p, q, r, s>>
  BY <1>8, FourBytes
<1>14. Len(head) = 4 /\ head[1] = p /\ head[2] = q /\ head[3] = r /\ head[4] = s
  BY ONLY <1>9
<1>10. /\ Len(head \o data) = 4 + n
       /\ \A i \in 1..4 : (head \o data)[i] = head[i]
       /\ \A i \in 1..n : (head \o data)[4 + i] = data[i]
  <2>1. /\ Len(head \o data) = Len(head) + Len(data)
        /\ \A i \in 1..Len(head) : (head \o data)[i] = head[i]
        /\ \A i \in 1..Len(data) : (head \o data)[Len(head) + i] = data[i]
    BY <1>3, Behind
  <2>2. Len(head) = 4 /\ Len(data) = n
    BY <1>3, <1>14
  <2> QED
    BY ONLY <2>1, <2>2
<1>11. Framed(packet) = head \o data
  BY <1>5, <1>9
<1>12. /\ Framed(packet)[1] = p /\ Framed(packet)[2] = q
       /\ Framed(packet)[3] = r /\ Framed(packet)[4] = s
  BY <1>3, <1>14, <1>10, <1>11
<1>13. \A i \in 1..n : Framed(packet)[4 + i] = data[i]
  <2> SUFFICES ASSUME NEW i \in 1..n PROVE Framed(packet)[4 + i] = data[i]
    OBVIOUS
  <2> QED
    BY <1>10, <1>11
<1> QED
  BY <1>1, <1>2, <1>3, <1>4, <1>6, <1>7, <1>10, <1>11, <1>12, <1>13, SMTT(30) DEF FrameSize

\* What TypeOK says of a client's history.
LEMMA HistoryTypes ==
  ASSUME TypeOK, NEW c \in Clients
  PROVE  /\ asked[c] \in Seq(Requests) /\ Len(asked[c]) \in Nat
         /\ DOMAIN asked[c] = 1..Len(asked[c])
         /\ packets[c] \in Seq(Packets) /\ Len(packets[c]) \in Nat
         /\ DOMAIN packets[c] = 1..Len(packets[c])
         /\ \A n \in 1..Len(asked[c]) : asked[c][n] \in Requests
         /\ \A k \in 1..Len(packets[c]) : packets[c][k] \in Packets
<1>1. asked[c] \in Seq(Requests) /\ packets[c] \in Seq(Packets)
  BY DEF TypeOK
<1> QED
  BY <1>1

\* A request's bytes.
LEMMA RequestBytes ==
  ASSUME NEW q \in Requests
  PROVE  /\ q \in Seq(Byte) /\ Len(q) \in Nat /\ DOMAIN q = 1..Len(q)
         /\ \A j \in 1..Len(q) : q[j] \notin {Dollar, 254, 255}
         /\ IsMessage(q)
<1>1. q \in Seq(Byte \ {Dollar, 254, 255})
  BY ConnectionAssumption, Zenon
<1>2. IsMessage(q)
  BY ConnectionAssumption, Zenon
<1>3. q \in Seq(Byte)
  BY <1>1
<1>4. \A j \in 1..Len(q) : q[j] \in Byte \ {Dollar, 254, 255}
  BY <1>1, ElementOfSeq
<1> QED
  BY <1>2, <1>3, <1>4

\* One request more.
LEMMA RequestsGrow ==
  ASSUME NEW a \in Seq(Requests), NEW q \in Requests, NEW Q, NEW F, RequestsLaid(a, Q, F)
  PROVE  \E F2 : /\ RequestsLaid(Append(a, q), Q \o q, F2)
                 /\ \A n \in 1..(Len(a) + 1) : F2[n] = F[n]
<1>1. PICK u \in Nat, n \in Nat, l \in Nat : u = Len(Q) /\ n = Len(a) /\ l = Len(q)
  BY RequestBytes DEF RequestsLaid
<1>2. Q \in Seq(Byte) /\ q \in Seq(Byte)
  BY RequestBytes DEF RequestsLaid
<1>3. /\ Q \o q \in Seq(Byte) /\ Len(Q \o q) = u + l
      /\ \A x \in 1..u : (Q \o q)[x] = Q[x]
      /\ \A x \in 1..l : (Q \o q)[u + x] = q[x]
  BY <1>1, <1>2, Behind
<1>4. PICK b : b = Append(a, q)
  OBVIOUS
<1>5. Len(b) = n + 1 /\ b[n + 1] = q /\ \A i \in 1..n : b[i] = a[i]
  BY <1>1, <1>4, AppendProperties
<1>6. PICK F2 : F2 = [i \in 1..(n + 1 + 1) |-> IF i <= n + 1 THEN F[i] ELSE u + l]
  OBVIOUS
<1>7. /\ \A i \in 1..(n + 1) : F2[i] = F[i]
      /\ F2[n + 1 + 1] = u + l
  BY <1>1, <1>6
<1>8. F \in [1..(n + 1) -> Nat] /\ F[1] = 0 /\ F[n + 1] = u
  BY <1>1 DEF RequestsLaid
<1>9. \A j \in 1..(u + l) : (Q \o q)[j] \notin {Dollar, 254, 255}
  <2> SUFFICES ASSUME NEW j \in 1..(u + l) PROVE (Q \o q)[j] \notin {Dollar, 254, 255}
    OBVIOUS
  <2>1. CASE j \in 1..u
    BY <1>1, <1>3, <2>1 DEF RequestsLaid
  <2>2. CASE j \notin 1..u
    <3>1. PICK i \in 1..l : j = u + i
      <4>1. j - u \in 1..l /\ j = u + (j - u)
        BY <2>2
      <4> QED
        BY <4>1
    <3>2. (Q \o q)[j] = q[i]
      BY <1>3, <3>1
    <3> QED
      BY <1>1, <3>2, RequestBytes
  <2> QED
    BY <2>1, <2>2
<1>10. F2 \in [1..(n + 1 + 1) -> Nat] /\ F2[1] = 0
  BY <1>6, <1>7, <1>8
<1>11. ASSUME NEW i \in 1..(n + 1)
       PROVE  /\ F2[i + 1] = F2[i] + Len(b[i]) /\ F2[i + 1] <= u + l
              /\ \A j \in 1..Len(b[i]) : (Q \o q)[F2[i] + j] = b[i][j]
  <2>1. CASE i \in 1..n
    <3>1. PICK w \in Requests : w = a[i] /\ w = b[i]
      BY <1>1, <1>5, <2>1
    <3>2. PICK m \in Nat : m = Len(w)
      BY RequestBytes
    <3>3. /\ F[i + 1] = F[i] + m /\ F[i + 1] <= u
          /\ \A j \in 1..m : Q[F[i] + j] = w[j]
      <4>1. i \in 1..Len(a)
        BY <1>1, <2>1
      <4>2. /\ F[i + 1] = F[i] + Len(a[i]) /\ F[i + 1] <= Len(Q)
            /\ \A j \in 1..Len(a[i]) : Q[F[i] + j] = a[i][j]
        BY <4>1 DEF RequestsLaid
      <4> QED
        BY ONLY <1>1, <3>1, <3>2, <4>2
    <3>4. F2[i] = F[i] /\ F2[i + 1] = F[i + 1] /\ F[i] \in Nat
      BY <1>7, <1>8, <2>1
    <3>5. \A j \in 1..m : F[i] + j \in 1..u
      BY <3>3, <3>4
    <3>6. \A j \in 1..m : (Q \o q)[F2[i] + j] = w[j]
      BY ONLY <1>3, <3>3, <3>4, <3>5
    <3>7. F2[i + 1] = F2[i] + m /\ F2[i + 1] <= u + l
      BY <3>3, <3>4
    <3> QED
      BY ONLY <3>1, <3>2, <3>6, <3>7
  <2>2. CASE i = n + 1
    <3>1. F2[i] = u /\ F2[i + 1] = u + l /\ b[i] = q
      BY <1>5, <1>7, <1>8, <2>2
    <3>2. \A j \in 1..l : (Q \o q)[F2[i] + j] = q[j]
      BY ONLY <1>3, <3>1
    <3> QED
      BY ONLY <1>1, <3>1, <3>2
  <2>3. i \in 1..n \/ i = n + 1
    BY <1>1
  <2> QED
    BY ONLY <2>1, <2>2, <2>3
<1>12. RequestsLaid(b, Q \o q, F2)
  <2>1. PICK Q2 : Q2 = Q \o q
    OBVIOUS
  <2>2. PICK m : m = n + 1
    OBVIOUS
  <2>3. /\ Q2 \in Seq(Byte) /\ \A j \in 1..Len(Q2) : Q2[j] \notin {Dollar, 254, 255}
        /\ Len(b) = m /\ F2 \in [1..(m + 1) -> Nat] /\ F2[1] = 0 /\ F2[m + 1] = Len(Q2)
    BY ONLY <1>3, <1>5, <1>7, <1>9, <1>10, <2>1, <2>2
  <2>4. \A i \in 1..m : /\ F2[i + 1] = F2[i] + Len(b[i]) /\ F2[i + 1] <= Len(Q2)
                         /\ \A j \in 1..Len(b[i]) : Q2[F2[i] + j] = b[i][j]
    BY ONLY <1>3, <1>11, <2>1, <2>2
  <2>5. RequestsLaid(b, Q2, F2)
    BY ONLY <2>3, <2>4 DEF RequestsLaid
  <2> QED
    BY ONLY <2>1, <2>5
<1> QED
  BY <1>1, <1>4, <1>7, <1>12

\* More bytes leave the packets where they are.
LEMMA PacketsStayLaid ==
  ASSUME NEW p \in Seq(Packets), NEW S \in Seq(Byte), NEW t \in Seq(Byte), NEW R, NEW R2,
         \A x \in 0..Len(S) : R2[x] = R[x], NEW P, PacketsLaid(p, S, R, P)
  PROVE  PacketsLaid(p, S \o t, R2, P)
<1>1. PICK s \in Nat, l \in Nat : s = Len(S) /\ l = Len(t)
  OBVIOUS
<1>2. Len(S \o t) = s + l /\ \A x \in 1..s : (S \o t)[x] = S[x]
  BY <1>1, Behind
<1>3. ASSUME NEW k \in 1..Len(p) PROVE PacketAt(S \o t, R2, p[k], P[k])
  <2>1. PICK from \in Nat, packet \in Packets : from = P[k] /\ packet = p[k]
    BY DEF PacketsLaid
  <2>2. PICK m \in Nat : m = FrameSize(packet)
    BY FrameBytes
  <2>3. /\ from + m <= s
        /\ \A i \in 1..m : S[from + i] = Framed(packet)[i] /\ R[from + i] = R[from]
    BY <1>1, <2>1, <2>2 DEF PacketsLaid, PacketAt
  <2>4. from \in 0..s /\ \A i \in 1..m : from + i \in 1..s /\ from + i \in 0..s
    BY <2>3
  <2>5. \A i \in 1..m : (S \o t)[from + i] = Framed(packet)[i] /\ R2[from + i] = R2[from]
    BY ONLY <1>1, <1>2, <2>3, <2>4, \A x \in 0..Len(S) : R2[x] = R[x]
  <2>6. from + m <= s + l
    BY <2>3
  <2> QED
    BY ONLY <1>2, <2>1, <2>2, <2>5, <2>6 DEF PacketAt
<1> QED
  BY <1>3 DEF PacketsLaid

LEMMA RequestIsLaid ==
  ASSUME NEW a \in Seq(Requests), NEW p \in Seq(Packets), NEW q \in Requests,
         NEW S, NEW Q, NEW R, NEW F, NEW P, Laid(a, p, S, Q, R, F, P)
  PROVE  \E R2, F2 : /\ Laid(Append(a, q), p, S \o q, Q \o q, R2, F2, P)
                     /\ \A x \in 0..Len(S) : R2[x] = R[x]
                     /\ \A n \in 1..(Len(a) + 1) : F2[n] = F[n]
<1>1. PICK F2 : /\ RequestsLaid(Append(a, q), Q \o q, F2)
                /\ \A n \in 1..(Len(a) + 1) : F2[n] = F[n]
  BY RequestsGrow DEF Laid
<1>2. PICK s \in Nat, u \in Nat, l \in Nat : s = Len(S) /\ u = Len(Q) /\ l = Len(q)
  BY RequestBytes DEF Laid, RequestsLaid, BytesLaid
<1>3. S \in Seq(Byte) /\ Q \in Seq(Byte) /\ q \in Seq(Byte)
  BY RequestBytes DEF Laid, RequestsLaid, BytesLaid
<1>4. PICK R2 : R2 = [x \in 0..(s + l) |-> IF x <= s THEN R[x] ELSE u + (x - s)]
  OBVIOUS
<1>5. /\ \A x \in 0..s : R2[x] = R[x]
      /\ \A x \in 1..l : R2[s + x] = u + x
  BY <1>2, <1>4
<1>6. PacketsLaid(p, S \o q, R2, P)
  BY <1>2, <1>3, <1>5, PacketsStayLaid DEF Laid
<1>7. BytesLaid(p, S \o q, Q \o q, R2, P)
  <2>1. /\ S \o q \in Seq(Byte) /\ Len(S \o q) = s + l
        /\ \A x \in 1..s : (S \o q)[x] = S[x]
        /\ \A x \in 1..l : (S \o q)[s + x] = q[x]
    BY <1>2, <1>3, Behind
  <2>2. /\ Len(Q \o q) = u + l
        /\ \A x \in 1..u : (Q \o q)[x] = Q[x]
        /\ \A x \in 1..l : (Q \o q)[u + x] = q[x]
    BY <1>2, <1>3, Behind
  <2>3. R \in [0..s -> 0..u] /\ R[0] = 0 /\ R[s] = u
    BY <1>2 DEF Laid, BytesLaid
  <2>4. R2 \in [0..(s + l) -> 0..(u + l)]
    <3>1. \A x \in 0..(s + l) : (IF x <= s THEN R[x] ELSE u + (x - s)) \in 0..(u + l)
      BY <2>3
    <3> QED
      BY <1>4, <3>1
  <2>5. R2[0] = 0 /\ R2[s + l] = u + l
    <3>1. CASE l = 0
      BY <1>5, <2>3, <3>1
    <3>2. CASE l # 0
      BY <1>5, <2>3, <3>2
    <3> QED
      BY <3>1, <3>2
  <2>6. ASSUME NEW x \in 1..(s + l)
        PROVE  \/ R2[x] = R2[x - 1] + 1 /\ (S \o q)[x] = (Q \o q)[R2[x]]
               \/ InAPacket(p, P, x)
    <3>1. CASE x \in 1..s
      <4>1. (R[x] = R[x - 1] + 1 /\ S[x] = Q[R[x]]) \/ InAPacket(p, P, x)
        BY <1>2, <3>1 DEF Laid, BytesLaid
      <4>2. x \in 0..s /\ x - 1 \in 0..s
        BY <3>1
      <4>3. R[x] \in 0..u /\ R[x - 1] \in 0..u
        BY <2>3, <4>2
      <4>4. CASE InAPacket(p, P, x)
        BY <4>4
      <4>5. CASE R[x] = R[x - 1] + 1 /\ S[x] = Q[R[x]]
        <5>1. R[x] \in 1..u
          BY <4>3, <4>5
        <5>2. R2[x] = R[x] /\ R2[x - 1] = R[x - 1]
          BY <1>5, <4>2
        <5>3. (S \o q)[x] = S[x] /\ (Q \o q)[R[x]] = Q[R[x]]
          BY ONLY <2>1, <2>2, <3>1, <5>1
        <5> QED
          BY ONLY <4>5, <5>2, <5>3
      <4> QED
        BY <4>1, <4>4, <4>5
    <3>2. CASE x \notin 1..s
      <4>1. PICK i \in 1..l : x = s + i
        <5>1. x - s \in 1..l /\ x = s + (x - s)
          BY <3>2
        <5> QED
          BY <5>1
      <4>2. R2[x] = u + i /\ (S \o q)[x] = q[i] /\ (Q \o q)[u + i] = q[i]
        BY <1>5, <2>1, <2>2, <4>1
      <4>3. R2[x - 1] = u + (i - 1)
        <5>1. CASE i = 1
          BY <1>5, <2>3, <4>1, <5>1
        <5>2. CASE i # 1
          <6>1. i - 1 \in 1..l /\ x - 1 = s + (i - 1)
            BY <4>1, <5>2
          <6> QED
            BY <1>5, <6>1
        <5> QED
          BY <5>1, <5>2
      <4> QED
        BY <4>2, <4>3
    <3> QED
      BY <3>1, <3>2
  <2>7. ASSUME p = <<>>, NEW x \in 0..(s + l) PROVE R2[x] = x
    <3>1. u = s /\ \A y \in 0..s : R[y] = y
      BY <1>2, <2>3, <2>7, SMTT(30) DEF Laid, BytesLaid
    <3> QED
      BY <1>4, <3>1
  <2> QED
    <3>1. PICK S2, Q2 : S2 = S \o q /\ Q2 = Q \o q
      OBVIOUS
    <3>2. S2 \in Seq(Byte) /\ Len(S2) = s + l /\ Len(Q2) = u + l
      BY ONLY <2>1, <2>2, <3>1
    <3>3. \A x \in 1..Len(S2) : (R2[x] = R2[x - 1] + 1 /\ S2[x] = Q2[R2[x]]) \/ InAPacket(p, P, x)
      BY ONLY <2>6, <3>1, <3>2
    <3>4. BytesLaid(p, S2, Q2, R2, P)
      BY ONLY <2>4, <2>5, <2>7, <3>2, <3>3 DEF BytesLaid
    <3> QED
      BY ONLY <3>1, <3>4
<1>8. Laid(Append(a, q), p, S \o q, Q \o q, R2, F2, P)
  BY <1>1, <1>6, <1>7, Zenon DEF Laid
<1>9. \A x \in 0..Len(S) : R2[x] = R[x]
  BY <1>2, <1>5
<1> QED
  BY <1>1, <1>8, <1>9, Zenon

\* One packet more.
LEMMA PacketIsLaid ==
  ASSUME NEW a \in Seq(Requests), NEW p \in Seq(Packets), NEW packet \in Packets,
         NEW S, NEW Q, NEW R, NEW F, NEW P, Laid(a, p, S, Q, R, F, P)
  PROVE  \E R2, P2 : /\ Laid(a, Append(p, packet), S \o Framed(packet), Q, R2, F, P2)
                     /\ \A x \in 0..Len(S) : R2[x] = R[x]
                     /\ \A k \in 1..Len(p) : P2[k] = P[k]
                     /\ P2[Len(p) + 1] = Len(S)
<1>14. S \in Seq(Byte) /\ Q \in Seq(Byte)
  BY DEF Laid, RequestsLaid, BytesLaid
<1>15. PICK t \in Seq(Byte) : t = Framed(packet) /\ Len(t) = FrameSize(packet)
  BY FrameBytes
<1>1. PICK s \in Nat, u \in Nat, l \in Nat, n \in Nat :
        /\ s = Len(S) /\ u = Len(Q) /\ l = FrameSize(packet) /\ n = Len(p)
        /\ t = Framed(packet) /\ l = Len(t)
  BY <1>14, <1>15, FrameBytes
<1>2. S \in Seq(Byte) /\ Q \in Seq(Byte) /\ l >= 4
  BY <1>1, <1>14, FrameBytes
<1>3. /\ S \o t \in Seq(Byte) /\ Len(S \o t) = s + l
      /\ \A x \in 1..s : (S \o t)[x] = S[x]
      /\ \A x \in 1..l : (S \o t)[s + x] = t[x]
  BY <1>1, <1>2, Behind
<1>4. PICK R2 : R2 = [x \in 0..(s + l) |-> IF x <= s THEN R[x] ELSE u]
  OBVIOUS
<1>5. PICK P2 : P2 = [k \in 1..(n + 1) |-> IF k <= n THEN P[k] ELSE s]
  OBVIOUS
<1>6. R \in [0..s -> 0..u] /\ R[0] = 0 /\ R[s] = u
  BY <1>1 DEF Laid, BytesLaid
<1>7. /\ \A x \in 0..s : R2[x] = R[x]
      /\ \A x \in 0..l : R2[s + x] = u
  <2>1. \A x \in 0..s : R2[x] = R[x]
    BY <1>1, <1>4
  <2>2. ASSUME NEW x \in 0..l PROVE R2[s + x] = u
    BY <1>1, <1>4, <1>6
  <2> QED
    BY <2>1, <2>2
<1>8. P2[n + 1] = s /\ \A k \in 1..n : P2[k] = P[k]
  BY <1>1, <1>5
<1>9. PICK b : b = Append(p, packet)
  OBVIOUS
<1>10. Len(b) = n + 1 /\ b[n + 1] = packet /\ \A k \in 1..n : b[k] = p[k]
  BY <1>1, <1>9, AppendProperties
<1>11. PacketsLaid(p, S \o t, R2, P)
  BY <1>1, <1>2, <1>7, PacketsStayLaid DEF Laid
<1>12. PacketsLaid(b, S \o t, R2, P2)
  <2>1. P \in [1..n -> Nat]
    BY <1>1 DEF Laid, PacketsLaid
  <2>2. P2 \in [1..(n + 1) -> Nat]
    BY <1>5, <2>1
  <2>3. ASSUME NEW k \in 1..(n + 1) PROVE PacketAt(S \o t, R2, b[k], P2[k])
    <3>1. CASE k \in 1..n
      BY <1>1, <1>8, <1>10, <1>11, <3>1 DEF PacketsLaid
    <3>2. CASE k = n + 1
      <4>1. R2[s] = u /\ \A i \in 1..l : R2[s + i] = u
        <5>1. R2[s] = u
          BY <1>6, <1>7
        <5>2. ASSUME NEW i \in 1..l PROVE R2[s + i] = u
          <6>1. i \in 0..l
            OBVIOUS
          <6> QED
            BY <1>7, <6>1, Zenon
        <5> QED
          BY <5>1, <5>2
      <4>2. PacketAt(S \o t, R2, packet, s)
        <5>1. \A i \in 1..l : (S \o t)[s + i] = Framed(packet)[i] /\ R2[s + i] = R2[s]
          BY ONLY <1>1, <1>3, <4>1
        <5>2. s + l <= Len(S \o t)
          BY <1>3
        <5> QED
          BY ONLY <1>1, <5>1, <5>2 DEF PacketAt
      <4> QED
        BY <1>8, <1>10, <3>2, <4>2
    <3> QED
      BY <3>1, <3>2
  <2>4. ASSUME NEW j \in 1..(n + 1), NEW k \in 1..(n + 1), j < k
        PROVE  P2[j] + FrameSize(b[j]) <= P2[k]
    <3>1. j \in 1..n
      BY <2>4
    <3>2. CASE k \in 1..n
      BY <1>1, <1>8, <1>10, <1>11, <2>4, <3>1, <3>2 DEF PacketsLaid
    <3>3. CASE k = n + 1
      <4>1. P[j] + FrameSize(p[j]) <= s
        BY <1>1, <3>1 DEF Laid, PacketsLaid, PacketAt
      <4> QED
        BY <1>8, <1>10, <3>1, <3>3, <4>1
    <3> QED
      BY <3>2, <3>3
  <2> QED
    BY <1>10, <2>2, <2>3, <2>4 DEF PacketsLaid
<1>13. BytesLaid(b, S \o t, Q, R2, P2)
  <2>1. R2 \in [0..(s + l) -> 0..u]
    <3>1. \A x \in 0..(s + l) : (IF x <= s THEN R[x] ELSE u) \in 0..u
      BY <1>6
    <3> QED
      BY <1>4, <3>1
  <2>2. R2[0] = 0 /\ R2[s + l] = u
    BY <1>1, <1>6, <1>7
  <2>3. ASSUME NEW x \in 1..(s + l)
        PROVE  \/ R2[x] = R2[x - 1] + 1 /\ (S \o t)[x] = Q[R2[x]]
               \/ InAPacket(b, P2, x)
    <3>1. CASE x \in 1..s
      <4>1. (R[x] = R[x - 1] + 1 /\ S[x] = Q[R[x]]) \/ InAPacket(p, P, x)
        BY <1>1, <3>1 DEF Laid, BytesLaid
      <4>2. x \in 0..s /\ x - 1 \in 0..s
        BY <3>1
      <4>3. InAPacket(p, P, x) => InAPacket(b, P2, x)
        <5> SUFFICES ASSUME NEW k \in 1..n, P[k] < x, x <= P[k] + FrameSize(p[k])
                     PROVE  InAPacket(b, P2, x)
          BY <1>1 DEF InAPacket
        <5>1. k \in 1..(n + 1) /\ P2[k] = P[k] /\ b[k] = p[k]
          BY <1>8, <1>10
        <5> QED
          BY <1>10, <5>1 DEF InAPacket
      <4> QED
        BY <1>3, <1>7, <3>1, <4>1, <4>2, <4>3
    <3>2. CASE x \notin 1..s
      <4>1. s < x /\ x <= s + l
        BY <3>2
      <4>2. n + 1 \in 1..(n + 1)
        OBVIOUS
      <4> QED
        BY <1>1, <1>8, <1>10, <4>1, <4>2 DEF InAPacket
    <3> QED
      BY <3>1, <3>2
  <2>4. b # <<>>
    BY <1>10
  <2> QED
    BY <1>1, <1>3, <2>1, <2>2, <2>3, <2>4 DEF BytesLaid
<1>16. Laid(a, b, S \o t, Q, R2, F, P2)
  BY <1>12, <1>13, Zenon DEF Laid
<1> QED
  BY <1>1, <1>7, <1>8, <1>9, <1>16, ZenonT(30)
-----------------------------------------------------------------------------
(* Where a client's bytes are *)

\* What has not been read is on the wire w, unless the client has gone.
OnTheWire(w, e, S, got) ==
  /\ got \in Nat /\ got + Len(w) <= Len(S)
  /\ ~e => got + Len(w) = Len(S)
  /\ \A i \in 1..Len(w) : w[i] = S[got + i]

\* The buffer b holds what was read of requests, those in h excepted.
InTheBuffer(h, a, b, Q, R, F, got) ==
  /\ Len(h) <= Len(a) /\ \A i \in 1..Len(h) : h[i] = a[i]
  /\ R[got] = F[Len(h) + 1] + Len(b)
  /\ \A i \in 1..Len(b) : b[i] = Q[F[Len(h) + 1] + i]

\* Where in the packet the descriptor d is, which has read o bytes of it.
InPacket(d, size, packet, o) ==
  /\ d.fTCPReadingState = "AWAITING_STREAM_CHANNEL_ID" => o = 1
  /\ d.fTCPReadingState = "AWAITING_SIZE1" => o = 2 /\ d.fStreamChannel = packet.interface
  /\ d.fTCPReadingState = "AWAITING_SIZE2" =>
       /\ o = 3 /\ d.fStreamChannel = packet.interface
       /\ d.fSizeByte1 = Len(packet.data) \div 256
  /\ d.fTCPReadingState = "AWAITING_PACKET_DATA" =>
       /\ 4 <= o /\ o <= FrameSize(packet) /\ d.fStreamChannel = packet.interface
       /\ size[packet.interface] = FrameSize(packet) - o

\* The packet that is read, or comes next, is the k-th of p.
AtPacket(p, d, size, P, got, k) ==
  /\ k \in 1..(Len(p) + 1)
  /\ \A j \in 1..Len(p) : j < k => P[j] + FrameSize(p[j]) <= got
  /\ IF d.fTCPReadingState = "AWAITING_DOLLAR"
       THEN k <= Len(p) => got <= P[k]
       ELSE k <= Len(p) /\ P[k] < got /\ InPacket(d, size, p[k], got - P[k])

\* Whether it is in the data of a report that has not been read to its end.
InReport(p, d, P, got, k) ==
  /\ d.fTCPReadingState = "AWAITING_PACKET_DATA"
  /\ p[k].interface = "rtcp" /\ got < P[k] + FrameSize(p[k])

\* What was read of the report, if the socket can be read to its end.
AtReport(c, p, w, e, d, num, buf, P, got, k) ==
  IF InReport(p, d, P, got, k)
    THEN w # <<>> \/ ~e => num = c /\ buf = SubSeq(p[k].data, 1, got - P[k] - 4)
    ELSE p # <<>> => buf = <<>>

\* ReportsAre, of the reports r and the packets p.
ReportsMatch(r, p, at) ==
  /\ \A i, j \in 1..Len(r) : i < j => at[i] < at[j]
  /\ \A i \in 1..Len(r) : IsReport(p[at[i]]) /\ r[i] = p[at[i]].data
  /\ \A i \in 1..Len(r), k \in 1..Len(p) :
       k < at[i] /\ IsReport(p[k]) => \E j \in 1..Len(r) : at[j] = k

\* The j-th packet's report has been processed, if it is one.
Passed(p, d, P, got, k, j) ==
  \/ j < k
  \/ j = k /\ d.fTCPReadingState = "AWAITING_PACKET_DATA" /\ got = P[k] + FrameSize(p[k])

\* Those that were processed are the reports behind which it is.
ReportsDone(p, r, d, P, got, k) ==
  \E at \in [1..Len(r) -> 1..Len(p)] :
    /\ ReportsMatch(r, p, at)
    /\ \A j \in 1..Len(p) : (\E i \in 1..Len(r) : at[i] = j)
                             <=> IsReport(p[j]) /\ Passed(p, d, P, got, k, j)

Place(c, a, p, w, e, h, b, d, r, size, num, buf, S, Q, R, F, P, got, k) ==
  /\ OnTheWire(w, e, S, got)
  /\ InTheBuffer(h, a, b, Q, R, F, got)
  /\ AtPacket(p, d, size, P, got, k)
  /\ AtReport(c, p, w, e, d, num, buf, P, got, k)
  /\ ReportsDone(p, r, d, P, got, k)

\* All that c sent is somewhere.
Placed(c, a, p, w, e, h, b, d, r, size, num, buf) ==
  \E S, Q, R, F, P, got, k :
    /\ Laid(a, p, S, Q, R, F, P)
    /\ Place(c, a, p, w, e, h, b, d, r, size, num, buf, S, Q, R, F, P, got, k)

\* What is left when n bytes have been read.
LeftOf(w, n, w2) ==
  /\ w2 \in Seq(Byte) /\ Len(w2) = Len(w) - n
  /\ \A i \in 1..Len(w2) : w2[i] = w[n + i]

\* What Laid says of one place.
LEMMA LaidAt ==
  ASSUME NEW a \in Seq(Requests), NEW p \in Seq(Packets),
         NEW S, NEW Q, NEW R, NEW F, NEW P, Laid(a, p, S, Q, R, F, P)
  PROVE  /\ S \in Seq(Byte) /\ Q \in Seq(Byte) /\ Len(S) \in Nat /\ Len(Q) \in Nat
         /\ \A x \in 0..Len(S) : R[x] \in 0..Len(Q)
         /\ \A n \in 1..(Len(a) + 1) : F[n] \in Nat
         /\ \A k \in 1..Len(p) : /\ P[k] \in Nat /\ FrameSize(p[k]) \in Nat
                                 /\ FrameSize(p[k]) >= 4 /\ p[k] \in Packets
                                 /\ P[k] + FrameSize(p[k]) <= Len(S)
         /\ Len(a) \in Nat /\ Len(p) \in Nat
<1>1. S \in Seq(Byte) /\ Q \in Seq(Byte)
  BY DEF Laid, RequestsLaid, BytesLaid
<1>2. \A x \in 0..Len(S) : R[x] \in 0..Len(Q)
  BY DEF Laid, BytesLaid
<1>3. \A n \in 1..(Len(a) + 1) : F[n] \in Nat
  BY SMTT(30) DEF Laid, RequestsLaid
<1>4. \A k \in 1..Len(p) : P[k] \in Nat /\ P[k] + FrameSize(p[k]) <= Len(S)
  BY DEF Laid, PacketsLaid, PacketAt
<1>5. \A k \in 1..Len(p) : p[k] \in Packets
  BY ElementOfSeq
<1>6. \A k \in 1..Len(p) : FrameSize(p[k]) \in Nat /\ FrameSize(p[k]) >= 4
  BY <1>5, FrameBytes, ZenonT(30)
<1> QED
  BY <1>1, <1>2, <1>3, <1>4, <1>5, <1>6

\* Bytes of a packet are read: the requests stay where they are.
LEMMA PacketBytes ==
  ASSUME NEW a \in Seq(Requests), NEW p \in Seq(Packets), NEW w \in Seq(Byte),
         NEW S, NEW Q, NEW R, NEW F, NEW P, Laid(a, p, S, Q, R, F, P),
         NEW e, NEW h, NEW b, NEW got,
         OnTheWire(w, e, S, got), InTheBuffer(h, a, b, Q, R, F, got),
         NEW k \in 1..Len(p), P[k] <= got,
         NEW n \in 0..Len(w), got + n <= P[k] + FrameSize(p[k]),
         NEW w2, LeftOf(w, n, w2)
  PROVE  /\ OnTheWire(w2, e, S, got + n)
         /\ InTheBuffer(h, a, b, Q, R, F, got + n)
         /\ got \in Nat /\ P[k] \in Nat /\ FrameSize(p[k]) \in Nat
         /\ \A i \in 1..n : w[i] = Framed(p[k])[got - P[k] + i]
<1>1. PICK l \in Nat, s \in Nat, f \in Nat, from \in Nat :
        l = Len(w) /\ s = Len(S) /\ f = FrameSize(p[k]) /\ from = P[k]
  BY LaidAt
<1>2. /\ got \in Nat /\ got + l <= s /\ (~e => got + l = s)
      /\ \A i \in 1..l : w[i] = S[got + i]
  BY <1>1 DEF OnTheWire
<1>3. /\ from + f <= s
      /\ \A i \in 1..f : S[from + i] = Framed(p[k])[i] /\ R[from + i] = R[from]
  <2>1. PacketAt(S, R, p[k], P[k])
    BY DEF Laid, PacketsLaid
  <2> QED
    BY <1>1, <2>1 DEF PacketAt
<1>4. n \in Nat /\ n <= l /\ from <= got /\ got + n <= from + f
  BY <1>1
<1>5. /\ w2 \in Seq(Byte) /\ Len(w2) = l - n
      /\ \A i \in 1..(l - n) : w2[i] = w[n + i]
  BY <1>1 DEF LeftOf
<1>6. OnTheWire(w2, e, S, got + n)
  <2>1. got + n \in Nat /\ (got + n) + (l - n) = got + l
    BY <1>2, <1>4
  <2>2. ASSUME NEW i \in 1..(l - n) PROVE w2[i] = S[(got + n) + i]
    <3>1. n + i \in 1..l /\ got + (n + i) = (got + n) + i
      BY <1>2, <1>4
    <3> QED
      BY <1>2, <1>5, <3>1
  <2> QED
    BY ONLY <1>1, <1>2, <1>5, <2>1, <2>2 DEF OnTheWire
<1>7. R[got + n] = R[got]
  <2>1. \A x \in from..(from + f) : R[x] = R[from]
    <3> SUFFICES ASSUME NEW x \in from..(from + f) PROVE R[x] = R[from]
      OBVIOUS
    <3>1. CASE x = from
      BY <3>1
    <3>2. CASE x # from
      <4>1. PICK i \in 1..f : x = from + i
        <5>1. x - from \in 1..f /\ x = from + (x - from)
          BY <3>2
        <5> QED
          BY <5>1
      <4> QED
        BY <1>3, <4>1
    <3> QED
      BY <3>1, <3>2
  <2>2. got \in from..(from + f) /\ got + n \in from..(from + f)
    BY <1>2, <1>4
  <2> QED
    BY ONLY <2>1, <2>2
<1>8. InTheBuffer(h, a, b, Q, R, F, got + n)
  BY <1>7 DEF InTheBuffer
<1>9. ASSUME NEW i \in 1..n PROVE w[i] = Framed(p[k])[got - P[k] + i]
  <2>1. (got - from) + i \in 1..f /\ from + ((got - from) + i) = got + i /\ i \in 1..l
    BY <1>2, <1>4
  <2> QED
    BY <1>1, <1>2, <1>3, <2>1, ZenonT(30)
<1> QED
  BY <1>1, <1>2, <1>6, <1>8, <1>9

\* Between packets, the next byte is a request's or begins the k-th packet.
LEMMA NextByte ==
  ASSUME NEW a \in Seq(Requests), NEW p \in Seq(Packets), NEW w \in Seq(Byte), w # <<>>,
         NEW S, NEW Q, NEW R, NEW F, NEW P, Laid(a, p, S, Q, R, F, P),
         NEW e, NEW h, NEW b, NEW got, NEW d, NEW size, NEW k,
         OnTheWire(w, e, S, got), InTheBuffer(h, a, b, Q, R, F, got),
         AtPacket(p, d, size, P, got, k), d.fTCPReadingState = "AWAITING_DOLLAR"
  PROVE  \/ /\ w[1] # Dollar /\ R[got] + 1 \in 1..Len(Q)
            /\ R[got + 1] = R[got] + 1 /\ w[1] = Q[R[got] + 1]
            /\ k <= Len(p) => got + 1 <= P[k]
         \/ w[1] = Dollar /\ k <= Len(p) /\ got = P[k]
<1>1. PICK s \in Nat, n \in Nat, u \in Nat : s = Len(S) /\ n = Len(p) /\ u = Len(Q)
  BY LaidAt
<1>2. got \in Nat /\ got + 1 \in 1..s /\ got \in 0..s /\ w[1] = S[got + 1]
  <2>1. Len(w) \in Nat /\ Len(w) >= 1
    BY EmptySeq
  <2>2. got \in Nat /\ got + Len(w) <= s /\ \A i \in 1..Len(w) : w[i] = S[got + i]
    BY <1>1 DEF OnTheWire
  <2> QED
    BY <2>1, <2>2
<1>3. \/ R[got + 1] = R[got] + 1 /\ S[got + 1] = Q[R[got + 1]]
      \/ InAPacket(p, P, got + 1)
  <2>1. \A x \in 1..s : (R[x] = R[x - 1] + 1 /\ S[x] = Q[R[x]]) \/ InAPacket(p, P, x)
    BY <1>1 DEF Laid, BytesLaid
  <2>2. (got + 1) - 1 = got
    BY <1>2
  <2> QED
    BY ONLY <1>2, <2>1, <2>2
<1>4. R[got] \in 0..u /\ R[got + 1] \in 0..u
  <2>1. got + 1 \in 0..s
    BY <1>2
  <2> QED
    BY <1>1, <1>2, <2>1, LaidAt
<1>5. /\ k \in 1..(n + 1) /\ (k <= n => got <= P[k])
      /\ \A j \in 1..n : j < k => P[j] + FrameSize(p[j]) <= got
  BY <1>1 DEF AtPacket
<1>6. \A j \in 1..n : P[j] \in Nat /\ FrameSize(p[j]) \in Nat /\ FrameSize(p[j]) >= 4
  BY <1>1, LaidAt
<1>7. k <= n => S[P[k] + 1] = Dollar
  <2> SUFFICES ASSUME k <= n PROVE S[P[k] + 1] = Dollar
    OBVIOUS
  <2>1. k \in 1..n
    BY <1>5
  <2>2. PacketAt(S, R, p[k], P[k]) /\ p[k] \in Packets
    BY <1>1, <2>1, LaidAt DEF Laid, PacketsLaid
  <2>3. 1 \in 1..FrameSize(p[k])
    BY <1>6, <2>1
  <2>4. S[P[k] + 1] = Framed(p[k])[1]
    BY <2>2, <2>3 DEF PacketAt
  <2> QED
    BY <2>2, <2>4, FrameBytes
<1>8. CASE InAPacket(p, P, got + 1)
  <2>1. PICK j \in 1..n : P[j] < got + 1 /\ got + 1 <= P[j] + FrameSize(p[j])
    BY <1>1, <1>8 DEF InAPacket
  <2>2. ~(j < k)
    BY <1>2, <1>5, <1>6, <2>1
  <2>3. k \in 1..n /\ got <= P[k]
    BY <1>5, <2>2
  <2>4. P[k] <= P[j]
    <3>1. CASE j = k
      BY <1>6, <2>3, <3>1
    <3>2. CASE k < j
      <4>1. P[k] + FrameSize(p[k]) <= P[j]
        BY <1>1, <2>3, <3>2 DEF Laid, PacketsLaid
      <4> QED
        BY <1>6, <2>3, <4>1
    <3> QED
      BY <2>2, <2>3, <3>1, <3>2
  <2>6. P[j] \in Nat /\ P[k] \in Nat
    BY <1>6, <2>3
  <2>5. got = P[k]
    BY ONLY <1>2, <2>1, <2>3, <2>4, <2>6
  <2> QED
    BY <1>1, <1>2, <1>7, <2>3, <2>5
<1>9. CASE R[got + 1] = R[got] + 1 /\ S[got + 1] = Q[R[got + 1]]
  <2>1. R[got] + 1 \in 1..u
    BY <1>4, <1>9
  <2>2. w[1] = Q[R[got] + 1]
    BY <1>2, <1>9
  <2>3. w[1] # Dollar
    BY <1>1, <2>1, <2>2 DEF Laid, RequestsLaid
  <2>4. ASSUME k <= n PROVE got + 1 <= P[k]
    <3>1. got # P[k]
      BY <1>2, <1>7, <2>3, <2>4
    <3>2. k \in 1..n /\ got <= P[k] /\ P[k] \in Nat
      BY <1>5, <1>6, <2>4
    <3> QED
      BY <1>2, <3>1, <3>2
  <2> QED
    BY <1>1, <1>9, <2>1, <2>2, <2>3, <2>4
<1> QED
  BY <1>3, <1>8, <1>9

\* The client sends a request.
LEMMA RequestSent ==
  ASSUME NEW a \in Seq(Requests), NEW p \in Seq(Packets), NEW w \in Seq(Byte), NEW e,
         NEW c, NEW h \in Seq(Seq(Byte)), NEW b \in Seq(Byte), NEW d, NEW r, NEW size,
         NEW num, NEW buf,
         Placed(c, a, p, w, e, h, b, d, r, size, num, buf), NEW q \in Requests, ~e
  PROVE  Placed(c, Append(a, q), p, w \o q, e, h, b, d, r, size, num, buf)
<1>1. PICK S, Q, R, F, P, got, k :
        /\ Laid(a, p, S, Q, R, F, P)
        /\ Place(c, a, p, w, e, h, b, d, r, size, num, buf, S, Q, R, F, P, got, k)
  BY DEF Placed
<1>2. PICK R2, F2 : /\ Laid(Append(a, q), p, S \o q, Q \o q, R2, F2, P)
                    /\ \A x \in 0..Len(S) : R2[x] = R[x]
                    /\ \A n \in 1..(Len(a) + 1) : F2[n] = F[n]
  <2>1. a \in Seq(Requests) /\ p \in Seq(Packets) /\ q \in Requests
    OBVIOUS
  <2>2. Laid(a, p, S, Q, R, F, P)
    BY <1>1
  <2> QED
    BY ONLY <2>1, <2>2, RequestIsLaid, SMTT(30)
<1>3. PICK s \in Nat, u \in Nat, l \in Nat, m \in Nat, n \in Nat, z \in Nat, y \in Nat :
        /\ s = Len(S) /\ u = Len(Q) /\ l = Len(q) /\ m = Len(w) /\ n = Len(a)
        /\ z = Len(h) /\ y = Len(b)
  <2>1. Len(S) \in Nat /\ Len(Q) \in Nat /\ Len(a) \in Nat
    BY <1>1, LaidAt
  <2>2. Len(q) \in Nat /\ Len(w) \in Nat /\ Len(h) \in Nat /\ Len(b) \in Nat
    BY RequestBytes
  <2> QED
    BY ONLY <2>1, <2>2
<1>4. S \in Seq(Byte) /\ Q \in Seq(Byte) /\ q \in Seq(Byte)
  BY <1>1, LaidAt, RequestBytes
<1>5. /\ got \in Nat /\ got + m = s /\ \A i \in 1..m : w[i] = S[got + i]
  BY <1>1, <1>3 DEF Place, OnTheWire
<1>6. OnTheWire(w \o q, e, S \o q, got)
  <2>1. /\ Len(S \o q) = s + l
        /\ \A x \in 1..s : (S \o q)[x] = S[x]
        /\ \A x \in 1..l : (S \o q)[s + x] = q[x]
    BY <1>3, <1>4, Behind
  <2>2. /\ Len(w \o q) = m + l
        /\ \A x \in 1..m : (w \o q)[x] = w[x]
        /\ \A x \in 1..l : (w \o q)[m + x] = q[x]
    BY <1>3, <1>4, Behind
  <2>3. ASSUME NEW i \in 1..(m + l) PROVE (w \o q)[i] = (S \o q)[got + i]
    <3>1. CASE i \in 1..m
      <4>1. got + i \in 1..s
        BY <1>5, <3>1
      <4> QED
        BY <1>5, <2>1, <2>2, <3>1, <4>1
    <3>2. CASE i \notin 1..m
      <4>1. PICK x \in 1..l : i = m + x
        <5>1. i - m \in 1..l /\ i = m + (i - m)
          BY <3>2
        <5> QED
          BY <5>1
      <4>2. got + i = s + x
        BY <1>5, <4>1
      <4> QED
        BY <2>1, <2>2, <4>1, <4>2
    <3> QED
      BY <3>1, <3>2
  <2>4. got + (m + l) = s + l
    <3>1. got \in Nat /\ got + m = s
      BY <1>5
    <3> QED
      BY ONLY <3>1, m \in Nat, l \in Nat
  <2>5. PICK w2, S2 : w2 = w \o q /\ S2 = S \o q
    OBVIOUS
  <2>6. OnTheWire(w2, e, S2, got)
    <3>1. Len(w2) = m + l /\ Len(S2) = s + l /\ got \in Nat
      BY ONLY <1>5, <2>1, <2>2, <2>5
    <3>2. got + Len(w2) = Len(S2) /\ Len(S2) \in Nat
      BY ONLY <2>4, <3>1, s \in Nat, l \in Nat
    <3>3. got + Len(w2) <= Len(S2)
      BY ONLY <3>2
    <3>4. \A i \in 1..Len(w2) : w2[i] = S2[got + i]
      BY ONLY <2>3, <2>5, <3>1
    <3> QED
      BY ONLY <3>1, <3>2, <3>3, <3>4 DEF OnTheWire
  <2> QED
    BY <2>5, <2>6
<1>7. InTheBuffer(h, Append(a, q), b, Q \o q, R2, F2, got)
  <2>1. PICK a2, Q2 : a2 = Append(a, q) /\ Q2 = Q \o q
    OBVIOUS
  <2>2. Len(a2) = n + 1 /\ \A i \in 1..n : a2[i] = a[i]
    BY <1>3, <2>1, AppendProperties
  <2>3. \A x \in 1..u : Q2[x] = Q[x]
    BY <1>3, <1>4, <2>1, Behind
  <2>4. /\ z <= n /\ \A i \in 1..z : h[i] = a[i]
        /\ R[got] = F[z + 1] + y
        /\ \A i \in 1..y : b[i] = Q[F[z + 1] + i]
    BY <1>1, <1>3 DEF Place, InTheBuffer
  <2>5. got \in 0..s /\ z + 1 \in 1..(n + 1)
    BY <1>5, <2>4
  <2>6. R2[got] = R[got] /\ F2[z + 1] = F[z + 1] /\ R[got] \in 0..u /\ F[z + 1] \in Nat
    BY <1>1, <1>2, <1>3, <2>5, LaidAt
  <2>7. \A i \in 1..y : F[z + 1] + i \in 1..u
    BY <2>4, <2>6, SMTT(30)
  <2>8. z <= n + 1 /\ \A i \in 1..z : i \in 1..n
    BY <2>4
  <2>9. InTheBuffer(h, a2, b, Q2, R2, F2, got)
    BY ONLY <1>3, <2>2, <2>3, <2>4, <2>6, <2>7, <2>8, ZenonT(30) DEF InTheBuffer
  <2> QED
    BY <2>1, <2>9
<1>8. AtPacket(p, d, size, P, got, k) /\ ReportsDone(p, r, d, P, got, k)
  BY <1>1 DEF Place
<1>9. AtReport(c, p, w \o q, e, d, num, buf, P, got, k)
  BY <1>1 DEF Place, AtReport
<1>10. Place(c, Append(a, q), p, w \o q, e, h, b, d, r, size, num, buf, S \o q, Q \o q, R2, F2, P,
              got, k)
  BY <1>6, <1>7, <1>8, <1>9, Zenon DEF Place
<1> QED
  BY <1>2, <1>10, Zenon DEF Placed

\* The client sends a packet.
LEMMA PacketSent ==
  ASSUME NEW a \in Seq(Requests), NEW p \in Seq(Packets), NEW w \in Seq(Byte), NEW e,
         NEW c, NEW h, NEW b, NEW d, NEW r \in Seq(Seq(Byte)), NEW size, NEW num, NEW buf,
         Placed(c, a, p, w, e, h, b, d, r, size, num, buf), NEW packet \in Packets, ~e,
         p = <<>> => buf = <<>>
  PROVE  Placed(c, a, Append(p, packet), w \o Framed(packet), e, h, b, d, r, size, num, buf)
<1>1. PICK S, Q, R, F, P, got, k :
        /\ Laid(a, p, S, Q, R, F, P)
        /\ Place(c, a, p, w, e, h, b, d, r, size, num, buf, S, Q, R, F, P, got, k)
  BY DEF Placed
<1>0. \E R2, P2 : /\ Laid(a, Append(p, packet), S \o Framed(packet), Q, R2, F, P2)
                  /\ \A x \in 0..Len(S) : R2[x] = R[x]
                  /\ \A y \in 1..Len(p) : P2[y] = P[y]
                  /\ P2[Len(p) + 1] = Len(S)
  <2> HIDE <1>1
  <2>1. Laid(a, p, S, Q, R, F, P)
    BY <1>1
  <2> QED
    BY <2>1, PacketIsLaid, SMTT(60)
<1>2. PICK R2, P2 : /\ Laid(a, Append(p, packet), S \o Framed(packet), Q, R2, F, P2)
                    /\ \A x \in 0..Len(S) : R2[x] = R[x]
                    /\ \A i \in 1..Len(p) : P2[i] = P[i]
                    /\ P2[Len(p) + 1] = Len(S)
  BY <1>0, Zenon
<1>3. PICK t \in Seq(Byte), p2 \in Seq(Packets) : t = Framed(packet) /\ p2 = Append(p, packet)
  <2>1. Framed(packet) \in Seq(Byte)
    BY FrameBytes
  <2>2. Append(p, packet) \in Seq(Packets)
    OBVIOUS
  <2> QED
    BY <2>1, <2>2
<1>4. PICK s \in Nat, l \in Nat, m \in Nat, n \in Nat, z \in Nat :
        s = Len(S) /\ l = Len(t) /\ m = Len(w) /\ n = Len(p) /\ z = Len(r)
  <2>1. Len(S) \in Nat /\ Len(p) \in Nat
    BY <1>1, LaidAt
  <2>2. Len(t) \in Nat /\ Len(w) \in Nat /\ Len(r) \in Nat
    OBVIOUS
  <2> QED
    BY ONLY <2>1, <2>2
<1>5. S \in Seq(Byte)
  BY <1>1, LaidAt
<1>6. /\ got \in Nat /\ got + m = s /\ \A i \in 1..m : w[i] = S[got + i]
  BY <1>1, <1>4 DEF Place, OnTheWire
<1>7. PICK S2, w2 : S2 = S \o t /\ w2 = w \o t
  OBVIOUS
<1>8. OnTheWire(w2, e, S2, got)
  <2>1. /\ Len(S2) = s + l
        /\ \A x \in 1..s : S2[x] = S[x]
        /\ \A x \in 1..l : S2[s + x] = t[x]
    <3>1. /\ Len(S \o t) = Len(S) + Len(t)
          /\ \A x \in 1..Len(S) : (S \o t)[x] = S[x]
          /\ \A x \in 1..Len(t) : (S \o t)[Len(S) + x] = t[x]
      BY <1>5, Behind
    <3> QED
      BY ONLY <1>4, <1>7, <3>1
  <2>2. /\ Len(w2) = m + l
        /\ \A x \in 1..m : w2[x] = w[x]
        /\ \A x \in 1..l : w2[m + x] = t[x]
    BY <1>4, <1>7, Behind
  <2>3. ASSUME NEW i \in 1..(m + l) PROVE w2[i] = S2[got + i]
    <3>1. CASE i \in 1..m
      <4>1. got + i \in 1..s
        BY <1>6, <3>1
      <4> QED
        BY <1>6, <2>1, <2>2, <3>1, <4>1
    <3>2. CASE i \notin 1..m
      <4>1. PICK x \in 1..l : i = m + x
        <5>1. i - m \in 1..l /\ i = m + (i - m)
          BY <3>2
        <5> QED
          BY <5>1
      <4>2. got + i = s + x
        BY <1>6, <4>1
      <4> QED
        BY <2>1, <2>2, <4>1, <4>2
    <3> QED
      BY <3>1, <3>2
  <2>4. got + (m + l) = s + l
    <3>1. got \in Nat /\ got + m = s
      BY <1>6
    <3> QED
      BY ONLY <3>1, m \in Nat, l \in Nat
  <2> QED
    BY ONLY <1>4, <1>6, <2>1, <2>2, <2>3, <2>4 DEF OnTheWire
<1>9. InTheBuffer(h, a, b, Q, R2, F, got)
  <2>1. R2[got] = R[got]
    BY <1>2, <1>4, <1>6
  <2> QED
    BY <1>1, <2>1 DEF Place, InTheBuffer
<1>10. Len(p2) = n + 1 /\ p2[n + 1] = packet /\ p2 # <<>> /\ \A i \in 1..n : p2[i] = p[i]
  <2>1. Len(p2) = n + 1 /\ p2[n + 1] = packet /\ \A i \in 1..n : p2[i] = p[i]
    BY <1>3, <1>4, AppendProperties
  <2> QED
    BY <2>1
<1>11. P2[n + 1] = s /\ \A i \in 1..n : P2[i] = P[i]
  BY <1>2, <1>4
<1>12. /\ k \in 1..(n + 1)
       /\ \A j \in 1..n : j < k => P[j] + FrameSize(p[j]) <= got
       /\ IF d.fTCPReadingState = "AWAITING_DOLLAR"
            THEN k <= n => got <= P[k]
            ELSE k <= n /\ P[k] < got /\ InPacket(d, size, p[k], got - P[k])
  BY <1>1, <1>4 DEF Place, AtPacket
<1>13. AtPacket(p2, d, size, P2, got, k)
  <2>1. k \in 1..(n + 1 + 1)
    BY <1>12
  <2>2. ASSUME NEW j \in 1..(n + 1), j < k PROVE P2[j] + FrameSize(p2[j]) <= got
    <3>1. j \in 1..n
      BY <1>12, <2>2
    <3> QED
      BY <1>10, <1>11, <1>12, <2>2, <3>1
  <2>3. ASSUME d.fTCPReadingState = "AWAITING_DOLLAR", k <= n + 1 PROVE got <= P2[k]
    <3>1. CASE k \in 1..n
      BY <1>11, <1>12, <2>3, <3>1
    <3>2. CASE k = n + 1
      BY <1>6, <1>11, <3>2
    <3> QED
      BY <1>12, <3>1, <3>2
  <2>4. ASSUME d.fTCPReadingState # "AWAITING_DOLLAR"
        PROVE  k <= n + 1 /\ P2[k] < got /\ InPacket(d, size, p2[k], got - P2[k])
    <3>1. k \in 1..n
      BY <1>12, <2>4
    <3>2. P2[k] = P[k] /\ p2[k] = p[k] /\ k <= n + 1
      BY <1>10, <1>11, <3>1
    <3> QED
      BY <1>12, <2>4, <3>2
  <2> QED
    BY <1>10, <2>1, <2>2, <2>3, <2>4 DEF AtPacket
<1>14. AtReport(c, p2, w2, e, d, num, buf, P2, got, k)
  <2>1. CASE d.fTCPReadingState = "AWAITING_DOLLAR"
    <3>1. ~InReport(p, d, P, got, k) /\ ~InReport(p2, d, P2, got, k)
      BY <2>1 DEF InReport
    <3>2. p # <<>> => buf = <<>>
      BY <1>1, <3>1 DEF Place, AtReport
    <3> QED
      BY <3>1, <3>2 DEF AtReport
  <2>2. CASE d.fTCPReadingState # "AWAITING_DOLLAR"
    <3>1. k \in 1..n
      BY <1>12, <2>2
    <3>2. P2[k] = P[k] /\ p2[k] = p[k] /\ p # <<>>
      BY <1>4, <1>10, <1>11, <3>1
    <3>3. InReport(p2, d, P2, got, k) <=> InReport(p, d, P, got, k)
      BY <3>2 DEF InReport
    <3>4. AtReport(c, p, w, e, d, num, buf, P, got, k)
      BY <1>1 DEF Place
    <3>5. CASE InReport(p, d, P, got, k)
      BY <3>2, <3>3, <3>4, <3>5 DEF AtReport
    <3>6. CASE ~InReport(p, d, P, got, k)
      BY <3>2, <3>3, <3>4, <3>6 DEF AtReport
    <3> QED
      BY <3>5, <3>6
  <2> QED
    BY <2>1, <2>2
<1>15. ReportsDone(p2, r, d, P2, got, k)
  <2>1. PICK at \in [1..z -> 1..n] :
          /\ ReportsMatch(r, p, at)
          /\ \A j \in 1..n : (\E i \in 1..z : at[i] = j)
                              <=> IsReport(p[j]) /\ Passed(p, d, P, got, k, j)
    BY <1>1, <1>4 DEF Place, ReportsDone
  <2>2. at \in [1..z -> 1..(n + 1)] /\ \A i \in 1..z : at[i] \in 1..n /\ at[i] # n + 1
    BY <2>1
  <2>3. ReportsMatch(r, p2, at)
    <3>1. \A i \in 1..z : IsReport(p2[at[i]]) /\ r[i] = p2[at[i]].data
      BY <1>4, <1>10, <2>1, <2>2 DEF ReportsMatch
    <3>2. ASSUME NEW i \in 1..z, NEW x \in 1..(n + 1), x < at[i], IsReport(p2[x])
          PROVE  \E j \in 1..z : at[j] = x
      <4>1. x \in 1..n
        BY <2>2, <3>2
      <4>2. IsReport(p[x])
        BY <1>10, <3>2, <4>1
      <4> QED
        BY <1>4, <2>1, <3>2, <4>1, <4>2 DEF ReportsMatch
    <3>3. \A i, j \in 1..z : i < j => at[i] < at[j]
      BY <1>4, <2>1 DEF ReportsMatch
    <3> QED
      BY ONLY <1>4, <1>10, <3>1, <3>2, <3>3 DEF ReportsMatch
  <2>4. ASSUME NEW j \in 1..(n + 1)
        PROVE  (\E i \in 1..z : at[i] = j) <=> IsReport(p2[j]) /\ Passed(p2, d, P2, got, k, j)
    <3>1. CASE j \in 1..n
      <4>1. p2[j] = p[j] /\ P2[j] = P[j]
        BY <1>10, <1>11, <3>1
      <4>2. Passed(p2, d, P2, got, k, j) <=> Passed(p, d, P, got, k, j)
        BY <4>1 DEF Passed
      <4> QED
        BY <2>1, <3>1, <4>1, <4>2
    <3>2. CASE j = n + 1
      <4>1. ~ \E i \in 1..z : at[i] = j
        BY <2>2, <3>2
      <4>2. ~(j < k)
        BY <1>12, <3>2
      <4>3. j = k => d.fTCPReadingState = "AWAITING_DOLLAR"
        BY <1>12, <3>2
      <4>4. ~Passed(p2, d, P2, got, k, j)
        BY <4>2, <4>3 DEF Passed
      <4> QED
        BY <4>1, <4>4
    <3> QED
      BY <3>1, <3>2
  <2> QED
    BY ONLY <1>4, <1>10, <2>2, <2>3, <2>4 DEF ReportsDone
<1>16. Place(c, a, p2, w2, e, h, b, d, r, size, num, buf, S2, Q, R2, F, P2, got, k)
  BY <1>8, <1>9, <1>13, <1>14, <1>15, Zenon DEF Place
<1>17. Laid(a, p2, S2, Q, R2, F, P2)
  BY <1>2, <1>3, <1>7
<1>18. Placed(c, a, p2, w2, e, h, b, d, r, size, num, buf)
  BY <1>16, <1>17, Zenon DEF Placed
<1> QED
  BY <1>3, <1>7, <1>18

\* The client goes: what is on its way may be lost from some byte on.
LEMMA CutOff ==
  ASSUME NEW a, NEW p, NEW w \in Seq(Byte), NEW e,
         NEW c, NEW h, NEW b, NEW d, NEW r, NEW size, NEW num, NEW buf,
         Placed(c, a, p, w, e, h, b, d, r, size, num, buf), NEW n \in 0..Len(w)
  PROVE  Placed(c, a, p, SubSeq(w, 1, n), TRUE, h, b, d, r, size, num, buf)
<1>1. PICK S, Q, R, F, P, got, k :
        /\ Laid(a, p, S, Q, R, F, P)
        /\ Place(c, a, p, w, e, h, b, d, r, size, num, buf, S, Q, R, F, P, got, k)
  BY DEF Placed
<1>2. PICK w2 \in Seq(Byte) : w2 = SubSeq(w, 1, n)
  BY Splitting
<1>3. Len(w2) = n /\ n <= Len(w) /\ n \in Nat /\ Len(w) \in Nat
  BY <1>2, Splitting
<1>4. \A i \in 1..n : w2[i] = w[i]
  BY <1>2, <1>3, SubSeqProperties
<1>5. S \in Seq(Byte) /\ Len(S) \in Nat
  BY <1>1 DEF Laid, BytesLaid
<1>6. OnTheWire(w2, TRUE, S, got)
  <2>1. got \in Nat /\ got + Len(w) <= Len(S) /\ \A i \in 1..Len(w) : w[i] = S[got + i]
    BY <1>1 DEF Place, OnTheWire
  <2>2. \A i \in 1..n : w2[i] = S[got + i]
    BY <1>3, <1>4, <2>1
  <2>3. got + n <= Len(S)
    BY <1>3, <1>5, <2>1
  <2> QED
    BY <1>3, <2>1, <2>2, <2>3 DEF OnTheWire
<1>7. AtReport(c, p, w2, TRUE, d, num, buf, P, got, k)
  <2>1. w2 # <<>> => w # <<>>
    BY <1>3
  <2> QED
    BY <1>1, <2>1 DEF Place, AtReport
<1>8. Place(c, a, p, w2, TRUE, h, b, d, r, size, num, buf, S, Q, R, F, P, got, k)
  BY <1>1, <1>6, <1>7, Zenon DEF Place
<1>9. Placed(c, a, p, w2, TRUE, h, b, d, r, size, num, buf)
  BY <1>1, <1>8, Zenon DEF Placed
<1> QED
  BY <1>2, <1>9

\* The same reports have been passed.
LEMMA ReportsStayDone ==
  ASSUME NEW p, NEW r, NEW d, NEW P, NEW got, NEW k, NEW d2, NEW got2, NEW k2,
         ReportsDone(p, r, d, P, got, k),
         \A j \in 1..Len(p) : IsReport(p[j]) =>
           (Passed(p, d, P, got, k, j) <=> Passed(p, d2, P, got2, k2, j))
  PROVE  ReportsDone(p, r, d2, P, got2, k2)
<1>1. PICK at \in [1..Len(r) -> 1..Len(p)] :
        /\ ReportsMatch(r, p, at)
        /\ \A j \in 1..Len(p) : (\E i \in 1..Len(r) : at[i] = j)
                                 <=> IsReport(p[j]) /\ Passed(p, d, P, got, k, j)
  BY DEF ReportsDone
<1>2. \A j \in 1..Len(p) : (\E i \in 1..Len(r) : at[i] = j)
                           <=> IsReport(p[j]) /\ Passed(p, d2, P, got2, k2, j)
  BY <1>1
<1> QED
  BY <1>1, <1>2 DEF ReportsDone

\* The connection reads bytes of a client that sent no packet.
LEMMA BytesRead ==
  ASSUME NEW a \in Seq(Requests), NEW w \in Seq(Byte), NEW e,
         NEW c, NEW h \in Seq(Seq(Byte)), NEW b \in Seq(Byte), NEW d, NEW r, NEW size,
         NEW num, NEW buf,
         Placed(c, a, <<>>, w, e, h, b, d, r, size, num, buf),
         NEW n \in 0..Len(w), NEW w2, LeftOf(w, n, w2),
         NEW b2, Len(b2) = Len(b) + n, \A i \in 1..Len(b) : b2[i] = b[i],
         \A i \in 1..n : b2[Len(b) + i] = w[i]
  PROVE  Placed(c, a, <<>>, w2, e, h, b2, d, r, size, num, buf)
<1>0. PICK p \in Seq(Packets) : p = <<>> /\ Len(p) = 0
  <2>1. <<>> \in Seq(Packets) /\ Len(<<>>) = 0
    OBVIOUS
  <2> QED
    BY <2>1, Zenon
<1>1. PICK S, Q, R, F, P, got, k :
        /\ Laid(a, p, S, Q, R, F, P)
        /\ Place(c, a, p, w, e, h, b, d, r, size, num, buf, S, Q, R, F, P, got, k)
  BY <1>0 DEF Placed
<1>2. PICK s \in Nat, m \in Nat, y \in Nat : s = Len(S) /\ m = Len(w) /\ y = Len(b)
  BY <1>1, LaidAt
<1>3. /\ got \in Nat /\ got + m <= s /\ (~e => got + m = s)
      /\ \A i \in 1..m : w[i] = S[got + i]
  BY <1>1, <1>2 DEF Place, OnTheWire
<1>4. n \in Nat /\ n <= m
  BY <1>2
<1>5. OnTheWire(w2, e, S, got + n)
  <2>1. /\ w2 \in Seq(Byte) /\ Len(w2) = m - n
        /\ \A i \in 1..(m - n) : w2[i] = w[n + i]
    BY <1>2 DEF LeftOf
  <2>2. got + n \in Nat /\ (got + n) + (m - n) = got + m
    BY <1>3, <1>4
  <2>3. ASSUME NEW i \in 1..(m - n) PROVE w2[i] = S[(got + n) + i]
    <3>1. n + i \in 1..m /\ got + (n + i) = (got + n) + i
      BY <1>3, <1>4
    <3> QED
      BY <1>3, <2>1, <3>1
  <2> QED
    BY ONLY <1>2, <1>3, <2>1, <2>2, <2>3 DEF OnTheWire
<1>6. /\ \A x \in 0..s : R[x] = x
      /\ \A x \in 1..s : S[x] = Q[x]
  <2>1. \A x \in 0..s : R[x] = x
    BY <1>0, <1>1, <1>2 DEF Laid, BytesLaid
  <2>2. ASSUME NEW x \in 1..s PROVE S[x] = Q[x]
    <3>1. (R[x] = R[x - 1] + 1 /\ S[x] = Q[R[x]]) \/ InAPacket(p, P, x)
      BY <1>1, <1>2 DEF Laid, BytesLaid
    <3>2. ~InAPacket(p, P, x)
      BY <1>0 DEF InAPacket
    <3>3. R[x] = x
      BY <2>1
    <3> QED
      BY <3>1, <3>2, <3>3
  <2> QED
    BY <2>1, <2>2
<1>7. InTheBuffer(h, a, b2, Q, R, F, got + n)
  <2>1. PICK f : f = F[Len(h) + 1]
    OBVIOUS
  <2>2. /\ Len(h) <= Len(a) /\ \A i \in 1..Len(h) : h[i] = a[i]
        /\ R[got] = f + y
        /\ \A i \in 1..y : b[i] = Q[f + i]
    BY <1>1, <1>2, <2>1 DEF Place, InTheBuffer
  <2>3. f \in Nat
    <3>1. Len(h) \in Nat /\ Len(a) \in Nat
      OBVIOUS
    <3>2. Len(h) + 1 \in 1..(Len(a) + 1)
      BY <2>2, <3>1
    <3> QED
      BY <1>1, <2>1, <3>2, LaidAt
  <2>4. got \in 0..s /\ got + n \in 0..s
    BY <1>3, <1>4
  <2>5. got = f + y /\ R[got + n] = f + (y + n)
    <3>1. R[got] = got /\ R[got + n] = got + n
      BY ONLY <1>6, <2>4
    <3>2. got = f + y
      BY ONLY <2>2, <3>1
    <3>3. got + n = f + (y + n)
      BY ONLY <1>3, <1>4, <2>3, <3>2, y \in Nat
    <3> QED
      BY ONLY <3>1, <3>2, <3>3
  <2>6. ASSUME NEW i \in 1..(y + n) PROVE b2[i] = Q[f + i]
    <3>1. CASE i \in 1..y
      BY <1>2, <2>2, <3>1
    <3>2. CASE i \notin 1..y
      <4>1. PICK x \in 1..n : i = y + x
        <5>1. i - y \in 1..n /\ i = y + (i - y)
          BY <1>4, <3>2
        <5> QED
          BY <5>1
      <4>2. x \in 1..m /\ got + x \in 1..s /\ f + i = got + x
        BY <1>3, <1>4, <2>3, <2>5, <4>1
      <4>3. b2[i] = w[x]
        BY <1>2, <4>1
      <4> QED
        BY <1>3, <1>6, <4>2, <4>3
    <3> QED
      BY <3>1, <3>2
  <2>7. Len(b2) = y + n
    BY <1>2
  <2> QED
    BY ONLY <2>1, <2>2, <2>5, <2>6, <2>7 DEF InTheBuffer
<1>8. k = 1 /\ d.fTCPReadingState = "AWAITING_DOLLAR"
  BY <1>0, <1>1 DEF Place, AtPacket
<1>9. AtPacket(p, d, size, P, got + n, k)
  BY <1>0, <1>8 DEF AtPacket
<1>10. AtReport(c, p, w2, e, d, num, buf, P, got + n, k)
  BY <1>0, <1>8 DEF AtReport, InReport
<1>11. ReportsDone(p, r, d, P, got + n, k)
  <2>1. ReportsDone(p, r, d, P, got, k)
    BY <1>1 DEF Place
  <2>2. \A j \in 1..Len(p) : FALSE
    BY <1>0
  <2> QED
    BY <2>1, <2>2, ReportsStayDone
<1>12. PICK got2 : got2 = got + n
  OBVIOUS
<1>13. Place(c, a, p, w2, e, h, b2, d, r, size, num, buf, S, Q, R, F, P, got2, k)
  BY <1>5, <1>7, <1>9, <1>10, <1>11, <1>12 DEF Place
<1>14. Placed(c, a, p, w2, e, h, b2, d, r, size, num, buf)
  BY <1>1, <1>13, Zenon DEF Placed
<1> QED
  BY <1>0, <1>14

\* The descriptor reads a byte of a request.
LEMMA RequestByteRead ==
  ASSUME NEW a \in Seq(Requests), NEW p \in Seq(Packets), NEW w \in Seq(Byte), w # <<>>, NEW e,
         NEW c, NEW h \in Seq(Seq(Byte)), NEW b \in Seq(Byte), NEW d, NEW r, NEW size,
         NEW num, NEW buf,
         Placed(c, a, p, w, e, h, b, d, r, size, num, buf),
         d.fTCPReadingState = "AWAITING_DOLLAR", w[1] # Dollar,
         NEW w2, LeftOf(w, 1, w2)
  PROVE  /\ w[1] \notin {254, 255}
         /\ Placed(c, a, p, w2, e, h, Append(b, w[1]), d, r, size, num, buf)
<1>1. PICK S, Q, R, F, P, got, k :
        /\ Laid(a, p, S, Q, R, F, P)
        /\ Place(c, a, p, w, e, h, b, d, r, size, num, buf, S, Q, R, F, P, got, k)
  BY DEF Placed
<1>2. /\ OnTheWire(w, e, S, got) /\ InTheBuffer(h, a, b, Q, R, F, got)
      /\ AtPacket(p, d, size, P, got, k) /\ AtReport(c, p, w, e, d, num, buf, P, got, k)
      /\ ReportsDone(p, r, d, P, got, k)
  BY <1>1 DEF Place
<1>3. /\ R[got] + 1 \in 1..Len(Q) /\ R[got + 1] = R[got] + 1 /\ w[1] = Q[R[got] + 1]
      /\ k <= Len(p) => got + 1 <= P[k]
  BY <1>1, <1>2, NextByte
<1>4. w[1] \notin {254, 255}
  BY <1>1, <1>3 DEF Laid, RequestsLaid
<1>5. PICK s \in Nat, m \in Nat, y \in Nat : s = Len(S) /\ m = Len(w) /\ y = Len(b)
  BY <1>1, LaidAt
<1>6. /\ got \in Nat /\ got + m <= s /\ (~e => got + m = s)
      /\ \A i \in 1..m : w[i] = S[got + i]
  BY <1>2, <1>5 DEF OnTheWire
<1>7. m >= 1
  BY <1>5, EmptySeq
<1>8. OnTheWire(w2, e, S, got + 1)
  <2>1. /\ w2 \in Seq(Byte) /\ Len(w2) = m - 1
        /\ \A i \in 1..(m - 1) : w2[i] = w[1 + i]
    BY <1>5 DEF LeftOf
  <2>2. got + 1 \in Nat /\ (got + 1) + (m - 1) = got + m
    BY <1>6
  <2>3. ASSUME NEW i \in 1..(m - 1) PROVE w2[i] = S[(got + 1) + i]
    <3>1. 1 + i \in 1..m /\ got + (1 + i) = (got + 1) + i
      BY <1>6, <1>7
    <3> QED
      BY <1>6, <2>1, <3>1
  <2> QED
    BY ONLY <1>5, <1>6, <2>1, <2>2, <2>3 DEF OnTheWire
<1>9. PICK b2 \in Seq(Byte) : b2 = Append(b, w[1])
  <2>1. w[1] \in Byte
    BY <1>5, <1>7, ElementOfSeq
  <2>2. Append(b, w[1]) \in Seq(Byte)
    BY <2>1, AppendProperties
  <2> QED
    BY <2>2, Zenon
<1>10. InTheBuffer(h, a, b2, Q, R, F, got + 1)
  <2>1. PICK f : f = F[Len(h) + 1]
    OBVIOUS
  <2>2. /\ Len(h) <= Len(a) /\ \A i \in 1..Len(h) : h[i] = a[i]
        /\ R[got] = f + y
        /\ \A i \in 1..y : b[i] = Q[f + i]
    BY <1>2, <1>5, <2>1 DEF InTheBuffer
  <2>3. f \in Nat
    <3>1. Len(h) \in Nat /\ Len(a) \in Nat
      OBVIOUS
    <3>2. Len(h) + 1 \in 1..(Len(a) + 1)
      BY <2>2, <3>1
    <3> QED
      BY <1>1, <2>1, <3>2, LaidAt
  <2>4. w[1] \in Byte
    BY <1>5, <1>7, ElementOfSeq
  <2>5. Len(b2) = y + 1 /\ b2[y + 1] = w[1] /\ \A i \in 1..y : b2[i] = b[i]
    BY <1>5, <1>9, <2>4, AppendProperties
  <2>6. R[got + 1] = f + (y + 1) /\ w[1] = Q[f + (y + 1)]
    <3>1. R[got] + 1 = f + (y + 1)
      BY <2>2, <2>3
    <3> QED
      BY <1>3, <3>1
  <2>7. \A i \in 1..(y + 1) : b2[i] = Q[f + i]
    <3> SUFFICES ASSUME NEW i \in 1..(y + 1) PROVE b2[i] = Q[f + i]
      OBVIOUS
    <3>1. i \in 1..y \/ i = y + 1
      OBVIOUS
    <3> QED
      BY <2>2, <2>5, <2>6, <3>1
  <2> QED
    BY ONLY <2>1, <2>2, <2>5, <2>6, <2>7 DEF InTheBuffer
<1>11. AtPacket(p, d, size, P, got + 1, k)
  <2>1. /\ k \in 1..(Len(p) + 1)
        /\ \A j \in 1..Len(p) : j < k => P[j] + FrameSize(p[j]) <= got
    BY <1>2 DEF AtPacket
  <2>2. ASSUME NEW j \in 1..Len(p), j < k PROVE P[j] + FrameSize(p[j]) <= got + 1
    <3>1. P[j] \in Nat /\ FrameSize(p[j]) \in Nat /\ P[j] + FrameSize(p[j]) <= got
      BY <1>1, <2>1, <2>2, LaidAt
    <3> QED
      BY <1>6, <3>1
  <2> QED
    BY <1>3, <2>1, <2>2 DEF AtPacket
<1>12. AtReport(c, p, w2, e, d, num, buf, P, got + 1, k)
  BY <1>2 DEF AtReport, InReport
<1>13. ReportsDone(p, r, d, P, got + 1, k)
  BY <1>2, ReportsStayDone DEF Passed
<1>14. PICK got2 : got2 = got + 1
  OBVIOUS
<1>15. Place(c, a, p, w2, e, h, b2, d, r, size, num, buf, S, Q, R, F, P, got2, k)
  BY <1>8, <1>10, <1>11, <1>12, <1>13, <1>14, Zenon DEF Place
<1>16. Placed(c, a, p, w2, e, h, b2, d, r, size, num, buf)
  BY <1>1, <1>15, Zenon DEF Placed
<1> QED
  BY <1>4, <1>9, <1>16

\* Reading goes on in the packet, or begins there.
LEMMA InsidePacket ==
  ASSUME NEW p, NEW P, \A j \in 1..Len(p) : P[j] \in Nat /\ FrameSize(p[j]) \in Nat,
         NEW d, NEW size, NEW got \in Nat, NEW k, AtPacket(p, d, size, P, got, k),
         k \in 1..Len(p), NEW got2 \in Nat, got <= got2, P[k] < got2, NEW d2, NEW size2,
         d2.fTCPReadingState # "AWAITING_DOLLAR", InPacket(d2, size2, p[k], got2 - P[k])
  PROVE  AtPacket(p, d2, size2, P, got2, k)
<1>1. ASSUME NEW j \in 1..Len(p), j < k PROVE P[j] + FrameSize(p[j]) <= got2
  <2>1. P[j] \in Nat /\ FrameSize(p[j]) \in Nat /\ P[j] + FrameSize(p[j]) <= got
    BY <1>1 DEF AtPacket
  <2> QED
    BY <2>1
<1>2. k \in 1..(Len(p) + 1) /\ k <= Len(p)
  BY DEF AtPacket
<1> QED
  BY <1>1, <1>2 DEF AtPacket

\* It begins.
LEMMA DollarRead ==
  ASSUME NEW a \in Seq(Requests), NEW p \in Seq(Packets), NEW w \in Seq(Byte), w # <<>>, NEW e,
         NEW c, NEW h, NEW b, NEW d, NEW r, NEW size, NEW num, NEW buf,
         Placed(c, a, p, w, e, h, b, d, r, size, num, buf),
         d.fTCPReadingState = "AWAITING_DOLLAR", w[1] = Dollar,
         NEW w2, LeftOf(w, 1, w2), NEW d2, d2.fTCPReadingState = "AWAITING_STREAM_CHANNEL_ID"
  PROVE  Placed(c, a, p, w2, e, h, b, d2, r, size, num, buf)
<1>1. PICK S, Q, R, F, P, got, k :
        /\ Laid(a, p, S, Q, R, F, P)
        /\ Place(c, a, p, w, e, h, b, d, r, size, num, buf, S, Q, R, F, P, got, k)
  BY DEF Placed
<1>2. /\ OnTheWire(w, e, S, got) /\ InTheBuffer(h, a, b, Q, R, F, got)
      /\ AtPacket(p, d, size, P, got, k) /\ AtReport(c, p, w, e, d, num, buf, P, got, k)
      /\ ReportsDone(p, r, d, P, got, k)
  BY <1>1 DEF Place
<1>3. k <= Len(p) /\ got = P[k]
  BY <1>1, <1>2, NextByte
<1>4. k \in 1..Len(p)
  BY <1>2, <1>3 DEF AtPacket
<1>5. \A j \in 1..Len(p) : P[j] \in Nat /\ FrameSize(p[j]) \in Nat /\ FrameSize(p[j]) >= 4
  BY <1>1, LaidAt
<1>6. got \in Nat /\ Len(w) \in Nat /\ 1 <= Len(w)
  BY <1>3, <1>4, <1>5, EmptySeq
<1>7. PICK n \in 0..Len(w) : n = 1
  BY <1>6
<1>8. LeftOf(w, n, w2) /\ P[k] <= got /\ got + n <= P[k] + FrameSize(p[k])
  BY <1>3, <1>4, <1>5, <1>6, <1>7
<1>9. OnTheWire(w2, e, S, got + n) /\ InTheBuffer(h, a, b, Q, R, F, got + n)
  BY ONLY a \in Seq(Requests), p \in Seq(Packets), w \in Seq(Byte), <1>1, <1>2, <1>4, <1>8,
     PacketBytes
<1>10. PICK got2 \in Nat : got2 = got + n
  BY <1>6
<1>11. got <= got2 /\ P[k] < got2 /\ got2 - P[k] = 1
  BY <1>3, <1>6, <1>7, <1>10
<1>12. d2.fTCPReadingState # "AWAITING_DOLLAR" /\ InPacket(d2, size, p[k], got2 - P[k])
  BY <1>11 DEF InPacket
<1>13. AtPacket(p, d2, size, P, got2, k)
  BY <1>2, <1>4, <1>5, <1>6, <1>11, <1>12, InsidePacket
<1>14. AtReport(c, p, w2, e, d2, num, buf, P, got2, k)
  BY <1>2 DEF AtReport, InReport
<1>15. ReportsDone(p, r, d2, P, got2, k)
  BY <1>2, ReportsStayDone DEF Passed
<1>16. Place(c, a, p, w2, e, h, b, d2, r, size, num, buf, S, Q, R, F, P, got2, k)
  BY <1>9, <1>10, <1>13, <1>14, <1>15, Zenon DEF Place
<1> QED
  BY <1>1, <1>16, Zenon DEF Placed

\* All but the packets, when got bytes have been read.
Reading(a, p, w, e, h, b, S, Q, R, F, P, got) ==
  Laid(a, p, S, Q, R, F, P) /\ OnTheWire(w, e, S, got) /\ InTheBuffer(h, a, b, Q, R, F, got)

\* Behind o bytes of the k-th packet, n more of it come first in w.
InsideOf(p, w, d, size, P, got, k, n, o, got2) ==
  /\ k \in 1..Len(p) /\ p[k] \in Packets /\ P[k] \in Nat
  /\ got \in Nat /\ got2 \in Nat /\ o \in Nat
  /\ got2 = got + n /\ got = P[k] + o /\ got - P[k] = o
  /\ o + n \in Nat /\ got2 - P[k] = o + n
  /\ InPacket(d, size, p[k], o)
  /\ \A i \in 1..n : w[i] = Framed(p[k])[o + i]

\* Bytes of the packet that is being read.
LEMMA MorePacketBytes ==
  ASSUME NEW a \in Seq(Requests), NEW p \in Seq(Packets), NEW w \in Seq(Byte),
         NEW S, NEW Q, NEW R, NEW F, NEW P, NEW e, NEW h, NEW b, NEW got,
         Reading(a, p, w, e, h, b, S, Q, R, F, P, got),
         NEW d, NEW size, NEW k, AtPacket(p, d, size, P, got, k),
         d.fTCPReadingState # "AWAITING_DOLLAR",
         NEW n \in 0..Len(w), got + n <= P[k] + FrameSize(p[k]), NEW w2, LeftOf(w, n, w2)
  PROVE  \E o, got2 :
           /\ InsideOf(p, w, d, size, P, got, k, n, o, got2)
           /\ Reading(a, p, w2, e, h, b, S, Q, R, F, P, got2)
<1>0. Laid(a, p, S, Q, R, F, P) /\ OnTheWire(w, e, S, got) /\ InTheBuffer(h, a, b, Q, R, F, got)
  BY DEF Reading
<1>1. k \in 1..Len(p) /\ P[k] < got /\ InPacket(d, size, p[k], got - P[k])
  <2>1. k \in 1..(Len(p) + 1) /\ k <= Len(p) /\ P[k] < got /\ InPacket(d, size, p[k], got - P[k])
    BY DEF AtPacket
  <2> QED
    BY <2>1
<1>2. \A j \in 1..Len(p) : P[j] \in Nat /\ FrameSize(p[j]) \in Nat /\ p[j] \in Packets
  BY <1>0, LaidAt
<1>3. got \in Nat
  BY <1>0 DEF OnTheWire
<1>4. P[k] <= got
  BY <1>1, <1>2, <1>3
<1>5. /\ OnTheWire(w2, e, S, got + n) /\ InTheBuffer(h, a, b, Q, R, F, got + n)
      /\ \A i \in 1..n : w[i] = Framed(p[k])[got - P[k] + i]
  BY <1>0, <1>1, <1>4, PacketBytes
<1>6. PICK o \in Nat, got2 \in Nat : o = got - P[k] /\ got2 = got + n
  BY <1>1, <1>2, <1>3
<1>7. got = P[k] + o /\ o + n \in Nat /\ got2 - P[k] = o + n
  BY <1>1, <1>2, <1>3, <1>6, SMTT(30)
<1>8. \A i \in 1..n : w[i] = Framed(p[k])[o + i]
  BY <1>5, <1>6
<1>9. InPacket(d, size, p[k], o)
  BY <1>1, <1>6
<1>10. InsideOf(p, w, d, size, P, got, k, n, o, got2)
  BY <1>1, <1>2, <1>3, <1>6, <1>7, <1>8, <1>9, Zenon DEF InsideOf
<1>11. Reading(a, p, w2, e, h, b, S, Q, R, F, P, got2)
  BY <1>0, <1>5, <1>6, Zenon DEF Reading
<1> QED
  BY <1>10, <1>11, Zenon

\* There it is afterwards.
LEMMA FurtherInside ==
  ASSUME NEW a \in Seq(Requests), NEW p \in Seq(Packets),
         NEW S, NEW Q, NEW R, NEW F, NEW P, Laid(a, p, S, Q, R, F, P),
         NEW w, NEW d, NEW size, NEW got, NEW k, NEW n \in Nat, NEW o, NEW got2,
         AtPacket(p, d, size, P, got, k), InsideOf(p, w, d, size, P, got, k, n, o, got2),
         d.fTCPReadingState # "AWAITING_DOLLAR",
         NEW d2, NEW size2, d2.fTCPReadingState # "AWAITING_DOLLAR",
         InPacket(d2, size2, p[k], o + n)
  PROVE  AtPacket(p, d2, size2, P, got2, k)
<1>1. \A j \in 1..Len(p) : P[j] \in Nat /\ FrameSize(p[j]) \in Nat
  BY LaidAt
<1>2. P[k] < got
  BY DEF AtPacket
<1>3. /\ k \in 1..Len(p) /\ P[k] \in Nat /\ got \in Nat /\ got2 \in Nat /\ o \in Nat
      /\ got2 = got + n /\ got2 - P[k] = o + n
  BY DEF InsideOf
<1>4. got <= got2 /\ P[k] < got2 /\ InPacket(d2, size2, p[k], got2 - P[k])
  BY <1>2, <1>3
<1> QED
  BY <1>1, <1>3, <1>4, InsidePacket

\* The channel's number comes, and is one the client asked for.
LEMMA ChannelRead ==
  ASSUME NEW a \in Seq(Requests), NEW p \in Seq(Packets), NEW w \in Seq(Byte), w # <<>>, NEW e,
         NEW c, NEW h, NEW b, NEW d, NEW r, NEW size, NEW num, NEW buf,
         Placed(c, a, p, w, e, h, b, d, r, size, num, buf),
         d.fTCPReadingState = "AWAITING_STREAM_CHANNEL_ID",
         NEW w2, LeftOf(w, 1, w2)
  PROVE  /\ \E i \in Interfaces : w[1] = ChannelId(i)
         /\ \A d2 : /\ d2.fTCPReadingState = "AWAITING_SIZE1"
                    /\ d2.fStreamChannel \in Interfaces /\ w[1] = ChannelId(d2.fStreamChannel)
                    => Placed(c, a, p, w2, e, h, b, d2, r, size, num, buf)
<1>1. PICK S, Q, R, F, P, got, k :
        /\ Laid(a, p, S, Q, R, F, P)
        /\ Place(c, a, p, w, e, h, b, d, r, size, num, buf, S, Q, R, F, P, got, k)
  BY DEF Placed
<1>2. /\ OnTheWire(w, e, S, got) /\ InTheBuffer(h, a, b, Q, R, F, got)
      /\ AtPacket(p, d, size, P, got, k) /\ AtReport(c, p, w, e, d, num, buf, P, got, k)
      /\ ReportsDone(p, r, d, P, got, k)
  BY <1>1 DEF Place
<1>3. PICK n \in 0..Len(w) : n = 1
  <2>1. Len(w) \in Nat /\ Len(w) >= 1
    BY EmptySeq
  <2> QED
    BY <2>1
<1>4. got + n <= P[k] + FrameSize(p[k])
  <2>1. got - P[k] = 1 /\ k \in 1..Len(p)
    BY <1>2 DEF AtPacket, InPacket
  <2>2. P[k] \in Nat /\ FrameSize(p[k]) \in Nat /\ FrameSize(p[k]) >= 4
    BY <1>1, <2>1, LaidAt
  <2>3. got \in Nat
    BY <1>2 DEF OnTheWire
  <2> QED
    BY <1>3, <2>1, <2>2, <2>3
<1>5. LeftOf(w, n, w2) /\ d.fTCPReadingState # "AWAITING_DOLLAR"
  BY <1>3
<1>6. Reading(a, p, w, e, h, b, S, Q, R, F, P, got)
  BY <1>1, <1>2, Zenon DEF Reading
<1>7. PICK o, got2 : /\ InsideOf(p, w, d, size, P, got, k, n, o, got2)
                     /\ Reading(a, p, w2, e, h, b, S, Q, R, F, P, got2)
  BY ONLY a \in Seq(Requests), p \in Seq(Packets), w \in Seq(Byte), <1>2, <1>4, <1>5, <1>6,
     MorePacketBytes
<1>8. o = 1 /\ o + n = 2
  BY <1>3, <1>7 DEF InPacket, InsideOf
<1>9. w[1] = ChannelId(p[k].interface) /\ p[k].interface \in Interfaces
  <2>1. w[1] = Framed(p[k])[2] /\ p[k] \in Packets
    BY <1>3, <1>7, <1>8 DEF InsideOf
  <2> QED
    BY <2>1, FrameBytes
<1>10. ASSUME NEW d2, d2.fTCPReadingState = "AWAITING_SIZE1", d2.fStreamChannel \in Interfaces,
             w[1] = ChannelId(d2.fStreamChannel)
      PROVE  Placed(c, a, p, w2, e, h, b, d2, r, size, num, buf)
  <2>1. d2.fStreamChannel = p[k].interface
    BY <1>9, <1>10 DEF ChannelId, Interfaces
  <2>2. d2.fTCPReadingState # "AWAITING_DOLLAR" /\ InPacket(d2, size, p[k], o + n)
    BY <1>8, <1>10, <2>1 DEF InPacket
  <2>3. AtPacket(p, d2, size, P, got2, k)
    BY ONLY a \in Seq(Requests), p \in Seq(Packets), n \in 0..Len(w), <1>1, <1>2, <1>5, <1>7, <2>2,
       FurtherInside
  <2>4. AtReport(c, p, w2, e, d2, num, buf, P, got2, k)
    BY <1>2, <1>10 DEF AtReport, InReport
  <2>5. ReportsDone(p, r, d2, P, got2, k)
    BY <1>2, <1>10, ReportsStayDone DEF Passed
  <2>6. Place(c, a, p, w2, e, h, b, d2, r, size, num, buf, S, Q, R, F, P, got2, k)
    BY <1>7, <2>3, <2>4, <2>5, Zenon DEF Place, Reading
  <2> QED
    BY <1>1, <2>6, Zenon DEF Placed
<1> QED
  BY <1>9, <1>10

\* The client is inside a packet, of which n more bytes are read.
LEMMA PacketGoesOn ==
  ASSUME NEW a \in Seq(Requests), NEW p \in Seq(Packets), NEW w \in Seq(Byte), NEW e,
         NEW c, NEW h, NEW b, NEW d, NEW r, NEW size, NEW num, NEW buf,
         Placed(c, a, p, w, e, h, b, d, r, size, num, buf),
         d.fTCPReadingState \in States \ {"AWAITING_DOLLAR"},
         NEW n \in 0..Len(w),
         IF d.fTCPReadingState = "AWAITING_PACKET_DATA" THEN n <= size[d.fStreamChannel] ELSE n = 1,
         NEW w2, LeftOf(w, n, w2)
  PROVE  \E S, Q, R, F, P, got, k, o, got2 :
           /\ AtPacket(p, d, size, P, got, k) /\ AtReport(c, p, w, e, d, num, buf, P, got, k)
           /\ ReportsDone(p, r, d, P, got, k)
           /\ InsideOf(p, w, d, size, P, got, k, n, o, got2)
           /\ Reading(a, p, w2, e, h, b, S, Q, R, F, P, got2)
<1>1. PICK S, Q, R, F, P, got, k :
        /\ Laid(a, p, S, Q, R, F, P)
        /\ Place(c, a, p, w, e, h, b, d, r, size, num, buf, S, Q, R, F, P, got, k)
  BY DEF Placed
<1>2. /\ OnTheWire(w, e, S, got) /\ InTheBuffer(h, a, b, Q, R, F, got)
      /\ AtPacket(p, d, size, P, got, k) /\ AtReport(c, p, w, e, d, num, buf, P, got, k)
      /\ ReportsDone(p, r, d, P, got, k)
  BY <1>1 DEF Place
<1>3. d.fTCPReadingState # "AWAITING_DOLLAR"
  OBVIOUS
<1>4. got + n <= P[k] + FrameSize(p[k])
  <2>1. k \in 1..(Len(p) + 1) /\ k <= Len(p) /\ InPacket(d, size, p[k], got - P[k])
    BY <1>2, <1>3 DEF AtPacket
  <2>2. k \in 1..Len(p)
    BY <2>1
  <2>3. P[k] \in Nat /\ FrameSize(p[k]) \in Nat /\ FrameSize(p[k]) >= 4
    BY <1>1, <2>2, LaidAt
  <2>4. got \in Nat
    BY <1>2 DEF OnTheWire
  <2>5. CASE d.fTCPReadingState = "AWAITING_PACKET_DATA"
    <3>1. n <= FrameSize(p[k]) - (got - P[k])
      BY <2>1, <2>5 DEF InPacket
    <3> QED
      BY <2>3, <2>4, <3>1
  <2>6. CASE d.fTCPReadingState # "AWAITING_PACKET_DATA"
    <3>1. \/ d.fTCPReadingState = "AWAITING_STREAM_CHANNEL_ID"
          \/ d.fTCPReadingState = "AWAITING_SIZE1" \/ d.fTCPReadingState = "AWAITING_SIZE2"
      BY <2>6 DEF States
    <3>2. n = 1 /\ (got - P[k] = 1 \/ got - P[k] = 2 \/ got - P[k] = 3)
      BY <2>1, <2>6, <3>1 DEF InPacket
    <3> QED
      BY <2>3, <2>4, <3>2
  <2> QED
    BY <2>5, <2>6
<1>5. Reading(a, p, w, e, h, b, S, Q, R, F, P, got)
  BY <1>1, <1>2, Zenon DEF Reading
<1>6. PICK o, got2 : /\ InsideOf(p, w, d, size, P, got, k, n, o, got2)
                     /\ Reading(a, p, w2, e, h, b, S, Q, R, F, P, got2)
  BY ONLY a \in Seq(Requests), p \in Seq(Packets), w \in Seq(Byte), <1>2, <1>3, <1>4, <1>5,
     n \in 0..Len(w), LeftOf(w, n, w2), MorePacketBytes
<1> QED
  BY <1>2, <1>6, Zenon

\* And is placed again.
LEMMA FurtherPlaced ==
  ASSUME NEW a \in Seq(Requests), NEW p \in Seq(Packets), NEW w2, NEW e,
         NEW S, NEW Q, NEW R, NEW F, NEW P, NEW h, NEW b, NEW got2,
         Reading(a, p, w2, e, h, b, S, Q, R, F, P, got2),
         NEW w, NEW d, NEW size, NEW got, NEW k, NEW n \in Nat, NEW o,
         AtPacket(p, d, size, P, got, k), InsideOf(p, w, d, size, P, got, k, n, o, got2),
         d.fTCPReadingState # "AWAITING_DOLLAR",
         NEW d2, NEW size2, d2.fTCPReadingState # "AWAITING_DOLLAR",
         InPacket(d2, size2, p[k], o + n),
         NEW c, NEW num2, NEW buf2, AtReport(c, p, w2, e, d2, num2, buf2, P, got2, k),
         NEW r2, ReportsDone(p, r2, d2, P, got2, k)
  PROVE  Placed(c, a, p, w2, e, h, b, d2, r2, size2, num2, buf2)
<1>1. Laid(a, p, S, Q, R, F, P) /\ OnTheWire(w2, e, S, got2) /\ InTheBuffer(h, a, b, Q, R, F, got2)
  BY Zenon DEF Reading
<1>2. AtPacket(p, d2, size2, P, got2, k)
  BY <1>1, FurtherInside
<1>3. Place(c, a, p, w2, e, h, b, d2, r2, size2, num2, buf2, S, Q, R, F, P, got2, k)
  BY <1>1, <1>2, Zenon DEF Place
<1> QED
  BY <1>1, <1>3, Zenon DEF Placed

\* The first byte of its size comes.
LEMMA Size1Read ==
  ASSUME NEW a \in Seq(Requests), NEW p \in Seq(Packets), NEW w \in Seq(Byte), w # <<>>, NEW e,
         NEW c, NEW h, NEW b, NEW d, NEW r, NEW size, NEW num, NEW buf,
         Placed(c, a, p, w, e, h, b, d, r, size, num, buf),
         d.fTCPReadingState = "AWAITING_SIZE1", NEW w2, LeftOf(w, 1, w2),
         NEW d2, d2.fTCPReadingState = "AWAITING_SIZE2", d2.fStreamChannel = d.fStreamChannel,
         d2.fSizeByte1 = w[1]
  PROVE  Placed(c, a, p, w2, e, h, b, d2, r, size, num, buf)
<1>1. PICK n \in 0..Len(w) : n = 1
  <2>1. Len(w) \in Nat /\ Len(w) >= 1
    BY EmptySeq
  <2> QED
    BY <2>1
<1>2. /\ d.fTCPReadingState \in States \ {"AWAITING_DOLLAR"} /\ LeftOf(w, n, w2)
      /\ IF d.fTCPReadingState = "AWAITING_PACKET_DATA" THEN n <= size[d.fStreamChannel] ELSE n = 1
  BY <1>1 DEF States
<1>3. PICK S, Q, R, F, P, got, k, o, got2 :
           /\ AtPacket(p, d, size, P, got, k) /\ AtReport(c, p, w, e, d, num, buf, P, got, k)
           /\ ReportsDone(p, r, d, P, got, k)
           /\ InsideOf(p, w, d, size, P, got, k, n, o, got2)
           /\ Reading(a, p, w2, e, h, b, S, Q, R, F, P, got2)
  BY ONLY a \in Seq(Requests), p \in Seq(Packets), w \in Seq(Byte), <1>2,
     Placed(c, a, p, w, e, h, b, d, r, size, num, buf), PacketGoesOn
<1>4. o = 2 /\ o + n = 3 /\ d.fStreamChannel = p[k].interface /\ p[k] \in Packets
  BY <1>1, <1>3 DEF InPacket, InsideOf
<1>5. w[1] = Len(p[k].data) \div 256
  <2>1. w[1] = Framed(p[k])[3]
    BY <1>1, <1>3, <1>4 DEF InsideOf
  <2> QED
    BY <1>4, <2>1, FrameBytes
<1>6. d2.fTCPReadingState # "AWAITING_DOLLAR" /\ InPacket(d2, size, p[k], o + n)
  BY <1>4, <1>5 DEF InPacket
<1>7. AtReport(c, p, w2, e, d2, num, buf, P, got2, k)
  BY <1>3 DEF AtReport, InReport
<1>8. ReportsDone(p, r, d2, P, got2, k)
  BY <1>3, ReportsStayDone DEF Passed
<1>9. d.fTCPReadingState # "AWAITING_DOLLAR" /\ n \in Nat
  BY <1>1
<1> QED
  BY ONLY a \in Seq(Requests), p \in Seq(Packets), <1>3, <1>6, <1>7, <1>8, <1>9, FurtherPlaced

\* A size is what its two bytes say.
LEMMA SizeOfTwoBytes ==
  ASSUME NEW l \in Nat PROVE 256 * (l \div 256) + (l % 256) = l
OBVIOUS

\* The second one comes, and the interface is told what to read.
LEMMA Size2Read ==
  ASSUME NEW a \in Seq(Requests), NEW p \in Seq(Packets), NEW w \in Seq(Byte), w # <<>>, NEW e,
         NEW c, NEW h, NEW b, NEW d, NEW r, NEW size, NEW num, NEW buf,
         Placed(c, a, p, w, e, h, b, d, r, size, num, buf),
         d.fTCPReadingState = "AWAITING_SIZE2", NEW w2, LeftOf(w, 1, w2),
         NEW d2, d2.fTCPReadingState = "AWAITING_PACKET_DATA", d2.fStreamChannel = d.fStreamChannel,
         NEW size2, size2[d.fStreamChannel] = 256 * d.fSizeByte1 + w[1],
         NEW num2, d.fStreamChannel = "rtcp" => num2 = c
  PROVE  Placed(c, a, p, w2, e, h, b, d2, r, size2, num2, buf)
<1>1. PICK n \in 0..Len(w) : n = 1
  <2>1. Len(w) \in Nat /\ Len(w) >= 1
    BY EmptySeq
  <2> QED
    BY <2>1
<1>2. /\ d.fTCPReadingState \in States \ {"AWAITING_DOLLAR"} /\ LeftOf(w, n, w2)
      /\ IF d.fTCPReadingState = "AWAITING_PACKET_DATA" THEN n <= size[d.fStreamChannel] ELSE n = 1
  BY <1>1 DEF States
<1>3. PICK S, Q, R, F, P, got, k, o, got2 :
           /\ AtPacket(p, d, size, P, got, k) /\ AtReport(c, p, w, e, d, num, buf, P, got, k)
           /\ ReportsDone(p, r, d, P, got, k)
           /\ InsideOf(p, w, d, size, P, got, k, n, o, got2)
           /\ Reading(a, p, w2, e, h, b, S, Q, R, F, P, got2)
  BY ONLY a \in Seq(Requests), p \in Seq(Packets), w \in Seq(Byte), <1>2,
     Placed(c, a, p, w, e, h, b, d, r, size, num, buf), PacketGoesOn
<1>4. /\ o = 3 /\ o + n = 4 /\ d.fStreamChannel = p[k].interface /\ p[k] \in Packets
      /\ d.fSizeByte1 = Len(p[k].data) \div 256 /\ k \in 1..Len(p)
      /\ got2 = P[k] + 4 /\ P[k] \in Nat /\ got2 - P[k] = 4
  <2>1. InPacket(d, size, p[k], o) /\ k \in 1..Len(p) /\ p[k] \in Packets
    BY <1>3 DEF InsideOf
  <2>2. o = 3 /\ d.fStreamChannel = p[k].interface /\ d.fSizeByte1 = Len(p[k].data) \div 256
    BY <2>1 DEF InPacket
  <2>3. PICK from \in Nat : from = P[k] /\ got = from + o /\ got2 = got + n /\ o \in Nat
    BY <1>3 DEF InsideOf
  <2>4. o = 3 /\ n = 1
    BY <1>1, <2>2
  <2>5. got2 = from + 4 /\ got2 - from = 4 /\ o + n = 4
    BY ONLY <2>3, <2>4
  <2> QED
    BY <2>1, <2>2, <2>3, <2>5
<1>5. PICK l \in Nat : l = Len(p[k].data) /\ FrameSize(p[k]) = 4 + l
  BY <1>4, FrameBytes DEF FrameSize
<1>6. size2[p[k].interface] = l
  <2>1. w[1] = Framed(p[k])[4]
    BY <1>1, <1>3, <1>4 DEF InsideOf
  <2>2. w[1] = l % 256 /\ d.fSizeByte1 = l \div 256
    BY <1>4, <1>5, <2>1, FrameBytes
  <2>3. 256 * (l \div 256) + (l % 256) = l
    BY SizeOfTwoBytes
  <2>4. size2[p[k].interface] = 256 * (l \div 256) + (l % 256)
    BY ONLY <1>4, <2>2, size2[d.fStreamChannel] = 256 * d.fSizeByte1 + w[1], Zenon
  <2> QED
    BY <2>3, <2>4
<1>7. d2.fTCPReadingState # "AWAITING_DOLLAR" /\ InPacket(d2, size2, p[k], o + n)
  BY <1>4, <1>5, <1>6 DEF InPacket
<1>8. buf = <<>>
  <2>1. p # <<>> /\ ~InReport(p, d, P, got, k)
    BY <1>4 DEF InReport
  <2> QED
    BY <1>3, <2>1 DEF AtReport
<1>9. AtReport(c, p, w2, e, d2, num2, buf, P, got2, k)
  <2>1. SubSeq(p[k].data, 1, got2 - P[k] - 4) = <<>>
    <3>1. p[k].data \in Seq(Byte)
      BY <1>4, FrameBytes
    <3>2. got2 - P[k] - 4 = 0
      BY <1>4
    <3> QED
      BY <3>1, <3>2, SubSeqProperties
  <2>2. p[k].interface = "rtcp" => num2 = c
    BY <1>4
  <2> QED
    BY <1>8, <2>1, <2>2 DEF AtReport, InReport
<1>10. ReportsDone(p, r, d2, P, got2, k)
  <2>1. ASSUME NEW j \in 1..Len(p), IsReport(p[j])
        PROVE  Passed(p, d, P, got, k, j) <=> Passed(p, d2, P, got2, k, j)
    <3>1. ASSUME j = k PROVE got2 # P[k] + FrameSize(p[k])
      <4>1. p[k].data # <<>> /\ p[k].data \in Seq(Byte)
        BY <1>4, <2>1, <3>1, FrameBytes DEF IsReport
      <4>2. l # 0
        BY <1>5, <4>1, EmptySeq
      <4> QED
        BY <1>4, <1>5, <4>2, SMTT(30)
    <3> QED
      BY <3>1 DEF Passed
  <2> QED
    BY <1>3, <2>1, ReportsStayDone
<1>11. d.fTCPReadingState # "AWAITING_DOLLAR" /\ n \in Nat
  BY <1>1
<1> QED
  BY ONLY a \in Seq(Requests), p \in Seq(Packets), <1>3, <1>7, <1>9, <1>10, <1>11, FurtherPlaced

\* A byte of an RTP packet is skipped.
LEMMA ByteSkipped ==
  ASSUME NEW a \in Seq(Requests), NEW p \in Seq(Packets), NEW w \in Seq(Byte), w # <<>>, NEW e,
         NEW c, NEW h, NEW b, NEW d, NEW r, NEW size, NEW num, NEW buf,
         Placed(c, a, p, w, e, h, b, d, r, size, num, buf),
         d.fTCPReadingState = "AWAITING_PACKET_DATA", d.fStreamChannel = "rtp",
         size["rtp"] \in Nat, size["rtp"] > 0, NEW w2, LeftOf(w, 1, w2),
         NEW size2, size2["rtp"] = size["rtp"] - 1
  PROVE  Placed(c, a, p, w2, e, h, b, d, r, size2, num, buf)
<1>1. PICK n \in 0..Len(w) : n = 1
  <2>1. Len(w) \in Nat /\ Len(w) >= 1
    BY EmptySeq
  <2> QED
    BY <2>1
<1>2. /\ d.fTCPReadingState \in States \ {"AWAITING_DOLLAR"} /\ LeftOf(w, n, w2)
      /\ IF d.fTCPReadingState = "AWAITING_PACKET_DATA" THEN n <= size[d.fStreamChannel] ELSE n = 1
  BY <1>1 DEF States
<1>3. PICK S, Q, R, F, P, got, k, o, got2 :
           /\ AtPacket(p, d, size, P, got, k) /\ AtReport(c, p, w, e, d, num, buf, P, got, k)
           /\ ReportsDone(p, r, d, P, got, k)
           /\ InsideOf(p, w, d, size, P, got, k, n, o, got2)
           /\ Reading(a, p, w2, e, h, b, S, Q, R, F, P, got2)
  BY ONLY a \in Seq(Requests), p \in Seq(Packets), w \in Seq(Byte), <1>2,
     Placed(c, a, p, w, e, h, b, d, r, size, num, buf), PacketGoesOn
<1>4. /\ 4 <= o /\ o <= FrameSize(p[k]) /\ p[k].interface = "rtp"
      /\ size["rtp"] = FrameSize(p[k]) - o /\ p[k] \in Packets /\ k \in 1..Len(p)
      /\ o \in Nat
  BY <1>3 DEF InPacket, InsideOf
<1>5. FrameSize(p[k]) \in Nat
  BY <1>4, FrameBytes
<1>6. 4 <= o + n /\ o + n <= FrameSize(p[k]) /\ size2["rtp"] = FrameSize(p[k]) - (o + n)
  BY <1>1, <1>4, <1>5
<1>7. d.fTCPReadingState # "AWAITING_DOLLAR" /\ InPacket(d, size2, p[k], o + n)
  BY <1>4, <1>6 DEF InPacket
<1>8. AtReport(c, p, w2, e, d, num, buf, P, got2, k)
  BY <1>3, <1>4 DEF AtReport, InReport
<1>9. ReportsDone(p, r, d, P, got2, k)
  <2>1. \A j \in 1..Len(p) : IsReport(p[j]) =>
          (Passed(p, d, P, got, k, j) <=> Passed(p, d, P, got2, k, j))
    BY <1>4 DEF Passed, IsReport
  <2> QED
    BY <1>3, <2>1, ReportsStayDone
<1>10. n \in Nat
  BY <1>1
<1> QED
  BY ONLY a \in Seq(Requests), p \in Seq(Packets), <1>3, <1>7, <1>8, <1>9, <1>10, FurtherPlaced

\* The packet is over.
LEMMA PacketEnds ==
  ASSUME NEW a \in Seq(Requests), NEW p \in Seq(Packets), NEW w, NEW e,
         NEW c, NEW h, NEW b, NEW d, NEW r, NEW size, NEW num, NEW buf,
         Placed(c, a, p, w, e, h, b, d, r, size, num, buf),
         d.fTCPReadingState = "AWAITING_PACKET_DATA", size[d.fStreamChannel] = 0,
         NEW d2, d2.fTCPReadingState = "AWAITING_DOLLAR"
  PROVE  Placed(c, a, p, w, e, h, b, d2, r, size, num, buf)
<1>1. PICK S, Q, R, F, P, got, k :
        /\ Laid(a, p, S, Q, R, F, P)
        /\ Place(c, a, p, w, e, h, b, d, r, size, num, buf, S, Q, R, F, P, got, k)
  BY DEF Placed
<1>2. /\ OnTheWire(w, e, S, got) /\ InTheBuffer(h, a, b, Q, R, F, got)
      /\ AtPacket(p, d, size, P, got, k) /\ AtReport(c, p, w, e, d, num, buf, P, got, k)
      /\ ReportsDone(p, r, d, P, got, k)
  BY <1>1 DEF Place
<1>3. /\ k \in 1..(Len(p) + 1) /\ k <= Len(p) /\ P[k] < got /\ InPacket(d, size, p[k], got - P[k])
      /\ \A j \in 1..Len(p) : j < k => P[j] + FrameSize(p[j]) <= got
  BY <1>2 DEF AtPacket
<1>4. k \in 1..Len(p) /\ k \in Nat /\ Len(p) \in Nat
  BY <1>3
<1>5. \A j \in 1..Len(p) : P[j] \in Nat /\ FrameSize(p[j]) \in Nat
  BY <1>1, LaidAt
<1>6. got \in Nat
  BY <1>2 DEF OnTheWire
<1>7. got = P[k] + FrameSize(p[k])
  <2>1. FrameSize(p[k]) - (got - P[k]) = 0
    BY <1>3 DEF InPacket
  <2>2. PICK from \in Nat, f \in Nat : from = P[k] /\ f = FrameSize(p[k])
    BY <1>4, <1>5
  <2>3. f - (got - from) = 0
    BY <2>1, <2>2
  <2>4. got = from + f
    BY ONLY <1>6, <2>2, <2>3
  <2> QED
    BY <2>2, <2>4
<1>8. PICK k2 \in Nat : k2 = k + 1
  BY <1>4
<1>9. AtPacket(p, d2, size, P, got, k2)
  <2>1. k2 \in 1..(Len(p) + 1)
    BY <1>4, <1>8
  <2>2. ASSUME NEW j \in 1..Len(p), j < k2 PROVE P[j] + FrameSize(p[j]) <= got
    <3>1. j < k \/ j = k
      BY <1>4, <1>8, <2>2
    <3> QED
      BY <1>3, <1>4, <1>5, <1>6, <1>7, <3>1
  <2>3. ASSUME k2 <= Len(p) PROVE got <= P[k2]
    <3>1. k2 \in 1..Len(p) /\ k < k2
      BY <1>4, <1>8, <2>3
    <3>2. P[k] + FrameSize(p[k]) <= P[k2]
      BY <1>1, <1>4, <3>1 DEF Laid, PacketsLaid
    <3> QED
      BY <1>7, <3>2
  <2> QED
    BY <2>1, <2>2, <2>3 DEF AtPacket
<1>10. AtReport(c, p, w, e, d2, num, buf, P, got, k2)
  <2>1. ~InReport(p, d, P, got, k) /\ ~InReport(p, d2, P, got, k2)
    BY <1>4, <1>5, <1>6, <1>7 DEF InReport
  <2> QED
    BY <1>2, <2>1 DEF AtReport
<1>11. ReportsDone(p, r, d2, P, got, k2)
  <2>1. ASSUME NEW j \in 1..Len(p)
        PROVE  Passed(p, d, P, got, k, j) <=> Passed(p, d2, P, got, k2, j)
    <3>1. Passed(p, d, P, got, k, j) <=> j < k \/ j = k
      BY <1>7 DEF Passed
    <3>2. Passed(p, d2, P, got, k2, j) <=> j < k2
      BY DEF Passed
    <3>3. j < k2 <=> j < k \/ j = k
      BY <1>4, <1>8
    <3> QED
      BY <3>1, <3>2, <3>3
  <2> QED
    BY <1>2, <2>1, ReportsStayDone
<1>12. Place(c, a, p, w, e, h, b, d2, r, size, num, buf, S, Q, R, F, P, got, k2)
  BY <1>2, <1>9, <1>10, <1>11, Zenon DEF Place
<1> QED
  BY <1>1, <1>12, Zenon DEF Placed

\* The socket ends inside a report.
LEMMA BrokenOff ==
  ASSUME NEW a \in Seq(Requests), NEW p \in Seq(Packets), NEW w \in Seq(Byte),
         NEW c, NEW h, NEW b, NEW d, NEW r, NEW size, NEW num, NEW buf,
         Placed(c, a, p, w, TRUE, h, b, d, r, size, num, buf),
         d.fTCPReadingState = "AWAITING_PACKET_DATA", d.fStreamChannel = "rtcp",
         NEW n \in Nat, n = Len(w), size["rtcp"] \in Nat, n < size["rtcp"],
         NEW size2, size2["rtcp"] = size["rtcp"] - n, NEW num2
  PROVE  Placed(c, a, p, <<>>, TRUE, h, b, d, r, size2, num2, <<>>)
<1>1. PICK e, w2, buf2 : e = TRUE /\ w2 = <<>> /\ buf2 = <<>>
  OBVIOUS
<1>2. n \in 0..Len(w) /\ LeftOf(w, n, w2) /\ Placed(c, a, p, w, e, h, b, d, r, size, num, buf)
  <2>1. w2 \in Seq(Byte) /\ Len(w2) = 0
    BY <1>1
  <2>2. n \in 0..Len(w) /\ Len(w2) = Len(w) - n /\ \A i \in 1..Len(w2) : FALSE
    BY <2>1
  <2>3. LeftOf(w, n, w2)
    BY <2>1, <2>2 DEF LeftOf
  <2> QED
    BY <1>1, <2>2, <2>3, Zenon
<1>3. /\ d.fTCPReadingState \in States \ {"AWAITING_DOLLAR"}
      /\ IF d.fTCPReadingState = "AWAITING_PACKET_DATA" THEN n <= size[d.fStreamChannel] ELSE n = 1
  BY DEF States
<1>4. PICK S, Q, R, F, P, got, k, o, got2 :
           /\ AtPacket(p, d, size, P, got, k) /\ AtReport(c, p, w, e, d, num, buf, P, got, k)
           /\ ReportsDone(p, r, d, P, got, k)
           /\ InsideOf(p, w, d, size, P, got, k, n, o, got2)
           /\ Reading(a, p, w2, e, h, b, S, Q, R, F, P, got2)
  BY ONLY a \in Seq(Requests), p \in Seq(Packets), w \in Seq(Byte), <1>2, <1>3, PacketGoesOn
<1>5. /\ 4 <= o /\ o <= FrameSize(p[k]) /\ p[k].interface = "rtcp"
      /\ size["rtcp"] = FrameSize(p[k]) - o /\ p[k] \in Packets /\ k \in 1..Len(p)
      /\ o \in Nat
  BY <1>4 DEF InPacket, InsideOf
<1>6. PICK l \in Nat, from \in Nat :
        l = FrameSize(p[k]) /\ from = P[k] /\ got = from + o /\ got2 = got + n
  BY <1>4, <1>5, FrameBytes DEF InsideOf
<1>7. 4 <= o + n /\ o + n < l /\ size2["rtcp"] = l - (o + n) /\ got < from + l /\ got2 < from + l
  <2>1. PICK left : left = size["rtcp"]
    OBVIOUS
  <2>2. n < left /\ left = l - o /\ 4 <= o /\ o \in Nat /\ size2["rtcp"] = left - n
    BY <1>5, <1>6, <2>1
  <2>3. left - n = l - (o + n) /\ 4 <= o + n /\ o + n < l
    BY ONLY <2>2, n \in Nat, l \in Nat
  <2>4. o < l
    BY ONLY <2>2, n \in Nat, l \in Nat
  <2>8. o \in Nat /\ got = from + o /\ got2 = (from + o) + n
    BY <1>6, <2>2
  <2>5. got < from + l
    BY ONLY <2>8, <2>4, l \in Nat, from \in Nat
  <2>6. got2 = from + (o + n)
    BY ONLY <2>8, n \in Nat, from \in Nat
  <2>7. got2 < from + l
    BY ONLY <2>2, <2>3, <2>6, n \in Nat, from \in Nat, l \in Nat
  <2> QED
    BY <2>2, <2>3, <2>5, <2>7
<1>8. d.fTCPReadingState # "AWAITING_DOLLAR" /\ InPacket(d, size2, p[k], o + n)
  BY <1>5, <1>6, <1>7 DEF InPacket
<1>9. AtReport(c, p, w2, e, d, num2, buf2, P, got2, k)
  <2>1. InReport(p, d, P, got2, k)
    BY <1>5, <1>6, <1>7 DEF InReport
  <2> QED
    BY <1>1, <2>1 DEF AtReport
<1>10. ReportsDone(p, r, d, P, got2, k)
  <2>1. got # from + l /\ got2 # from + l
    BY <1>6, <1>7
  <2>2. \A j \in 1..Len(p) : IsReport(p[j]) =>
          (Passed(p, d, P, got, k, j) <=> Passed(p, d, P, got2, k, j))
    BY <1>6, <2>1 DEF Passed
  <2> QED
    BY <1>4, <2>2, ReportsStayDone
<1>11. Placed(c, a, p, w2, e, h, b, d, r, size2, num2, buf2)
  BY ONLY a \in Seq(Requests), p \in Seq(Packets), n \in Nat, <1>4, <1>8, <1>9, <1>10, FurtherPlaced
<1> QED
  BY <1>1, <1>11

\* What is read is the next of the report's data.
LEMMA MoreOfReport ==
  ASSUME NEW packet \in Packets, NEW w \in Seq(Byte), NEW n \in 0..Len(w), NEW o \in Nat, 4 <= o,
         o + n <= FrameSize(packet), \A i \in 1..n : w[i] = Framed(packet)[o + i]
  PROVE  /\ SubSeq(packet.data, 1, o - 4) \o SubSeq(w, 1, n) = SubSeq(packet.data, 1, (o + n) - 4)
         /\ o + n = FrameSize(packet) =>
              SubSeq(packet.data, 1, o - 4) \o SubSeq(w, 1, n) = packet.data
<1>1. PICK data \in Seq(Byte), l \in Nat :
        /\ data = packet.data /\ l = Len(data) /\ FrameSize(packet) = 4 + l
        /\ \A i \in 1..l : Framed(packet)[4 + i] = data[i]
  <2>1. packet.data \in Seq(Byte) /\ Len(packet.data) \in Nat
    BY FrameBytes
  <2>2. \A i \in 1..Len(packet.data) : Framed(packet)[4 + i] = packet.data[i]
    BY FrameBytes
  <2>3. FrameSize(packet) = 4 + Len(packet.data)
    BY DEF FrameSize
  <2> QED
    BY ONLY <2>1, <2>2, <2>3
<1>2. PICK m \in Nat : m = o - 4 /\ m + n <= l /\ o = m + 4 /\ n \in Nat
  <2>1. n \in Nat
    OBVIOUS
  <2>2. o + n <= 4 + l
    BY <1>1
  <2>3. o - 4 \in Nat /\ (o - 4) + n <= l /\ o = (o - 4) + 4
    BY <2>1, <2>2
  <2> QED
    BY <2>1, <2>3
<1>3. PICK t \in Seq(Byte) : t = SubSeq(w, 1, n) /\ Len(t) = n /\ \A i \in 1..n : t[i] = w[i]
  <2>1. SubSeq(w, 1, n) \in Seq(Byte) /\ Len(SubSeq(w, 1, n)) = n
    BY Splitting
  <2>2. \A i \in 1..n : SubSeq(w, 1, n)[i] = w[i]
    BY <1>2, SubSeqProperties
  <2> QED
    BY <2>1, <2>2
<1>4. \A i \in 1..n : t[i] = data[m + i]
  <2> SUFFICES ASSUME NEW i \in 1..n PROVE t[i] = data[m + i]
    OBVIOUS
  <2>1. o + i = 4 + (m + i) /\ m + i \in 1..l
    BY <1>2
  <2> QED
    BY <1>1, <1>3, <2>1
<1>5. SubSeq(data, 1, m) \o t = SubSeq(data, 1, m + n)
  BY <1>1, <1>2, <1>3, <1>4, PrefixGrows, SMTT(30)
<1>6. m + n = (o + n) - 4
  BY <1>2
<1>7. ASSUME o + n = FrameSize(packet) PROVE SubSeq(data, 1, m + n) = data
  <2>1. m + n = l
    BY <1>1, <1>2, <1>7
  <2>2. SubSeq(data, 1, l) \in Seq(Byte) /\ Len(SubSeq(data, 1, l)) = l
    BY <1>1, Splitting
  <2>3. \A i \in 1..l : SubSeq(data, 1, l)[i] = data[i]
    BY <1>1, SubSeqProperties
  <2> QED
    BY <1>1, <2>1, <2>2, <2>3, SeqEqual
<1> QED
  BY <1>1, <1>2, <1>3, <1>5, <1>6, <1>7, Zenon

\* One report more has been processed.
LEMMA ReportPassed ==
  ASSUME NEW p \in Seq(Packets), NEW r \in Seq(Seq(Byte)), NEW d, NEW P, NEW got, NEW got2,
         NEW k \in 1..Len(p), ReportsDone(p, r, d, P, got, k), IsReport(p[k]),
         d.fTCPReadingState = "AWAITING_PACKET_DATA",
         got # P[k] + FrameSize(p[k]), got2 = P[k] + FrameSize(p[k]), p[k].data \in Seq(Byte)
  PROVE  ReportsDone(p, Append(r, p[k].data), d, P, got2, k)
<1>1. PICK n \in Nat, z \in Nat, r2 \in {Append(r, p[k].data)} :
        n = Len(p) /\ z = Len(r) /\ r2 = Append(r, p[k].data)
  <2>1. Len(p) \in Nat /\ Len(r) \in Nat
    OBVIOUS
  <2> QED
    BY ONLY <2>1
<1>2. PICK at \in [1..z -> 1..n] :
        /\ ReportsMatch(r, p, at)
        /\ \A j \in 1..n : (\E i \in 1..z : at[i] = j)
                            <=> IsReport(p[j]) /\ Passed(p, d, P, got, k, j)
  BY <1>1 DEF ReportsDone
<1>3. Len(r2) = z + 1 /\ r2[z + 1] = p[k].data /\ \A i \in 1..z : r2[i] = r[i]
  BY <1>1, AppendProperties
<1>4. PICK at2 : at2 = [i \in 1..(z + 1) |-> IF i <= z THEN at[i] ELSE k]
  OBVIOUS
<1>5. at2 \in [1..(z + 1) -> 1..n] /\ at2[z + 1] = k /\ \A i \in 1..z : at2[i] = at[i]
  BY <1>1, <1>2, <1>4
<1>6. \A j \in 1..n : Passed(p, d, P, got, k, j) <=> j < k
  BY DEF Passed
<1>7. \A j \in 1..n : Passed(p, d, P, got2, k, j) <=> j < k \/ j = k
  BY DEF Passed
<1>8. \A i \in 1..z : at[i] \in 1..n /\ at[i] < k
  BY <1>2, <1>6
<1>9. ReportsMatch(r2, p, at2)
  <2>1. /\ \A i, j \in 1..z : i < j => at[i] < at[j]
        /\ \A i \in 1..z : IsReport(p[at[i]]) /\ r[i] = p[at[i]].data
        /\ \A i \in 1..z, x \in 1..n :
             x < at[i] /\ IsReport(p[x]) => \E j \in 1..z : at[j] = x
    BY <1>1, <1>2 DEF ReportsMatch
  <2>2. \A i \in 1..(z + 1) : i \in 1..z \/ i = z + 1
    OBVIOUS
  <2>3. ASSUME NEW i \in 1..(z + 1), NEW j \in 1..(z + 1), i < j PROVE at2[i] < at2[j]
    <3>1. i \in 1..z
      BY <2>3
    <3>2. CASE j \in 1..z
      BY <1>5, <2>1, <2>3, <3>1, <3>2
    <3>3. CASE j = z + 1
      BY <1>5, <1>8, <3>1, <3>3
    <3> QED
      BY <2>2, <3>2, <3>3
  <2>4. ASSUME NEW i \in 1..(z + 1) PROVE IsReport(p[at2[i]]) /\ r2[i] = p[at2[i]].data
    <3>1. CASE i \in 1..z
      BY <1>3, <1>5, <2>1, <3>1
    <3>2. CASE i = z + 1
      BY <1>3, <1>5, <3>2
    <3> QED
      BY <2>2, <3>1, <3>2
  <2>5. ASSUME NEW i \in 1..(z + 1), NEW x \in 1..n, x < at2[i], IsReport(p[x])
        PROVE  \E j \in 1..(z + 1) : at2[j] = x
    <3>1. PICK j \in 1..z : at[j] = x
      <4>1. CASE i \in 1..z
        BY <1>5, <2>1, <2>5, <4>1
      <4>2. CASE i = z + 1
        BY <1>2, <1>5, <1>6, <2>5, <4>2
      <4> QED
        BY <2>2, <4>1, <4>2
    <3>2. j \in 1..(z + 1) /\ at2[j] = x
      BY <1>5, <3>1
    <3> QED
      BY <3>2
  <2> QED
    BY ONLY <1>1, <1>3, <2>3, <2>4, <2>5 DEF ReportsMatch
<1>10. ASSUME NEW j \in 1..n
       PROVE  (\E i \in 1..(z + 1) : at2[i] = j) <=> IsReport(p[j]) /\ Passed(p, d, P, got2, k, j)
  <2>1. CASE j = k
    <3>1. z + 1 \in 1..(z + 1) /\ at2[z + 1] = j
      BY <1>5, <2>1
    <3> QED
      BY <1>7, <2>1, <3>1
  <2>2. CASE j # k
    <3>1. (\E i \in 1..(z + 1) : at2[i] = j) <=> \E i \in 1..z : at[i] = j
      <4>1. ASSUME NEW i \in 1..(z + 1), at2[i] = j PROVE i \in 1..z /\ at[i] = j
        <5>1. i # z + 1
          BY <1>5, <2>2, <4>1
        <5> QED
          BY <1>5, <4>1, <5>1
      <4>2. ASSUME NEW i \in 1..z, at[i] = j PROVE i \in 1..(z + 1) /\ at2[i] = j
        BY <1>5, <4>2
      <4> QED
        BY <4>1, <4>2
    <3> QED
      BY <1>2, <1>6, <1>7, <2>2, <3>1
  <2> QED
    BY <2>1, <2>2
<1>11. ReportsDone(p, r2, d, P, got2, k)
  BY ONLY <1>1, <1>3, <1>5, <1>9, <1>10, SMTT(30) DEF ReportsDone
<1> QED
  BY <1>1, <1>11

\* The rest of a report comes, and it is processed.
LEMMA ReportRead ==
  ASSUME NEW a \in Seq(Requests), NEW p \in Seq(Packets), NEW w \in Seq(Byte), w # <<>>, NEW e,
         NEW c, NEW h, NEW b, NEW d, NEW r \in Seq(Seq(Byte)), NEW size, NEW num, NEW buf,
         Placed(c, a, p, w, e, h, b, d, r, size, num, buf),
         d.fTCPReadingState = "AWAITING_PACKET_DATA", d.fStreamChannel = "rtcp",
         NEW n \in 0..Len(w), n = size["rtcp"], n > 0, NEW w2, LeftOf(w, n, w2),
         NEW size2, size2["rtcp"] = 0, NEW num2
  PROVE  Placed(c, a, p, w2, e, h, b, d, Append(r, buf \o SubSeq(w, 1, n)), size2, num2, <<>>)
<1>1. /\ d.fTCPReadingState \in States \ {"AWAITING_DOLLAR"}
      /\ IF d.fTCPReadingState = "AWAITING_PACKET_DATA" THEN n <= size[d.fStreamChannel] ELSE n = 1
  BY DEF States
<1>2. PICK S, Q, R, F, P, got, k, o, got2 :
           /\ AtPacket(p, d, size, P, got, k) /\ AtReport(c, p, w, e, d, num, buf, P, got, k)
           /\ ReportsDone(p, r, d, P, got, k)
           /\ InsideOf(p, w, d, size, P, got, k, n, o, got2)
           /\ Reading(a, p, w2, e, h, b, S, Q, R, F, P, got2)
  BY ONLY a \in Seq(Requests), p \in Seq(Packets), w \in Seq(Byte), <1>1, n \in 0..Len(w),
     LeftOf(w, n, w2), Placed(c, a, p, w, e, h, b, d, r, size, num, buf), PacketGoesOn
<1>3. /\ 4 <= o /\ o <= FrameSize(p[k]) /\ p[k].interface = "rtcp"
      /\ n = FrameSize(p[k]) - o /\ p[k] \in Packets /\ k \in 1..Len(p) /\ o \in Nat
  BY <1>2, ZenonT(30) DEF InPacket, InsideOf
<1>4. PICK l \in Nat, from \in Nat :
        /\ l = FrameSize(p[k]) /\ from = P[k] /\ got = from + o /\ got2 = got + n
        /\ got - from = o
  BY <1>2, <1>3, FrameBytes, ZenonT(30) DEF InsideOf
<1>5. n \in Nat /\ o + n = l /\ got2 = from + l /\ got < from + l /\ got # from + l
  <2>1. n \in Nat /\ n > 0
    OBVIOUS
  <2>2. n = l - o /\ o \in Nat
    BY <1>3, <1>4
  <2>3. o + n = l /\ o < l
    BY ONLY <2>1, <2>2, l \in Nat
  <2>4. got2 = (from + o) + n /\ got = from + o
    BY <1>4
  <2>5. got < from + l /\ got # from + l
    BY ONLY <2>2, <2>3, <2>4, from \in Nat, l \in Nat
  <2>6. got2 = from + l
    BY ONLY <2>1, <2>2, <2>3, <2>4, from \in Nat
  <2> QED
    BY ONLY <2>1, <2>3, <2>5, <2>6
<1>6. InReport(p, d, P, got, k)
  BY <1>3, <1>4, <1>5 DEF InReport
<1>7. buf = SubSeq(p[k].data, 1, o - 4)
  BY <1>2, <1>4, <1>6 DEF AtReport
<1>8. buf \o SubSeq(w, 1, n) = p[k].data
  <2>1. \A i \in 1..n : w[i] = Framed(p[k])[o + i]
    BY <1>2 DEF InsideOf
  <2>2. o + n <= FrameSize(p[k]) /\ o + n = FrameSize(p[k])
    BY <1>4, <1>5
  <2> QED
    BY <1>3, <1>7, <2>1, <2>2, MoreOfReport
<1>9. IsReport(p[k]) /\ p[k].data \in Seq(Byte)
  <2>1. p[k].data \in Seq(Byte) /\ Len(p[k].data) \in Nat
    BY <1>3, FrameBytes
  <2>2. l = 4 + Len(p[k].data)
    BY <1>4 DEF FrameSize
  <2>3. p[k].data # <<>>
    <3>1. l > 4
      BY ONLY <1>3, <1>5, n > 0, l \in Nat
    <3>2. Len(p[k].data) # 0
      BY ONLY <2>1, <2>2, <3>1
    <3> QED
      BY <3>2
  <2> QED
    BY <1>3, <2>1, <2>3 DEF IsReport
<1>10. ReportsDone(p, Append(r, p[k].data), d, P, got2, k)
  BY <1>2, <1>3, <1>4, <1>5, <1>9, ReportPassed
<1>11. PICK buf2, r2 : buf2 = <<>> /\ r2 = Append(r, p[k].data)
  OBVIOUS
<1>12. AtReport(c, p, w2, e, d, num2, buf2, P, got2, k)
  <2>1. ~InReport(p, d, P, got2, k)
    BY <1>4, <1>5 DEF InReport
  <2> QED
    BY <1>11, <2>1 DEF AtReport
<1>13. d.fTCPReadingState # "AWAITING_DOLLAR" /\ InPacket(d, size2, p[k], o + n)
  <2>1. 4 <= o + n /\ o + n <= FrameSize(p[k]) /\ FrameSize(p[k]) - (o + n) = 0
    <3>1. 4 <= l
      BY ONLY <1>3, <1>4
    <3> QED
      BY ONLY <1>4, <1>5, <3>1, SMTT(30)
  <2> QED
    BY <1>3, <2>1 DEF InPacket
<1>14. Placed(c, a, p, w2, e, h, b, d, r2, size2, num2, buf2)
  BY ONLY a \in Seq(Requests), p \in Seq(Packets), <1>2, <1>5, <1>10, <1>11, <1>12, <1>13,
     FurtherPlaced
<1> QED
  BY <1>8, <1>11, <1>14

\* Part of it comes.
LEMMA PartRead ==
  ASSUME NEW a \in Seq(Requests), NEW p \in Seq(Packets), NEW w \in Seq(Byte), w # <<>>, NEW e,
         NEW c, NEW h, NEW b, NEW d, NEW r, NEW size, NEW num, NEW buf,
         Placed(c, a, p, w, e, h, b, d, r, size, num, buf),
         d.fTCPReadingState = "AWAITING_PACKET_DATA", d.fStreamChannel = "rtcp",
         NEW n \in 0..Len(w), size["rtcp"] \in Nat, n < size["rtcp"], NEW w2, LeftOf(w, n, w2),
         NEW size2, size2["rtcp"] = size["rtcp"] - n
  PROVE  Placed(c, a, p, w2, e, h, b, d, r, size2, num, buf \o SubSeq(w, 1, n))
<1>1. /\ d.fTCPReadingState \in States \ {"AWAITING_DOLLAR"}
      /\ IF d.fTCPReadingState = "AWAITING_PACKET_DATA" THEN n <= size[d.fStreamChannel] ELSE n = 1
  BY DEF States
<1>2. PICK S, Q, R, F, P, got, k, o, got2 :
           /\ AtPacket(p, d, size, P, got, k) /\ AtReport(c, p, w, e, d, num, buf, P, got, k)
           /\ ReportsDone(p, r, d, P, got, k)
           /\ InsideOf(p, w, d, size, P, got, k, n, o, got2)
           /\ Reading(a, p, w2, e, h, b, S, Q, R, F, P, got2)
  BY ONLY a \in Seq(Requests), p \in Seq(Packets), w \in Seq(Byte), <1>1, n \in 0..Len(w),
     LeftOf(w, n, w2), Placed(c, a, p, w, e, h, b, d, r, size, num, buf), PacketGoesOn
<1>3. /\ 4 <= o /\ o <= FrameSize(p[k]) /\ p[k].interface = "rtcp"
      /\ size["rtcp"] = FrameSize(p[k]) - o /\ p[k] \in Packets /\ k \in 1..Len(p) /\ o \in Nat
  BY <1>2 DEF InPacket, InsideOf
<1>4. PICK l \in Nat, from \in Nat :
        /\ l = FrameSize(p[k]) /\ from = P[k] /\ got = from + o /\ got2 = got + n
        /\ got - from = o /\ got2 - from = o + n
  BY <1>2, <1>3, FrameBytes, ZenonT(30) DEF InsideOf
<1>5. /\ n \in Nat /\ 4 <= o + n /\ o + n < l /\ size2["rtcp"] = l - (o + n)
      /\ got < from + l /\ got2 < from + l
  <2>1. PICK left : left = size["rtcp"]
    OBVIOUS
  <2>2. n < left /\ left = l - o /\ 4 <= o /\ o \in Nat /\ size2["rtcp"] = left - n /\ n \in Nat
    BY <1>3, <1>4, <2>1
  <2>3. left - n = l - (o + n) /\ 4 <= o + n /\ o + n < l
    BY ONLY <2>2, l \in Nat
  <2>4. o < l
    BY ONLY <2>2, l \in Nat
  <2>8. o \in Nat /\ n \in Nat /\ got = from + o /\ got2 = (from + o) + n
    BY <1>4, <2>2
  <2>5. got < from + l
    BY ONLY <2>8, <2>4, l \in Nat, from \in Nat
  <2>6. got2 = from + (o + n)
    BY ONLY <2>8, from \in Nat
  <2>7. got2 < from + l
    BY ONLY <2>2, <2>3, <2>6, from \in Nat, l \in Nat
  <2> QED
    BY <2>2, <2>3, <2>5, <2>7
<1>6. InReport(p, d, P, got, k) /\ InReport(p, d, P, got2, k)
  BY <1>3, <1>4, <1>5 DEF InReport
<1>7. num = c /\ buf = SubSeq(p[k].data, 1, o - 4)
  BY <1>2, <1>4, <1>6 DEF AtReport
<1>8. PICK buf2 : buf2 = buf \o SubSeq(w, 1, n)
  OBVIOUS
<1>9. buf2 = SubSeq(p[k].data, 1, (o + n) - 4)
  <2>1. \A i \in 1..n : w[i] = Framed(p[k])[o + i]
    BY <1>2 DEF InsideOf
  <2>2. o + n <= FrameSize(p[k])
    <3>1. o + n < l /\ o + n \in Nat
      BY ONLY <1>3, <1>5
    <3> QED
      BY ONLY <1>4, <3>1
  <2> QED
    BY <1>3, <1>7, <1>8, <2>1, <2>2, MoreOfReport
<1>10. AtReport(c, p, w2, e, d, num, buf2, P, got2, k)
  BY <1>4, <1>6, <1>7, <1>9 DEF AtReport
<1>11. ReportsDone(p, r, d, P, got2, k)
  <2>1. got # from + l /\ got2 # from + l
    BY <1>4, <1>5
  <2>2. \A j \in 1..Len(p) : IsReport(p[j]) =>
          (Passed(p, d, P, got, k, j) <=> Passed(p, d, P, got2, k, j))
    BY <1>4, <2>1 DEF Passed
  <2> QED
    BY <1>2, <2>2, ReportsStayDone
<1>12. d.fTCPReadingState # "AWAITING_DOLLAR" /\ InPacket(d, size2, p[k], o + n)
  BY <1>3, <1>4, <1>5 DEF InPacket
<1>13. Placed(c, a, p, w2, e, h, b, d, r, size2, num, buf2)
  BY ONLY a \in Seq(Requests), p \in Seq(Packets), <1>2, <1>5, <1>10, <1>11, <1>12, FurtherPlaced
<1> QED
  BY <1>8, <1>13

-----------------------------------------------------------------------------
(* The request that is found in the buffer *)

\* Sequences that agree up to some place have the same beginning.
LEMMA SameBeginning ==
  ASSUME NEW T, NEW s \in Seq(T), NEW t \in Seq(T), NEW n \in Nat, n <= Len(s), n <= Len(t),
         \A i \in 1..n : s[i] = t[i]
  PROVE  SubSeq(s, 1, n) = SubSeq(t, 1, n)
<1>1. Len(s) \in Nat /\ Len(t) \in Nat
  OBVIOUS
<1>2. n \in 0..Len(s) /\ n \in 0..Len(t)
  BY <1>1
<1>3. /\ SubSeq(s, 1, n) \in Seq(T) /\ Len(SubSeq(s, 1, n)) = n
      /\ SubSeq(t, 1, n) \in Seq(T) /\ Len(SubSeq(t, 1, n)) = n
  BY <1>2, Splitting
<1>4. \A i \in 1..n : SubSeq(s, 1, n)[i] = s[i] /\ SubSeq(t, 1, n)[i] = t[i]
  BY <1>1, SubSeqProperties
<1> QED
  BY <1>3, <1>4, SeqEqual

\* The first m bytes of b are a message, whose first empty line begins at x.
BeginsWithMessage(b, x, m) ==
  /\ x \in EmptyLines(b) /\ \A y \in EmptyLines(b) : x <= y
  /\ m = x + 3 + ContentLength(SubSeq(b, 1, x + 1)) /\ m <= Len(b)

\* What q's bytes and b's have in common is the same.
Agree(b, q) == \A i \in 1..Len(b) : i <= Len(q) => b[i] = q[i]

\* A buffer that begins with a request holds a message when the request is
\* there whole, and it is the request.
LEMMA RequestFound ==
  ASSUME NEW q \in Requests, NEW b \in Seq(Byte), Agree(b, q),
         NEW x, NEW m, BeginsWithMessage(b, x, m)
  PROVE  m = Len(q) /\ SubSeq(b, 1, m) = q
<1>0. /\ x \in EmptyLines(b) /\ \A y \in EmptyLines(b) : x <= y
      /\ m = x + 3 + ContentLength(SubSeq(b, 1, x + 1)) /\ m <= Len(b)
      /\ \A i \in 1..Len(b) : i <= Len(q) => b[i] = q[i]
  BY DEF BeginsWithMessage, Agree
<1>1. PICK u \in Nat, l \in Nat : u = Len(b) /\ l = Len(q)
  BY RequestBytes
<1>2. q \in Seq(Byte) /\ l \in MessageSizes(q)
  BY <1>1, RequestBytes DEF IsMessage
<1>3. PICK z \in EmptyLines(q) : /\ \A y \in EmptyLines(q) : z <= y
                                 /\ l = z + 3 + ContentLength(SubSeq(q, 1, z + 1))
  BY <1>2 DEF MessageSizes
<1>4. /\ z \in 1..(l - 3) /\ CrLfAt(q, z) /\ CrLfAt(q, z + 2)
      /\ x \in 1..(u - 3) /\ CrLfAt(b, x) /\ CrLfAt(b, x + 2)
  BY <1>0, <1>1 DEF EmptyLines
<1>5. z \in Nat /\ x \in Nat /\ z >= 1 /\ x >= 1 /\ z + 3 <= l /\ x + 3 <= u
  BY <1>4
<1>6. \A i \in 1..u : i <= l => b[i] = q[i]
  BY <1>0, <1>1
<1>7. ASSUME NEW y \in Nat, y >= 1, y + 3 <= u, y + 3 <= l
      PROVE  y \in EmptyLines(b) <=> y \in EmptyLines(q)
  <2>1. b[y] = q[y] /\ b[y + 1] = q[y + 1] /\ b[y + 2] = q[y + 2] /\ b[y + 3] = q[y + 3]
    BY <1>6, <1>7
  <2>2. (y + 2) + 1 = y + 3
    BY <1>7
  <2>3. y \in 1..(Len(b) - 3) /\ y \in 1..(Len(q) - 3)
    BY <1>1, <1>7
  <2> QED
    BY <2>1, <2>2, <2>3 DEF EmptyLines, CrLfAt
<1>8. x = z
  <2>1. CASE z + 3 <= u
    <3>1. x <= z
      BY <1>0, <1>3, <1>5, <1>7, <2>1
    <3>2. x + 3 <= l
      BY <1>5, <3>1
    <3>3. z <= x
      BY <1>0, <1>3, <1>5, <1>7, <3>2
    <3> QED
      BY <1>5, <3>1, <3>3
  <2>2. CASE ~(z + 3 <= u)
    <3>1. x + 3 <= l /\ x < z
      BY <1>5, <2>2
    <3>2. z <= x
      BY <1>0, <1>3, <1>5, <1>7, <3>1
    <3> QED
      BY <1>5, <3>1, <3>2
  <2> QED
    BY <2>1, <2>2
<1>9. SubSeq(b, 1, x + 1) = SubSeq(q, 1, z + 1)
  <2>1. PICK n \in Nat : n = x + 1 /\ n <= u /\ n <= l
    BY <1>5, <1>8
  <2>2. \A i \in 1..n : b[i] = q[i]
    BY <1>6, <2>1
  <2>3. SubSeq(b, 1, n) = SubSeq(q, 1, n)
    BY <1>1, <1>2, <2>1, <2>2, SameBeginning
  <2> QED
    BY <1>8, <2>1, <2>3
<1>10. m = l
  BY <1>0, <1>3, <1>8, <1>9
<1>11. SubSeq(b, 1, l) = SubSeq(q, 1, l)
  <2>1. l <= u /\ \A i \in 1..l : b[i] = q[i]
    BY <1>0, <1>1, <1>6, <1>10
  <2> QED
    BY <1>1, <1>2, <2>1, SameBeginning, SMTT(30)
<1>12. SubSeq(q, 1, l) = q
  <2>1. SubSeq(q, 1, l) \in Seq(Byte) /\ Len(SubSeq(q, 1, l)) = l
    BY <1>1, <1>2, Splitting
  <2>2. \A i \in 1..l : SubSeq(q, 1, l)[i] = q[i]
    BY <1>1, <1>2, SubSeqProperties
  <2> QED
    BY <1>1, <1>2, <2>1, <2>2, SeqEqual
<1> QED
  BY <1>1, <1>10, <1>11, <1>12

\* It is handled.
LEMMA RequestHandled ==
  ASSUME NEW a \in Seq(Requests), NEW p \in Seq(Packets), NEW w \in Seq(Byte), NEW e,
         NEW c, NEW h \in Seq(Seq(Byte)), NEW b \in Seq(Byte), NEW d, NEW r, NEW size,
         NEW num, NEW buf,
         Placed(c, a, p, w, e, h, b, d, r, size, num, buf),
         NEW x, NEW m, BeginsWithMessage(b, x, m)
  PROVE  Placed(c, a, p, w, e, Append(h, SubSeq(b, 1, m)), SubSeq(b, m + 1, Len(b)), d, r,
                size, num, buf)
<1>1. PICK S, Q, R, F, P, got, k :
        /\ Laid(a, p, S, Q, R, F, P)
        /\ Place(c, a, p, w, e, h, b, d, r, size, num, buf, S, Q, R, F, P, got, k)
  BY DEF Placed
<1>2. /\ OnTheWire(w, e, S, got) /\ InTheBuffer(h, a, b, Q, R, F, got)
      /\ AtPacket(p, d, size, P, got, k) /\ AtReport(c, p, w, e, d, num, buf, P, got, k)
      /\ ReportsDone(p, r, d, P, got, k)
  BY <1>1 DEF Place
<1>3. PICK u \in Nat, n \in Nat, z \in Nat : u = Len(b) /\ n = Len(a) /\ z = Len(h)
  <2>1. Len(b) \in Nat /\ Len(a) \in Nat /\ Len(h) \in Nat
    OBVIOUS
  <2> QED
    BY ONLY <2>1
<1>4. PICK f : f = F[z + 1]
  OBVIOUS
<1>5. /\ z <= n /\ \A i \in 1..z : h[i] = a[i]
      /\ R[got] = f + u
      /\ \A i \in 1..u : b[i] = Q[f + i]
  BY <1>2, <1>3, <1>4 DEF InTheBuffer
<1>6. z + 1 \in 1..(n + 1) /\ f \in Nat
  <2>1. z + 1 \in 1..(n + 1)
    BY <1>5
  <2> QED
    BY <1>1, <1>3, <1>4, <2>1, LaidAt
<1>7. R[got] \in 0..Len(Q) /\ Len(Q) \in Nat
  <2>1. got \in Nat /\ got + Len(w) <= Len(S)
    BY <1>2 DEF OnTheWire
  <2>2. R \in [0..Len(S) -> 0..Len(Q)]
    BY <1>1 DEF Laid, BytesLaid
  <2>3. got \in 0..Len(S)
    <3>1. Len(w) \in Nat /\ Len(S) \in Nat
      BY <1>1, LaidAt
    <3> QED
      BY <2>1, <3>1
  <2> QED
    BY <1>1, <2>2, <2>3, LaidAt
<1>8. u >= 4
  <2>1. x \in EmptyLines(b)
    BY DEF BeginsWithMessage
  <2> QED
    BY <1>3, <2>1 DEF EmptyLines
<1>9. z + 1 \in 1..n
  <2>1. z # n
    <3>1. SUFFICES ASSUME z = n PROVE FALSE
      OBVIOUS
    <3>2. f = Len(Q)
      BY <1>1, <1>3, <1>4, <3>1 DEF Laid, RequestsLaid
    <3> QED
      BY <1>5, <1>6, <1>7, <1>8, <3>2
  <2> QED
    BY <1>5, <2>1
<1>10. PICK q \in Requests, l \in Nat : q = a[z + 1] /\ l = Len(q)
  <2>1. a[z + 1] \in Requests
    BY <1>3, <1>9, ElementOfSeq
  <2> QED
    BY <2>1, RequestBytes
<1>11. F[(z + 1) + 1] = f + l /\ \A j \in 1..l : Q[f + j] = q[j]
  <2>1. /\ F[(z + 1) + 1] = F[z + 1] + Len(a[z + 1])
        /\ \A j \in 1..Len(a[z + 1]) : Q[F[z + 1] + j] = a[z + 1][j]
    <3>1. PICK i \in 1..Len(a) : i = z + 1
      BY <1>3, <1>9
    <3>2. \A g \in 1..Len(a) : /\ F[g + 1] = F[g] + Len(a[g])
                               /\ \A j \in 1..Len(a[g]) : Q[F[g] + j] = a[g][j]
      <4>1. RequestsLaid(a, Q, F)
        BY <1>1 DEF Laid
      <4> QED
        BY ONLY <4>1 DEF RequestsLaid
    <3> QED
      BY ONLY <3>1, <3>2
  <2> QED
    BY ONLY <1>4, <1>10, <2>1
<1>12. m = l /\ SubSeq(b, 1, m) = q
  <2>1. Agree(b, q)
    <3>1. ASSUME NEW i \in 1..u, i <= l PROVE b[i] = q[i]
      <4>1. i \in 1..l
        BY <3>1
      <4> QED
        BY <1>5, <1>11, <4>1
    <3> QED
      BY <1>3, <1>10, <3>1 DEF Agree
  <2>2. m = Len(q) /\ SubSeq(b, 1, m) = q
    BY <2>1, RequestFound
  <2> QED
    BY <1>10, <2>2
<1>13. PICK h2, b2 : h2 = Append(h, SubSeq(b, 1, m)) /\ b2 = SubSeq(b, m + 1, Len(b))
  OBVIOUS
<1>14. Len(h2) = z + 1 /\ \A i \in 1..(z + 1) : h2[i] = a[i]
  <2>1. Len(h2) = z + 1 /\ h2[z + 1] = q /\ \A i \in 1..z : h2[i] = h[i]
    <3>1. q \in Seq(Byte)
      BY RequestBytes
    <3>2. h2 = Append(h, q)
      BY <1>12, <1>13
    <3> QED
      BY <1>3, <3>1, <3>2, AppendProperties
  <2>2. ASSUME NEW i \in 1..(z + 1) PROVE h2[i] = a[i]
    <3>1. i \in 1..z \/ i = z + 1
      OBVIOUS
    <3> QED
      BY <1>5, <1>10, <2>1, <3>1
  <2> QED
    BY <2>1, <2>2
<1>15. l <= u
  BY <1>3, <1>12 DEF BeginsWithMessage
<1>16. Len(b2) = u - l /\ \A i \in 1..(u - l) : b2[i] = b[l + i]
  <2>1. l \in 0..Len(b) /\ b2 = SubSeq(b, l + 1, Len(b))
    BY <1>3, <1>12, <1>13, <1>15
  <2>2. Len(b2) = u - l
    BY <1>3, <2>1, Splitting
  <2> QED
    BY <1>3, <2>1, <2>2, SubSeqProperties
<1>17. InTheBuffer(h2, a, b2, Q, R, F, got)
  <2>1. PICK g : g = F[(z + 1) + 1]
    OBVIOUS
  <2>2. g = f + l /\ R[got] = g + (u - l)
    BY <1>5, <1>6, <1>11, <1>15, <2>1
  <2>3. ASSUME NEW i \in 1..(u - l) PROVE b2[i] = Q[g + i]
    <3>1. l + i \in 1..u /\ f + (l + i) = g + i
      BY <1>6, <2>2
    <3> QED
      BY <1>5, <1>16, <3>1
  <2>4. z + 1 <= n
    BY <1>9
  <2> QED
    BY ONLY <1>3, <1>14, <1>16, <2>1, <2>2, <2>3, <2>4 DEF InTheBuffer
<1>18. Place(c, a, p, w, e, h2, b2, d, r, size, num, buf, S, Q, R, F, P, got, k)
  BY <1>2, <1>17, Zenon DEF Place
<1>19. Placed(c, a, p, w, e, h2, b2, d, r, size, num, buf)
  BY <1>1, <1>18, Zenon DEF Placed
<1> QED
  BY <1>13, <1>19

-----------------------------------------------------------------------------
(* A client that sent no packet, and one that no send failed to *)

\* A client that sent no packet leaves the interface alone: no byte it sends
\* begins one.
Quiet(c) ==
  packets[c] = <<>> =>
    /\ \A i \in 1..Len(wire[c]) : wire[c][i] # Dollar
    /\ descriptor[c].fTCPReadingState = "AWAITING_DOLLAR"
    /\ fNextTCPReadStreamSocketNum["rtcp"] # c

\* Who reads the socket, and whether inside a packet.
Registered(c) ==
  /\ descriptor[c].channels = {} => descriptor[c].fTCPReadingState = "AWAITING_DOLLAR"
  /\ running = c => descriptor[c].fTCPReadingState = "AWAITING_DOLLAR"
  /\ c \notin failed =>
       /\ session[c] = "playing" => socketHandler[c] = "descriptor"
       /\ descriptor[c].channels \in {{}, Interfaces}
       /\ socketHandler[c] = "connection" => packets[c] = <<>>

\* Without packets nothing is in RTCPInstance's buffer.
NoReportBegun == (\A c \in Clients : packets[c] = <<>>) => fInBuf = <<>>

\* What does not depend on where bytes are.
QuietInv ==
  /\ \A c \in Clients : Quiet(c) /\ Registered(c)
  /\ NoReportBegun

\* What a step of x does to another client.
LeavesOthers(x) ==
  \A c \in Clients \ {x} :
    /\ eof'[c] = eof[c] /\ asked'[c] = asked[c] /\ packets'[c] = packets[c]
    /\ fRequestBuffer'[c] = fRequestBuffer[c] /\ session'[c] = session[c]
    /\ socketHandler'[c] = socketHandler[c] /\ descriptor'[c] = descriptor[c]
    /\ handled'[c] = handled[c] /\ (c \in failed' <=> c \in failed)
    /\ running' = c => running = c
    /\ fNextTCPReadStreamSocketNum["rtcp"] # c =>
         wire'[c] = wire[c] /\ reports'[c] = reports[c]

\* The steps of a client, except that its connection is closed.
Works(x) ==
  LeavesBuffers(x) \/ ReadRequestBytes(x) \/ PassRequestByte(x) \/ NeedMore(x) \/ HandleRequest(x)

\* A step is a client's own.
LEMMA OthersLeft ==
  ASSUME TypeOK, NEW x \in Clients, Works(x) \/ CloseConnection(x)
  PROVE  LeavesOthers(x)
<1>1. /\ DOMAIN wire = Clients /\ DOMAIN eof = Clients /\ DOMAIN asked = Clients
      /\ DOMAIN packets = Clients /\ DOMAIN fRequestBuffer = Clients
      /\ DOMAIN session = Clients /\ DOMAIN socketHandler = Clients
      /\ DOMAIN descriptor = Clients /\ DOMAIN handled = Clients /\ DOMAIN reports = Clients
      /\ NULL \notin Clients
  BY ConnectionAssumption, Zenon DEF TypeOK
<1>2. CASE Client(x)
  <2>1. CASE \E q \in Requests : SendRequest(x, q)
    BY <1>1, <2>1 DEF SendRequest, LeavesOthers, bufferVars, runVars, readVars, historyVars
  <2>2. CASE \E packet \in Packets : SendPacket(x, packet)
    BY <1>1, <2>2 DEF SendPacket, LeavesOthers, bufferVars, runVars, readVars, historyVars
  <2>3. CASE Disconnect(x)
    BY <1>1, <2>3 DEF Disconnect, LeavesOthers, bufferVars, runVars, readVars, historyVars
  <2> QED
    BY <1>2, <2>1, <2>2, <2>3 DEF Client
<1>3. CASE SessionTimesOut(x)
  BY <1>1, <1>3 DEF SessionTimesOut, EndSession, EndPlaying, LeavesOthers, clientVars, bufferVars,
                    runVars, historyVars
<1>4. CASE \E i \in Interfaces : SendFails(x, i)
  <2>1. PICK i \in Interfaces : SendFails(x, i)
    BY <1>4
  <2>2. \A c \in Clients \ {x} :
          socketHandler'[c] = socketHandler[c] /\ descriptor'[c] = descriptor[c]
    BY <1>1, <2>1 DEF SendFails
  <2>3. /\ UNCHANGED <<clientVars, fRequestBuffer, running, session, handled, reports>>
        /\ failed' = failed \cup {x}
    BY <2>1 DEF SendFails, bufferVars, runVars
  <2> QED
    BY <2>2, <2>3 DEF LeavesOthers, clientVars
<1>5. ASSUME TakeByte(x)
      PROVE  /\ UNCHANGED <<eof, asked, packets, session, socketHandler, failed, handled, reports>>
             /\ \A c \in Clients \ {x} : wire'[c] = wire[c]
  BY <1>1, <1>5 DEF TakeByte, historyVars
<1>6. CASE ReadDollar(x) \/ ReadChannel(x) \/ ReadSize1(x) \/ ReadSize2(x) \/ SkipByte(x)
  <2>1. TakeByte(x) /\ UNCHANGED <<fRequestBuffer, running>>
    BY <1>6 DEF ReadDollar, ReadChannel, ReadSize1, ReadSize2, SkipByte, runVars
  <2>2. \A c \in Clients \ {x} : descriptor'[c] = descriptor[c]
    <3>1. CASE ReadDollar(x) \/ ReadSize2(x)
      BY <1>1, <3>1 DEF ReadDollar, ReadSize2, EnterState
    <3>2. CASE ReadChannel(x)
      BY <1>1, <3>2 DEF ReadChannel, EnterState
    <3>3. CASE ReadSize1(x) \/ SkipByte(x)
      BY <1>1, <3>3 DEF ReadSize1, SkipByte
    <3> QED
      BY <1>6, <3>1, <3>2, <3>3
  <2> QED
    BY <1>5, <2>1, <2>2 DEF LeavesOthers
<1>7. CASE EndOfPacket(x)
  BY <1>1, <1>7 DEF EndOfPacket, EnterState, LeavesOthers, clientVars, bufferVars, runVars,
     historyVars
<1>8. CASE ReadReport(x) \/ ReadPartOfReport(x) \/ ReportBreaksOff(x)
  <2>1. /\ UNCHANGED <<eof, asked, packets, fRequestBuffer, session, socketHandler, descriptor,
                       handled, failed, running>>
    BY <1>8 DEF ReadReport, ReadPartOfReport, ReportBreaksOff, bufferVars, runVars, readVars,
       historyVars
  <2>2. PICK s : s = fNextTCPReadStreamSocketNum["rtcp"]
    OBVIOUS
  <2>3. \A c \in Clients : c # s => wire'[c] = wire[c] /\ reports'[c] = reports[c]
    <3>1. CASE ReadReport(x)
      BY <1>1, <2>2, <3>1 DEF ReadReport
    <3>2. CASE ReadPartOfReport(x)
      BY <1>1, <2>2, <3>2 DEF ReadPartOfReport, historyVars
    <3>3. CASE ReportBreaksOff(x)
      BY <1>1, <2>2, <3>3 DEF ReportBreaksOff, historyVars
    <3> QED
      BY <1>8, <3>1, <3>2, <3>3
  <2> QED
    BY <2>1, <2>2, <2>3 DEF LeavesOthers
<1>9. CASE ReadRequestBytes(x)
  BY <1>1, <1>9 DEF ReadRequestBytes, LeavesOthers, readVars, historyVars
<1>10. CASE PassRequestByte(x)
  <2>1. /\ TakeByte(x) /\ UNCHANGED descriptor /\ running' \in {running, x}
        /\ \A c \in Clients \ {x} : fRequestBuffer'[c] = fRequestBuffer[c]
    BY <1>1, <1>10 DEF PassRequestByte, runVars
  <2> QED
    BY <1>5, <2>1 DEF LeavesOthers
<1>11. CASE NeedMore(x)
  BY <1>1, <1>11 DEF NeedMore, LeavesOthers, clientVars, readVars, historyVars
<1>12. CASE HandleRequest(x)
  <2>1. \A c \in Clients \ {x} :
          /\ socketHandler'[c] = socketHandler[c] /\ descriptor'[c] = descriptor[c]
          /\ session'[c] = session[c]
    <3>1. PICK command : HandleCommand(x, command)
      BY <1>12 DEF HandleRequest
    <3>2. CASE Setup(x) \/ Play(x)
      BY <1>1, <3>2 DEF Setup, Play, StartPlaying, readVars
    <3>3. CASE TearDown(x)
      BY <1>1, <3>3 DEF TearDown, EndSession, EndPlaying
    <3>4. CASE UNCHANGED <<session, readVars, interfaceVars>>
      BY <3>4 DEF readVars
    <3> QED
      BY <3>1, <3>2, <3>3, <3>4 DEF HandleCommand
  <2>2. /\ UNCHANGED <<clientVars, failed, reports>> /\ running' \in {NULL, x}
        /\ \A c \in Clients \ {x} : handled'[c] = handled[c]
        /\ \A c \in Clients \ {x} : fRequestBuffer'[c] = fRequestBuffer[c]
    BY <1>1, <1>12 DEF HandleRequest, KeepRest
  <2> QED
    BY <1>1, <2>1, <2>2 DEF LeavesOthers, clientVars
<1>13. CASE CloseConnection(x)
  BY <1>1, <1>13 DEF CloseConnection, EndSession, LeavesOthers, historyVars
<1> QED
  BY <1>2, <1>3, <1>4, <1>6, <1>7, <1>8, <1>9, <1>10, <1>11, <1>12, <1>13 DEF Works, LeavesBuffers

\* The steps that read a packet's bytes.
ReadsPacket(x) ==
  \/ ReadDollar(x) \/ ReadChannel(x) \/ ReadSize1(x) \/ ReadSize2(x) \/ SkipByte(x)
  \/ EndOfPacket(x) \/ ReadReport(x) \/ ReadPartOfReport(x) \/ ReportBreaksOff(x)

\* Only a client that sent packets has its packets read.
LEMMA PacketStep ==
  ASSUME TypeOK, OneReader, NEW x \in Clients, Quiet(x), ReadsPacket(x)
  PROVE  /\ packets[x] # <<>> /\ running = NULL /\ descriptor[x].channels # {}
         /\ UNCHANGED <<eof, asked, packets, open, fRequestBuffer, session, socketHandler, failed,
                        handled, running>>
         /\ descriptor'[x].channels = descriptor[x].channels
<1>1. running = NULL /\ socketHandler[x] = "descriptor"
  BY DEF ReadsPacket, ReadDollar, ReadChannel, ReadSize1, ReadSize2, SkipByte, EndOfPacket,
         ReadReport, ReadPartOfReport, ReportBreaksOff, ReadsReport, InState
<1>2. descriptor[x].channels # {}
  BY <1>1 DEF OneReader
<1>3. packets[x] # <<>>
  <2>1. CASE ReadDollar(x)
    <3>1. wire[x] # <<>> /\ Head(wire[x]) = Dollar /\ wire[x] \in Seq(Byte)
      BY <2>1 DEF ReadDollar, TakeByte, TypeOK
    <3>2. 1 \in 1..Len(wire[x]) /\ wire[x][1] = Dollar
      BY ONLY <3>1
    <3> QED
      BY <3>2 DEF Quiet
  <2>2. CASE ~ReadDollar(x)
    <3>1. descriptor[x].fTCPReadingState # "AWAITING_DOLLAR"
      BY <2>2 DEF ReadsPacket, ReadChannel, ReadSize1, ReadSize2, SkipByte, EndOfPacket,
             ReadReport, ReadPartOfReport, ReportBreaksOff, ReadsReport, InState
    <3> QED
      BY <3>1, SMTT(30) DEF Quiet
  <2> QED
    BY <2>1, <2>2
<1>4. UNCHANGED <<eof, asked, packets, open, fRequestBuffer, session, socketHandler, failed,
                  handled, running>>
  <2>1. CASE TakeByte(x)
    BY <2>1 DEF ReadsPacket, ReadDollar, ReadChannel, ReadSize1, ReadSize2, SkipByte, EndOfPacket,
           ReadReport, ReadPartOfReport, ReportBreaksOff, TakeByte, runVars, historyVars,
           clientVars, bufferVars, readVars
  <2>2. CASE ~TakeByte(x)
    BY <2>2 DEF ReadsPacket, ReadDollar, ReadChannel, ReadSize1, ReadSize2, SkipByte, EndOfPacket,
           ReadReport, ReadPartOfReport, ReportBreaksOff, runVars, historyVars, clientVars,
           bufferVars, readVars
  <2> QED
    BY <2>1, <2>2, SMTT(30)
<1>5. descriptor'[x].channels = descriptor[x].channels
  <2>1. CASE ReadDollar(x) \/ ReadChannel(x) \/ ReadSize1(x) \/ ReadSize2(x) \/ EndOfPacket(x)
    BY <2>1, ReaderLeft
  <2>2. CASE SkipByte(x) \/ ReadReport(x) \/ ReadPartOfReport(x) \/ ReportBreaksOff(x)
    BY <2>2 DEF SkipByte, ReadReport, ReadPartOfReport, ReportBreaksOff, readVars
  <2> QED
    BY <2>1, <2>2 DEF ReadsPacket
<1> QED
  BY <1>1, <1>2, <1>3, <1>4, <1>5, SMTT(30)

\* The steps of a client, one by one.
LEMMA WorkSteps ==
  ASSUME NEW x \in Clients, Works(x)
  PROVE  \/ \E q \in Requests : SendRequest(x, q)
         \/ \E packet \in Packets : SendPacket(x, packet)
         \/ Disconnect(x) \/ SessionTimesOut(x) \/ (\E i \in Interfaces : SendFails(x, i))
         \/ ReadsPacket(x)
         \/ ReadRequestBytes(x) \/ PassRequestByte(x) \/ NeedMore(x) \/ HandleRequest(x)
BY DEF Works, LeavesBuffers, Client, ReadsPacket

\* Packets are not unsent, nor failures forgotten.
LEMMA PacketsStay ==
  ASSUME TypeOK, NEW x \in Clients, Works(x) \/ CloseConnection(x)
  PROVE  /\ \A c \in Clients : packets'[c] = <<>> => packets[c] = <<>>
         /\ failed \subseteq failed'
<1>1. CASE \E packet \in Packets : SendPacket(x, packet)
  <2>1. PICK packet \in Packets : SendPacket(x, packet)
    BY <1>1
  <2>2. packets[x] \in Seq(Packets) /\ packets' = [packets EXCEPT ![x] = Append(@, packet)]
    BY <2>1 DEF SendPacket, TypeOK
  <2>3. Append(packets[x], packet) # <<>>
    BY <2>2
  <2>4. packets'[x] # <<>> /\ \A c \in Clients \ {x} : packets'[c] = packets[c]
    BY <2>2, <2>3 DEF TypeOK
  <2> QED
    BY <2>1, <2>4 DEF SendPacket, historyVars
<1>2. CASE CloseConnection(x)
  BY <1>2 DEF CloseConnection, historyVars
<1>3. CASE \E q \in Requests : SendRequest(x, q)
  BY <1>3 DEF SendRequest, historyVars
<1>4. CASE Disconnect(x) \/ SessionTimesOut(x)
  BY <1>4 DEF Disconnect, SessionTimesOut, clientVars, historyVars
<1>5. CASE \E i \in Interfaces : SendFails(x, i)
  BY <1>5 DEF SendFails, clientVars
<1>6. CASE ReadsPacket(x)
  <2>1. CASE TakeByte(x)
    BY <2>1, SMTT(30) DEF TakeByte, historyVars
  <2>2. CASE ~TakeByte(x)
    BY <1>6, <2>2 DEF ReadsPacket, ReadDollar, ReadChannel, ReadSize1, ReadSize2, SkipByte,
       EndOfPacket,
           ReadReport, ReadPartOfReport, ReportBreaksOff, historyVars, clientVars
  <2> QED
    BY <2>1, <2>2
<1>7. CASE ReadRequestBytes(x) \/ NeedMore(x) \/ HandleRequest(x)
  BY <1>7 DEF ReadRequestBytes, NeedMore, HandleRequest, clientVars, historyVars
<1>8. CASE PassRequestByte(x)
  BY <1>8 DEF PassRequestByte, TakeByte, historyVars
<1> QED
  BY <1>1, <1>2, <1>3, <1>4, <1>5, <1>6, <1>7, <1>8, WorkSteps

\* The interface stays as it is, is made anew, or reads a packet.
LEMMA InterfaceLeft ==
  ASSUME NEW x \in Clients, Works(x) \/ CloseConnection(x)
  PROVE  \/ UNCHANGED interfaceVars
         \/ /\ fInBuf' = <<>> /\ fNextTCPReadStreamSocketNum' = NoSocketNum
            /\ \A d \in Clients \ {x} : session[d] = "none"
         \/ ReadsPacket(x)
<1>1. ASSUME EndSession(x)
      PROVE  \/ UNCHANGED interfaceVars
             \/ /\ fInBuf' = <<>> /\ fNextTCPReadStreamSocketNum' = NoSocketNum
                /\ \A d \in Clients \ {x} : session[d] = "none"
  BY <1>1 DEF EndSession
<1>2. CASE SessionTimesOut(x) \/ CloseConnection(x)
  BY <1>1, <1>2 DEF SessionTimesOut, CloseConnection
<1>3. CASE HandleRequest(x)
  <2>1. PICK command : HandleCommand(x, command)
    BY <1>3 DEF HandleRequest
  <2>2. EndSession(x) \/ UNCHANGED interfaceVars
    BY <2>1 DEF HandleCommand, Setup, Play, TearDown
  <2> QED
    BY <1>1, <2>2
<1>4. CASE \/ \E q \in Requests : SendRequest(x, q)
           \/ \E packet \in Packets : SendPacket(x, packet)
           \/ Disconnect(x)
  BY <1>4 DEF SendRequest, SendPacket, Disconnect
<1>5. CASE (\E i \in Interfaces : SendFails(x, i)) \/ ReadRequestBytes(x) \/ NeedMore(x)
  BY <1>5 DEF SendFails, ReadRequestBytes, NeedMore
<1>6. CASE PassRequestByte(x)
  BY <1>6 DEF PassRequestByte, TakeByte, interfaceVars
<1> QED
  BY <1>2, <1>3, <1>4, <1>5, <1>6, WorkSteps

\* It is told of no other socket than the client's.
LEMMA SocketSet ==
  ASSUME TypeOK, NEW x \in Clients, ReadsPacket(x)
  PROVE  fNextTCPReadStreamSocketNum'["rtcp"] \in {fNextTCPReadStreamSocketNum["rtcp"], NULL, x}
<1>1. DOMAIN fNextTCPReadStreamSocketNum = Interfaces /\ "rtcp" \in Interfaces
  BY DEF TypeOK, Interfaces
<1>2. CASE ReadDollar(x) \/ ReadChannel(x) \/ ReadSize1(x) \/ SkipByte(x) \/ EndOfPacket(x)
           \/ ReadPartOfReport(x)
  BY <1>2 DEF ReadDollar, ReadChannel, ReadSize1, SkipByte, EndOfPacket, ReadPartOfReport,
     interfaceVars
<1>3. CASE ReadSize2(x)
  BY <1>1, <1>3 DEF ReadSize2
<1>4. CASE ReadReport(x) \/ ReportBreaksOff(x)
  BY <1>1, <1>4 DEF ReadReport, ReportBreaksOff
<1> QED
  BY <1>2, <1>3, <1>4 DEF ReadsPacket

\* Only a client that sent packets has put bytes into fInBuf.
LEMMA NoReportBegunKept ==
  ASSUME TypeOK, OneReader, NEW x \in Clients, Works(x) \/ CloseConnection(x), QuietInv
  PROVE  NoReportBegun'
<1>1. \A c \in Clients : packets'[c] = <<>> => packets[c] = <<>>
  BY PacketsStay
<1>2. CASE UNCHANGED interfaceVars \/ fInBuf' = <<>>
  BY <1>1, <1>2 DEF NoReportBegun, QuietInv, interfaceVars
<1>3. CASE ReadsPacket(x)
  BY <1>1, <1>3, PacketStep DEF NoReportBegun, QuietInv
<1> QED
  BY <1>2, <1>3, InterfaceLeft

\* A client's step leaves no Dollar on the wire that a quiet client would not
\* have sent.
LEMMA QuietWire ==
  ASSUME TypeOK, OneReader, NEW x \in Clients, Works(x) \/ CloseConnection(x), Quiet(x),
         packets'[x] = <<>>
  PROVE  \A i \in 1..Len(wire'[x]) : wire'[x][i] # Dollar
<1>1. /\ packets[x] = <<>> /\ wire[x] \in Seq(Byte) /\ DOMAIN wire = Clients
      /\ \A i \in 1..Len(wire[x]) : wire[x][i] # Dollar
  BY PacketsStay DEF Quiet, TypeOK
<1>2. PICK w \in Seq(Byte) : w = wire[x]
  BY <1>1
<1>3. \A i \in 1..Len(w) : w[i] # Dollar
  BY <1>1, <1>2
<1>4. ASSUME NEW n \in 0..Len(w)
      PROVE  /\ \A i \in 1..Len(SubSeq(w, n + 1, Len(w))) : SubSeq(w, n + 1, Len(w))[i] # Dollar
             /\ \A i \in 1..Len(SubSeq(w, 1, n)) : SubSeq(w, 1, n)[i] # Dollar
  <2>1. PICK l \in Nat : l = Len(w)
    OBVIOUS
  <2>2. /\ Len(SubSeq(w, n + 1, l)) = l - n
        /\ \A i \in 1..(l - n) : SubSeq(w, n + 1, l)[i] = w[n + i] /\ n + i \in 1..l
    BY <2>1, <1>4, SubSeqProperties
  <2>3. /\ Len(SubSeq(w, 1, n)) = n
        /\ \A i \in 1..n : SubSeq(w, 1, n)[i] = w[i] /\ i \in 1..l
    BY <2>1, <1>4, SubSeqProperties
  <2> QED
    BY <1>3, <2>1, <2>2, <2>3
<1>5. CASE \E q \in Requests : SendRequest(x, q)
  <2>1. PICK q \in Requests : SendRequest(x, q)
    BY <1>5
  <2>2. q \in Seq(Byte) /\ \A j \in 1..Len(q) : q[j] # Dollar
    BY RequestBytes
  <2>3. wire'[x] = w \o q
    BY <1>1, <1>2, <2>1 DEF SendRequest
  <2>4. \A i \in 1..Len(w \o q) : (w \o q)[i] # Dollar
    BY ONLY <1>3, <2>2, w \in Seq(Byte)
  <2> QED
    BY <2>3, <2>4
<1>6. CASE \E packet \in Packets : SendPacket(x, packet)
  <2>1. PICK packet \in Packets : SendPacket(x, packet)
    BY <1>6
  <2>2. packets[x] \in Seq(Packets) /\ packets'[x] = Append(packets[x], packet)
    BY <2>1 DEF SendPacket, TypeOK
  <2>3. Append(packets[x], packet) # <<>>
    BY <2>2
  <2> QED
    BY <2>2, <2>3
<1>7. CASE Disconnect(x)
  <2>1. PICK n \in 0..Len(w) : wire'[x] = SubSeq(w, 1, n)
    BY <1>1, <1>2, <1>7 DEF Disconnect
  <2> QED
    BY <1>4, <2>1
<1>8. CASE ReadRequestBytes(x)
  <2>1. PICK n \in 0..Len(w) : wire'[x] = SubSeq(w, n + 1, Len(w))
    <3>1. PICK n \in 1..fRequestBufferBytesLeft[x] :
            n <= Len(wire[x]) /\ wire' = [wire EXCEPT ![x] = SubSeq(@, n + 1, Len(@))]
      BY <1>8 DEF ReadRequestBytes
    <3>2. n \in 0..Len(w) /\ wire'[x] = SubSeq(w, n + 1, Len(w))
      BY <1>1, <1>2, <3>1 DEF TypeOK
    <3> QED
      BY <3>2
  <2> QED
    BY <1>4, <2>1
<1>9. CASE PassRequestByte(x)
  <2>1. wire'[x] = Tail(w) /\ w # <<>>
    BY <1>1, <1>2, <1>9 DEF PassRequestByte, TakeByte
  <2>2. 1 \in 0..Len(w) /\ Tail(w) = SubSeq(w, 1 + 1, Len(w))
    BY <2>1
  <2> QED
    BY <1>4, <2>1, <2>2
<1>10. CASE CloseConnection(x)
  <2>1. wire'[x] = <<>>
    BY <1>1, <1>10 DEF CloseConnection
  <2> QED
    BY <2>1
<1>11. CASE \/ SessionTimesOut(x) \/ NeedMore(x) \/ HandleRequest(x)
            \/ \E i \in Interfaces : SendFails(x, i)
  <2>1. wire' = wire
    BY <1>11 DEF SessionTimesOut, SendFails, NeedMore, HandleRequest, clientVars
  <2> QED
    BY <1>1, <2>1
<1>12. CASE ReadsPacket(x)
  BY <1>1, <1>12, PacketStep
<1> QED
  BY <1>5, <1>6, <1>7, <1>8, <1>9, <1>10, <1>11, <1>12, WorkSteps

\* Steps that leave a client's descriptor, or delete it, or register both
\* interfaces with it.
LEMMA DescriptorLeft ==
  ASSUME TypeOK, NEW x \in Clients, Works(x) \/ CloseConnection(x)
  PROVE  \/ ReadsPacket(x) \/ (\E i \in Interfaces : SendFails(x, i))
         \/ /\ UNCHANGED readVars
            /\ session'[x] = session[x] \/ (session'[x] = "setup" /\ session[x] = "none")
         \/ /\ descriptor'[x] = NoDescriptor /\ session'[x] = "none"
            /\ socketHandler'[x] = IF descriptor[x].channels = {} THEN socketHandler[x] ELSE "none"
         \/ /\ descriptor'[x] = NoDescriptor /\ session'[x] = "none" /\ socketHandler'[x] = "none"
         \/ /\ descriptor'[x].channels = Interfaces /\ socketHandler'[x] = "descriptor"
            /\ descriptor'[x].fTCPReadingState = descriptor[x].fTCPReadingState
            /\ running = x
<1>1. /\ DOMAIN session = Clients /\ DOMAIN socketHandler = Clients /\ DOMAIN descriptor = Clients
      /\ DOMAIN descriptor[x] = {"channels", "fTCPReadingState", "fStreamChannel", "fSizeByte1",
                                 "byteHandler"}
  <2>1. descriptor[x] \in Descriptor
    BY DescriptorTypes
  <2> QED
    BY <2>1 DEF TypeOK, Descriptor
<1>2. ASSUME EndSession(x), EndPlaying(x)
      PROVE  /\ descriptor'[x] = NoDescriptor /\ session'[x] = "none"
             /\ socketHandler'[x] = IF descriptor[x].channels = {} THEN socketHandler[x] ELSE "none"
  BY <1>1, <1>2 DEF EndSession, EndPlaying, ReaderAfter
<1>3. CASE SessionTimesOut(x)
  BY <1>2, <1>3 DEF SessionTimesOut
<1>4. CASE CloseConnection(x)
  BY <1>1, <1>4 DEF CloseConnection, EndSession
<1>5. CASE HandleRequest(x)
  <2>1. PICK command : HandleCommand(x, command)
    BY <1>5 DEF HandleRequest
  <2>2. CASE Setup(x)
    BY <1>1, <2>2 DEF Setup
  <2>3. CASE Play(x)
    BY <1>1, <1>5, <2>3 DEF Play, StartPlaying, HandleRequest
  <2>4. CASE TearDown(x)
    BY <1>2, <2>4 DEF TearDown
  <2>5. CASE UNCHANGED <<session, readVars, interfaceVars>>
    BY <2>5
  <2> QED
    BY <2>1, <2>2, <2>3, <2>4, <2>5 DEF HandleCommand
<1>6. CASE \/ \E q \in Requests : SendRequest(x, q)
           \/ \E packet \in Packets : SendPacket(x, packet)
           \/ Disconnect(x)
  BY <1>6 DEF SendRequest, SendPacket, Disconnect
<1>7. CASE ReadRequestBytes(x) \/ NeedMore(x)
  BY <1>7 DEF ReadRequestBytes, NeedMore
<1>8. CASE PassRequestByte(x)
  BY <1>8 DEF PassRequestByte, TakeByte, readVars
<1> QED
  BY <1>3, <1>4, <1>5, <1>6, <1>7, <1>8, WorkSteps

\* Between a read and the end of its handler, no packet has begun.
LEMMA RunningOutside ==
  ASSUME TypeOK, OneReader, NEW x \in Clients, Works(x) \/ CloseConnection(x), Registered(x),
         running' = x
  PROVE  descriptor[x].fTCPReadingState = "AWAITING_DOLLAR"
<1>1. CASE running = x
  BY <1>1 DEF Registered
<1>2. CASE running # x
  <2>1. CASE ReadRequestBytes(x)
    <3>1. descriptor[x].channels = {}
      BY <2>1 DEF ReadRequestBytes, OneReader
    <3> QED
      BY <3>1 DEF Registered
  <2>2. CASE PassRequestByte(x)
    BY <2>2 DEF PassRequestByte, InState
  <2>3. CASE HandleRequest(x) \/ NeedMore(x)
    BY <1>2, <2>3 DEF HandleRequest, NeedMore
  <2>4. CASE LeavesBuffers(x)
    BY <1>2, <2>4, BuffersLeft
  <2>5. CASE CloseConnection(x)
    BY <2>5, ConnectionAssumption DEF CloseConnection
  <2> QED
    BY <2>1, <2>2, <2>3, <2>4, <2>5 DEF Works
<1> QED
  BY <1>1, <1>2

\* A send that fails leaves the place in a packet, or nobody in it.
LEMMA SendFailed ==
  ASSUME TypeOK, NEW x \in Clients, NEW i \in Interfaces, SendFails(x, i)
  PROVE  /\ running' = NULL /\ x \in failed'
         /\ \/ descriptor'[x] = NoDescriptor
            \/ /\ descriptor'[x].channels # {}
               /\ descriptor'[x].fTCPReadingState = descriptor[x].fTCPReadingState
<1>1. DOMAIN descriptor = Clients /\ descriptor[x].channels \subseteq Interfaces
      /\ DOMAIN descriptor[x] = {"channels", "fTCPReadingState", "fStreamChannel", "fSizeByte1",
                                 "byteHandler"}
  <2>1. descriptor[x] \in Descriptor
    BY DescriptorTypes
  <2> QED
    BY <2>1 DEF TypeOK, Descriptor
<1> QED
  BY <1>1 DEF SendFails, runVars

\* A quiet client's socket stays outside of packets.
LEMMA QuietState ==
  ASSUME TypeOK, OneReader, NEW x \in Clients, Works(x) \/ CloseConnection(x), Quiet(x),
         packets'[x] = <<>>
  PROVE  descriptor'[x].fTCPReadingState = "AWAITING_DOLLAR"
<1>1. packets[x] = <<>> /\ descriptor[x].fTCPReadingState = "AWAITING_DOLLAR"
  BY PacketsStay DEF Quiet
<1>2. NoDescriptor.fTCPReadingState = "AWAITING_DOLLAR"
  BY DEF NoDescriptor
<1>3. CASE \E i \in Interfaces : SendFails(x, i)
  BY <1>1, <1>2, <1>3, SendFailed
<1>4. ~ReadsPacket(x)
  BY <1>1, PacketStep
<1> QED
  BY <1>1, <1>2, <1>3, <1>4, DescriptorLeft DEF readVars

\* The client's own steps keep who reads its socket.
LEMMA RegisteredKept ==
  ASSUME TypeOK, OneReader, NEW x \in Clients, Works(x) \/ CloseConnection(x), Quiet(x),
         Registered(x)
  PROVE  Registered(x)'
<1>1. NoDescriptor.fTCPReadingState = "AWAITING_DOLLAR" /\ NoDescriptor.channels = {}
  BY DEF NoDescriptor
<1>2. NULL \notin Clients
  BY ConnectionAssumption
<1>3. /\ socketHandler[x] = "descriptor" <=> descriptor[x].channels # {}
      /\ descriptor[x].channels # {} => session[x] = "playing"
  BY DEF OneReader
<1>4. failed \subseteq failed'
  BY PacketsStay
<1>5. CASE ReadsPacket(x)
  BY <1>2, <1>5, PacketStep DEF Registered
<1>6. CASE \E i \in Interfaces : SendFails(x, i)
  <2>1. /\ running' = NULL /\ x \in failed'
        /\ \/ descriptor'[x] = NoDescriptor
           \/ /\ descriptor'[x].channels # {}
              /\ descriptor'[x].fTCPReadingState = descriptor[x].fTCPReadingState
    BY <1>6, SendFailed
  <2> QED
    BY <1>1, <1>2, <2>1 DEF Registered
<1>7. socketHandler[x] = "connection" /\ x \notin failed' => packets'[x] = <<>>
  <2>1. CASE \E packet \in Packets : SendPacket(x, packet)
    <3>1. session[x] = "playing"
      BY <2>1 DEF SendPacket
    <3> QED
      BY <1>4, <3>1 DEF Registered
  <2>2. CASE ~ \E packet \in Packets : SendPacket(x, packet)
    <3>1. packets' = packets
      <4>1. CASE ReadsPacket(x) \/ \E i \in Interfaces : SendFails(x, i)
        BY <4>1, PacketStep DEF SendFails, clientVars
      <4>2. CASE ~(ReadsPacket(x) \/ \E i \in Interfaces : SendFails(x, i))
        BY <2>2, <4>2, WorkSteps DEF CloseConnection, SendRequest, Disconnect, SessionTimesOut,
           ReadRequestBytes, PassRequestByte, TakeByte, NeedMore, HandleRequest, clientVars
      <4> QED
        BY <4>1, <4>2
    <3> QED
      BY <1>4, <3>1 DEF Registered
  <2> QED
    BY <2>1, <2>2
<1>8. CASE ~ReadsPacket(x) /\ ~ \E i \in Interfaces : SendFails(x, i)
  <2>1. running' = x => descriptor[x].fTCPReadingState = "AWAITING_DOLLAR"
    BY RunningOutside
  <2>2. CASE /\ UNCHANGED readVars
             /\ session'[x] = session[x] \/ (session'[x] = "setup" /\ session[x] = "none")
    BY <1>4, <1>7, <2>1, <2>2 DEF Registered, readVars
  <2>3. CASE /\ descriptor'[x] = NoDescriptor /\ session'[x] = "none"
             /\ socketHandler'[x] \in {socketHandler[x], "none"}
    BY <1>1, <1>4, <1>7, <2>1, <2>3 DEF Registered
  <2>4. CASE /\ descriptor'[x].channels = Interfaces /\ socketHandler'[x] = "descriptor"
             /\ descriptor'[x].fTCPReadingState = descriptor[x].fTCPReadingState
    <3>1. Interfaces # {}
      BY DEF Interfaces
    <3> QED
      BY <2>1, <2>4, <3>1 DEF Registered
  <2> QED
    BY <1>8, <2>2, <2>3, <2>4, DescriptorLeft
<1> QED
  BY <1>5, <1>6, <1>8

\* So does every step, for every client.
LEMMA QuietKept ==
  ASSUME TypeOK, OneReader, NEW x \in Clients, Works(x) \/ CloseConnection(x), QuietInv
  PROVE  QuietInv'
<1>1. LeavesOthers(x)
  BY OthersLeft
<1>2. \A c \in Clients : packets'[c] = <<>> => packets[c] = <<>>
  BY PacketsStay
<1>3. NULL \notin Clients
  BY ConnectionAssumption
<1>4. ASSUME NEW c \in Clients, packets[c] = <<>>
      PROVE  fNextTCPReadStreamSocketNum'["rtcp"] # c
  <2>1. fNextTCPReadStreamSocketNum["rtcp"] # c
    BY <1>4 DEF QuietInv, Quiet
  <2>2. CASE ReadsPacket(x)
    <3>1. packets[x] # <<>>
      BY <2>2, PacketStep DEF QuietInv
    <3>2. x # c
      BY <1>4, <3>1
    <3> QED
      BY <1>3, <2>1, <2>2, <3>2, SocketSet
  <2>3. CASE UNCHANGED interfaceVars
    BY <2>1, <2>3 DEF interfaceVars
  <2>4. CASE fNextTCPReadStreamSocketNum' = NoSocketNum
    BY <1>3, <2>4 DEF NoSocketNum, Interfaces
  <2> QED
    BY <2>2, <2>3, <2>4, InterfaceLeft
<1>5. ASSUME NEW c \in Clients PROVE Quiet(c)' /\ Registered(c)'
  <2>1. Quiet(c) /\ Registered(c)
    BY DEF QuietInv
  <2>2. CASE c = x
    <3>1. Registered(c)'
      BY <2>1, <2>2, RegisteredKept
    <3>2. ASSUME packets'[x] = <<>>
          PROVE  /\ \A i \in 1..Len(wire'[x]) : wire'[x][i] # Dollar
                 /\ descriptor'[x].fTCPReadingState = "AWAITING_DOLLAR"
                 /\ fNextTCPReadStreamSocketNum'["rtcp"] # x
      <4>1. packets[x] = <<>>
        BY <1>2, <3>2
      <4>2. \A i \in 1..Len(wire'[x]) : wire'[x][i] # Dollar
        BY <2>1, <2>2, <3>2, QuietWire
      <4>3. descriptor'[x].fTCPReadingState = "AWAITING_DOLLAR"
        BY <2>1, <2>2, <3>2, QuietState
      <4> QED
        BY <1>4, <4>1, <4>2, <4>3
    <3> QED
      BY <2>2, <3>1, <3>2 DEF Quiet
  <2>3. CASE c # x
    <3>1. /\ eof'[c] = eof[c] /\ asked'[c] = asked[c] /\ packets'[c] = packets[c]
          /\ session'[c] = session[c]
          /\ socketHandler'[c] = socketHandler[c] /\ descriptor'[c] = descriptor[c]
          /\ (c \in failed' <=> c \in failed)
          /\ running' = c => running = c
          /\ fNextTCPReadStreamSocketNum["rtcp"] # c => wire'[c] = wire[c]
      BY <1>1, <2>3 DEF LeavesOthers
    <3>2. Registered(c)'
      BY <2>1, <3>1 DEF Registered
    <3>3. Quiet(c)'
      <4>1. CASE packets[c] = <<>>
        BY <1>4, <2>1, <3>1, <4>1 DEF Quiet
      <4>2. CASE packets[c] # <<>>
        BY <3>1, <4>2 DEF Quiet
      <4> QED
        BY <4>1, <4>2
    <3> QED
      BY <3>2, <3>3
  <2> QED
    BY <2>2, <2>3
<1>6. NoReportBegun'
  BY NoReportBegunKept
<1> QED
  BY <1>5, <1>6 DEF QuietInv

-----------------------------------------------------------------------------
(* Every client's bytes *)

\* What RequestsInOrder and ReportsAreSent say of one client.
RequestsMatch(h, a) == Len(h) <= Len(a) /\ \A i \in 1..Len(h) : h[i] = a[i]
ReportsMatched(r, p) == \E at \in [1..Len(r) -> 1..Len(p)] : ReportsMatch(r, p, at)

\* Nobody else uses the interface, and no send failed.
Sole(c) == c \notin failed /\ ~SharesInterface(c)

\* Somebody reads the socket, or its buffer.
Alive(c) == socketHandler[c] # "none" \/ running = c

\* What c sent is where its connection, its descriptor and the interface have it.
PlacedOf(c) ==
  Placed(c, asked[c], packets[c], wire[c], eof[c], handled[c], fRequestBuffer[c], descriptor[c],
         reports[c], fNextTCPReadSize, fNextTCPReadStreamSocketNum["rtcp"], fInBuf)

\* As long as somebody reads, the bytes are placed; then the histories agree, and
\* they go on to when nobody does.
Stream(c) ==
  /\ RequestsMatch(handled[c], asked[c])
  /\ ReportsMatched(reports[c], packets[c])
  /\ Alive(c) => PlacedOf(c)

StreamInv == \A c \in Clients : Sole(c) => Stream(c)

\* Whoever's bytes are placed had their requests and reports handled in order.
LEMMA PlacedTells ==
  ASSUME NEW a, NEW p, NEW w, NEW e, NEW c, NEW h, NEW b, NEW d, NEW r, NEW size, NEW num, NEW buf,
         Placed(c, a, p, w, e, h, b, d, r, size, num, buf)
  PROVE  RequestsMatch(h, a) /\ ReportsMatched(r, p)
<1>1. PICK S, Q, R, F, P, got, k :
        Place(c, a, p, w, e, h, b, d, r, size, num, buf, S, Q, R, F, P, got, k)
  BY Zenon DEF Placed
<1>2. RequestsMatch(h, a)
  BY <1>1 DEF Place, InTheBuffer, RequestsMatch
<1>3. ReportsMatched(r, p)
  <2>1. ReportsDone(p, r, d, P, got, k)
    BY <1>1, Zenon DEF Place
  <2>2. PICK at \in [1..Len(r) -> 1..Len(p)] : ReportsMatch(r, p, at)
    BY <2>1, Zenon DEF ReportsDone
  <2> QED
    BY <2>2, Zenon DEF ReportsMatched
<1> QED
  BY <1>2, <1>3

\* Outside of packets the interface does not matter.
LEMMA Outside ==
  ASSUME NEW a, NEW p, NEW w, NEW e, NEW c, NEW h, NEW b, NEW d, NEW r, NEW size, NEW num, NEW buf,
         Placed(c, a, p, w, e, h, b, d, r, size, num, buf),
         d.fTCPReadingState = "AWAITING_DOLLAR",
         NEW d2, d2.fTCPReadingState = "AWAITING_DOLLAR", NEW size2, NEW num2,
         NEW buf2, buf2 \in {buf, <<>>} \/ p = <<>>
  PROVE  Placed(c, a, p, w, e, h, b, d2, r, size2, num2, buf2)
<1>1. PICK S, Q, R, F, P, got, k :
        /\ Laid(a, p, S, Q, R, F, P)
        /\ Place(c, a, p, w, e, h, b, d, r, size, num, buf, S, Q, R, F, P, got, k)
  BY Zenon DEF Placed
<1>2. /\ OnTheWire(w, e, S, got) /\ InTheBuffer(h, a, b, Q, R, F, got)
      /\ AtPacket(p, d, size, P, got, k) /\ AtReport(c, p, w, e, d, num, buf, P, got, k)
      /\ ReportsDone(p, r, d, P, got, k)
  BY <1>1, Zenon DEF Place
<1>3. AtPacket(p, d2, size2, P, got, k)
  BY <1>2 DEF AtPacket
<1>4. AtReport(c, p, w, e, d2, num2, buf2, P, got, k)
  BY <1>2 DEF AtReport, InReport
<1>5. \A j \in 1..Len(p) : Passed(p, d, P, got, k, j) <=> Passed(p, d2, P, got, k, j)
  BY DEF Passed
<1>6. ReportsDone(p, r, d2, P, got, k)
  BY ONLY <1>2, <1>5, ReportsStayDone
<1>7. Place(c, a, p, w, e, h, b, d2, r, size2, num2, buf2, S, Q, R, F, P, got, k)
  BY <1>2, <1>3, <1>4, <1>6, Zenon DEF Place
<1> QED
  BY <1>1, <1>7, Zenon DEF Placed

\* Nothing has been sent.
LEMMA NothingPlaced ==
  ASSUME NEW c, NEW e, NEW d, d.fTCPReadingState = "AWAITING_DOLLAR", NEW size, NEW num, NEW buf
  PROVE  Placed(c, <<>>, <<>>, <<>>, e, <<>>, <<>>, d, <<>>, size, num, buf)
<1>1. PICK F, R : F = [n \in 1..1 |-> 0] /\ R = [x \in 0..0 |-> 0]
  OBVIOUS
<1>2. PICK P : P = [k \in 1..0 |-> 0]
  OBVIOUS
<1>3. Len(<<>>) = 0 /\ <<>> \in Seq(Byte)
  OBVIOUS
<1>4. RequestsLaid(<<>>, <<>>, F)
  BY <1>1, <1>3 DEF RequestsLaid
<1>5. PacketsLaid(<<>>, <<>>, R, P)
  BY <1>2, <1>3 DEF PacketsLaid
<1>6. BytesLaid(<<>>, <<>>, <<>>, R, P)
  BY <1>1, <1>3 DEF BytesLaid
<1>7. Laid(<<>>, <<>>, <<>>, <<>>, R, F, P)
  BY <1>4, <1>5, <1>6 DEF Laid
<1>8. OnTheWire(<<>>, e, <<>>, 0)
  BY <1>3 DEF OnTheWire
<1>9. InTheBuffer(<<>>, <<>>, <<>>, <<>>, R, F, 0)
  BY <1>1, <1>3 DEF InTheBuffer
<1>10. AtPacket(<<>>, d, size, P, 0, 1)
  BY <1>3 DEF AtPacket
<1>11. AtReport(c, <<>>, <<>>, e, d, num, buf, P, 0, 1)
  BY DEF AtReport, InReport
<1>12. ReportsDone(<<>>, <<>>, d, P, 0, 1)
  <2>1. PICK at : at = [i \in 1..0 |-> 0]
    OBVIOUS
  <2>2. at \in [1..Len(<<>>) -> 1..Len(<<>>)]
    BY <1>3, <2>1
  <2>3. ReportsMatch(<<>>, <<>>, at)
    BY <1>3 DEF ReportsMatch
  <2>4. \A j \in 1..Len(<<>>) : (\E i \in 1..Len(<<>>) : at[i] = j)
                             <=> IsReport(<<>>[j]) /\ Passed(<<>>, d, P, 0, 1, j)
    BY <1>3
  <2> QED
    BY <2>2, <2>3, <2>4, Zenon DEF ReportsDone
<1>13. Place(c, <<>>, <<>>, <<>>, e, <<>>, <<>>, d, <<>>, size, num, buf, <<>>, <<>>, R, F, P, 0, 1)
  BY <1>8, <1>9, <1>10, <1>11, <1>12, Zenon DEF Place
<1> QED
  BY <1>7, <1>13, Zenon DEF Placed

\* What is left of the wire.
LEMMA Taken ==
  ASSUME NEW w \in Seq(Byte)
  PROVE  /\ \A n \in 0..Len(w) : LeftOf(w, n, SubSeq(w, n + 1, Len(w)))
         /\ w # <<>> => LeftOf(w, 1, Tail(w)) /\ w[1] = Head(w) /\ w[1] \in Byte
<1>1. PICK l \in Nat : l = Len(w)
  OBVIOUS
<1>2. ASSUME NEW n \in 0..l PROVE LeftOf(w, n, SubSeq(w, n + 1, l))
  <2>1. /\ SubSeq(w, n + 1, l) \in Seq(Byte) /\ Len(SubSeq(w, n + 1, l)) = l - n
        /\ \A i \in 1..(l - n) : SubSeq(w, n + 1, l)[i] = w[n + i]
    BY <1>1, <1>2, SubSeqProperties
  <2> QED
    BY <1>1, <2>1 DEF LeftOf
<1>3. ASSUME w # <<>> PROVE LeftOf(w, 1, Tail(w)) /\ w[1] = Head(w) /\ w[1] \in Byte
  <2>1. Tail(w) = SubSeq(w, 1 + 1, Len(w)) /\ 1 \in 0..l /\ w[1] = Head(w) /\ w[1] \in Byte
    BY <1>1, <1>3
  <2> QED
    BY <1>1, <1>2, <2>1
<1> QED
  BY <1>1, <1>2, <1>3

\* What the lemmas about one client's bytes need.
LEMMA StreamTypes ==
  ASSUME TypeOK, NEW x \in Clients
  PROVE  /\ asked[x] \in Seq(Requests) /\ packets[x] \in Seq(Packets) /\ wire[x] \in Seq(Byte)
         /\ handled[x] \in Seq(Seq(Byte)) /\ fRequestBuffer[x] \in Seq(Byte)
         /\ reports[x] \in Seq(Seq(Byte)) /\ eof[x] \in BOOLEAN
         /\ fNextTCPReadSize["rtcp"] \in Nat /\ fNextTCPReadSize["rtp"] \in Nat
         /\ DOMAIN asked = Clients /\ DOMAIN packets = Clients /\ DOMAIN wire = Clients
         /\ DOMAIN handled = Clients /\ DOMAIN fRequestBuffer = Clients
         /\ DOMAIN reports = Clients /\ DOMAIN eof = Clients /\ DOMAIN descriptor = Clients
         /\ DOMAIN fNextTCPReadSize = Interfaces
         /\ DOMAIN fNextTCPReadStreamSocketNum = Interfaces
         /\ DOMAIN descriptor[x] = {"channels", "fTCPReadingState", "fStreamChannel", "fSizeByte1",
                                    "byteHandler"}
<1>1. fNextTCPReadSize \in [Interfaces -> Nat] /\ "rtcp" \in Interfaces /\ "rtp" \in Interfaces
  BY DEF TypeOK, Interfaces
<1>2. descriptor \in [Clients -> Descriptor]
  BY DescriptorTypes
<1>3. DOMAIN descriptor[x] = {"channels", "fTCPReadingState", "fStreamChannel", "fSizeByte1",
                              "byteHandler"}
  BY <1>2 DEF Descriptor
<1> QED
  BY <1>1, <1>2, <1>3 DEF TypeOK

\* What the client does.
LEMMA RequestStream ==
  ASSUME TypeOK, NEW x \in Clients, NEW q \in Requests, SendRequest(x, q), PlacedOf(x)
  PROVE  PlacedOf(x)'
<1>1. /\ ~eof[x] /\ wire'[x] = wire[x] \o q /\ asked'[x] = Append(asked[x], q)
      /\ UNCHANGED <<eof, packets, handled, fRequestBuffer, descriptor, reports, fNextTCPReadSize,
                     fNextTCPReadStreamSocketNum, fInBuf>>
  BY StreamTypes DEF SendRequest, MaySend, bufferVars, readVars, interfaceVars, historyVars
<1>2. /\ asked[x] \in Seq(Requests) /\ packets[x] \in Seq(Packets) /\ wire[x] \in Seq(Byte)
      /\ handled[x] \in Seq(Seq(Byte)) /\ fRequestBuffer[x] \in Seq(Byte)
  BY StreamTypes
<1>3. Placed(x, asked[x], packets[x], wire[x], eof[x], handled[x], fRequestBuffer[x], descriptor[x],
             reports[x], fNextTCPReadSize, fNextTCPReadStreamSocketNum["rtcp"], fInBuf)
  BY DEF PlacedOf
<1>4. q \in Requests /\ ~eof[x]
  BY <1>1
<1>5. Placed(x, Append(asked[x], q), packets[x], wire[x] \o q, eof[x], handled[x],
             fRequestBuffer[x], descriptor[x], reports[x], fNextTCPReadSize,
             fNextTCPReadStreamSocketNum["rtcp"], fInBuf)
  BY ONLY <1>2, <1>3, <1>4, RequestSent
<1> QED
  BY <1>1, <1>5 DEF PlacedOf

\* It sends a packet; none has begun before its first one.
LEMMA PacketStream ==
  ASSUME TypeOK, NEW x \in Clients, NEW packet \in Packets, SendPacket(x, packet), PlacedOf(x),
         packets[x] = <<>> => fInBuf = <<>>
  PROVE  PlacedOf(x)'
<1>1. /\ ~eof[x] /\ wire'[x] = wire[x] \o Framed(packet) /\ packets'[x] = Append(packets[x], packet)
      /\ UNCHANGED <<eof, asked, handled, fRequestBuffer, descriptor, reports, fNextTCPReadSize,
                     fNextTCPReadStreamSocketNum, fInBuf>>
  BY StreamTypes DEF SendPacket, MaySend, bufferVars, readVars, interfaceVars, historyVars
<1>2. /\ asked[x] \in Seq(Requests) /\ packets[x] \in Seq(Packets) /\ wire[x] \in Seq(Byte)
      /\ reports[x] \in Seq(Seq(Byte))
  BY StreamTypes
<1>3. Placed(x, asked[x], packets[x], wire[x], eof[x], handled[x], fRequestBuffer[x], descriptor[x],
             reports[x], fNextTCPReadSize, fNextTCPReadStreamSocketNum["rtcp"], fInBuf)
  BY DEF PlacedOf
<1>4. packet \in Packets /\ ~eof[x] /\ (packets[x] = <<>> => fInBuf = <<>>)
  BY <1>1
<1>5. Placed(x, asked[x], Append(packets[x], packet), wire[x] \o Framed(packet), eof[x], handled[x],
             fRequestBuffer[x], descriptor[x], reports[x], fNextTCPReadSize,
             fNextTCPReadStreamSocketNum["rtcp"], fInBuf)
  BY ONLY <1>2, <1>3, <1>4, PacketSent
<1> QED
  BY <1>1, <1>5 DEF PlacedOf

\* It goes, and so do bytes on their way.
LEMMA DisconnectStream ==
  ASSUME TypeOK, NEW x \in Clients, Disconnect(x), PlacedOf(x)
  PROVE  PlacedOf(x)'
<1>1. PICK n \in 0..Len(wire[x]) : wire' = [wire EXCEPT ![x] = SubSeq(@, 1, n)]
  BY DEF Disconnect
<1>2. /\ wire'[x] = SubSeq(wire[x], 1, n) /\ eof'[x] = TRUE
      /\ UNCHANGED <<asked, packets, handled, fRequestBuffer, descriptor, reports, fNextTCPReadSize,
                     fNextTCPReadStreamSocketNum, fInBuf>>
  BY <1>1, StreamTypes DEF Disconnect, bufferVars, readVars, interfaceVars, historyVars
<1>3. n \in 0..Len(wire[x]) /\ wire[x] \in Seq(Byte)
  BY StreamTypes
<1>4. Placed(x, asked[x], packets[x], wire[x], eof[x], handled[x], fRequestBuffer[x], descriptor[x],
             reports[x], fNextTCPReadSize, fNextTCPReadStreamSocketNum["rtcp"], fInBuf)
  BY DEF PlacedOf
<1>5. Placed(x, asked[x], packets[x], SubSeq(wire[x], 1, n), TRUE, handled[x],
             fRequestBuffer[x], descriptor[x], reports[x], fNextTCPReadSize,
             fNextTCPReadStreamSocketNum["rtcp"], fInBuf)
  BY ONLY <1>3, <1>4, CutOff
<1> QED
  BY <1>2, <1>5 DEF PlacedOf

\* The connection reads its socket.
LEMMA ReadStream ==
  ASSUME TypeOK, NEW x \in Clients, ReadRequestBytes(x), packets[x] = <<>>, PlacedOf(x)
  PROVE  PlacedOf(x)'
<1>1. PICK n \in 1..fRequestBufferBytesLeft[x] :
        /\ n <= Len(wire[x])
        /\ fRequestBuffer' = [fRequestBuffer EXCEPT ![x] = @ \o SubSeq(wire[x], 1, n)]
        /\ wire' = [wire EXCEPT ![x] = SubSeq(@, n + 1, Len(@))]
  BY DEF ReadRequestBytes
<1>2. /\ asked[x] \in Seq(Requests) /\ wire[x] \in Seq(Byte)
      /\ handled[x] \in Seq(Seq(Byte)) /\ fRequestBuffer[x] \in Seq(Byte)
  BY StreamTypes
<1>3. n \in 0..Len(wire[x])
  BY <1>1, <1>2 DEF TypeOK
<1>4. /\ wire'[x] = SubSeq(wire[x], n + 1, Len(wire[x]))
      /\ fRequestBuffer'[x] = fRequestBuffer[x] \o SubSeq(wire[x], 1, n)
      /\ UNCHANGED <<eof, asked, packets, handled, descriptor, reports, fNextTCPReadSize,
                     fNextTCPReadStreamSocketNum, fInBuf>>
  BY <1>1, StreamTypes DEF ReadRequestBytes, bufferVars, readVars, interfaceVars, historyVars
<1>5. LeftOf(wire[x], n, wire'[x])
  BY <1>2, <1>3, <1>4, Taken
<1>6. /\ Len(fRequestBuffer'[x]) = Len(fRequestBuffer[x]) + n
      /\ \A i \in 1..Len(fRequestBuffer[x]) : fRequestBuffer'[x][i] = fRequestBuffer[x][i]
      /\ \A i \in 1..n : fRequestBuffer'[x][Len(fRequestBuffer[x]) + i] = wire[x][i]
  <2>1. PICK s, b : s = SubSeq(wire[x], 1, n) /\ b = fRequestBuffer[x]
    OBVIOUS
  <2>2. s \in Seq(Byte) /\ b \in Seq(Byte) /\ Len(s) = n /\ \A i \in 1..n : s[i] = wire[x][i]
    BY <1>2, <1>3, <2>1, SubSeqProperties
  <2>3. /\ Len(b \o s) = Len(b) + Len(s)
        /\ \A i \in 1..Len(b) : (b \o s)[i] = b[i]
        /\ \A i \in 1..Len(s) : (b \o s)[Len(b) + i] = s[i]
    BY ONLY <2>2, Behind
  <2> QED
    BY <1>4, <2>1, <2>2, <2>3
<1>7. Placed(x, asked[x], <<>>, wire[x], eof[x], handled[x], fRequestBuffer[x], descriptor[x],
             reports[x], fNextTCPReadSize, fNextTCPReadStreamSocketNum["rtcp"], fInBuf)
  BY DEF PlacedOf
<1>8. Placed(x, asked[x], <<>>, wire'[x], eof[x], handled[x], fRequestBuffer'[x], descriptor[x],
             reports[x], fNextTCPReadSize, fNextTCPReadStreamSocketNum["rtcp"], fInBuf)
  BY ONLY <1>2, <1>3, <1>5, <1>6, <1>7, BytesRead
<1> QED
  BY <1>4, <1>8 DEF PlacedOf

\* The descriptor takes a byte.
LEMMA ByteTaken ==
  ASSUME TypeOK, NEW x \in Clients, TakeByte(x)
  PROVE  /\ wire[x] # <<>> /\ LeftOf(wire[x], 1, wire'[x])
         /\ Head(wire[x]) = wire[x][1] /\ wire[x][1] \in Byte
         /\ UNCHANGED <<eof, asked, packets, handled, reports, fInBuf>>
<1>1. wire[x] # <<>> /\ wire'[x] = Tail(wire[x])
  BY StreamTypes DEF TakeByte
<1> QED
  BY <1>1, StreamTypes, Taken DEF TakeByte, historyVars

\* A request's byte is handed to the connection, which has room for it.
LEMMA PassStream ==
  ASSUME TypeOK, BufferHasRoom, NEW x \in Clients, PassRequestByte(x), PlacedOf(x)
  PROVE  PlacedOf(x)'
<1>1. /\ descriptor[x].fTCPReadingState = "AWAITING_DOLLAR" /\ wire[x][1] # Dollar
      /\ UNCHANGED <<eof, asked, packets, handled, reports, fInBuf, descriptor, fNextTCPReadSize,
                     fNextTCPReadStreamSocketNum>>
      /\ wire[x] # <<>> /\ LeftOf(wire[x], 1, wire'[x])
  BY ByteTaken DEF PassRequestByte, InState
<1>2. /\ asked[x] \in Seq(Requests) /\ packets[x] \in Seq(Packets) /\ wire[x] \in Seq(Byte)
      /\ handled[x] \in Seq(Seq(Byte)) /\ fRequestBuffer[x] \in Seq(Byte)
  BY StreamTypes
<1>3. Placed(x, asked[x], packets[x], wire[x], eof[x], handled[x], fRequestBuffer[x], descriptor[x],
             reports[x], fNextTCPReadSize, fNextTCPReadStreamSocketNum["rtcp"], fInBuf)
  BY DEF PlacedOf
<1>4. /\ wire[x][1] \notin {254, 255}
      /\ Placed(x, asked[x], packets[x], wire'[x], eof[x], handled[x],
                Append(fRequestBuffer[x], wire[x][1]), descriptor[x],
                reports[x], fNextTCPReadSize, fNextTCPReadStreamSocketNum["rtcp"], fInBuf)
  BY ONLY <1>1, <1>2, <1>3, RequestByteRead
<1>5. fRequestBuffer'[x] = Append(fRequestBuffer[x], wire[x][1])
  <2>1. running # x
    BY ConnectionAssumption DEF PassRequestByte, InState
  <2>2. fRequestBufferBytesLeft[x] # 0
    BY <2>1 DEF BufferHasRoom, TypeOK
  <2>3. Head(wire[x]) = wire[x][1]
    BY ByteTaken DEF PassRequestByte
  <2> QED
    BY <1>4, <2>2, <2>3, StreamTypes DEF PassRequestByte
<1> QED
  BY <1>1, <1>4, <1>5 DEF PlacedOf

\* The descriptor reads a packet's header.
LEMMA DollarStream ==
  ASSUME TypeOK, NEW x \in Clients, ReadDollar(x), PlacedOf(x)
  PROVE  PlacedOf(x)'
<1>1. /\ descriptor[x].fTCPReadingState = "AWAITING_DOLLAR" /\ wire[x][1] = Dollar
      /\ wire[x] # <<>> /\ LeftOf(wire[x], 1, wire'[x])
      /\ descriptor'[x].fTCPReadingState = "AWAITING_STREAM_CHANNEL_ID"
      /\ UNCHANGED <<eof, asked, packets, handled, reports, fInBuf, fRequestBuffer,
                     fNextTCPReadSize,
                     fNextTCPReadStreamSocketNum>>
  BY ByteTaken, StreamTypes DEF ReadDollar, InState, EnterState
<1>2. asked[x] \in Seq(Requests) /\ packets[x] \in Seq(Packets) /\ wire[x] \in Seq(Byte)
  BY StreamTypes
<1>3. Placed(x, asked[x], packets[x], wire[x], eof[x], handled[x], fRequestBuffer[x], descriptor[x],
             reports[x], fNextTCPReadSize, fNextTCPReadStreamSocketNum["rtcp"], fInBuf)
  BY DEF PlacedOf
<1>4. Placed(x, asked[x], packets[x], wire'[x], eof[x], handled[x], fRequestBuffer[x],
             descriptor'[x], reports[x], fNextTCPReadSize, fNextTCPReadStreamSocketNum["rtcp"],
             fInBuf)
  BY ONLY <1>1, <1>2, <1>3, DollarRead
<1> QED
  BY <1>1, <1>4 DEF PlacedOf

\* With both interfaces registered, no channel is unknown.
LEMMA ChannelStream ==
  ASSUME TypeOK, NEW x \in Clients, ReadChannel(x), descriptor[x].channels = Interfaces, PlacedOf(x)
  PROVE  PlacedOf(x)'
<1>1. /\ descriptor[x].fTCPReadingState = "AWAITING_STREAM_CHANNEL_ID"
      /\ wire[x] # <<>> /\ LeftOf(wire[x], 1, wire'[x]) /\ Head(wire[x]) = wire[x][1]
      /\ UNCHANGED <<eof, asked, packets, handled, reports, fInBuf, fRequestBuffer,
                     fNextTCPReadSize,
                     fNextTCPReadStreamSocketNum>>
  BY ByteTaken DEF ReadChannel, InState
<1>2. asked[x] \in Seq(Requests) /\ packets[x] \in Seq(Packets) /\ wire[x] \in Seq(Byte)
  BY StreamTypes
<1>3. Placed(x, asked[x], packets[x], wire[x], eof[x], handled[x], fRequestBuffer[x], descriptor[x],
             reports[x], fNextTCPReadSize, fNextTCPReadStreamSocketNum["rtcp"], fInBuf)
  BY DEF PlacedOf
<1>4. /\ \E i \in Interfaces : wire[x][1] = ChannelId(i)
      /\ \A d2 : /\ d2.fTCPReadingState = "AWAITING_SIZE1"
                 /\ d2.fStreamChannel \in Interfaces /\ wire[x][1] = ChannelId(d2.fStreamChannel)
                 => Placed(x, asked[x], packets[x], wire'[x], eof[x], handled[x],
                           fRequestBuffer[x], d2, reports[x], fNextTCPReadSize,
                           fNextTCPReadStreamSocketNum["rtcp"], fInBuf)
  BY ONLY <1>1, <1>2, <1>3, ChannelRead
<1>5. PICK i \in Interfaces :
        /\ wire[x][1] = ChannelId(i)
        /\ descriptor' = [descriptor EXCEPT ![x].fStreamChannel = i,
                                            ![x].fTCPReadingState = "AWAITING_SIZE1"]
  BY <1>1, <1>4 DEF ReadChannel
<1>6. /\ descriptor'[x].fTCPReadingState = "AWAITING_SIZE1"
      /\ descriptor'[x].fStreamChannel \in Interfaces
      /\ wire[x][1] = ChannelId(descriptor'[x].fStreamChannel)
  BY <1>5, StreamTypes
<1>7. Placed(x, asked[x], packets[x], wire'[x], eof[x], handled[x],
             fRequestBuffer[x], descriptor'[x], reports[x], fNextTCPReadSize,
             fNextTCPReadStreamSocketNum["rtcp"], fInBuf)
  BY ONLY <1>4, <1>6
<1> QED
  BY <1>1, <1>7 DEF PlacedOf

\* The first byte of the size is kept in the descriptor.
LEMMA Size1Stream ==
  ASSUME TypeOK, NEW x \in Clients, ReadSize1(x), PlacedOf(x)
  PROVE  PlacedOf(x)'
<1>1. /\ descriptor[x].fTCPReadingState = "AWAITING_SIZE1"
      /\ wire[x] # <<>> /\ LeftOf(wire[x], 1, wire'[x])
      /\ descriptor'[x].fTCPReadingState = "AWAITING_SIZE2"
      /\ descriptor'[x].fStreamChannel = descriptor[x].fStreamChannel
      /\ descriptor'[x].fSizeByte1 = wire[x][1]
      /\ UNCHANGED <<eof, asked, packets, handled, reports, fInBuf, fRequestBuffer,
                     fNextTCPReadSize,
                     fNextTCPReadStreamSocketNum>>
  BY ByteTaken, StreamTypes DEF ReadSize1, InState
<1>2. asked[x] \in Seq(Requests) /\ packets[x] \in Seq(Packets) /\ wire[x] \in Seq(Byte)
  BY StreamTypes
<1>3. Placed(x, asked[x], packets[x], wire[x], eof[x], handled[x], fRequestBuffer[x], descriptor[x],
             reports[x], fNextTCPReadSize, fNextTCPReadStreamSocketNum["rtcp"], fInBuf)
  BY DEF PlacedOf
<1>4. Placed(x, asked[x], packets[x], wire'[x], eof[x], handled[x], fRequestBuffer[x],
             descriptor'[x], reports[x], fNextTCPReadSize, fNextTCPReadStreamSocketNum["rtcp"],
             fInBuf)
  BY ONLY <1>1, <1>2, <1>3, Size1Read
<1> QED
  BY <1>1, <1>4 DEF PlacedOf

\* From the second byte on the interface knows what to read.
LEMMA Size2Stream ==
  ASSUME TypeOK, NEW x \in Clients, ReadSize2(x), descriptor[x].channels = Interfaces, PlacedOf(x)
  PROVE  PlacedOf(x)'
<1>1. /\ descriptor[x].fTCPReadingState = "AWAITING_SIZE2"
      /\ wire[x] # <<>> /\ LeftOf(wire[x], 1, wire'[x]) /\ Head(wire[x]) = wire[x][1]
      /\ descriptor'[x].fTCPReadingState = "AWAITING_PACKET_DATA"
      /\ descriptor'[x].fStreamChannel = descriptor[x].fStreamChannel
      /\ UNCHANGED <<eof, asked, packets, handled, reports, fInBuf, fRequestBuffer>>
  BY ByteTaken, StreamTypes DEF ReadSize2, InState, EnterState
<1>2. asked[x] \in Seq(Requests) /\ packets[x] \in Seq(Packets) /\ wire[x] \in Seq(Byte)
  BY StreamTypes
<1>3. Placed(x, asked[x], packets[x], wire[x], eof[x], handled[x], fRequestBuffer[x], descriptor[x],
             reports[x], fNextTCPReadSize, fNextTCPReadStreamSocketNum["rtcp"], fInBuf)
  BY DEF PlacedOf
<1>4. PICK i \in Interfaces : i = descriptor[x].fStreamChannel
  BY DescriptorTypes
<1>5. /\ fNextTCPReadSize' =
           [fNextTCPReadSize EXCEPT ![i] = 256 * descriptor[x].fSizeByte1 + wire[x][1]]
      /\ fNextTCPReadStreamSocketNum' = [fNextTCPReadStreamSocketNum EXCEPT ![i] = x]
  BY <1>1, <1>4 DEF ReadSize2
<1>6. /\ fNextTCPReadSize'[descriptor[x].fStreamChannel]
           = 256 * descriptor[x].fSizeByte1 + wire[x][1]
      /\ descriptor[x].fStreamChannel = "rtcp" => fNextTCPReadStreamSocketNum'["rtcp"] = x
  BY <1>4, <1>5, StreamTypes
<1>7. PICK d, d2, size2, num2 :
        /\ d = descriptor[x] /\ d2 = descriptor'[x]
        /\ size2 = fNextTCPReadSize' /\ num2 = fNextTCPReadStreamSocketNum'["rtcp"]
  OBVIOUS
<1>8. /\ d.fTCPReadingState = "AWAITING_SIZE2" /\ d2.fTCPReadingState = "AWAITING_PACKET_DATA"
      /\ d2.fStreamChannel = d.fStreamChannel
      /\ size2[d.fStreamChannel] = 256 * d.fSizeByte1 + wire[x][1]
      /\ d.fStreamChannel = "rtcp" => num2 = x
      /\ wire[x] # <<>> /\ LeftOf(wire[x], 1, wire'[x])
  BY <1>1, <1>6, <1>7
<1>9. Placed(x, asked[x], packets[x], wire[x], eof[x], handled[x], fRequestBuffer[x], d,
             reports[x], fNextTCPReadSize, fNextTCPReadStreamSocketNum["rtcp"], fInBuf)
  BY <1>3, <1>7
<1>10. Placed(x, asked[x], packets[x], wire'[x], eof[x], handled[x], fRequestBuffer[x], d2,
              reports[x], size2, num2, fInBuf)
  BY ONLY <1>2, <1>8, <1>9, Size2Read
<1> QED
  BY <1>1, <1>7, <1>10 DEF PlacedOf

\* It reads, or skips, the packet's data.
LEMMA SkipStream ==
  ASSUME TypeOK, NEW x \in Clients, SkipByte(x), PlacedOf(x)
  PROVE  PlacedOf(x)'
<1>1. /\ descriptor[x].fTCPReadingState = "AWAITING_PACKET_DATA"
      /\ descriptor[x].fStreamChannel = "rtp"
      /\ wire[x] # <<>> /\ LeftOf(wire[x], 1, wire'[x])
      /\ fNextTCPReadSize["rtp"] \in Nat /\ fNextTCPReadSize["rtp"] > 0
      /\ fNextTCPReadSize'["rtp"] = fNextTCPReadSize["rtp"] - 1
      /\ UNCHANGED <<eof, asked, packets, handled, reports, fInBuf, fRequestBuffer, descriptor,
                     fNextTCPReadStreamSocketNum>>
  BY ByteTaken, StreamTypes DEF SkipByte, InState, Interfaces
<1>2. asked[x] \in Seq(Requests) /\ packets[x] \in Seq(Packets) /\ wire[x] \in Seq(Byte)
  BY StreamTypes
<1>3. Placed(x, asked[x], packets[x], wire[x], eof[x], handled[x], fRequestBuffer[x], descriptor[x],
             reports[x], fNextTCPReadSize, fNextTCPReadStreamSocketNum["rtcp"], fInBuf)
  BY DEF PlacedOf
<1>4. Placed(x, asked[x], packets[x], wire'[x], eof[x], handled[x], fRequestBuffer[x],
             descriptor[x], reports[x], fNextTCPReadSize', fNextTCPReadStreamSocketNum["rtcp"],
             fInBuf)
  BY ONLY <1>1, <1>2, <1>3, ByteSkipped
<1> QED
  BY <1>1, <1>4 DEF PlacedOf

\* The packet is over when nothing is left to be read.
LEMMA EndStream ==
  ASSUME TypeOK, NEW x \in Clients, EndOfPacket(x), descriptor[x].channels = Interfaces, PlacedOf(x)
  PROVE  PlacedOf(x)'
<1>1. /\ descriptor[x].fTCPReadingState = "AWAITING_PACKET_DATA"
      /\ fNextTCPReadSize[descriptor[x].fStreamChannel] = 0
      /\ descriptor'[x].fTCPReadingState = "AWAITING_DOLLAR"
      /\ UNCHANGED <<wire, eof, asked, packets, handled, reports, fRequestBuffer, interfaceVars>>
  BY StreamTypes, DescriptorTypes DEF EndOfPacket, InState, AllRead, EnterState, clientVars,
     bufferVars, historyVars
<1>2. asked[x] \in Seq(Requests) /\ packets[x] \in Seq(Packets)
  BY StreamTypes
<1>3. Placed(x, asked[x], packets[x], wire[x], eof[x], handled[x], fRequestBuffer[x], descriptor[x],
             reports[x], fNextTCPReadSize, fNextTCPReadStreamSocketNum["rtcp"], fInBuf)
  BY DEF PlacedOf
<1>4. Placed(x, asked[x], packets[x], wire[x], eof[x], handled[x], fRequestBuffer[x],
             descriptor'[x], reports[x], fNextTCPReadSize, fNextTCPReadStreamSocketNum["rtcp"],
             fInBuf)
  BY ONLY <1>1, <1>2, <1>3, PacketEnds
<1> QED
  BY <1>1, <1>4 DEF PlacedOf, interfaceVars

\* The rest of a report comes in: it is the client's own.
LEMMA ReportStream ==
  ASSUME TypeOK, NEW x \in Clients, ReadReport(x),
         fNextTCPReadStreamSocketNum["rtcp"] \in {x, NULL}, PlacedOf(x)
  PROVE  PlacedOf(x)'
<1>1. /\ descriptor[x].fTCPReadingState = "AWAITING_PACKET_DATA"
      /\ descriptor[x].fStreamChannel = "rtcp" /\ fNextTCPReadStreamSocketNum["rtcp"] = x
      /\ fInBuf' = <<>> /\ fNextTCPReadSize' = [fNextTCPReadSize EXCEPT !["rtcp"] = 0]
      /\ UNCHANGED <<eof, asked, packets, handled, fRequestBuffer, descriptor>>
  BY DEF ReadReport, ReadsReport, InState, bufferVars, readVars
<1>2. PICK n \in 1..Len(wire[x]) :
        /\ n = fNextTCPReadSize["rtcp"]
        /\ reports' = [reports EXCEPT ![x] = Append(@, fInBuf \o SubSeq(wire[x], 1, n))]
        /\ wire' = [wire EXCEPT ![x] = SubSeq(@, n + 1, Len(@))]
  BY <1>1 DEF ReadReport, ReportIsRead
<1>3. /\ asked[x] \in Seq(Requests) /\ packets[x] \in Seq(Packets) /\ wire[x] \in Seq(Byte)
      /\ reports[x] \in Seq(Seq(Byte))
  BY StreamTypes
<1>4. /\ n \in 0..Len(wire[x]) /\ n > 0 /\ n = fNextTCPReadSize["rtcp"] /\ wire[x] # <<>>
      /\ wire'[x] = SubSeq(wire[x], n + 1, Len(wire[x]))
      /\ reports'[x] = Append(reports[x], fInBuf \o SubSeq(wire[x], 1, n))
      /\ fNextTCPReadSize'["rtcp"] = 0
  <2>1. n \in 0..Len(wire[x]) /\ n > 0 /\ wire[x] # <<>>
    BY <1>2, <1>3
  <2> QED
    BY <1>1, <1>2, <2>1, StreamTypes DEF Interfaces
<1>5. LeftOf(wire[x], n, wire'[x])
  BY <1>3, <1>4, Taken
<1>6. Placed(x, asked[x], packets[x], wire[x], eof[x], handled[x], fRequestBuffer[x], descriptor[x],
             reports[x], fNextTCPReadSize, fNextTCPReadStreamSocketNum["rtcp"], fInBuf)
  BY DEF PlacedOf
<1>7. /\ descriptor[x].fTCPReadingState = "AWAITING_PACKET_DATA"
      /\ descriptor[x].fStreamChannel = "rtcp"
  BY <1>1
<1>8. Placed(x, asked[x], packets[x], wire'[x], eof[x], handled[x], fRequestBuffer[x],
             descriptor[x], Append(reports[x], fInBuf \o SubSeq(wire[x], 1, n)),
             fNextTCPReadSize', fNextTCPReadStreamSocketNum'["rtcp"], <<>>)
  BY ONLY <1>3, <1>4, <1>5, <1>6, <1>7, ReportRead
<1> QED
  BY <1>1, <1>4, <1>8 DEF PlacedOf

\* Part of a report comes in.
LEMMA PartStream ==
  ASSUME TypeOK, NEW x \in Clients, ReadPartOfReport(x),
         fNextTCPReadStreamSocketNum["rtcp"] \in {x, NULL}, PlacedOf(x)
  PROVE  PlacedOf(x)'
<1>1. /\ descriptor[x].fTCPReadingState = "AWAITING_PACKET_DATA"
      /\ descriptor[x].fStreamChannel = "rtcp" /\ fNextTCPReadStreamSocketNum["rtcp"] = x
      /\ UNCHANGED <<eof, asked, packets, handled, reports, fRequestBuffer, descriptor,
                     fNextTCPReadStreamSocketNum>>
  BY DEF ReadPartOfReport, ReadsReport, InState, bufferVars, readVars, historyVars
<1>2. PICK n \in 1..Len(wire[x]) :
        /\ n <= fNextTCPReadSize["rtcp"] /\ n # fNextTCPReadSize["rtcp"]
        /\ fInBuf' = fInBuf \o SubSeq(wire[x], 1, n)
        /\ wire' = [wire EXCEPT ![x] = SubSeq(@, n + 1, Len(@))]
        /\ fNextTCPReadSize' = [fNextTCPReadSize EXCEPT !["rtcp"] = @ - n]
  BY <1>1 DEF ReadPartOfReport, ReportIsRead, Gets
<1>3. /\ asked[x] \in Seq(Requests) /\ packets[x] \in Seq(Packets) /\ wire[x] \in Seq(Byte)
      /\ fNextTCPReadSize["rtcp"] \in Nat
  BY StreamTypes
<1>4. /\ n \in 0..Len(wire[x]) /\ n < fNextTCPReadSize["rtcp"] /\ wire[x] # <<>>
      /\ wire'[x] = SubSeq(wire[x], n + 1, Len(wire[x]))
      /\ fNextTCPReadSize'["rtcp"] = fNextTCPReadSize["rtcp"] - n
  <2>1. n \in 0..Len(wire[x]) /\ n < fNextTCPReadSize["rtcp"] /\ wire[x] # <<>>
    BY <1>2, <1>3
  <2> QED
    BY <1>1, <1>2, <2>1, StreamTypes DEF Interfaces
<1>5. LeftOf(wire[x], n, wire'[x])
  BY <1>3, <1>4, Taken
<1>6. Placed(x, asked[x], packets[x], wire[x], eof[x], handled[x], fRequestBuffer[x], descriptor[x],
             reports[x], fNextTCPReadSize, fNextTCPReadStreamSocketNum["rtcp"], fInBuf)
  BY DEF PlacedOf
<1>7. /\ descriptor[x].fTCPReadingState = "AWAITING_PACKET_DATA"
      /\ descriptor[x].fStreamChannel = "rtcp"
  BY <1>1
<1>8. Placed(x, asked[x], packets[x], wire'[x], eof[x], handled[x], fRequestBuffer[x],
             descriptor[x], reports[x], fNextTCPReadSize',
             fNextTCPReadStreamSocketNum["rtcp"], fInBuf \o SubSeq(wire[x], 1, n))
  BY ONLY <1>3, <1>4, <1>5, <1>6, <1>7, PartRead
<1> QED
  BY <1>1, <1>2, <1>8 DEF PlacedOf

\* The socket ends inside a report.
LEMMA BreakStream ==
  ASSUME TypeOK, NEW x \in Clients, ReportBreaksOff(x),
         fNextTCPReadStreamSocketNum["rtcp"] \in {x, NULL}, PlacedOf(x)
  PROVE  PlacedOf(x)'
<1>1. /\ descriptor[x].fTCPReadingState = "AWAITING_PACKET_DATA"
      /\ descriptor[x].fStreamChannel = "rtcp" /\ fNextTCPReadStreamSocketNum["rtcp"] = x
      /\ fInBuf' = <<>>
      /\ UNCHANGED <<eof, asked, packets, handled, reports, fRequestBuffer, descriptor>>
  BY DEF ReportBreaksOff, ReadsReport, InState, bufferVars, readVars, historyVars
<1>2. /\ asked[x] \in Seq(Requests) /\ packets[x] \in Seq(Packets) /\ wire[x] \in Seq(Byte)
      /\ fNextTCPReadSize["rtcp"] \in Nat
  BY StreamTypes
<1>3. PICK n \in Nat : n = Len(wire[x])
  BY <1>2
<1>4. /\ n < fNextTCPReadSize["rtcp"] /\ eof[x] = TRUE
      /\ wire'[x] = <<>> /\ fNextTCPReadSize'["rtcp"] = fNextTCPReadSize["rtcp"] - n
  <2>1. n <= fNextTCPReadSize["rtcp"] /\ n # fNextTCPReadSize["rtcp"] /\ eof[x]
    BY <1>1, <1>3 DEF ReportBreaksOff, ReportIsRead, Gets
  <2>2. wire'[x] = <<>> /\ fNextTCPReadSize'["rtcp"] = fNextTCPReadSize["rtcp"] - n
    BY <1>1, <1>3, StreamTypes DEF ReportBreaksOff, Interfaces
  <2> QED
    BY <1>2, <2>1, <2>2, StreamTypes
<1>5. Placed(x, asked[x], packets[x], wire[x], TRUE, handled[x], fRequestBuffer[x], descriptor[x],
             reports[x], fNextTCPReadSize, fNextTCPReadStreamSocketNum["rtcp"], fInBuf)
  BY <1>4 DEF PlacedOf
<1>6. /\ descriptor[x].fTCPReadingState = "AWAITING_PACKET_DATA"
      /\ descriptor[x].fStreamChannel = "rtcp"
  BY <1>1
<1>7. Placed(x, asked[x], packets[x], <<>>, TRUE, handled[x], fRequestBuffer[x],
             descriptor[x], reports[x], fNextTCPReadSize', fNextTCPReadStreamSocketNum'["rtcp"],
             <<>>)
  BY ONLY <1>2, <1>3, <1>4, <1>5, <1>6, BrokenOff
<1> QED
  BY <1>1, <1>4, <1>7 DEF PlacedOf

\* What the scan takes for the end of a header is one, and the first.
LEMMA ScannedMessage ==
  ASSUME IInv, NEW x \in Clients, running = x, NEW end \in LineEnds(x), IsEndOfMsg(x, end),
         RequestSize(x, end) <= Len(fRequestBuffer[x])
  PROVE  BeginsWithMessage(fRequestBuffer[x], end - 2, RequestSize(x, end))
<1>1. PICK b : b = fRequestBuffer[x]
  OBVIOUS
<1>2. b \in Seq(Byte) /\ fLastCRLF[x] \in Int
  BY <1>1 DEF IInv, TypeOK
<1>3. OnLineEnd(b, fLastCRLF[x]) /\ NotBehind(b, fLastCRLF[x])
  BY <1>1 DEF IInv, ScanInv
<1>4. /\ \A i \in EmptyLineEnds(x) : i - 2 \in EmptyLines(b)
      /\ \A e \in EmptyLines(b) : e + 2 \in EmptyLineEnds(x)
  BY <1>1, <1>2, <1>3, ScanFindsEmptyLines
<1>5. end \in EmptyLineEnds(x) /\ \A j \in EmptyLineEnds(x) : end <= j
  BY DEF IsEndOfMsg
<1>6. PICK y : y = end - 2
  OBVIOUS
<1>7. end \in Int /\ y \in EmptyLines(b) /\ y \in Int
  BY <1>1, <1>2, <1>4, <1>5, <1>6 DEF LineEnds, EmptyLines
<1>8. \A e \in EmptyLines(b) : y <= e
  <2>1. ASSUME NEW e \in EmptyLines(b) PROVE y <= e
    <3>1. e \in Int /\ end <= e + 2
      BY <1>2, <1>4, <1>5, <2>1 DEF EmptyLines
    <3> QED
      BY ONLY <1>6, <1>7, <3>1
  <2> QED
    BY <2>1
<1>9. end - 1 = y + 1 /\ end + 1 = y + 3
  BY <1>6, <1>7
<1>10. RequestSize(x, end) = y + 3 + ContentLength(SubSeq(b, 1, y + 1))
  BY <1>1, <1>9 DEF RequestSize
<1> QED
  BY <1>1, <1>6, <1>7, <1>8, <1>10 DEF BeginsWithMessage

\* A request is handled, and what follows it stays.
LEMMA HandleStream ==
  ASSUME IInv, NEW x \in Clients, Registered(x), HandleRequest(x), PlacedOf(x)
  PROVE  PlacedOf(x)'
<1>1. PICK end \in LineEnds(x) :
        /\ IsEndOfMsg(x, end) /\ RequestSize(x, end) <= Len(fRequestBuffer[x])
        /\ handled' = [handled EXCEPT
                         ![x] = Append(@, SubSeq(fRequestBuffer[x], 1, RequestSize(x, end)))]
        /\ KeepRest(x, RequestSize(x, end))
  BY DEF HandleRequest
<1>2. TypeOK /\ OneReader /\ running = x
  BY DEF HandleRequest, IInv
<1>3. PICK m, y : m = RequestSize(x, end) /\ y = end - 2
  OBVIOUS
<1>4. BeginsWithMessage(fRequestBuffer[x], y, m)
  BY <1>1, <1>2, <1>3, ScannedMessage
<1>5. /\ asked[x] \in Seq(Requests) /\ packets[x] \in Seq(Packets) /\ wire[x] \in Seq(Byte)
      /\ handled[x] \in Seq(Seq(Byte)) /\ fRequestBuffer[x] \in Seq(Byte)
  BY <1>2, StreamTypes
<1>6. Placed(x, asked[x], packets[x], wire[x], eof[x], handled[x], fRequestBuffer[x], descriptor[x],
             reports[x], fNextTCPReadSize, fNextTCPReadStreamSocketNum["rtcp"], fInBuf)
  BY DEF PlacedOf
<1>7. Placed(x, asked[x], packets[x], wire[x], eof[x],
             Append(handled[x], SubSeq(fRequestBuffer[x], 1, m)),
             SubSeq(fRequestBuffer[x], m + 1, Len(fRequestBuffer[x])), descriptor[x],
             reports[x], fNextTCPReadSize, fNextTCPReadStreamSocketNum["rtcp"], fInBuf)
  BY ONLY <1>4, <1>5, <1>6, RequestHandled
<1>8. /\ handled'[x] = Append(handled[x], SubSeq(fRequestBuffer[x], 1, m))
      /\ fRequestBuffer'[x] = SubSeq(fRequestBuffer[x], m + 1, Len(fRequestBuffer[x]))
      /\ UNCHANGED <<wire, eof, asked, packets, reports>>
  BY <1>1, <1>2, <1>3, StreamTypes DEF KeepRest, HandleRequest, clientVars
<1>9. descriptor[x].fTCPReadingState = "AWAITING_DOLLAR"
  BY <1>2 DEF Registered
<1>10. descriptor'[x].fTCPReadingState = "AWAITING_DOLLAR"
  <2>1. NoDescriptor.fTCPReadingState = "AWAITING_DOLLAR"
    BY DEF NoDescriptor
  <2>2. PICK command : HandleCommand(x, command)
    BY DEF HandleRequest
  <2>3. CASE Setup(x) \/ UNCHANGED <<session, readVars, interfaceVars>>
    BY <1>9, <2>3 DEF Setup, readVars
  <2>4. CASE Play(x)
    BY <1>2, <1>9, <2>4, StreamTypes DEF Play, StartPlaying
  <2>5. CASE TearDown(x)
    BY <1>2, <2>1, <2>5, StreamTypes DEF TearDown, EndPlaying
  <2> QED
    BY <2>2, <2>3, <2>4, <2>5 DEF HandleCommand
<1>11. fInBuf' \in {fInBuf, <<>>}
  <2>1. PICK command : HandleCommand(x, command)
    BY DEF HandleRequest
  <2> QED
    BY <2>1 DEF HandleCommand, Setup, Play, TearDown, EndSession, interfaceVars
<1>12. Placed(x, asked[x], packets[x], wire[x], eof[x], handled'[x], fRequestBuffer'[x],
              descriptor[x], reports[x], fNextTCPReadSize, fNextTCPReadStreamSocketNum["rtcp"],
              fInBuf)
  BY <1>7, <1>8
<1>13. PICK num2 : num2 = fNextTCPReadStreamSocketNum'["rtcp"]
  OBVIOUS
<1>14. Placed(x, asked[x], packets[x], wire[x], eof[x], handled'[x], fRequestBuffer'[x],
              descriptor'[x], reports[x], fNextTCPReadSize', num2, fInBuf')
  BY ONLY <1>9, <1>10, <1>11, <1>12, Outside
<1> QED
  BY <1>8, <1>13, <1>14 DEF PlacedOf

\* A session ends: either somebody else goes on reading the socket, or nobody.
LEMMA TimeOutStream ==
  ASSUME IInv, NEW x \in Clients, Registered(x), SessionTimesOut(x), Alive(x)', PlacedOf(x)
  PROVE  PlacedOf(x)'
<1>1. /\ UNCHANGED <<wire, eof, asked, packets, reports, handled, fRequestBuffer>>
      /\ fInBuf' \in {fInBuf, <<>>} /\ TypeOK
  BY DEF SessionTimesOut, EndSession, clientVars, bufferVars, historyVars, interfaceVars, IInv
<1>2. descriptor[x].channels = {}
  <2>1. DOMAIN socketHandler = Clients /\ NULL \notin Clients
    BY <1>1, ConnectionAssumption DEF TypeOK
  <2>2. running' # x
    BY <2>1 DEF SessionTimesOut, runVars
  <2> QED
    BY <2>1, <2>2 DEF Alive, SessionTimesOut, EndPlaying, ReaderAfter
<1>3. descriptor[x].fTCPReadingState = "AWAITING_DOLLAR"
  BY <1>2 DEF Registered
<1>4. descriptor'[x].fTCPReadingState = "AWAITING_DOLLAR"
  BY <1>1, StreamTypes DEF SessionTimesOut, EndPlaying, NoDescriptor
<1>5. Placed(x, asked[x], packets[x], wire[x], eof[x], handled[x], fRequestBuffer[x], descriptor[x],
             reports[x], fNextTCPReadSize, fNextTCPReadStreamSocketNum["rtcp"], fInBuf)
  BY DEF PlacedOf
<1>6. PICK num2 : num2 = fNextTCPReadStreamSocketNum'["rtcp"]
  OBVIOUS
<1>7. fInBuf' \in {fInBuf, <<>>}
  BY <1>1
<1>8. Placed(x, asked[x], packets[x], wire[x], eof[x], handled[x], fRequestBuffer[x],
             descriptor'[x], reports[x], fNextTCPReadSize', num2, fInBuf')
  BY ONLY <1>3, <1>4, <1>5, <1>7, Outside
<1> QED
  BY <1>1, <1>6, <1>8 DEF PlacedOf

\* A packet's bytes are read.
LEMMA PacketBytesStream ==
  ASSUME IInv, QuietInv, NEW x \in Clients, ReadsPacket(x), Sole(x), PlacedOf(x)
  PROVE  PlacedOf(x)'
<1>1. TypeOK /\ OneReader /\ Quiet(x) /\ Registered(x)
  BY DEF IInv, QuietInv
<1>2. packets[x] # <<>> /\ descriptor[x].channels # {}
  BY <1>1, PacketStep
<1>3. descriptor[x].channels = Interfaces
  BY <1>1, <1>2 DEF Registered, Sole
<1>4. fNextTCPReadStreamSocketNum["rtcp"] \in {x, NULL}
  <2>1. fNextTCPReadStreamSocketNum["rtcp"] \in Clients \cup {NULL}
    BY <1>1 DEF TypeOK, Interfaces
  <2>2. \A d \in Clients \ {x} : packets[d] = <<>>
    BY <1>2 DEF Sole, SharesInterface
  <2>3. \A d \in Clients \ {x} : fNextTCPReadStreamSocketNum["rtcp"] # d
    BY <2>2 DEF QuietInv, Quiet
  <2> QED
    BY <2>1, <2>3
<1>5. CASE ReadDollar(x) \/ ReadChannel(x) \/ ReadSize1(x) \/ ReadSize2(x)
  BY <1>1, <1>3, <1>5, DollarStream, ChannelStream, Size1Stream, Size2Stream
<1>6. CASE SkipByte(x) \/ EndOfPacket(x)
  BY <1>1, <1>3, <1>6, SkipStream, EndStream
<1>7. CASE ReadReport(x) \/ ReadPartOfReport(x) \/ ReportBreaksOff(x)
  BY <1>1, <1>4, <1>7, ReportStream, PartStream, BreakStream
<1> QED
  BY <1>5, <1>6, <1>7 DEF ReadsPacket

\* A step of a client that somebody reads from.
LEMMA OwnPlaced ==
  ASSUME IInv, QuietInv, NEW x \in Clients, Works(x), Sole(x), Sole(x)', Alive(x)', PlacedOf(x)
  PROVE  PlacedOf(x)'
<1>1. TypeOK /\ OneReader /\ BufferHasRoom /\ Quiet(x) /\ Registered(x)
  BY DEF IInv, QuietInv
<1>2. CASE \E q \in Requests : SendRequest(x, q)
  BY <1>1, <1>2, RequestStream
<1>3. CASE \E packet \in Packets : SendPacket(x, packet)
  <2>1. PICK packet \in Packets : SendPacket(x, packet)
    BY <1>3
  <2>2. packets[x] = <<>> => fInBuf = <<>>
    <3>1. packets' = [packets EXCEPT ![x] = Append(@, packet)] /\ packets[x] \in Seq(Packets)
      BY <1>1, <2>1 DEF SendPacket, TypeOK
    <3>2. packets'[x] # <<>> /\ \A d \in Clients \ {x} : packets'[d] = packets[d]
      <4>1. \A p \in Seq(Packets) : Append(p, packet) # <<>>
        BY AppendProperties
      <4> QED
        BY <1>1, <3>1, <4>1, StreamTypes
    <3>3. \A d \in Clients \ {x} : packets[d] = <<>>
      BY <3>2 DEF Sole, SharesInterface
    <3> QED
      BY <3>3 DEF QuietInv, NoReportBegun
  <2> QED
    BY <1>1, <2>1, <2>2, PacketStream
<1>4. CASE Disconnect(x)
  BY <1>1, <1>4, DisconnectStream
<1>5. CASE SessionTimesOut(x)
  BY <1>1, <1>5, TimeOutStream
<1>6. CASE \E i \in Interfaces : SendFails(x, i)
  BY <1>6 DEF SendFails, Sole
<1>7. CASE ReadsPacket(x)
  BY <1>7, PacketBytesStream
<1>8. CASE ReadRequestBytes(x)
  <2>1. packets[x] = <<>>
    BY <1>1, <1>8 DEF ReadRequestBytes, Registered, Sole
  <2> QED
    BY <1>1, <1>8, <2>1, ReadStream
<1>9. CASE PassRequestByte(x)
  BY <1>1, <1>9, PassStream
<1>10. CASE NeedMore(x)
  BY <1>10 DEF NeedMore, PlacedOf, clientVars, readVars, interfaceVars, historyVars
<1>11. CASE HandleRequest(x)
  BY <1>1, <1>11, HandleStream
<1> QED
  BY <1>2, <1>3, <1>4, <1>5, <1>6, <1>7, <1>8, <1>9, <1>10, <1>11, WorkSteps

\* Nobody reads from a client any more: it only may ask what is not handled.
LEMMA OwnDead ==
  ASSUME IInv, QuietInv, NEW x \in Clients, Works(x) \/ CloseConnection(x), ~Alive(x), Sole(x),
         Sole(x)', RequestsMatch(handled[x], asked[x]), ReportsMatched(reports[x], packets[x])
  PROVE  /\ RequestsMatch(handled'[x], asked'[x])
         /\ ReportsMatched(reports'[x], packets'[x])
         /\ ~Alive(x)'
<1>1. TypeOK /\ OneReader /\ NULL \notin Clients /\ Quiet(x) /\ Registered(x)
  BY ConnectionAssumption DEF IInv, QuietInv
<1>2. socketHandler[x] = "none" /\ running # x
  BY DEF Alive
<1>3. CASE \E q \in Requests : SendRequest(x, q)
  <2>1. PICK q \in Requests : SendRequest(x, q)
    BY <1>3
  <2>2. /\ asked'[x] = Append(asked[x], q)
        /\ UNCHANGED <<packets, handled, reports, socketHandler, running>>
    BY <1>1, <2>1, StreamTypes DEF SendRequest, readVars, runVars, historyVars
  <2>3. PICK h \in Seq(Seq(Byte)), a \in Seq(Requests) : h = handled[x] /\ a = asked[x]
    BY <1>1, StreamTypes
  <2>4. RequestsMatch(h, Append(a, q))
    <3>1. Len(h) <= Len(a) /\ \A i \in 1..Len(h) : h[i] = a[i]
      BY <2>3 DEF RequestsMatch
    <3>2. /\ Len(Append(a, q)) = Len(a) + 1
          /\ \A i \in 1..Len(a) : Append(a, q)[i] = a[i]
      OBVIOUS
    <3> QED
      BY <3>1, <3>2 DEF RequestsMatch
  <2> QED
    BY <1>2, <2>2, <2>3, <2>4 DEF Alive
<1>4. CASE \E packet \in Packets : SendPacket(x, packet)
  BY <1>1, <1>2, <1>4 DEF SendPacket, Registered, Sole
<1>5. CASE Disconnect(x) \/ SessionTimesOut(x)
  <2>1. UNCHANGED <<asked, packets, handled, reports, running>>
    BY <1>5 DEF Disconnect, SessionTimesOut, clientVars, runVars, historyVars
  <2>2. socketHandler'[x] = "none"
    BY <1>1, <1>2, <1>5, DescriptorLeft DEF Disconnect, SessionTimesOut, EndPlaying, ReaderAfter,
       readVars, TypeOK
  <2> QED
    BY <1>2, <2>1, <2>2 DEF Alive
<1>6. CASE \E i \in Interfaces : SendFails(x, i)
  BY <1>6 DEF SendFails, Sole
<1>7. CASE ReadsPacket(x)
  BY <1>1, <1>2, <1>7, PacketStep DEF OneReader
<1>8. CASE ReadRequestBytes(x) \/ PassRequestByte(x) \/ NeedMore(x) \/ HandleRequest(x)
  BY <1>2, <1>8 DEF ReadRequestBytes, PassRequestByte, InState, NeedMore, HandleRequest
<1>9. CASE CloseConnection(x)
  BY <1>1, <1>9 DEF CloseConnection, Alive, historyVars, TypeOK
<1> QED
  BY <1>3, <1>4, <1>5, <1>6, <1>7, <1>8, <1>9, WorkSteps

\* The connection goes, with what was not read.
LEMMA OwnClosed ==
  ASSUME TypeOK, NEW x \in Clients, CloseConnection(x)
  PROVE  ~Alive(x)' /\ UNCHANGED <<asked, packets, handled, reports>>
<1>1. NULL \notin Clients
  BY ConnectionAssumption
<1> QED
  BY <1>1 DEF CloseConnection, Alive, historyVars, TypeOK

\* What a client's own steps keep.
LEMMA OwnStream ==
  ASSUME IInv, QuietInv, NEW x \in Clients, Works(x) \/ CloseConnection(x), Sole(x), Sole(x)',
         Stream(x)
  PROVE  Stream(x)'
<1>1. TypeOK
  BY DEF IInv
<1>2. CASE ~Alive(x)
  BY <1>2, OwnDead DEF Stream
<1>3. CASE CloseConnection(x)
  BY <1>1, <1>3, OwnClosed DEF Stream
<1>4. CASE Works(x) /\ Alive(x) /\ Alive(x)'
  <2>1. PlacedOf(x)'
    BY <1>4, OwnPlaced DEF Stream
  <2>2. RequestsMatch(handled'[x], asked'[x]) /\ ReportsMatched(reports'[x], packets'[x])
    BY <2>1, PlacedTells DEF PlacedOf
  <2> QED
    BY <2>1, <2>2 DEF Stream
<1>5. CASE Works(x) /\ Alive(x) /\ ~Alive(x)'
  <2>1. CASE HandleRequest(x)
    <3>1. PlacedOf(x)'
      BY <1>4, <1>5, <2>1, HandleStream DEF Stream, QuietInv
    <3>2. RequestsMatch(handled'[x], asked'[x]) /\ ReportsMatched(reports'[x], packets'[x])
      BY <3>1, PlacedTells DEF PlacedOf
    <3> QED
      BY <3>1, <3>2 DEF Stream
  <2>2. CASE SessionTimesOut(x)
    <3>1. UNCHANGED <<asked, packets, handled, reports>>
      BY <2>2 DEF SessionTimesOut, clientVars, historyVars
    <3> QED
      BY <1>5, <3>1 DEF Stream
  <2>3. CASE \E i \in Interfaces : SendFails(x, i)
    BY <2>3 DEF SendFails, Sole
  <2>4. CASE ~HandleRequest(x) /\ ~SessionTimesOut(x) /\ ~ \E i \in Interfaces : SendFails(x, i)
    <3>1. socketHandler' = socketHandler
      <4>1. CASE ReadsPacket(x)
        BY <1>1, <4>1, PacketStep DEF IInv, QuietInv
      <4>2. CASE ~ReadsPacket(x)
        BY <2>4, <4>2, <1>5, WorkSteps DEF SendRequest, SendPacket, Disconnect, ReadRequestBytes,
           PassRequestByte, TakeByte, NeedMore, readVars
      <4> QED
        BY <4>1, <4>2
    <3>2. running = x /\ socketHandler[x] = "none"
      BY <1>5, <3>1 DEF Alive
    <3>3. UNCHANGED <<handled, reports>>
      <4>1. running # NULL
        BY <3>2, ConnectionAssumption
      <4>2. ~ReadsPacket(x)
        BY <1>1, <4>1, PacketStep DEF IInv, QuietInv
      <4> QED
        BY <1>5, <2>4, <4>2, WorkSteps DEF SendRequest, SendPacket, Disconnect, ReadRequestBytes,
           PassRequestByte, TakeByte, NeedMore, historyVars
    <3>4. CASE NeedMore(x)
      BY <1>5, <3>3, <3>4 DEF NeedMore, Stream, clientVars
    <3>5. CASE ~NeedMore(x)
      <4>1. running' = running
        BY <1>5, <2>4, <3>5, BuffersLeft, <3>2, ConnectionAssumption DEF Works, ReadRequestBytes,
           PassRequestByte, InState
      <4> QED
        BY <1>5, <3>2, <4>1 DEF Alive
    <3> QED
      BY <3>4, <3>5
  <2> QED
    BY <2>1, <2>2, <2>3, <2>4
<1> QED
  BY <1>2, <1>3, <1>4, <1>5

\* A step of somebody else.
LEMMA OthersStream ==
  ASSUME IInv, QuietInv, NEW x \in Clients, Works(x) \/ CloseConnection(x),
         NEW c \in Clients \ {x}, Sole(c), Stream(c)
  PROVE  Stream(c)'
<1>1. TypeOK /\ OneReader /\ Quiet(x) /\ Quiet(c) /\ Registered(c)
  BY DEF IInv, QuietInv
<1>2. /\ eof'[c] = eof[c] /\ asked'[c] = asked[c] /\ packets'[c] = packets[c]
      /\ fRequestBuffer'[c] = fRequestBuffer[c] /\ socketHandler'[c] = socketHandler[c]
      /\ descriptor'[c] = descriptor[c] /\ handled'[c] = handled[c]
      /\ running' = c => running = c
      /\ fNextTCPReadStreamSocketNum["rtcp"] # c =>
           wire'[c] = wire[c] /\ reports'[c] = reports[c]
  BY <1>1, OthersLeft DEF LeavesOthers
<1>3. Alive(c)' => Alive(c)
  BY <1>2 DEF Alive
<1>4. CASE packets[c] = <<>>
  <2>1. /\ wire'[c] = wire[c] /\ reports'[c] = reports[c]
        /\ descriptor[c].fTCPReadingState = "AWAITING_DOLLAR"
    BY <1>1, <1>2, <1>4 DEF Quiet
  <2>2. ASSUME Alive(c)' PROVE PlacedOf(c)'
    <3>1. Placed(c, asked[c], packets[c], wire[c], eof[c], handled[c], fRequestBuffer[c],
                 descriptor[c], reports[c], fNextTCPReadSize,
                 fNextTCPReadStreamSocketNum["rtcp"], fInBuf)
      BY <1>3, <2>2 DEF Stream, PlacedOf
    <3>2. PICK num2 : num2 = fNextTCPReadStreamSocketNum'["rtcp"]
      OBVIOUS
    <3>3. Placed(c, asked[c], packets[c], wire[c], eof[c], handled[c], fRequestBuffer[c],
                 descriptor[c], reports[c], fNextTCPReadSize', num2, fInBuf')
      BY ONLY <1>4, <2>1, <3>1, Outside
    <3> QED
      BY <1>2, <2>1, <3>2, <3>3 DEF PlacedOf
  <2> QED
    BY <1>2, <2>1, <2>2 DEF Stream
<1>5. CASE packets[c] # <<>>
  <2>1. packets[x] = <<>>
    BY <1>5 DEF Sole, SharesInterface
  <2>2. ~ReadsPacket(x)
    BY <1>1, <2>1, PacketStep
  <2>3. wire'[c] = wire[c] /\ reports'[c] = reports[c]
    <3>1. CASE \E q \in Requests : SendRequest(x, q)
      BY <1>1, <3>1, StreamTypes DEF SendRequest, historyVars
    <3>2. CASE \E packet \in Packets : SendPacket(x, packet)
      BY <1>1, <3>2, StreamTypes DEF SendPacket, historyVars
    <3>3. CASE Disconnect(x)
      BY <1>1, <3>3, StreamTypes DEF Disconnect, historyVars
    <3>4. CASE SessionTimesOut(x) \/ \E i \in Interfaces : SendFails(x, i)
      BY <3>4 DEF SessionTimesOut, SendFails, clientVars, historyVars
    <3>5. CASE ReadRequestBytes(x)
      BY <1>1, <3>5, StreamTypes DEF ReadRequestBytes, historyVars
    <3>6. CASE PassRequestByte(x)
      BY <1>1, <3>6, StreamTypes DEF PassRequestByte, TakeByte, historyVars
    <3>7. CASE NeedMore(x) \/ HandleRequest(x)
      BY <3>7 DEF NeedMore, HandleRequest, clientVars, historyVars
    <3>8. CASE CloseConnection(x)
      BY <1>1, <3>8, StreamTypes DEF CloseConnection, historyVars
    <3> QED
      BY <2>2, <3>1, <3>2, <3>3, <3>4, <3>5, <3>6, <3>7, <3>8, WorkSteps
  <2>4. ASSUME Alive(c)' PROVE PlacedOf(c)'
    <3>1. PlacedOf(c)
      BY <1>3, <2>4 DEF Stream
    <3>2. CASE UNCHANGED interfaceVars
      BY <1>2, <2>3, <3>1, <3>2 DEF PlacedOf, interfaceVars
    <3>3. CASE fInBuf' = <<>> /\ session[c] = "none"
      <4>1. descriptor[c].channels = {} /\ socketHandler[c] # "descriptor"
        BY <1>1, <3>3 DEF OneReader
      <4>2. descriptor[c].fTCPReadingState = "AWAITING_DOLLAR"
        BY <1>1, <4>1 DEF Registered
      <4>3. Placed(c, asked[c], packets[c], wire[c], eof[c], handled[c], fRequestBuffer[c],
                   descriptor[c], reports[c], fNextTCPReadSize,
                   fNextTCPReadStreamSocketNum["rtcp"], fInBuf)
        BY <3>1 DEF PlacedOf
      <4>4. PICK num2 : num2 = fNextTCPReadStreamSocketNum'["rtcp"]
        OBVIOUS
      <4>5. fInBuf' \in {fInBuf, <<>>}
        BY <3>3
      <4>6. Placed(c, asked[c], packets[c], wire[c], eof[c], handled[c], fRequestBuffer[c],
                   descriptor[c], reports[c], fNextTCPReadSize', num2, fInBuf')
        BY ONLY <4>2, <4>3, <4>5, Outside
      <4> QED
        BY <1>2, <2>3, <4>4, <4>6 DEF PlacedOf
    <3> QED
      BY <2>2, <3>2, <3>3, InterfaceLeft
  <2> QED
    BY <1>2, <2>3, <2>4 DEF Stream
<1> QED
  BY <1>4, <1>5

\* Every step keeps what is placed.
LEMMA StreamsKept ==
  ASSUME IInv, QuietInv, StreamInv, [Next]_vars
  PROVE  QuietInv' /\ StreamInv'
<1>1. TypeOK /\ OneReader
  BY DEF IInv
<1>2. CASE UNCHANGED vars
  <2>1. UNCHANGED <<wire, eof, asked, packets, fRequestBuffer, running, session, socketHandler,
                    descriptor, fNextTCPReadSize, fNextTCPReadStreamSocketNum, fInBuf, failed,
                    handled, reports>>
    BY <1>2 DEF vars, clientVars, bufferVars, runVars, readVars, interfaceVars, historyVars
  <2>2. QuietInv'
    BY <2>1 DEF QuietInv, Quiet, Registered, NoReportBegun
  <2>3. StreamInv'
    BY <2>1 DEF StreamInv, Stream, Sole, SharesInterface, Alive, PlacedOf
  <2> QED
    BY <2>2, <2>3
<1>3. ASSUME NEW x \in Clients, Works(x) \/ CloseConnection(x)
      PROVE  QuietInv' /\ StreamInv'
  <2>1. QuietInv'
    BY <1>1, <1>3, QuietKept
  <2>2. ASSUME NEW c \in Clients, Sole(c)' PROVE Stream(c)'
    <3>1. Sole(c)
      <4>1. failed \subseteq failed' /\ \A d \in Clients : packets'[d] = <<>> => packets[d] = <<>>
        BY <1>1, <1>3, PacketsStay
      <4> QED
        BY <2>2, <4>1 DEF Sole, SharesInterface
    <3>2. Stream(c)
      BY <3>1 DEF StreamInv
    <3>3. CASE c = x
      BY <1>3, <2>2, <3>1, <3>2, <3>3, OwnStream
    <3>4. CASE c # x
      BY <1>3, <3>1, <3>2, <3>4, OthersStream
    <3> QED
      BY <3>3, <3>4
  <2> QED
    BY <2>1, <2>2 DEF StreamInv
<1>4. CASE \E x \in Clients : Works(x) \/ CloseConnection(x)
  BY <1>3, <1>4
<1> QED
  BY <1>2, <1>4, Steps, Closes DEF Works

\* At the start nothing has been sent.
LEMMA StreamsBegin ==
  ASSUME Init
  PROVE  QuietInv /\ StreamInv
<1>1. NULL \notin Clients
  BY ConnectionAssumption
<1>2. NoDescriptor.fTCPReadingState = "AWAITING_DOLLAR" /\ NoDescriptor.channels = {}
  BY DEF NoDescriptor
<1>3. QuietInv
  <2>1. ASSUME NEW c \in Clients PROVE Quiet(c)
    BY <1>1, <1>2 DEF Init, Quiet, NoSocketNum, Interfaces
  <2>2. ASSUME NEW c \in Clients PROVE Registered(c)
    BY <1>1, <1>2 DEF Init, Registered
  <2>3. NoReportBegun
    BY DEF Init, NoReportBegun
  <2> QED
    BY <2>1, <2>2, <2>3 DEF QuietInv
<1>4. ASSUME NEW c \in Clients PROVE Stream(c)
  <2>1. /\ asked[c] = <<>> /\ packets[c] = <<>> /\ wire[c] = <<>> /\ handled[c] = <<>>
        /\ fRequestBuffer[c] = <<>> /\ descriptor[c] = NoDescriptor /\ reports[c] = <<>>
    BY DEF Init
  <2>2. PICK d, e, num :
          d = NoDescriptor /\ e = eof[c] /\ num = fNextTCPReadStreamSocketNum["rtcp"]
    OBVIOUS
  <2>3. Placed(c, <<>>, <<>>, <<>>, e, <<>>, <<>>, d, <<>>, fNextTCPReadSize, num, fInBuf)
    BY <1>2, <2>2, NothingPlaced
  <2>4. RequestsMatch(<<>>, <<>>) /\ ReportsMatched(<<>>, <<>>)
    BY <2>3, PlacedTells
  <2> QED
    BY <2>1, <2>2, <2>3, <2>4 DEF Stream, PlacedOf
<1> QED
  BY <1>3, <1>4 DEF StreamInv

\* Where each client's bytes are holds in every reachable state.
THEOREM StreamInvariant == Spec => [](IInv /\ QuietInv /\ StreamInv)
<1>1. Init => QuietInv /\ StreamInv
  BY StreamsBegin
<1>2. IInv /\ QuietInv /\ StreamInv /\ [Next]_vars => QuietInv' /\ StreamInv'
  BY StreamsKept
<1>3. Spec => []IInv
  BY ConnectionInvariant
<1> QED
  BY <1>1, <1>2, <1>3, PTL DEF Spec

\* Every request of a client is handled once, whole and in order
\* (handleRequestBytes).
THEOREM RequestsHandledInOrder == Spec => []RequestsInOrder
<1>1. ASSUME IInv, StreamInv PROVE RequestsInOrder
  <2>1. ASSUME NEW c \in Clients \ failed, ~SharesInterface(c)
        PROVE  IsPrefix(handled[c], asked[c])
    <3>1. RequestsMatch(handled[c], asked[c])
      BY <1>1, <2>1 DEF StreamInv, Sole, Stream
    <3>2. handled[c] \in Seq(Seq(Byte)) /\ asked[c] \in Seq(Requests)
      BY <1>1, StreamTypes DEF IInv
    <3>3. Requests \subseteq Seq(Byte)
      BY RequestBytes
    <3>4. asked[c] \in Seq(Seq(Byte))
      BY <3>2, <3>3
    <3>5. /\ Len(handled[c]) <= Len(asked[c])
          /\ \A i \in DOMAIN handled[c] : handled[c][i] = asked[c][i]
      <4>1. DOMAIN handled[c] = 1..Len(handled[c])
        BY ONLY <3>2
      <4> QED
        BY ONLY <3>1, <4>1 DEF RequestsMatch
    <3> QED
      BY ONLY <3>2, <3>4, <3>5, ElementsTellPrefix
  <2> QED
    BY <2>1 DEF RequestsInOrder
<1> QED
  BY <1>1, StreamInvariant, PTL

\* The RTCP packets processed as a client's are those it sent (handleRead,
\* incomingReportHandler1).
THEOREM ReportsProcessed == Spec => []ReportsAreTheClients
<1>1. ASSUME IInv, StreamInv PROVE ReportsAreTheClients
  <2>1. ASSUME NEW c \in Clients \ failed, ~SharesInterface(c)
        PROVE  ReportsAreSent(c)
    <3>1. ReportsMatched(reports[c], packets[c])
      BY <1>1, <2>1 DEF StreamInv, Sole, Stream
    <3>2. DOMAIN reports[c] = 1..Len(reports[c]) /\ DOMAIN packets[c] = 1..Len(packets[c])
      BY <1>1, StreamTypes DEF IInv
    <3>3. PICK at \in [1..Len(reports[c]) -> 1..Len(packets[c])] :
            ReportsMatch(reports[c], packets[c], at)
      BY <3>1 DEF ReportsMatched
    <3>4. ReportsAre(c, at)
      BY <3>2, <3>3 DEF ReportsAre, ReportsMatch
    <3> QED
      BY <3>2, <3>3, <3>4 DEF ReportsAreSent
  <2> QED
    BY <2>1 DEF ReportsAreTheClients
<1> QED
  BY <1>1, StreamInvariant, PTL
=============================================================================
