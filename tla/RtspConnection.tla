---------------------------- MODULE RtspConnection ----------------------------
(***************************************************************************)
(* What a client sends over its RTSP connection: requests, and RTP and     *)
(* RTCP packets between them once it plays over TCP.  Until then           *)
(* RTSPClientConnection reads the socket, as many bytes at a time as there *)
(* are; from PLAY on the SocketDescriptor of RTPInterface.cpp reads it,    *)
(* sorts out the packets, and hands on the bytes of requests one by one.   *)
(*                                                                         *)
(* A request is the bytes from its first one to the end of its body: a     *)
(* letter stands for the command, a digit for its Content-Length.  The     *)
(* client's name stands for its socket.  There is one thread; the loop of  *)
(* handleRequestBytes is one step for each request.  DESCRIBE, during      *)
(* which other handlers run, is in LiveSubsession.                         *)
(***************************************************************************)
EXTENDS Integers, Sequences, SequencesExt

CONSTANTS
  Clients,              \* connections, each with the session made over it
  Requests,             \* what clients may ask, as sequences of bytes
  Packets,              \* what they may send: records of an interface and data
  REQUEST_BUFFER_SIZE,
  maxRTCPPacketSize,
  MaxMessages,          \* bound: requests and packets of a client
  NULL                  \* no client

Byte == 0..255
CR == 13
LF == 10
Dollar == 36

\* The letters S, P and T stand for the commands that begin with them.
SETUP == 83
PLAY == 80
TEARDOWN == 84

Interfaces == {"rtp", "rtcp"}

\* The channels that the client asked for: interleaved=0-1.
ChannelId(interface) == IF interface = "rtp" THEN 0 ELSE 1

-----------------------------------------------------------------------------
(* Requests *)

CrLfAt(bytes, i) == bytes[i] = CR /\ bytes[i + 1] = LF

Letter(byte) == byte \in 65..90

\* parseRTSPRequestString, given all up to the empty line: the command comes
\* first, whitespace aside; without a Content-Length it is 0.
Command(header) ==
  IF \E i \in DOMAIN header : Letter(header[i])
    THEN header[CHOOSE i \in DOMAIN header :
                  Letter(header[i]) /\ \A j \in 1..(i - 1) : ~Letter(header[j])]
    ELSE CR

ContentLength(header) ==
  IF \E n \in 0..9, i \in DOMAIN header : header[i] = 48 + n
    THEN CHOOSE n \in 0..9 : \E i \in DOMAIN header : header[i] = 48 + n
    ELSE 0

\* What RFC 2326 calls a message, independently of the code's scan: up to the
\* first empty line, and as much as Content-Length says.
EmptyLines(bytes) ==
  {i \in 1..(Len(bytes) - 3) : CrLfAt(bytes, i) /\ CrLfAt(bytes, i + 2)}
MessageSizes(bytes) ==
  {i + 3 + ContentLength(SubSeq(bytes, 1, i + 1)) :
     i \in {j \in EmptyLines(bytes) : \A k \in EmptyLines(bytes) : j <= k}}
IsMessage(bytes) == Len(bytes) \in MessageSizes(bytes)
HoldsAMessage(bytes) == \E size \in MessageSizes(bytes) : size <= Len(bytes)

\* Requests hold none of the bytes that have a meaning of their own between
\* packets, and packets fit RTCPInstance's buffer.
ASSUME ConnectionAssumption ==
  /\ Requests \subseteq Seq(Byte \ {Dollar, 254, 255})
  /\ \A request \in Requests : IsMessage(request)
  /\ Packets \subseteq [interface : Interfaces, data : Seq(Byte)]
  /\ \A packet \in Packets : Len(packet.data) <= maxRTCPPacketSize
  /\ REQUEST_BUFFER_SIZE \in Nat \ {0}
  /\ maxRTCPPacketSize \in Nat \ {0} /\ maxRTCPPacketSize < 256 * 256
  /\ MaxMessages \in Nat
  /\ NULL \notin Clients

VARIABLES                     \* the client's end, and what is under way
  wire,                       \* bytes sent and not read yet
  eof,                        \* the client has closed its end
  asked,                      \* history: every request
  packets                     \* history: every packet

VARIABLES                     \* RTSPClientConnection
  open,                       \* it exists
  fRequestBuffer,             \* the bytes read, the newest included
  fRequestBufferBytesLeft,
  fLastCRLF,                  \* counted from 1: -2 is &fRequestBuffer[-3]
  running,                    \* the connection in handleRequestBytes
  newBytesRead

VARIABLES
  session,                    \* of its RTSPClientSession: "none", "setup", "playing"
  socketHandler               \* who reads the socket: "connection", "descriptor", "none"

VARIABLES                     \* RTPInterface.cpp, RTCPInstance
  descriptor,                 \* the SocketDescriptor of each socket
  fNextTCPReadSize,           \* of the two interfaces, which all clients share
  fNextTCPReadStreamSocketNum,
  fInBuf                      \* RTCPInstance: the fNumBytesAlreadyRead bytes

VARIABLES
  failed,                     \* history: the clients to whom a send failed
  handled,                    \* history: the requests handled
  reports                     \* history: the RTCP packets processed

clientVars == <<wire, eof, asked, packets>>
bufferVars == <<fRequestBuffer, fRequestBufferBytesLeft, fLastCRLF>>
runVars == <<running, newBytesRead>>
readVars == <<socketHandler, descriptor>>
interfaceVars == <<fNextTCPReadSize, fNextTCPReadStreamSocketNum, fInBuf>>
historyVars == <<failed, handled, reports>>
vars == <<clientVars, open, bufferVars, runVars, session, readVars, interfaceVars,
          historyVars>>

States == {"AWAITING_DOLLAR", "AWAITING_STREAM_CHANNEL_ID", "AWAITING_SIZE1",
           "AWAITING_SIZE2", "AWAITING_PACKET_DATA"}

\* A descriptor exists as long as an interface is registered with it.
NoDescriptor == [channels |-> {}, fTCPReadingState |-> "AWAITING_DOLLAR",
                 fStreamChannel |-> "rtp", fSizeByte1 |-> 0, byteHandler |-> FALSE]

NoReadSize == [i \in Interfaces |-> 0]
NoSocketNum == [i \in Interfaces |-> NULL]

Init ==
  /\ wire = [c \in Clients |-> <<>>] /\ eof = [c \in Clients |-> FALSE]
  /\ asked = [c \in Clients |-> <<>>] /\ packets = [c \in Clients |-> <<>>]
  /\ open = [c \in Clients |-> TRUE]
  /\ fRequestBuffer = [c \in Clients |-> <<>>]
  /\ fRequestBufferBytesLeft = [c \in Clients |-> REQUEST_BUFFER_SIZE]
  /\ fLastCRLF = [c \in Clients |-> -2]
  /\ running = NULL /\ newBytesRead = 0
  /\ session = [c \in Clients |-> "none"]
  /\ socketHandler = [c \in Clients |-> "connection"]
  /\ descriptor = [c \in Clients |-> NoDescriptor]
  /\ fNextTCPReadSize = NoReadSize /\ fNextTCPReadStreamSocketNum = NoSocketNum
  /\ fInBuf = <<>>
  /\ failed = {}
  /\ handled = [c \in Clients |-> <<>>] /\ reports = [c \in Clients |-> <<>>]

-----------------------------------------------------------------------------
(* The client *)

Unanswered(c) == {asked[c][i] : i \in (Len(handled[c]) + 1)..Len(asked[c])}
SessionCommand(request) == Command(request) \in {SETUP, PLAY, TEARDOWN}
AwaitsAnswer(c) == \E request \in Unanswered(c) : SessionCommand(request)

MaySend(c) == open[c] /\ ~eof[c] /\ Len(asked[c]) + Len(packets[c]) < MaxMessages

\* Requests may follow each other at once, but a session's need its id.
SendRequest(c, request) ==
  /\ MaySend(c)
  /\ SessionCommand(request) => ~AwaitsAnswer(c)
  /\ Command(request) = SETUP => session[c] = "none"
  /\ Command(request) \in {PLAY, TEARDOWN} => session[c] # "none"
  /\ wire' = [wire EXCEPT ![c] = @ \o request]
  /\ asked' = [asked EXCEPT ![c] = Append(@, request)]
  /\ UNCHANGED <<eof, packets, open, bufferVars, runVars, session, readVars,
                 interfaceVars, historyVars>>

\* RFC 2326, section 10.12, as sendRTPorRTCPPacketOverTCP does it too.
Framed(packet) ==
  <<Dollar, ChannelId(packet.interface), Len(packet.data) \div 256,
    Len(packet.data) % 256>> \o packet.data

\* Packets are sent while the stream plays.
SendPacket(c, packet) ==
  /\ MaySend(c)
  /\ session[c] = "playing" /\ ~AwaitsAnswer(c)
  /\ wire' = [wire EXCEPT ![c] = @ \o Framed(packet)]
  /\ packets' = [packets EXCEPT ![c] = Append(@, packet)]
  /\ UNCHANGED <<eof, asked, open, bufferVars, runVars, session, readVars,
                 interfaceVars, historyVars>>

\* The client closes its end, or is lost: what is still under way may not come.
Disconnect(c) ==
  /\ open[c] /\ ~eof[c]
  /\ eof' = [eof EXCEPT ![c] = TRUE]
  /\ \E n \in 0..Len(wire[c]) : wire' = [wire EXCEPT ![c] = SubSeq(@, 1, n)]
  /\ UNCHANGED <<asked, packets, open, bufferVars, runVars, session, readVars,
                 interfaceVars, historyVars>>

-----------------------------------------------------------------------------
(* Sessions and who reads the socket *)

\* ~SocketDescriptor, no error read: the byte handler is told, by 0xFE, that
\* the socket is the connection's again.
ReaderAfter(byteHandler) == IF byteHandler THEN "connection" ELSE "none"

\* StreamState::startPlaying: both interfaces register with the descriptor,
\* whose first registration takes the socket over.
StartPlaying(c) ==
  /\ descriptor' = [descriptor EXCEPT ![c].channels = Interfaces,
                                      ![c].byteHandler = TRUE]
  /\ socketHandler' = [socketHandler EXCEPT ![c] = "descriptor"]

\* Defect: the descriptor goes on reading.
EndPlayingStillReading(c) ==
  /\ descriptor' = [descriptor EXCEPT ![c] = NoDescriptor]
  /\ UNCHANGED socketHandler

\* StreamState::endPlaying: the byte handler is cleared first; the second
\* interface to leave takes the descriptor with it.
EndPlaying(c) ==
  /\ descriptor' = [descriptor EXCEPT ![c] = NoDescriptor]
  /\ socketHandler' = [socketHandler EXCEPT
                         ![c] = IF descriptor[c].channels = {} THEN @ ELSE ReaderAfter(FALSE)]

\* The last session to go takes the StreamState, and its interfaces, with it.
EndSession(c) ==
  /\ session' = [session EXCEPT ![c] = "none"]
  /\ IF \A d \in Clients \ {c} : session[d] = "none"
       THEN /\ fNextTCPReadSize' = NoReadSize
            /\ fNextTCPReadStreamSocketNum' = NoSocketNum
            /\ fInBuf' = <<>>
       ELSE UNCHANGED interfaceVars

\* delete this: the streams over the socket end, then it is closed.
CloseConnection(c) ==
  /\ open' = [open EXCEPT ![c] = FALSE]
  /\ wire' = [wire EXCEPT ![c] = <<>>] /\ eof' = [eof EXCEPT ![c] = TRUE]
  /\ EndSession(c)
  /\ descriptor' = [descriptor EXCEPT ![c] = NoDescriptor]
  /\ socketHandler' = [socketHandler EXCEPT ![c] = "none"]
  /\ fRequestBuffer' = [fRequestBuffer EXCEPT ![c] = <<>>]
  /\ fRequestBufferBytesLeft' = [fRequestBufferBytesLeft EXCEPT ![c] = REQUEST_BUFFER_SIZE]
  /\ fLastCRLF' = [fLastCRLF EXCEPT ![c] = -2]
  /\ running' = NULL /\ newBytesRead' = 0
  /\ UNCHANGED <<asked, packets, historyVars>>

\* A session without signs of life is deleted.
SessionTimesOut(c) ==
  /\ running = NULL /\ session[c] # "none"
  /\ EndSession(c) /\ EndPlaying(c)
  /\ UNCHANGED <<clientVars, open, bufferVars, runVars, historyVars>>

\* A send fails, as the client has gone or takes nothing for too long: the
\* interface stops using the socket, on which there may still be bytes to read.
SendFails(c, interface) ==
  /\ running = NULL /\ interface \in descriptor[c].channels
  /\ failed' = failed \cup {c}
  /\ IF descriptor[c].channels = {interface}
       THEN /\ descriptor' = [descriptor EXCEPT ![c] = NoDescriptor]
            /\ socketHandler' =
                 [socketHandler EXCEPT ![c] = ReaderAfter(descriptor[c].byteHandler)]
       ELSE /\ descriptor' = [descriptor EXCEPT ![c].channels = @ \ {interface}]
            /\ UNCHANGED socketHandler
  /\ UNCHANGED <<clientVars, open, bufferVars, runVars, session, interfaceVars,
                 handled, reports>>

-----------------------------------------------------------------------------
(* RTSPClientConnection *)

\* incomingRequestHandler: readSocket returns what is there, up to the room left.
ReadRequestBytes(c) ==
  /\ running = NULL /\ socketHandler[c] = "connection"
  /\ \E n \in 1..fRequestBufferBytesLeft[c] :
       /\ n <= Len(wire[c])
       /\ fRequestBuffer' = [fRequestBuffer EXCEPT ![c] = @ \o SubSeq(wire[c], 1, n)]
       /\ wire' = [wire EXCEPT ![c] = SubSeq(@, n + 1, Len(@))]
       /\ newBytesRead' = n
  /\ running' = c
  /\ UNCHANGED <<eof, asked, packets, open, fRequestBufferBytesLeft, fLastCRLF, session,
                 readVars, interfaceVars, historyVars>>

\* Defect: the end looks like a read without data, as recvfrom returns it.
ReadEndAsNothing(c) ==
  /\ running = NULL /\ socketHandler[c] = "connection"
  /\ wire[c] = <<>> /\ eof[c]
  /\ UNCHANGED vars

\* incomingRequestHandler, when the client has closed its end.
ReadEnd(c) ==
  /\ running = NULL /\ socketHandler[c] = "connection"
  /\ wire[c] = <<>> /\ eof[c]
  /\ CloseConnection(c)

\* Defect: only what was read last is looked at.
LineEndsInNewBytes(c) ==
  LET seen == Len(fRequestBuffer[c]) - newBytesRead IN
  {i \in (seen + 1)..(Len(fRequestBuffer[c]) - 1) : CrLfAt(fRequestBuffer[c], i)}

\* The line ends from fLastCRLF + 2 on, which the last read may have split.
LineEnds(c) ==
  LET first == IF fLastCRLF[c] + 2 < 1 THEN 1 ELSE fLastCRLF[c] + 2 IN
  {i \in first..(Len(fRequestBuffer[c]) - 1) : CrLfAt(fRequestBuffer[c], i)}

\* Line ends right behind another one; tmpPtr stops at the first.
EmptyLineEnds(c) == {i \in LineEnds(c) : i - 2 \in LineEnds(c) \cup {fLastCRLF[c]}}
IsEndOfMsg(c, i) == i \in EmptyLineEnds(c) /\ \A j \in EmptyLineEnds(c) : i <= j

\* From the front of the buffer to the end of the body.
RequestSize(c, end) ==
  end + 1 + ContentLength(SubSeq(fRequestBuffer[c], 1, end - 1))

\* The read filled the buffer.
TooBig(c) ==
  /\ running = c /\ newBytesRead >= fRequestBufferBytesLeft[c]
  /\ CloseConnection(c)

\* fLastCRLF, where the scan leaves it when the message does not end: the last
\* line end.
NoteLineEnd(c) ==
  \/ LineEnds(c) = {} /\ UNCHANGED fLastCRLF
  \/ \E i \in LineEnds(c) :
       /\ \A j \in LineEnds(c) : j <= i
       /\ fLastCRLF' = [fLastCRLF EXCEPT ![c] = i]

\* Break: the rest of the request is still to come.
NeedMore(c) ==
  /\ running = c /\ newBytesRead < fRequestBufferBytesLeft[c]
  /\ \/ EmptyLineEnds(c) = {} /\ NoteLineEnd(c)
     \/ \E i \in LineEnds(c) :
          /\ IsEndOfMsg(c, i)
          /\ Len(fRequestBuffer[c]) < RequestSize(c, i)
          /\ fLastCRLF' = [fLastCRLF EXCEPT ![c] = i - 2]
  /\ fRequestBufferBytesLeft' = [fRequestBufferBytesLeft EXCEPT ![c] = @ - newBytesRead]
  /\ running' = NULL /\ newBytesRead' = 0
  /\ UNCHANGED <<clientVars, open, fRequestBuffer, session, readVars, interfaceVars,
                 historyVars>>

\* What the commands do to the session: SETUP makes one, PLAY starts sending
\* and TEARDOWN ends it; without a session there is nothing to do.
Setup(c) ==
  /\ session' = [session EXCEPT ![c] = IF @ = "none" THEN "setup" ELSE @]
  /\ UNCHANGED <<readVars, interfaceVars>>

Play(c) ==
  /\ session[c] # "none"
  /\ session' = [session EXCEPT ![c] = "playing"]
  /\ StartPlaying(c)
  /\ UNCHANGED interfaceVars

TearDown(c) == session[c] # "none" /\ EndSession(c) /\ EndPlaying(c)

HandleCommand(c, command) ==
  \/ command = SETUP /\ Setup(c)
  \/ command = PLAY /\ Play(c)
  \/ command = TEARDOWN /\ TearDown(c)
  \/ /\ command \notin {SETUP, PLAY, TEARDOWN} \/ (command # SETUP /\ session[c] = "none")
     /\ UNCHANGED <<session, readVars, interfaceVars>>

\* Defect: what followed the request is dropped with it.
KeepNothing(c, size) ==
  /\ fRequestBuffer' = [fRequestBuffer EXCEPT ![c] = <<>>]
  /\ newBytesRead' = 0 /\ running' = NULL

\* What follows the request moves to the front, and counts as read just now.
KeepRest(c, size) ==
  LET rest == SubSeq(fRequestBuffer[c], size + 1, Len(fRequestBuffer[c])) IN
  /\ fRequestBuffer' = [fRequestBuffer EXCEPT ![c] = rest]
  /\ newBytesRead' = Len(rest)
  /\ running' = IF rest = <<>> THEN NULL ELSE c

\* Defect: the room is not given back.
ResetOnlyLineEnd(c) ==
  /\ fRequestBufferBytesLeft' = [fRequestBufferBytesLeft EXCEPT ![c] = @ - newBytesRead]
  /\ fLastCRLF' = [fLastCRLF EXCEPT ![c] = -2]

ResetRequestBuffer(c) ==
  /\ fRequestBufferBytesLeft' = [fRequestBufferBytesLeft EXCEPT ![c] = REQUEST_BUFFER_SIZE]
  /\ fLastCRLF' = [fLastCRLF EXCEPT ![c] = -2]

\* A complete request is handled and answered.
HandleRequest(c) ==
  /\ running = c /\ newBytesRead < fRequestBufferBytesLeft[c]
  /\ \E end \in LineEnds(c) :
       LET size == RequestSize(c, end) IN
       /\ IsEndOfMsg(c, end)
       /\ size <= Len(fRequestBuffer[c])
       /\ HandleCommand(c, Command(SubSeq(fRequestBuffer[c], 1, end - 1)))
       /\ handled' = [handled EXCEPT ![c] = Append(@, SubSeq(fRequestBuffer[c], 1, size))]
       /\ KeepRest(c, size)
  /\ ResetRequestBuffer(c)
  /\ UNCHANGED <<clientVars, open, failed, reports>>

-----------------------------------------------------------------------------
(* SocketDescriptor::tcpReadHandler1 *)

InState(c, state) ==
  /\ running = NULL /\ socketHandler[c] = "descriptor"
  /\ descriptor[c].fTCPReadingState = state

\* One byte is read, in every state but the last.
TakeByte(c) ==
  /\ wire[c] # <<>>
  /\ wire' = [wire EXCEPT ![c] = Tail(@)]
  /\ UNCHANGED <<eof, asked, packets, open, fRequestBufferBytesLeft, fLastCRLF, session,
                 socketHandler, fInBuf, historyVars>>

EnterState(c, state) == descriptor' = [descriptor EXCEPT ![c].fTCPReadingState = state]

\* A byte outside of packets goes to handleAlternativeRequestByte1.
PassRequestByte(c) ==
  /\ InState(c, "AWAITING_DOLLAR") /\ TakeByte(c)
  /\ Head(wire[c]) # Dollar
  /\ IF Head(wire[c]) \in {254, 255} \/ fRequestBufferBytesLeft[c] = 0
       THEN UNCHANGED <<fRequestBuffer, runVars>>
       ELSE /\ fRequestBuffer' = [fRequestBuffer EXCEPT ![c] = Append(@, Head(wire[c]))]
            /\ running' = c /\ newBytesRead' = 1
  /\ UNCHANGED <<descriptor, fNextTCPReadSize, fNextTCPReadStreamSocketNum>>

ReadDollar(c) ==
  /\ InState(c, "AWAITING_DOLLAR") /\ TakeByte(c)
  /\ Head(wire[c]) = Dollar
  /\ EnterState(c, "AWAITING_STREAM_CHANNEL_ID")
  /\ UNCHANGED <<fRequestBuffer, runVars, fNextTCPReadSize, fNextTCPReadStreamSocketNum>>

ReadChannel(c) ==
  /\ InState(c, "AWAITING_STREAM_CHANNEL_ID") /\ TakeByte(c)
  /\ \/ \E i \in descriptor[c].channels :
          /\ Head(wire[c]) = ChannelId(i)
          /\ descriptor' = [descriptor EXCEPT ![c].fStreamChannel = i,
                                              ![c].fTCPReadingState = "AWAITING_SIZE1"]
     \/ /\ \A i \in descriptor[c].channels : Head(wire[c]) # ChannelId(i)
        /\ EnterState(c, "AWAITING_DOLLAR")
  /\ UNCHANGED <<fRequestBuffer, runVars, fNextTCPReadSize, fNextTCPReadStreamSocketNum>>

ReadSize1(c) ==
  /\ InState(c, "AWAITING_SIZE1") /\ TakeByte(c)
  /\ descriptor' = [descriptor EXCEPT ![c].fSizeByte1 = Head(wire[c]),
                                      ![c].fTCPReadingState = "AWAITING_SIZE2"]
  /\ UNCHANGED <<fRequestBuffer, runVars, fNextTCPReadSize, fNextTCPReadStreamSocketNum>>

\* The interface is told what to read, and from which socket.
ReadSize2(c) ==
  LET i == descriptor[c].fStreamChannel
      size == 256 * descriptor[c].fSizeByte1 + Head(wire[c]) IN
  /\ InState(c, "AWAITING_SIZE2") /\ TakeByte(c)
  /\ EnterState(c, "AWAITING_PACKET_DATA")
  /\ IF i \in descriptor[c].channels
       THEN /\ fNextTCPReadSize' = [fNextTCPReadSize EXCEPT ![i] = size]
            /\ fNextTCPReadStreamSocketNum' = [fNextTCPReadStreamSocketNum EXCEPT ![i] = c]
       ELSE UNCHANGED <<fNextTCPReadSize, fNextTCPReadStreamSocketNum>>
  /\ UNCHANGED <<fRequestBuffer, runVars>>

\* The client has closed its end: ~SocketDescriptor tells the byte handler so,
\* by 0xFF, and the connection goes.
ReadError(c) ==
  /\ running = NULL /\ socketHandler[c] = "descriptor"
  /\ wire[c] = <<>> /\ eof[c]
  /\ \/ descriptor[c].fTCPReadingState # "AWAITING_PACKET_DATA"
     \/ /\ descriptor[c].fStreamChannel = "rtp" /\ "rtp" \in descriptor[c].channels
        /\ fNextTCPReadSize["rtp"] > 0
  /\ CloseConnection(c)

\* Defect: it is not checked whether all has been read.
AllReadUnchecked(c) == FALSE

\* All of the packet's data has been read.
AllRead(c) == fNextTCPReadSize[descriptor[c].fStreamChannel] = 0

\* The packet is over, or nobody wants it.
EndOfPacket(c) ==
  /\ InState(c, "AWAITING_PACKET_DATA")
  /\ wire[c] # <<>> \/ eof[c]
  /\ \/ descriptor[c].fStreamChannel \notin descriptor[c].channels
     \/ AllRead(c)
  /\ EnterState(c, "AWAITING_DOLLAR")
  /\ UNCHANGED <<clientVars, open, bufferVars, runVars, session, socketHandler,
                 interfaceVars, historyVars>>

\* A sink does not read: the bytes are skipped.
SkipByte(c) ==
  /\ InState(c, "AWAITING_PACKET_DATA")
  /\ descriptor[c].fStreamChannel = "rtp" /\ "rtp" \in descriptor[c].channels
  /\ fNextTCPReadSize["rtp"] > 0
  /\ TakeByte(c)
  /\ fNextTCPReadSize' = [fNextTCPReadSize EXCEPT !["rtp"] = @ - 1]
  /\ UNCHANGED <<fRequestBuffer, runVars, descriptor, fNextTCPReadStreamSocketNum>>

ReadsReport(c) ==
  /\ InState(c, "AWAITING_PACKET_DATA")
  /\ wire[c] # <<>> \/ eof[c]
  /\ descriptor[c].fStreamChannel = "rtcp" /\ "rtcp" \in descriptor[c].channels
  /\ fNextTCPReadSize["rtcp"] > 0

\* RTPInterface::handleRead loops until all is read that was asked for, or no
\* more is there: n bytes.  When there are none, or no socket is set, nothing
\* changes: with no socket it is the UDP socket that is read.
Gets(socket, n) ==
  n \in 0..Len(wire[socket]) /\ n <= fNextTCPReadSize["rtcp"] /\ n <= maxRTCPPacketSize - Len(fInBuf)

\* Defect: a packet that came in part is taken for the whole of it.
ReportIsReadAtOnce(n) == n > 0

\* All of the packet has been read.
ReportIsRead(n) == n = fNextTCPReadSize["rtcp"]

\* incomingReportHandler1: the rest of the packet comes in, and is processed.
ReadReport(c) ==
  LET socket == fNextTCPReadStreamSocketNum["rtcp"] IN
  /\ ReadsReport(c)
  /\ socket # NULL /\ Len(fInBuf) < maxRTCPPacketSize
  /\ \E n \in 1..Len(wire[socket]) :
       /\ Gets(socket, n) /\ ReportIsRead(n)
       /\ reports' = [reports EXCEPT ![socket] = Append(@, fInBuf \o SubSeq(wire[socket], 1, n))]
       /\ wire' = [wire EXCEPT ![socket] = SubSeq(@, n + 1, Len(@))]
  /\ fInBuf' = <<>>
  /\ fNextTCPReadSize' = [fNextTCPReadSize EXCEPT !["rtcp"] = 0]
  /\ fNextTCPReadStreamSocketNum' = [fNextTCPReadStreamSocketNum EXCEPT !["rtcp"] = NULL]
  /\ UNCHANGED <<eof, asked, packets, open, bufferVars, runVars, session, readVars,
                 failed, handled>>

\* packetReadWasIncomplete: more of it is to come.
ReadPartOfReport(c) ==
  LET socket == fNextTCPReadStreamSocketNum["rtcp"] IN
  /\ ReadsReport(c)
  /\ socket # NULL /\ Len(fInBuf) < maxRTCPPacketSize
  /\ \E n \in 1..Len(wire[socket]) :
       /\ Gets(socket, n) /\ ~ReportIsRead(n)
       /\ fInBuf' = fInBuf \o SubSeq(wire[socket], 1, n)
       /\ wire' = [wire EXCEPT ![socket] = SubSeq(@, n + 1, Len(@))]
       /\ fNextTCPReadSize' = [fNextTCPReadSize EXCEPT !["rtcp"] = @ - n]
  /\ UNCHANGED <<eof, asked, packets, open, bufferVars, runVars, session, readVars,
                 fNextTCPReadStreamSocketNum, historyVars>>

\* The socket ends inside the packet: what was read of it is dropped, but the
\* descriptor is not told.
ReportBreaksOff(c) ==
  LET socket == fNextTCPReadStreamSocketNum["rtcp"]
      n == Len(wire[socket]) IN
  /\ ReadsReport(c)
  /\ socket # NULL /\ Len(fInBuf) < maxRTCPPacketSize
  /\ eof[socket] /\ Gets(socket, n) /\ ~ReportIsRead(n)
  /\ fInBuf' = <<>>
  /\ wire' = [wire EXCEPT ![socket] = <<>>]
  /\ fNextTCPReadSize' = [fNextTCPReadSize EXCEPT !["rtcp"] = @ - n]
  /\ fNextTCPReadStreamSocketNum' = [fNextTCPReadStreamSocketNum EXCEPT !["rtcp"] = NULL]
  /\ UNCHANGED <<eof, asked, packets, open, bufferVars, runVars, session, readVars,
                 historyVars>>
-----------------------------------------------------------------------------
ReadSocket(c) ==
  \/ ReadRequestBytes(c) \/ ReadEnd(c)
  \/ PassRequestByte(c) \/ ReadDollar(c) \/ ReadChannel(c) \/ ReadSize1(c) \/ ReadSize2(c)
  \/ ReadError(c) \/ EndOfPacket(c) \/ SkipByte(c)
  \/ ReadReport(c) \/ ReadPartOfReport(c) \/ ReportBreaksOff(c)

HandleRequestBytes(c) == TooBig(c) \/ NeedMore(c) \/ HandleRequest(c)

Client(c) ==
  \/ \E request \in Requests : SendRequest(c, request)
  \/ \E packet \in Packets : SendPacket(c, packet)
  \/ Disconnect(c)

Next ==
  \E c \in Clients :
    \/ Client(c)
    \/ ReadSocket(c)
    \/ HandleRequestBytes(c)
    \/ SessionTimesOut(c)
    \/ \E i \in Interfaces : SendFails(c, i)

Spec == Init /\ [][Next]_vars

\* The event loop serves every readable socket (see TaskScheduler), and a
\* handler runs to its end.  What is noticed must be noticed by reading: that
\* a session times out or a send fails is never relied on.
FairSpec ==
  /\ Spec
  /\ \A c \in Clients : WF_vars(ReadSocket(c)) /\ WF_vars(HandleRequestBytes(c))

-----------------------------------------------------------------------------
(* Properties *)

TypeOK ==
  /\ wire \in [Clients -> Seq(Byte)] /\ eof \in [Clients -> BOOLEAN]
  /\ asked \in [Clients -> Seq(Requests)] /\ packets \in [Clients -> Seq(Packets)]
  /\ open \in [Clients -> BOOLEAN]
  /\ fRequestBuffer \in [Clients -> Seq(Byte)]
  /\ fRequestBufferBytesLeft \in [Clients -> Nat]
  /\ fLastCRLF \in [Clients -> Int]
  /\ running \in Clients \cup {NULL} /\ newBytesRead \in Nat
  /\ session \in [Clients -> {"none", "setup", "playing"}]
  /\ socketHandler \in [Clients -> {"connection", "descriptor", "none"}]
  /\ descriptor \in [Clients -> [channels : SUBSET Interfaces, fTCPReadingState : States,
                                 fStreamChannel : Interfaces, fSizeByte1 : Byte,
                                 byteHandler : BOOLEAN]]
  /\ fNextTCPReadSize \in [Interfaces -> Nat]
  /\ fNextTCPReadStreamSocketNum \in [Interfaces -> Clients \cup {NULL}]
  /\ fInBuf \in Seq(Byte)
  /\ failed \subseteq Clients
  /\ handled \in [Clients -> Seq(Seq(Byte))] /\ reports \in [Clients -> Seq(Seq(Byte))]

\* Two clients that send packets use the same interface, which keeps of one
\* of them only how much is to be read, and from which socket.
SharesInterface(c) == packets[c] # <<>> /\ \E d \in Clients \ {c} : packets[d] # <<>>

\* Every request is handled once, in order and with its own body, however TCP
\* cuts the stream up, whatever comes between the requests, and although the
\* reader of the socket changes in the middle (handleRequestBytes).  Bytes of
\* a packet may pass for a request's only when an interface gave the socket
\* up, or two clients share it.
RequestsInOrder ==
  \A c \in Clients \ failed : SharesInterface(c) \/ IsPrefix(handled[c], asked[c])

\* A complete request does not wait in the buffer for the next read: the scan
\* that begins at fLastCRLF misses none (handleRequestBytes).
RequestsAreSeen ==
  \A c \in Clients : running = NULL => ~HoldsAMessage(fRequestBuffer[c])

\* The count of the room left is right whenever bytes are read, and there
\* always is some: a read stays within fRequestBuffer, and a socket is never
\* read with no room, which would look like its end (handleRequestBytes).
BufferHasRoom ==
  \A c \in Clients :
    LET new == IF running = c THEN newBytesRead ELSE 0 IN
    /\ fRequestBufferBytesLeft[c] + Len(fRequestBuffer[c]) - new = REQUEST_BUFFER_SIZE
    /\ new <= fRequestBufferBytesLeft[c]
    /\ running # c => fRequestBufferBytesLeft[c] > 0

\* A socket has one reader: the descriptor while an interface is registered
\* with it, which is only while its session plays; a closed one has none
\* (RTPInterface.cpp, RTSPClientConnection).
OneReader ==
  \A c \in Clients :
    /\ socketHandler[c] = "descriptor" <=> descriptor[c].channels # {}
    /\ descriptor[c].channels # {} => session[c] = "playing" /\ descriptor[c].byteHandler
    /\ ~open[c] => socketHandler[c] = "none" /\ session[c] = "none"

\* The RTCP packets that are processed as a client's are those it sent, whole,
\* in order and none left out, except those without data (handleRead,
\* incomingReportHandler1).
IsReport(packet) == packet.interface = "rtcp" /\ packet.data # <<>>

ReportsAre(c, at) ==
  /\ \A i, j \in DOMAIN reports[c] : i < j => at[i] < at[j]
  /\ \A i \in DOMAIN reports[c] : /\ IsReport(packets[c][at[i]])
                                  /\ reports[c][i] = packets[c][at[i]].data
  /\ \A i \in DOMAIN reports[c], k \in DOMAIN packets[c] :
       k < at[i] /\ IsReport(packets[c][k]) => \E j \in DOMAIN reports[c] : at[j] = k

ReportsAreSent(c) ==
  \E at \in [DOMAIN reports[c] -> DOMAIN packets[c]] : ReportsAre(c, at)

ReportsAreTheClients ==
  \A c \in Clients \ failed : SharesInterface(c) \/ ReportsAreSent(c)

\* Not so when they share it.
SharedReportsAreTheClients == \A c \in Clients \ failed : ReportsAreSent(c)

\* As long as somebody reads the socket, what the client sends is read.
BytesAreRead ==
  \A c \in Clients :
    wire[c] # <<>> ~> wire[c] = <<>> \/ socketHandler[c] = "none"

\* The descriptor is inside a report of which the interface reads no more from
\* its socket: handleRead gave the socket up where the report broke off
\* (RTPInterface.cpp:284-292), or was told to read from another client's.
StuckInReport(c) ==
  /\ InState(c, "AWAITING_PACKET_DATA")
  /\ descriptor[c].fStreamChannel = "rtcp" /\ fNextTCPReadSize["rtcp"] > 0
  /\ fNextTCPReadStreamSocketNum["rtcp"] # c

\* A connection that its client closes is noticed and deleted by reading its
\* socket, with two exceptions.  Nobody reads the socket of a connection whose
\* session ended while it streamed over it, by TEARDOWN or a time-out
\* (OnDemandServerMediaSubsession.cpp:585).  And a descriptor whose client
\* leaves in the middle of a report is stuck there; if no send fails before,
\* the session's time-out makes it the first exception.  Either connection
\* then stays open for ever (see OpenSocketsAreRead).
DisconnectIsNoticed ==
  \A c \in Clients :
    eof[c] ~> ~open[c] \/ socketHandler[c] = "none" \/ StuckInReport(c)

\* ~SocketDescriptor's comment: when no error occurred, the connection takes
\* over control of the TCP socket once again (RTPInterface.cpp).
OpenSocketsAreRead == \A c \in Clients : open[c] => socketHandler[c] # "none"

=============================================================================
