--------------------------- MODULE LiveSubsession ---------------------------
(***************************************************************************)
(* How clients share the camera: the RTSP commands of client sessions, the *)
(* StreamState objects that OnDemandServerMediaSubsession hands out and    *)
(* counts references to, and the nested event loop in which                *)
(* H264LiveServerMediaSession waits for a DESCRIBE's parameter sets.       *)
(*                                                                         *)
(* webcam.cpp makes one subsession, with fReuseFirstSource set.  A client  *)
(* stands for its session (one track) and for the connection it uses: what *)
(* it sends after that connection has ended comes over a new one.  That    *)
(* the number of an ended connection's socket is given to another one is   *)
(* not modelled.                                                           *)
(* There is one thread: every handler runs to its end, except that of a    *)
(* DESCRIBE, which runs the event loop while it waits.                     *)
(***************************************************************************)
EXTENDS Integers, FiniteSets

CONSTANTS
  Clients,         \* client sessions
  Streams,         \* StreamState objects
  Dummy,           \* the source a DESCRIBE creates
  CameraMayFail,   \* can setting up a camera that nobody uses fail
  NULL             \* no client, no stream

ASSUME SubsessionAssumption ==
  /\ IsFiniteSet(Clients)
  /\ NULL \notin Clients \cup Streams
  /\ Dummy \notin Streams \cup {NULL}
  /\ CameraMayFail \in BOOLEAN

VARIABLES
  subsession,      \* streams, fLastStreamToken, and who has the camera
  fSDPLines,       \* are the SDP lines known
  describing,      \* the client whose DESCRIBE runs the nested event loop
  closing,         \* that client's connection was closed meanwhile
  parameterSets,   \* SPS and PPS that the DESCRIBE's framer has seen: 0..2
  sessions,        \* clients with an RTSPClientSession
  streamToken,     \* fStreamStates[0].streamToken of each session
  tcpSocketNum,    \* fStreamStates[0].tcpSocketNum: the socket of no connection
                   \* ("none"), of an "open" or of a "closed" one
  destinations,    \* fDestinationsHashTable: "none", "udp", "tcp", or "closed",
                   \* a TCP destination whose connection has ended
  fTCPStreamingDatabase, \* clients whose connection carries a stream
  answered,        \* the transport the last SETUP's response named
  played           \* clients whose PLAY was answered, since their SETUP

sdpVars == <<fSDPLines, describing, closing, parameterSets>>
sessionVars == <<sessions, streamToken, tcpSocketNum, destinations,
                 fTCPStreamingDatabase, answered, played>>
vars == <<subsession, sdpVars, sessionVars>>

\* No StreamState, and a StreamState on which PLAY was not received yet.
NoStream == [referenceCount |-> 0, source |-> FALSE, playing |-> FALSE, receivers |-> {}]
NewStream(source) == [NoStream EXCEPT !.referenceCount = 1, !.source = source]

StreamOf(c) == subsession.streams[streamToken[c]]

-----------------------------------------------------------------------------
(* OnDemandServerMediaSubsession, as functions of the subsession's state *)

\* Defect: the token of a deleted StreamState is kept for the next client.
ReclaimKeepingToken(s, t) ==
  [s EXCEPT !.streams[t] = NoStream, !.camera = IF @ = t THEN NULL ELSE @]

\* Defect: the source is not closed with its stream.
ReclaimKeepingSource(s, t) ==
  [s EXCEPT !.streams[t] = NoStream, !.fLastStreamToken = IF @ = t THEN NULL ELSE @]

\* delete streamState: sinks, source and sockets go, and the token with them.
Reclaim(s, t) ==
  [s EXCEPT !.streams[t] = NoStream,
            !.fLastStreamToken = IF @ = t THEN NULL ELSE @,
            !.camera = IF @ = t THEN NULL ELSE @]

\* Defect: a stream is deleted while it still has a reference.
ReleaseTooEarly(s, t) ==
  LET left == [s EXCEPT !.streams[t].referenceCount = IF @ > 0 THEN @ - 1 ELSE 0]
  IN IF left.streams[t].referenceCount <= 1 THEN Reclaim(left, t) ELSE left

\* One reference less, if there is any.
Release(s, t) ==
  LET left == [s EXCEPT !.streams[t].referenceCount = IF @ > 0 THEN @ - 1 ELSE 0]
  IN IF left.streams[t].referenceCount = 0 THEN Reclaim(left, t) ELSE left

\* Defect: the client's destination stays with the sockets.
EndPlayingNowhere(s, c) == s

\* The sink and RTCP stop sending to the client.
EndPlaying(s, c) == [s EXCEPT !.streams[streamToken[c]].receivers = @ \ {c}]

\* Look up the client's destinations, stop sending to them, and drop its
\* reference.  One SETUP made the destinations and the token, so there are
\* none without the other.
DeleteStream(s, c) ==
  IF streamToken[c] = NULL THEN s ELSE Release(EndPlaying(s, c), streamToken[c])

\* The client is sent to from now on; the sink starts, once, if it has a
\* source.  Without a token (the SETUP found no track) nothing happens.
StartPlaying(s, c) ==
  IF streamToken[c] = NULL THEN s
  ELSE [s EXCEPT !.streams[streamToken[c]].receivers = @ \cup {c},
                 !.streams[streamToken[c]].playing =
                    @ \/ s.streams[streamToken[c]].source]

\* What createNewStreamSource can return, TRUE for a source: while another
\* source has the camera its driver refuses, and set-up can fail otherwise.
NewSourceOutcomes(s) ==
  {source \in BOOLEAN : IF source THEN s.camera = NULL
                        ELSE s.camera # NULL \/ CameraMayFail}

\* Defect: reusing a stream takes no reference to it.
ReuseWithoutReference(s, t, after) ==
  /\ s.fLastStreamToken = t
  /\ after = s

\* Every later client shares the stream that the first one created.
Reuse(s, t, after) ==
  /\ s.fLastStreamToken = t
  /\ after = [s EXCEPT !.streams[t].referenceCount = @ + 1]

\* The first one: the StreamState is made whether there is a source or not.
CreateStream(s, t, after) ==
  /\ s.fLastStreamToken = NULL
  /\ s.streams[t] = NoStream
  /\ \E source \in NewSourceOutcomes(s) :
       after = [streams |-> [s.streams EXCEPT ![t] = NewStream(source)],
                fLastStreamToken |-> t,
                camera |-> IF source THEN t ELSE s.camera]

\* getStreamParameters yields token t and leaves the subsession as `after'.
GetStreamParameters(s, t, after) == Reuse(s, t, after) \/ CreateStream(s, t, after)

-----------------------------------------------------------------------------
(* DESCRIBE *)

\* The SDP lines are known, or no source could be created: answered at once.
DescribeAnswered(c) ==
  /\ ~(describing = c /\ closing)
  /\ fSDPLines \/ FALSE \in NewSourceOutcomes(subsession)
  /\ UNCHANGED vars

\* sdpLines and getAuxSDPLine, up to the nested loop.  startPlaying has
\* brought the first NAL, the SPS, when checkForAuxSDPLine1 first looks.
Describe(c) ==
  /\ describing = NULL
  /\ ~fSDPLines /\ TRUE \in NewSourceOutcomes(subsession)
  /\ subsession' = [subsession EXCEPT !.camera = Dummy]
  /\ describing' = c
  /\ parameterSets' = 1
  /\ UNCHANGED <<fSDPLines, closing, sessionVars>>

\* The DESCRIBE's sink asks its source for the next NAL.
NextNal ==
  /\ describing # NULL
  /\ parameterSets < 2
  /\ parameterSets' = parameterSets + 1
  /\ UNCHANGED <<subsession, fSDPLines, describing, closing, sessionVars>>

-----------------------------------------------------------------------------
(* Client sessions *)

\* A client whose connection is being closed sends no request.
CanRequest(c) == ~(describing = c /\ closing)

\* noteTCPStreamingOnSocket and unnoteTCPStreamingOnSocket.
Note(database, c) == database \cup {c}

\* Defect: the record of an ended stream's connection is not removed.
UnnoteNothing(database, c) == database

Unnote(database, c) == database \ {c}

\* What the end of a session leaves of its tables; deleteStream takes the
\* destinations, and the other fields go with the session object.
SessionEnds(c) ==
  /\ sessions' = sessions \ {c}
  /\ streamToken' = [streamToken EXCEPT ![c] = NULL]
  /\ destinations' = [destinations EXCEPT ![c] = "none"]
  /\ tcpSocketNum' = [tcpSocketNum EXCEPT ![c] = "none"]
  /\ fTCPStreamingDatabase' = Unnote(fTCPStreamingDatabase, c)
  /\ answered' = [answered EXCEPT ![c] = "none"]
  /\ played' = played \ {c}

\* The destinations that getStreamParameters makes of a tcpSocketNum.
DestinationsOver(socketNum) ==
  CASE socketNum = "none" -> "udp" [] socketNum = "open" -> "tcp" [] OTHER -> "closed"

\* handleCmd_SETUP of the track.  An earlier SETUP of the session is undone
\* first: pauseStream does nothing, then its record and its stream go, but
\* tcpSocketNum stays.  The destinations follow tcpSocketNum, the response
\* follows the request.
Setup(c, mode) ==
  /\ CanRequest(c)
  /\ sessions' = sessions \cup {c}
  /\ tcpSocketNum' = [tcpSocketNum EXCEPT ![c] = IF mode = "tcp" THEN "open" ELSE @]
  /\ fTCPStreamingDatabase' =
       IF mode = "tcp" THEN Note(Unnote(fTCPStreamingDatabase, c), c)
                       ELSE Unnote(fTCPStreamingDatabase, c)
  /\ \E t \in Streams :
       /\ GetStreamParameters(DeleteStream(subsession, c), t, subsession')
       /\ streamToken' = [streamToken EXCEPT ![c] = t]
  /\ destinations' = [destinations EXCEPT ![c] = DestinationsOver(tcpSocketNum'[c])]
  /\ answered' = [answered EXCEPT ![c] = mode]
  /\ played' = played \ {c}
  /\ UNCHANGED sdpVars

\* handleCmd_SETUP of a track that does not exist: the session remains.
SetupNoSuchTrack(c) ==
  /\ CanRequest(c)
  /\ sessions' = sessions \cup {c}
  /\ UNCHANGED <<subsession, sdpVars, streamToken, tcpSocketNum, destinations,
                 fTCPStreamingDatabase, answered, played>>

\* handleCmd_PLAY.  With a closed destination addStreamSocket registers a socket
\* that does not exist: what the scheduler's next select makes of it is not
\* modelled, nor what follows when another connection has its number by then.
Play(c) ==
  /\ CanRequest(c)
  /\ c \in sessions
  /\ subsession' = StartPlaying(subsession, c)
  /\ played' = played \cup {c}
  /\ UNCHANGED <<sdpVars, sessions, streamToken, tcpSocketNum, destinations,
                 fTCPStreamingDatabase, answered>>

\* Defect: the stream is paused for everybody.
PausePauses(c) ==
  /\ CanRequest(c)
  /\ c \in sessions
  /\ streamToken[c] # NULL
  /\ subsession' = [subsession EXCEPT !.streams[streamToken[c]].playing = FALSE]
  /\ UNCHANGED <<sdpVars, sessionVars>>

\* handleCmd_PAUSE, GET_PARAMETER and SET_PARAMETER: pauseStream returns at
\* once because other clients may receive the stream.
Pause(c) ==
  /\ CanRequest(c)
  /\ c \in sessions
  /\ UNCHANGED vars

\* handleCmd_TEARDOWN; and livenessTimeoutTask, when neither requests nor
\* RTCP reports have come for fReclamationSeconds.
Teardown(c) ==
  /\ c \in sessions
  /\ subsession' = DeleteStream(subsession, c)
  /\ SessionEnds(c)
  /\ UNCHANGED sdpVars

-----------------------------------------------------------------------------
(* The end of connections and of a DESCRIBE *)

\* sendDataOverTCP: a send to the client's connection fails or times out, and
\* removeStreamSocket takes its destination from the sink.  Its session, and
\* the record of it, go on; a PLAY adds the destination again.
SendFails(c) ==
  /\ streamToken[c] # NULL
  /\ c \in StreamOf(c).receivers
  /\ StreamOf(c).playing
  /\ destinations[c] \in {"tcp", "closed"}
  /\ subsession' = EndPlaying(subsession, c)
  /\ UNCHANGED <<sdpVars, sessionVars>>

\* What the end of the connection does to a session that is not in the
\* database.  One that streams over UDP is left to its liveness timeout.  One
\* that streams over the connection all the same goes on too: ~SocketDescriptor
\* takes its destination from the sink when it finds the sink's channel
\* registered (RTCP's may have replaced it), else the next send will fail.
LosesConnection(c, s) ==
  /\ \/ subsession' = s
     \/ destinations[c] = "tcp" /\ subsession' = EndPlaying(s, c)
  /\ destinations' = [destinations EXCEPT ![c] = IF @ = "tcp" THEN "closed" ELSE @]
  /\ tcpSocketNum' = [tcpSocketNum EXCEPT ![c] = IF @ = "open" THEN "closed" ELSE @]
  /\ UNCHANGED <<sessions, streamToken, fTCPStreamingDatabase, answered, played>>

\* stopTCPStreamingOnSocket: a session that the database has for the
\* connection ends with it.
StopTCPStreaming(c, s) ==
  \/ /\ c \in fTCPStreamingDatabase
     /\ subsession' = DeleteStream(s, c)
     /\ SessionEnds(c)
  \/ c \notin fTCPStreamingDatabase /\ LosesConnection(c, s)

\* The connection is closed.  In the middle of its own DESCRIBE it only stops
\* being read (fRecursionCount), and is deleted when the DESCRIBE is over.
Disconnect(c) ==
  /\ CanRequest(c)
  /\ IF describing = c
     THEN /\ closing' = TRUE
          /\ UNCHANGED <<subsession, fSDPLines, describing, parameterSets, sessionVars>>
     ELSE StopTCPStreaming(c, subsession) /\ UNCHANGED sdpVars

\* Defect: the nested loop looks for the SPS only, and goes on for ever.
CheckForAuxSDPLineNever ==
  /\ describing # NULL
  /\ parameterSets = 1
  /\ UNCHANGED vars

\* checkForAuxSDPLine1 finds both parameter sets and sets fDoneFlag: the
\* nested loop ends, setSDPLinesFromRTPSink keeps the lines, sdpLines closes
\* its sink and source, and the DESCRIBE is answered.
CheckForAuxSDPLine ==
  LET closed == [subsession EXCEPT !.camera = IF @ = Dummy THEN NULL ELSE @]
  IN /\ describing # NULL
     /\ parameterSets = 2
     /\ fSDPLines' = TRUE
     /\ describing' = NULL
     /\ closing' = FALSE
     /\ parameterSets' = 0
     /\ IF closing THEN StopTCPStreaming(describing, closed)
                   ELSE subsession' = closed /\ UNCHANGED sessionVars

-----------------------------------------------------------------------------

Init ==
  /\ subsession = [streams |-> [t \in Streams |-> NoStream],
                   fLastStreamToken |-> NULL, camera |-> NULL]
  /\ fSDPLines = FALSE
  /\ describing = NULL
  /\ closing = FALSE
  /\ parameterSets = 0
  /\ sessions = {}
  /\ streamToken = [c \in Clients |-> NULL]
  /\ tcpSocketNum = [c \in Clients |-> "none"]
  /\ destinations = [c \in Clients |-> "none"]
  /\ fTCPStreamingDatabase = {}
  /\ answered = [c \in Clients |-> "none"]
  /\ played = {}

Request(c) ==
  \/ DescribeAnswered(c)
  \/ Describe(c)
  \/ \E mode \in {"udp", "tcp"} : Setup(c, mode)
  \/ SetupNoSuchTrack(c)
  \/ Play(c)
  \/ Pause(c)
  \/ Teardown(c)
  \/ Disconnect(c)

Next ==
  \/ \E c \in Clients : Request(c) \/ SendFails(c)
  \/ NextNal
  \/ CheckForAuxSDPLine

Spec == Init /\ [][Next]_vars

\* The DESCRIBE's sink is served by the nested loop, and the 100 ms task that
\* looks for the parameter sets is scheduled again until they are there.
FairSpec == Spec /\ WF_vars(NextNal) /\ WF_vars(CheckForAuxSDPLine)

-----------------------------------------------------------------------------
(* Properties *)

TypeOK ==
  /\ subsession \in [streams : [Streams -> [referenceCount : Nat, source : BOOLEAN,
                                            playing : BOOLEAN, receivers : SUBSET Clients]],
                     fLastStreamToken : Streams \cup {NULL},
                     camera : Streams \cup {Dummy, NULL}]
  /\ fSDPLines \in BOOLEAN
  /\ describing \in Clients \cup {NULL}
  /\ closing \in BOOLEAN
  /\ parameterSets \in 0..2
  /\ sessions \subseteq Clients
  /\ streamToken \in [Clients -> Streams \cup {NULL}]
  /\ tcpSocketNum \in [Clients -> {"none", "open", "closed"}]
  /\ destinations \in [Clients -> {"none", "udp", "tcp", "closed"}]
  /\ fTCPStreamingDatabase \subseteq Clients
  /\ answered \in [Clients -> {"none", "udp", "tcp"}]
  /\ played \subseteq Clients

Holders(t) == {c \in Clients : streamToken[c] = t}

\* A StreamState has as many references as sessions have its token: none is
\* deleted while a session still points to it, and none stays behind when the
\* last session ends, be it by TEARDOWN, a second SETUP, a timeout or a lost
\* connection, in any order.
ReferencesAreCounted ==
  \A t \in Streams : subsession.streams[t].referenceCount = Cardinality(Holders(t))

\* fLastStreamToken, which the next session will be given, names the stream
\* that all sessions use, and none when no session uses one: a stream is
\* never replaced while it is used, and never handed out after its deletion.
ClientsShareOneStream ==
  \A t \in Streams : subsession.fLastStreamToken = t <=> Holders(t) # {}

\* The camera is taken by the DESCRIBE in progress or by the stream in use,
\* never by both, and by nothing when both are over: the next client can have
\* it.  A stream's source is the one that has the camera.
CameraHasOneUser ==
  LET s == subsession IN
  /\ s.camera = Dummy <=> describing # NULL
  /\ \A t \in Streams : s.camera = t <=> s.streams[t].source
  /\ s.camera \in Streams => \E c \in sessions : streamToken[c] = s.camera

\* A stream is sent to nobody but clients that asked to play it and did not
\* leave, and to each of those that it reaches over UDP.  Who is reached over
\* TCP may be missing: a send that failed (RTPInterface.cpp:369-388) or the end
\* of the connection took its destination while its session goes on.
ReceiversAreThePlayers ==
  \A t \in Streams :
    LET players == Holders(t) \cap played IN
    /\ subsession.streams[t].receivers \subseteq players
    /\ \A c \in players : destinations[c] = "udp" => c \in subsession.streams[t].receivers

\* stopTCPStreamingOnSocket, when a connection ends, stops sessions that stream
\* over it and no others, and all of them except those that a second SETUP was
\* answered with UDP although they stream over the connection as before
\* (RTSPServer.cpp:1343, 1421; TransportAsAnswered is about these).
DatabaseHoldsTheTcpSessions ==
  \A c \in Clients :
    /\ c \in fTCPStreamingDatabase => destinations[c] = "tcp"
    /\ destinations[c] \in {"tcp", "closed"} =>
         c \in fTCPStreamingDatabase \/ answered[c] = "udp"

Fed(c) ==
  /\ streamToken[c] # NULL
  /\ c \in StreamOf(c).receivers
  /\ StreamOf(c).source /\ StreamOf(c).playing

\* No client's request, departure, failing send or DESCRIBE stops another
\* client's video: who stops being fed has ended its own session or sent a new
\* SETUP, or was sent to over TCP and its own connection failed or ended.
NoClientStopsAnother ==
  [][\A c \in Clients : Fed(c) /\ ~Fed(c)' =>
       \A d \in Clients \ {c} :
         /\ streamToken'[d] = streamToken[d] /\ (d \in played' <=> d \in played)
         /\ c \in sessions' => c \notin played' \/ destinations'[c] \in {"tcp", "closed"}]_vars

\* The references, tokens and sources amount to one camera shared by all
\* sessions: it is set up with the first one, no other one takes it away, and
\* it is given back with the last one, in whatever way they end.
Sharers == {c \in Clients : streamToken[c] # NULL}

CameraOf(s) ==
  IF s.camera = NULL THEN "nobody" ELSE IF s.camera = Dummy THEN "describe" ELSE "stream"

Shared ==
  INSTANCE SharedCamera WITH
    users   <- Sharers,
    viewers <- UNION {subsession.streams[t].receivers : t \in Streams},
    camera  <- CameraOf(subsession)

SharedCameraSpec == Shared!Spec

\* A DESCRIBE that waits for the parameter sets is answered.
DescribeEnds == \A c \in Clients : describing = c ~> describing # c

\* The README's "streaming server- to N number of clients": a client whose
\* SETUP and PLAY were answered is sent video, at least when nobody else has
\* the camera and no connection can fail, because it is sent to over UDP.
PlayingClientsAreFed ==
  \A c \in played :
    (/\ streamToken[c] # NULL
     /\ subsession.camera = NULL
     /\ destinations[c] = "udp") => Fed(c)

\* The response to a SETUP names the transport that is used
\* (RTSPServer.cpp:1477), after "any existing streaming" of the session was
\* stopped (RTSPServer.cpp:1341).
TransportAsAnswered == \A c \in Clients : destinations[c] = answered[c]

\* The end of a connection closes "any stream that is streaming over" it
\* (RTSPServer.cpp:248): no session keeps a destination on a closed socket.
NoStreamOnClosedConnection == \A c \in Clients : destinations[c] # "closed"

=============================================================================
