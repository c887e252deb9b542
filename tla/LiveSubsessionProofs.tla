------------------------ MODULE LiveSubsessionProofs ------------------------
(***************************************************************************)
(* Proofs about LiveSubsession, for any finite set of clients and any set  *)
(* of StreamState objects.                                                 *)
(*                                                                         *)
(* The core of the inductive invariant, SharingInv, relates the state of   *)
(* the subsession to the tokens that sessions hold.  It is a formula of    *)
(* its own parameters, so that the operations a handler composes (a second *)
(* SETUP deletes a stream and then gets one) can be treated one by one.    *)
(***************************************************************************)
EXTENDS LiveSubsession, FiniteSetTheorems, TLAPS

StreamType == [referenceCount : Nat, source : BOOLEAN, playing : BOOLEAN,
               receivers : SUBSET Clients]

SubsessionType == [streams : [Streams -> StreamType],
                   fLastStreamToken : Streams \cup {NULL},
                   camera : Streams \cup {Dummy, NULL}]

Users(token, t) == {c \in Clients : token[c] = t}

\* What must hold of a subsession s when sessions hold the tokens `token'
\* and the clients pl have been answered a PLAY.
SharingInv(s, token, pl) ==
  /\ s \in SubsessionType
  /\ token \in [Clients -> Streams \cup {NULL}]
  /\ pl \subseteq Clients
  /\ \A t \in Streams : s.streams[t].referenceCount = Cardinality(Users(token, t))
  /\ \A t \in Streams : s.fLastStreamToken = t <=> Users(token, t) # {}
  /\ \A t \in Streams : s.camera = t <=> s.streams[t].source
  /\ \A t \in Streams : s.streams[t].receivers \subseteq Users(token, t) \cap pl
  /\ \A t \in Streams : Users(token, t) = {} => s.streams[t] = NoStream

\* The receivers of the streams of a are those of s, without c or all of them.
ReceiversWithout(a, s, c) ==
  \A u \in Streams : a.streams[u].receivers = s.streams[u].receivers \ {c}
ReceiversKept(a, s) == \A u \in Streams : a.streams[u].receivers = s.streams[u].receivers

\* Who plays over UDP is among the receivers of its stream of s.
UdpReached(s) ==
  \A c \in played : streamToken[c] # NULL /\ destinations[c] = "udp" =>
    c \in s.streams[streamToken[c]].receivers

SessionInv ==
  /\ \A c \in Clients : streamToken[c] # NULL => c \in sessions
  /\ \A c \in Clients : destinations[c] # "none" => streamToken[c] # NULL
  /\ DatabaseHoldsTheTcpSessions
  /\ subsession.camera = Dummy <=> describing # NULL

IInv ==
  /\ TypeOK
  /\ SharingInv(subsession, streamToken, played)
  /\ UdpReached(subsession)
  /\ SessionInv

-----------------------------------------------------------------------------
(* The sets of users *)

\* A client that lets its token go changes the number of that token's users
\* by one and no other's.
LEMMA UsersOneLess ==
  ASSUME NEW token \in [Clients -> Streams \cup {NULL}], NEW c \in Clients,
         NEW t \in Streams, token[c] = t
  PROVE  LET after == [token EXCEPT ![c] = NULL] IN
         /\ Users(after, t) = Users(token, t) \ {c}
         /\ \A u \in Streams : u # t => Users(after, u) = Users(token, u)
         /\ Cardinality(Users(token, t)) \in Nat
         /\ Cardinality(Users(token, t)) > 0
         /\ Cardinality(Users(after, t)) = Cardinality(Users(token, t)) - 1
         /\ Cardinality(Users(after, t)) = 0 <=> Users(after, t) = {}
<1> DEFINE after == [token EXCEPT ![c] = NULL]
<1>1. IsFiniteSet(Users(token, t)) /\ c \in Users(token, t)
  BY SubsessionAssumption, FS_Subset DEF Users
<1>2. Users(after, t) = Users(token, t) \ {c}
  BY SubsessionAssumption DEF Users
<1>3. \A u \in Streams : u # t => Users(after, u) = Users(token, u)
  BY SubsessionAssumption DEF Users
<1>4. Cardinality(Users(token, t) \ {c}) = Cardinality(Users(token, t)) - 1
  BY <1>1, FS_RemoveElement
<1>5. Cardinality(Users(token, t)) \in Nat /\ IsFiniteSet(Users(token, t) \ {c})
  BY <1>1, FS_CardinalityType, FS_RemoveElement
<1>6. Cardinality(Users(token, t) \ {c}) \in Nat
  BY <1>5, FS_CardinalityType
<1>7. Cardinality(Users(token, t) \ {c}) = 0 <=> Users(token, t) \ {c} = {}
  BY <1>5, FS_EmptySet
<1>8. Cardinality(Users(token, t)) > 0
  BY <1>4, <1>5, <1>6
<1> HIDE DEF after
<1> QED
  BY <1>2, <1>3, <1>4, <1>5, <1>7, <1>8 DEF after

\* Likewise for a client that had no token and takes one.
LEMMA UsersOneMore ==
  ASSUME NEW token \in [Clients -> Streams \cup {NULL}], NEW c \in Clients,
         NEW t \in Streams, token[c] = NULL
  PROVE  LET after == [token EXCEPT ![c] = t] IN
         /\ Users(after, t) = Users(token, t) \cup {c}
         /\ \A u \in Streams : u # t => Users(after, u) = Users(token, u)
         /\ Cardinality(Users(token, t)) \in Nat
         /\ Cardinality(Users(after, t)) = Cardinality(Users(token, t)) + 1
<1> DEFINE after == [token EXCEPT ![c] = t]
<1>1. IsFiniteSet(Users(token, t)) /\ c \notin Users(token, t)
  BY SubsessionAssumption, FS_Subset DEF Users
<1>2. Users(after, t) = Users(token, t) \cup {c}
  BY SubsessionAssumption DEF Users
<1>3. \A u \in Streams : u # t => Users(after, u) = Users(token, u)
  BY SubsessionAssumption DEF Users
<1>4. Cardinality(Users(token, t) \cup {c}) = Cardinality(Users(token, t)) + 1
  BY <1>1, FS_AddElement
<1>5. Cardinality(Users(token, t)) \in Nat
  BY <1>1, FS_CardinalityType
<1> QED
  BY <1>2, <1>3, <1>4, <1>5

-----------------------------------------------------------------------------
(* The operations of the subsession *)

\* endPlaying changes the receivers of the client's stream.
LEMMA EndPlayingFields ==
  ASSUME NEW s \in SubsessionType, NEW c \in Clients,
         streamToken[c] \in Streams
  PROVE  LET t == streamToken[c]
             e == EndPlaying(s, c)
         IN /\ e \in SubsessionType
            /\ e.fLastStreamToken = s.fLastStreamToken
            /\ e.camera = s.camera
            /\ \A u \in Streams : u # t => e.streams[u] = s.streams[u]
            /\ e.streams[t] = [s.streams[t] EXCEPT !.receivers = @ \ {c}]
BY DEF EndPlaying, SubsessionType, StreamType

\* The last reference takes the stream, its source and its token with it;
\* any other one just goes.
LEMMA ReleaseFields ==
  ASSUME NEW s \in SubsessionType, NEW t \in Streams,
         s.streams[t].referenceCount > 0
  PROVE  LET r == Release(s, t) IN
         /\ r \in SubsessionType
         /\ \A u \in Streams : u # t => r.streams[u] = s.streams[u]
         /\ s.streams[t].referenceCount = 1 =>
              /\ r.streams[t] = NoStream
              /\ r.fLastStreamToken = IF s.fLastStreamToken = t THEN NULL
                                                                ELSE s.fLastStreamToken
              /\ r.camera = IF s.camera = t THEN NULL ELSE s.camera
         /\ s.streams[t].referenceCount # 1 =>
              /\ r.streams[t] = [s.streams[t] EXCEPT !.referenceCount = @ - 1]
              /\ r.fLastStreamToken = s.fLastStreamToken
              /\ r.camera = s.camera
<1> DEFINE left == [s EXCEPT !.streams[t].referenceCount = IF @ > 0 THEN @ - 1 ELSE 0]
<1>1. /\ left \in SubsessionType
      /\ left.fLastStreamToken = s.fLastStreamToken
      /\ left.camera = s.camera
      /\ \A u \in Streams : u # t => left.streams[u] = s.streams[u]
      /\ left.streams[t] = [s.streams[t] EXCEPT !.referenceCount = @ - 1]
  <2> DEFINE n == s.streams[t].referenceCount - 1
             one == [s.streams[t] EXCEPT !.referenceCount = n]
  <2>1. s.streams[t] \in StreamType /\ n \in Nat
    BY DEF SubsessionType, StreamType
  <2>2. one \in StreamType
    BY <2>1 DEF StreamType
  <2>3. left = [s EXCEPT !.streams = [s.streams EXCEPT ![t] = one]]
    OBVIOUS
  <2> HIDE DEF left, one
  <2>4. /\ left \in SubsessionType
        /\ left.fLastStreamToken = s.fLastStreamToken
        /\ left.camera = s.camera
        /\ \A u \in Streams : u # t => left.streams[u] = s.streams[u]
        /\ left.streams[t] = one
    BY <2>2, <2>3 DEF SubsessionType
  <2> QED
    BY <2>4 DEF one
<1>2. left.streams[t].referenceCount = s.streams[t].referenceCount - 1
  BY <1>1 DEF SubsessionType, StreamType
<1>3. Release(s, t) = IF left.streams[t].referenceCount = 0 THEN Reclaim(left, t) ELSE left
  BY DEF Release
<1> HIDE DEF left
<1>4. CASE s.streams[t].referenceCount = 1
  <2>1. Release(s, t) = Reclaim(left, t)
    BY <1>2, <1>3, <1>4
  <2>2. NoStream \in StreamType
    BY DEF NoStream, StreamType
  <2>3. /\ Reclaim(left, t) \in SubsessionType
        /\ \A u \in Streams : u # t => Reclaim(left, t).streams[u] = left.streams[u]
        /\ Reclaim(left, t).streams[t] = NoStream
        /\ Reclaim(left, t).fLastStreamToken =
             IF left.fLastStreamToken = t THEN NULL ELSE left.fLastStreamToken
        /\ Reclaim(left, t).camera = IF left.camera = t THEN NULL ELSE left.camera
    BY <1>1, <2>2 DEF Reclaim, SubsessionType
  <2> QED
    BY <1>1, <1>4, <2>1, <2>3
<1>5. CASE s.streams[t].referenceCount # 1
  <2>1. s.streams[t].referenceCount \in Nat
    BY DEF SubsessionType, StreamType
  <2>2. Release(s, t) = left
    BY <1>2, <1>3, <1>5, <2>1
  <2> QED
    BY <1>1, <1>5, <2>2
<1> QED
  BY <1>4, <1>5

\* deleteStream keeps the sharing in order once the session's token is gone.
LEMMA DeleteStreamKeepsSharing ==
  ASSUME NEW s, NEW pl, NEW c \in Clients,
         SharingInv(s, streamToken, pl)
  PROVE  /\ SharingInv(DeleteStream(s, c), [streamToken EXCEPT ![c] = NULL], pl \ {c})
         /\ DeleteStream(s, c).camera = Dummy <=> s.camera = Dummy
         /\ ReceiversWithout(DeleteStream(s, c), s, c)
<1> DEFINE after == [streamToken EXCEPT ![c] = NULL]
<1>1. CASE streamToken[c] = NULL
  <2>1. DeleteStream(s, c) = s
    BY <1>1 DEF DeleteStream
  <2>2. after = streamToken
    BY <1>1 DEF SharingInv
  <2>3. \A t \in Streams : c \notin Users(streamToken, t)
    BY <1>1, SubsessionAssumption DEF Users
  <2>4. \A t \in Streams :
          /\ Users(streamToken, t) \cap (pl \ {c}) = Users(streamToken, t) \cap pl
          /\ c \notin s.streams[t].receivers
    BY <2>3 DEF SharingInv
  <2>5. SharingInv(s, streamToken, pl \ {c})
    BY <2>4 DEF SharingInv
  <2>6. \A t \in Streams : s.streams[t].receivers = s.streams[t].receivers \ {c}
    BY <2>4
  <2> QED
    BY <2>1, <2>2, <2>5, <2>6 DEF ReceiversWithout
<1>2. CASE streamToken[c] # NULL
  <2> DEFINE t == streamToken[c]
             e == EndPlaying(s, c)
             r == Release(e, t)
  <2>1. t \in Streams
    BY <1>2 DEF SharingInv
  <2>2. s \in SubsessionType /\ streamToken \in [Clients -> Streams \cup {NULL}]
    BY DEF SharingInv
  <2>3. /\ Users(after, t) = Users(streamToken, t) \ {c}
        /\ \A u \in Streams : u # t => Users(after, u) = Users(streamToken, u)
        /\ Cardinality(Users(streamToken, t)) \in Nat
        /\ Cardinality(Users(streamToken, t)) > 0
        /\ Cardinality(Users(after, t)) = Cardinality(Users(streamToken, t)) - 1
        /\ Cardinality(Users(after, t)) = 0 <=> Users(after, t) = {}
    BY <2>1, <2>2, UsersOneLess
  <2>4. /\ e \in SubsessionType
        /\ e.fLastStreamToken = s.fLastStreamToken
        /\ e.camera = s.camera
        /\ \A u \in Streams : u # t => e.streams[u] = s.streams[u]
        /\ e.streams[t] = [s.streams[t] EXCEPT !.receivers = @ \ {c}]
    BY <2>1, <2>2, EndPlayingFields
  <2>5. /\ e.streams[t].referenceCount = Cardinality(Users(streamToken, t))
        /\ e.streams[t].source = s.streams[t].source
        /\ e.streams[t].receivers = s.streams[t].receivers \ {c}
    BY <2>1, <2>2, <2>4 DEF SharingInv, SubsessionType, StreamType
  <2>6. DeleteStream(s, c) = r
    BY <1>2 DEF DeleteStream
  <2>7. /\ r \in SubsessionType
        /\ \A u \in Streams : u # t => r.streams[u] = e.streams[u]
        /\ e.streams[t].referenceCount = 1 =>
             /\ r.streams[t] = NoStream
             /\ r.fLastStreamToken = IF e.fLastStreamToken = t THEN NULL
                                                               ELSE e.fLastStreamToken
             /\ r.camera = IF e.camera = t THEN NULL ELSE e.camera
        /\ e.streams[t].referenceCount # 1 =>
             /\ r.streams[t] = [e.streams[t] EXCEPT !.referenceCount = @ - 1]
             /\ r.fLastStreamToken = e.fLastStreamToken
             /\ r.camera = e.camera
    <3>1. e \in SubsessionType /\ t \in Streams /\ e.streams[t].referenceCount > 0
      BY <2>1, <2>3, <2>4, <2>5
    <3> HIDE DEF e, t
    <3> QED
      BY <3>1, ReleaseFields
  <2>8. after \in [Clients -> Streams \cup {NULL}] /\ pl \ {c} \subseteq Clients
    <3>1. pl \subseteq Clients
      BY DEF SharingInv
    <3> QED
      BY <2>2, <3>1
  <2>9. c \in Users(streamToken, t) /\ s.fLastStreamToken = t
    BY <2>1 DEF Users, SharingInv
  <2> HIDE DEF after, t, e, r
  <2>10. \A u \in Streams : u # t =>
           /\ r.streams[u] = s.streams[u]
           /\ c \notin Users(streamToken, u)
    BY <2>4, <2>7 DEF Users, t
  <2>10a. \A u \in Streams : u # t => r.streams[u].receivers = s.streams[u].receivers \ {c}
    <3>1. \A u \in Streams : u # t => c \notin s.streams[u].receivers
      BY <2>10 DEF SharingInv
    <3> QED
      BY <2>10, <3>1
  <2>10b. ASSUME \A u \in Streams : r.streams[u].receivers = s.streams[u].receivers \ {c}
          PROVE  \A u \in Streams : r.streams[u].receivers \subseteq Users(after, u) \cap (pl \ {c})
    BY <2>3, <2>10b DEF SharingInv
  <2>11. CASE e.streams[t].referenceCount = 1
    <3>1. Users(after, t) = {}
      BY <2>3, <2>5, <2>11
    <3>2. /\ NoStream.referenceCount = 0 /\ NoStream.source = FALSE
          /\ NoStream.receivers = {}
      BY DEF NoStream
    <3>3. /\ r.streams[t] = NoStream
          /\ r.fLastStreamToken = NULL
          /\ r.camera = IF s.camera = t THEN NULL ELSE s.camera
      BY <2>4, <2>7, <2>9, <2>11
    <3>4. \A u \in Streams : r.streams[u].referenceCount = Cardinality(Users(after, u))
      <4>1. r.streams[t].referenceCount = Cardinality(Users(after, t))
        BY <2>3, <3>1, <3>2, <3>3
      <4> QED
        BY <2>3, <2>10, <4>1 DEF SharingInv
    <3>5. \A u \in Streams : r.fLastStreamToken = u <=> Users(after, u) # {}
      BY <2>3, <2>9, <3>1, <3>3, SubsessionAssumption DEF SharingInv
    <3>6. \A u \in Streams : r.camera = u <=> r.streams[u].source
      BY <2>10, <3>2, <3>3, SubsessionAssumption DEF SharingInv
    <3>7. \A u \in Streams : r.streams[u].receivers = s.streams[u].receivers \ {c}
      <4>1. s.streams[t].receivers \subseteq {c}
        BY <2>1, <2>3, <3>1 DEF SharingInv
      <4>2. r.streams[t].receivers = s.streams[t].receivers \ {c}
        BY <3>2, <3>3, <4>1
      <4> QED
        BY <2>10a, <4>2
    <3>8. \A u \in Streams : Users(after, u) = {} => r.streams[u] = NoStream
      BY <2>3, <2>10, <3>3 DEF SharingInv
    <3>9. r.camera = Dummy <=> s.camera = Dummy
      BY <2>1, <3>3, SubsessionAssumption
    <3> QED
      BY <2>6, <2>7, <2>8, <2>10b, <3>4, <3>5, <3>6, <3>7, <3>8, <3>9
         DEF SharingInv, ReceiversWithout, after
  <2>12. CASE e.streams[t].referenceCount # 1
    <3>1. Users(after, t) # {}
      BY <2>3, <2>5, <2>12
    <3>2. /\ r.streams[t] = [e.streams[t] EXCEPT !.referenceCount = @ - 1]
          /\ r.fLastStreamToken = t
          /\ r.camera = s.camera
      BY <2>4, <2>7, <2>9, <2>12
    <3>3. /\ r.streams[t].referenceCount = Cardinality(Users(after, t))
          /\ r.streams[t].source = s.streams[t].source
          /\ r.streams[t].receivers = s.streams[t].receivers \ {c}
      BY <2>1, <2>3, <2>4, <2>5, <3>2 DEF SubsessionType, StreamType
    <3>4. \A u \in Streams : r.streams[u].referenceCount = Cardinality(Users(after, u))
      BY <2>3, <2>10, <3>3 DEF SharingInv
    <3>5. \A u \in Streams : r.fLastStreamToken = u <=> Users(after, u) # {}
      BY <2>3, <2>9, <3>1, <3>2 DEF SharingInv
    <3>6. \A u \in Streams : r.camera = u <=> r.streams[u].source
      BY <2>10, <3>2, <3>3 DEF SharingInv
    <3>7. \A u \in Streams : r.streams[u].receivers = s.streams[u].receivers \ {c}
      BY <2>10a, <3>3
    <3>8. \A u \in Streams : Users(after, u) = {} => r.streams[u] = NoStream
      BY <2>3, <2>10, <3>1 DEF SharingInv
    <3> QED
      BY <2>6, <2>7, <2>8, <2>10b, <3>2, <3>4, <3>5, <3>6, <3>7, <3>8
         DEF SharingInv, ReceiversWithout, after
  <2> QED
    BY <2>11, <2>12
<1> QED
  BY <1>1, <1>2

\* endPlaying alone, for a session that goes on: only the receivers change.
LEMMA EndPlayingKeepsSharing ==
  ASSUME NEW s, NEW pl, NEW c \in Clients,
         SharingInv(s, streamToken, pl), streamToken[c] \in Streams
  PROVE  LET e == EndPlaying(s, c) IN
         /\ SharingInv(e, streamToken, pl)
         /\ e.camera = s.camera
         /\ ReceiversWithout(e, s, c)
<1> DEFINE t == streamToken[c]
           e == EndPlaying(s, c)
<1>1. s \in SubsessionType
  BY DEF SharingInv
<1>2. /\ e \in SubsessionType
      /\ e.fLastStreamToken = s.fLastStreamToken
      /\ e.camera = s.camera
      /\ \A u \in Streams : u # t => e.streams[u] = s.streams[u]
      /\ e.streams[t] = [s.streams[t] EXCEPT !.receivers = @ \ {c}]
  BY <1>1, EndPlayingFields
<1>3. /\ e.streams[t].referenceCount = s.streams[t].referenceCount
      /\ e.streams[t].source = s.streams[t].source
      /\ e.streams[t].receivers = s.streams[t].receivers \ {c}
  BY <1>1, <1>2 DEF SubsessionType, StreamType
<1>4. c \in Users(streamToken, t) /\ \A u \in Streams : u # t => c \notin Users(streamToken, u)
  BY DEF Users
<1> HIDE DEF t, e
<1>5. \A u \in Streams :
        /\ e.streams[u].referenceCount = s.streams[u].referenceCount
        /\ e.streams[u].source = s.streams[u].source
  BY <1>2, <1>3
<1>6. \A u \in Streams : e.streams[u].receivers = s.streams[u].receivers \ {c}
  <2>1. \A u \in Streams : u # t => c \notin s.streams[u].receivers
    BY <1>4 DEF SharingInv
  <2> QED
    BY <1>2, <1>3, <2>1
<1>7. \A u \in Streams : e.streams[u].receivers \subseteq Users(streamToken, u) \cap pl
  BY <1>6 DEF SharingInv
<1>8. \A u \in Streams : Users(streamToken, u) = {} => e.streams[u] = NoStream
  BY <1>2, <1>4 DEF SharingInv
<1>9. SharingInv(e, streamToken, pl)
  BY <1>2, <1>5, <1>7, <1>8 DEF SharingInv
<1> QED
  BY <1>2, <1>6, <1>9 DEF e, ReceiversWithout

\* getStreamParameters keeps it for a session that had no token and was not
\* answered a PLAY since.
LEMMA GetStreamParametersKeepsSharing ==
  ASSUME NEW s, NEW token, NEW pl, NEW a, NEW c \in Clients, NEW t \in Streams,
         SharingInv(s, token, pl), token[c] = NULL, c \notin pl,
         GetStreamParameters(s, t, a)
  PROVE  /\ SharingInv(a, [token EXCEPT ![c] = t], pl)
         /\ a.camera = Dummy <=> s.camera = Dummy
         /\ ReceiversKept(a, s)
<1> DEFINE after == [token EXCEPT ![c] = t]
<1>1. s \in SubsessionType /\ token \in [Clients -> Streams \cup {NULL}]
      /\ pl \subseteq Clients
  BY DEF SharingInv
<1>2. /\ Users(after, t) = Users(token, t) \cup {c}
      /\ \A u \in Streams : u # t => Users(after, u) = Users(token, u)
      /\ Cardinality(Users(token, t)) \in Nat
      /\ Cardinality(Users(after, t)) = Cardinality(Users(token, t)) + 1
  BY <1>1, UsersOneMore
<1>3. after \in [Clients -> Streams \cup {NULL}]
  BY <1>1
<1> HIDE DEF after
<1>4. ASSUME \A u \in Streams : a.streams[u].receivers = s.streams[u].receivers
      PROVE  \A u \in Streams : a.streams[u].receivers \subseteq Users(after, u) \cap pl
  BY <1>2, <1>4 DEF SharingInv
<1>5. CASE Reuse(s, t, a)
  <2> DEFINE n == s.streams[t].referenceCount + 1
             more == [s.streams[t] EXCEPT !.referenceCount = n]
  <2>1. s.fLastStreamToken = t /\ a = [s EXCEPT !.streams = [s.streams EXCEPT ![t] = more]]
    BY <1>5 DEF Reuse
  <2>2. s.streams[t] \in StreamType /\ n \in Nat
    BY <1>1 DEF SubsessionType, StreamType
  <2>3. /\ more \in StreamType
        /\ more.referenceCount = n
        /\ more.source = s.streams[t].source
        /\ more.receivers = s.streams[t].receivers
    BY <2>2 DEF StreamType
  <2> HIDE DEF more
  <2>4. /\ a \in SubsessionType
        /\ a.fLastStreamToken = t
        /\ a.camera = s.camera
        /\ \A u \in Streams : u # t => a.streams[u] = s.streams[u]
        /\ a.streams[t] = more
    BY <1>1, <2>1, <2>3 DEF SubsessionType
  <2>5. n = Cardinality(Users(after, t))
    BY <1>2 DEF SharingInv
  <2>6. Users(after, t) # {} /\ \A u \in Streams : u # t => Users(after, u) = {}
    BY <1>2, <2>1 DEF SharingInv
  <2>7. \A u \in Streams : a.streams[u].referenceCount = Cardinality(Users(after, u))
    BY <1>2, <2>3, <2>4, <2>5 DEF SharingInv
  <2>8. \A u \in Streams : a.fLastStreamToken = u <=> Users(after, u) # {}
    BY <2>4, <2>6
  <2>9. \A u \in Streams : a.camera = u <=> a.streams[u].source
    BY <2>3, <2>4 DEF SharingInv
  <2>10. \A u \in Streams : a.streams[u].receivers = s.streams[u].receivers
    BY <2>3, <2>4
  <2>11. \A u \in Streams : Users(after, u) = {} => a.streams[u] = NoStream
    BY <1>2, <2>4, <2>6 DEF SharingInv
  <2> QED
    BY <1>1, <1>3, <1>4, <2>4, <2>7, <2>8, <2>9, <2>10, <2>11
       DEF SharingInv, ReceiversKept, after
<1>6. CASE CreateStream(s, t, a)
  <2>1. PICK source \in BOOLEAN :
          /\ source => s.camera = NULL
          /\ a = [streams |-> [s.streams EXCEPT ![t] = NewStream(source)],
                  fLastStreamToken |-> t,
                  camera |-> IF source THEN t ELSE s.camera]
    BY <1>6 DEF CreateStream, NewSourceOutcomes
  <2>2. s.fLastStreamToken = NULL /\ s.streams[t] = NoStream
    BY <1>6 DEF CreateStream
  <2>3. /\ NoStream.source = FALSE /\ NoStream.receivers = {}
        /\ NewStream(source) \in StreamType
        /\ NewStream(source).referenceCount = 1
        /\ NewStream(source).source = source
        /\ NewStream(source).receivers = {}
    BY DEF NewStream, NoStream, StreamType
  <2>4. /\ a.streams[t] = NewStream(source)
        /\ \A u \in Streams : u # t => a.streams[u] = s.streams[u]
        /\ a.fLastStreamToken = t
        /\ a.camera = IF source THEN t ELSE s.camera
        /\ a \in SubsessionType
    BY <1>1, <2>1, <2>3 DEF SubsessionType
  <2>5. \A u \in Streams : Users(token, u) = {}
    BY <2>2, SubsessionAssumption DEF SharingInv
  <2>6. Users(after, t) = {c} /\ \A u \in Streams : u # t => Users(after, u) = {}
    BY <1>2, <2>5
  <2>7. Cardinality(Users(after, t)) = 1
    BY <2>6, FS_Singleton
  <2>8. \A u \in Streams : a.streams[u].referenceCount = Cardinality(Users(after, u))
    BY <1>2, <2>3, <2>4, <2>7 DEF SharingInv
  <2>9. \A u \in Streams : a.fLastStreamToken = u <=> Users(after, u) # {}
    BY <2>4, <2>6
  <2>10. \A u \in Streams : s.camera = u <=> s.streams[u].source
    BY DEF SharingInv
  <2>11. \A u \in Streams : a.camera = u <=> a.streams[u].source
    <3>1. s.camera # t
      BY <2>2, <2>3, <2>10
    <3>2. CASE source = TRUE
      <4>1. s.camera = NULL /\ a.camera = t /\ a.streams[t].source
        BY <2>1, <2>3, <2>4, <3>2
      <4> QED
        BY <2>4, <2>10, <4>1, SubsessionAssumption
    <3>3. CASE source = FALSE
      <4>1. a.camera = s.camera /\ ~a.streams[t].source
        BY <2>3, <2>4, <3>3
      <4> QED
        BY <2>4, <2>10, <3>1, <4>1
    <3> QED
      BY <3>2, <3>3
  <2>12. \A u \in Streams : a.streams[u].receivers = s.streams[u].receivers
    BY <2>2, <2>3, <2>4
  <2>13. \A u \in Streams : Users(after, u) = {} => a.streams[u] = NoStream
    BY <1>2, <2>4, <2>6 DEF SharingInv
  <2>14. a.camera = Dummy <=> s.camera = Dummy
    BY <2>1, <2>4, SubsessionAssumption
  <2> QED
    BY <1>1, <1>3, <1>4, <2>4, <2>8, <2>9, <2>11, <2>12, <2>13, <2>14
       DEF SharingInv, ReceiversKept, after
<1> QED
  BY <1>5, <1>6 DEF GetStreamParameters

\* startPlaying keeps it for the client whose PLAY is answered.
LEMMA StartPlayingKeepsSharing ==
  ASSUME NEW s, NEW pl, NEW c \in Clients,
         SharingInv(s, streamToken, pl)
  PROVE  /\ SharingInv(StartPlaying(s, c), streamToken, pl \cup {c})
         /\ StartPlaying(s, c).camera = s.camera
         /\ \A u \in Streams : StartPlaying(s, c).streams[u].receivers =
              s.streams[u].receivers \cup (IF u = streamToken[c] THEN {c} ELSE {})
<1>1. CASE streamToken[c] = NULL
  <2>1. StartPlaying(s, c) = s
    BY <1>1 DEF StartPlaying
  <2>2. \A u \in Streams : Users(streamToken, u) \cap (pl \cup {c}) = Users(streamToken, u) \cap pl
    BY <1>1, SubsessionAssumption DEF Users
  <2>3. SharingInv(s, streamToken, pl \cup {c})
    BY <2>2 DEF SharingInv
  <2>4. \A u \in Streams : u # streamToken[c]
    BY <1>1, SubsessionAssumption
  <2> QED
    BY <2>1, <2>3, <2>4
<1>2. CASE streamToken[c] # NULL
  <2> DEFINE t == streamToken[c]
             more == [s.streams[t] EXCEPT
                        !.receivers = @ \cup {c},
                        !.playing = @ \/ s.streams[t].source]
             a == StartPlaying(s, c)
  <2>1. t \in Streams /\ s \in SubsessionType
    BY <1>2 DEF SharingInv
  <2>2. s.streams[t] \in StreamType
    BY <2>1 DEF SubsessionType
  <2>3. /\ more \in StreamType
        /\ more.referenceCount = s.streams[t].referenceCount
        /\ more.source = s.streams[t].source
        /\ more.receivers = s.streams[t].receivers \cup {c}
    BY <2>2 DEF StreamType
  <2>4. a = [s EXCEPT !.streams = [s.streams EXCEPT ![t] = more]]
    BY <1>2, <2>1 DEF StartPlaying, SubsessionType, StreamType
  <2>5. c \in Users(streamToken, t) /\ \A u \in Streams : u # t => c \notin Users(streamToken, u)
    BY DEF Users
  <2> HIDE DEF more, a, t
  <2>6. /\ a \in SubsessionType
        /\ a.fLastStreamToken = s.fLastStreamToken
        /\ a.camera = s.camera
        /\ \A u \in Streams : u # t => a.streams[u] = s.streams[u]
        /\ a.streams[t] = more
    BY <2>1, <2>3, <2>4 DEF SubsessionType
  <2>7. \A u \in Streams : a.streams[u].referenceCount = Cardinality(Users(streamToken, u))
    BY <2>3, <2>6 DEF SharingInv
  <2>8. \A u \in Streams : a.camera = u <=> a.streams[u].source
    BY <2>3, <2>6 DEF SharingInv
  <2>9. \A u \in Streams : a.streams[u].receivers =
          s.streams[u].receivers \cup (IF u = t THEN {c} ELSE {})
    BY <2>3, <2>6
  <2>9a. \A u \in Streams : a.streams[u].receivers \subseteq Users(streamToken, u) \cap (pl \cup {c})
    BY <2>5, <2>9 DEF SharingInv
  <2>10. \A u \in Streams : Users(streamToken, u) = {} => a.streams[u] = NoStream
    BY <2>5, <2>6 DEF SharingInv
  <2> QED
    BY <2>6, <2>7, <2>8, <2>9, <2>9a, <2>10 DEF SharingInv, a, t
<1> QED
  BY <1>1, <1>2

-----------------------------------------------------------------------------
(* The sessions *)

\* What TypeOK and SessionInv say of what the subsession does not keep.
SessionTypeOK ==
  /\ fSDPLines \in BOOLEAN
  /\ describing \in Clients \cup {NULL}
  /\ closing \in BOOLEAN
  /\ parameterSets \in 0..2
  /\ sessions \subseteq Clients
  /\ tcpSocketNum \in [Clients -> {"none", "open", "closed"}]
  /\ destinations \in [Clients -> {"none", "udp", "tcp", "closed"}]
  /\ fTCPStreamingDatabase \subseteq Clients
  /\ answered \in [Clients -> {"none", "udp", "tcp"}]

\* The types that SharingInv gives need not be shown again.
LEMMA TypeOKSplit == IInv <=> /\ SessionTypeOK
                             /\ SharingInv(subsession, streamToken, played)
                             /\ UdpReached(subsession)
                             /\ SessionInv
BY DEF IInv, TypeOK, SessionTypeOK, SharingInv, SubsessionType, StreamType

\* The end of a session, after deleteStream.
LEMMA SessionEndsSafely ==
  ASSUME NEW c \in Clients, NEW s,
         SessionTypeOK, SessionInv,
         SharingInv(s, streamToken, played), UdpReached(s),
         s.camera = Dummy <=> describing' # NULL,
         subsession' = DeleteStream(s, c),
         SessionEnds(c),
         fSDPLines' \in BOOLEAN, describing' \in Clients \cup {NULL},
         closing' \in BOOLEAN, parameterSets' \in 0..2
  PROVE  IInv'
<1>1. SharingInv(subsession, streamToken, played)'
  BY DeleteStreamKeepsSharing DEF SessionEnds
<1>2. (subsession.camera = Dummy <=> describing # NULL)'
  BY DeleteStreamKeepsSharing
<1>3. SessionTypeOK'
  BY DEF SessionTypeOK, SessionEnds, Unnote
<1>4. \A d \in Clients : streamToken'[d] # NULL => d \in sessions'
  <2>1. streamToken \in [Clients -> Streams \cup {NULL}]
    BY DEF SharingInv
  <2> QED
    BY <2>1 DEF SessionInv, SessionEnds
<1>5. DatabaseHoldsTheTcpSessions'
  BY DEF SessionInv, SessionEnds, Unnote, DatabaseHoldsTheTcpSessions, SessionTypeOK
<1>6. \A d \in Clients : destinations'[d] # "none" => streamToken'[d] # NULL
  <2>1. streamToken \in [Clients -> Streams \cup {NULL}]
    BY DEF SharingInv
  <2> QED
    BY <2>1 DEF SessionInv, SessionEnds, SessionTypeOK
<1>7. SessionInv'
  BY <1>2, <1>4, <1>5, <1>6 DEF SessionInv
<1>8. UdpReached(subsession)'
  <2>1. /\ streamToken \in [Clients -> Streams \cup {NULL}]
        /\ played \subseteq Clients
    BY DEF SharingInv
  <2>2. ASSUME NEW d \in played', streamToken'[d] # NULL, destinations'[d] = "udp"
        PROVE  d \in subsession'.streams[streamToken'[d]].receivers
    <3>1. /\ d \in played /\ d # c
          /\ streamToken'[d] = streamToken[d] /\ destinations'[d] = destinations[d]
      BY <2>1, <2>2 DEF SessionEnds, SessionTypeOK
    <3>2. d \in s.streams[streamToken[d]].receivers /\ streamToken[d] \in Streams
      BY <2>1, <2>2, <3>1 DEF UdpReached
    <3>3. ReceiversWithout(subsession', s, c)
      BY DeleteStreamKeepsSharing
    <3> QED
      BY <3>1, <3>2, <3>3 DEF ReceiversWithout
  <2> QED
    BY <2>2 DEF UdpReached
<1> QED
  BY <1>1, <1>3, <1>7, <1>8, TypeOKSplit, PTL

\* The end of a connection whose session goes on.
LEMMA LosesConnectionSafely ==
  ASSUME NEW c \in Clients, NEW s,
         SessionTypeOK, SessionInv,
         SharingInv(s, streamToken, played), UdpReached(s),
         s.camera = Dummy <=> describing' # NULL,
         c \notin fTCPStreamingDatabase, LosesConnection(c, s),
         fSDPLines' \in BOOLEAN, describing' \in Clients \cup {NULL},
         closing' \in BOOLEAN, parameterSets' \in 0..2
  PROVE  IInv'
<1>1. /\ streamToken \in [Clients -> Streams \cup {NULL}]
      /\ played \subseteq Clients
      /\ UNCHANGED <<sessions, streamToken, fTCPStreamingDatabase, answered, played>>
  BY DEF SharingInv, LosesConnection
<1>2. \/ subsession' = s
      \/ /\ destinations[c] = "tcp" /\ streamToken[c] \in Streams
         /\ subsession' = EndPlaying(s, c)
  BY <1>1 DEF LosesConnection, SessionInv
<1>3. SharingInv(subsession, streamToken, played)'
  BY <1>1, <1>2, EndPlayingKeepsSharing
<1>4. (subsession.camera = Dummy <=> describing # NULL)'
  <2>1. streamToken[c] \in Streams => EndPlaying(s, c).camera = s.camera
    BY EndPlayingKeepsSharing
  <2>2. subsession'.camera = s.camera
    BY <1>2, <2>1
  <2> QED
    BY <2>2
<1>5. SessionTypeOK'
  BY <1>1 DEF SessionTypeOK, LosesConnection
<1>6. \A d \in Clients : (destinations'[d] # "none" => destinations[d] # "none")
                         /\ (destinations'[d] = "udp" => destinations[d] = "udp")
                         /\ (destinations'[d] \in {"tcp", "closed"} =>
                               destinations[d] \in {"tcp", "closed"})
                         /\ (d # c => destinations'[d] = destinations[d])
  BY DEF LosesConnection, SessionTypeOK
<1>7. SessionInv'
  BY <1>1, <1>4, <1>6 DEF SessionInv, DatabaseHoldsTheTcpSessions
<1>8. UdpReached(subsession)'
  <2>1. ASSUME NEW d \in played, streamToken[d] # NULL, destinations'[d] = "udp"
        PROVE  d \in subsession'.streams[streamToken[d]].receivers
    <3>1. destinations[d] = "udp" /\ d \in s.streams[streamToken[d]].receivers
          /\ streamToken[d] \in Streams
      BY <1>1, <1>6, <2>1 DEF UdpReached
    <3>2. streamToken[c] \in Streams => ReceiversWithout(EndPlaying(s, c), s, c)
      BY EndPlayingKeepsSharing
    <3>3. subsession' = s \/ (ReceiversWithout(subsession', s, c) /\ d # c)
      BY <1>2, <3>1, <3>2
    <3> QED
      BY <3>1, <3>3 DEF ReceiversWithout
  <2> QED
    BY <1>1, <2>1 DEF UdpReached
<1> QED
  BY <1>3, <1>5, <1>7, <1>8, TypeOKSplit, PTL

\* The initial state.
LEMMA InitInv == Init => IInv
<1> SUFFICES ASSUME Init PROVE IInv
  OBVIOUS
<1>1. \A t \in Streams : Users(streamToken, t) = {}
  BY SubsessionAssumption DEF Init, Users
<1>2. Cardinality({}) = 0
  BY FS_EmptySet
<1>3. NoStream \in StreamType /\ NoStream.referenceCount = 0 /\ NoStream.source = FALSE
      /\ NoStream.receivers = {}
  BY DEF NoStream, StreamType
<1>4. SharingInv(subsession, streamToken, played)
  BY <1>1, <1>2, <1>3, SubsessionAssumption DEF Init, SharingInv, SubsessionType
<1>5. SessionTypeOK
  <2>1. /\ tcpSocketNum \in [Clients -> {"none", "open", "closed"}]
        /\ destinations \in [Clients -> {"none", "udp", "tcp", "closed"}]
        /\ answered \in [Clients -> {"none", "udp", "tcp"}]
    BY DEF Init
  <2>2. fSDPLines \in BOOLEAN /\ closing \in BOOLEAN
    BY DEF Init
  <2>3. /\ describing \in Clients \cup {NULL} /\ parameterSets \in 0..2
        /\ sessions \subseteq Clients /\ fTCPStreamingDatabase \subseteq Clients
    BY DEF Init
  <2> QED
    BY <2>1, <2>2, <2>3 DEF SessionTypeOK
<1>6. SessionInv
  BY SubsessionAssumption DEF Init, SessionInv, DatabaseHoldsTheTcpSessions
<1>7. UdpReached(subsession)
  BY DEF Init, UdpReached
<1> QED
  BY <1>4, <1>5, <1>6, <1>7, TypeOKSplit

\* Every step: one case for each action of Next.
LEMMA NextInv == IInv /\ [Next]_vars => IInv'
<1> SUFFICES ASSUME IInv, [Next]_vars PROVE IInv'
  OBVIOUS
<1>1. /\ SessionTypeOK /\ SharingInv(subsession, streamToken, played)
      /\ UdpReached(subsession) /\ SessionInv
  BY TypeOKSplit
<1>1a. /\ streamToken \in [Clients -> Streams \cup {NULL}]
       /\ played \subseteq Clients
  BY <1>1 DEF SharingInv
<1>2. CASE UNCHANGED vars
  BY <1>2 DEF vars, sdpVars, sessionVars, IInv, TypeOK, SessionInv, UdpReached,
     DatabaseHoldsTheTcpSessions
<1>3. ASSUME NEW c \in Clients, Describe(c) PROVE IInv'
  <2>1. subsession.camera = NULL
    BY <1>3 DEF Describe, NewSourceOutcomes
  <2>2. SharingInv(subsession', streamToken, played)
    <3>1. /\ subsession'.streams = subsession.streams
          /\ subsession'.fLastStreamToken = subsession.fLastStreamToken
          /\ subsession'.camera = Dummy
          /\ subsession' \in SubsessionType
      BY <1>1, <1>3 DEF Describe, SharingInv, SubsessionType
    <3>2. \A t \in Streams : subsession'.camera = t <=> subsession'.streams[t].source
      BY <1>1, <2>1, <3>1, SubsessionAssumption DEF SharingInv
    <3> QED
      BY <1>1, <3>1, <3>2 DEF SharingInv
  <2>3. SessionTypeOK'
    BY <1>1, <1>3 DEF Describe, SessionTypeOK, sessionVars
  <2>4. subsession'.camera = Dummy /\ describing' # NULL
    BY <1>1, <1>3, SubsessionAssumption DEF Describe, SharingInv, SubsessionType
  <2>5. SessionInv'
    BY <1>1, <1>3, <2>4 DEF Describe, SessionInv, DatabaseHoldsTheTcpSessions, sessionVars
  <2>6. SharingInv(subsession, streamToken, played)'
    BY <1>3, <2>2 DEF Describe, sessionVars
  <2>7. UdpReached(subsession)'
    <3>1. subsession'.streams = subsession.streams
      BY <1>1, <1>3 DEF Describe, SharingInv, SubsessionType
    <3> QED
      BY <1>1, <1>3, <3>1 DEF Describe, UdpReached, sessionVars
  <2> QED
    BY <2>3, <2>5, <2>6, <2>7, TypeOKSplit, PTL
<1>4. CASE NextNal
  <2>1. SessionTypeOK'
    BY <1>1, <1>4 DEF NextNal, SessionTypeOK, sessionVars
  <2>2. (SharingInv(subsession, streamToken, played) /\ UdpReached(subsession) /\ SessionInv)'
    BY <1>1, <1>4 DEF NextNal, SessionInv, UdpReached, DatabaseHoldsTheTcpSessions, sessionVars
  <2> QED
    BY <2>1, <2>2, TypeOKSplit, PTL
<1>5. ASSUME NEW c \in Clients, NEW mode \in {"udp", "tcp"}, Setup(c, mode) PROVE IInv'
  <2> DEFINE gone == [streamToken EXCEPT ![c] = NULL]
             s == DeleteStream(subsession, c)
  <2>1. PICK t \in Streams :
          /\ GetStreamParameters(s, t, subsession')
          /\ streamToken' = [streamToken EXCEPT ![c] = t]
    BY <1>5 DEF Setup
  <2>2. /\ SharingInv(s, gone, played \ {c}) /\ (s.camera = Dummy <=> subsession.camera = Dummy)
        /\ ReceiversWithout(s, subsession, c)
    BY <1>1, DeleteStreamKeepsSharing
  <2>3. streamToken \in [Clients -> Streams \cup {NULL}]
    BY <1>1a
  <2>4. gone[c] = NULL /\ [gone EXCEPT ![c] = t] = streamToken'
    BY <2>1, <2>3
  <2> HIDE DEF s, gone
  <2>5. /\ SharingInv(subsession', streamToken', played \ {c})
        /\ subsession'.camera = Dummy <=> s.camera = Dummy
        /\ ReceiversKept(subsession', s)
    BY <2>1, <2>2, <2>4, GetStreamParametersKeepsSharing
  <2>6. SharingInv(subsession, streamToken, played)'
    BY <1>5, <2>5 DEF Setup
  <2>7. SessionTypeOK'
    BY <1>1, <1>5 DEF Setup, SessionTypeOK, sdpVars, Note, Unnote, DestinationsOver
  <2>8. \A d \in Clients : streamToken'[d] # NULL => d \in sessions'
    BY <1>1, <1>5, <2>1, <2>3 DEF Setup, SessionInv
  <2>9. DatabaseHoldsTheTcpSessions'
    <3>1. ASSUME NEW d \in Clients \ {c}
          PROVE  /\ d \in fTCPStreamingDatabase' <=> d \in fTCPStreamingDatabase
                 /\ destinations'[d] = destinations[d] /\ answered'[d] = answered[d]
      BY <1>1, <1>5 DEF Setup, SessionTypeOK, Note, Unnote
    <3>2. /\ c \in fTCPStreamingDatabase' <=> mode = "tcp"
          /\ mode = "tcp" => destinations'[c] = "tcp"
          /\ answered'[c] = mode
      BY <1>1, <1>5 DEF Setup, SessionTypeOK, Note, Unnote, DestinationsOver
    <3> QED
      BY <1>1, <3>1, <3>2 DEF SessionInv, DatabaseHoldsTheTcpSessions
  <2>9a. \A d \in Clients : destinations'[d] # "none" => streamToken'[d] # NULL
    <3>1. \A d \in Clients \ {c} : destinations'[d] = destinations[d] /\ streamToken'[d] = streamToken[d]
      BY <1>1, <1>5, <2>1, <2>3 DEF Setup, SessionTypeOK
    <3>2. streamToken'[c] # NULL
      BY <2>1, <2>3, SubsessionAssumption
    <3> QED
      BY <1>1, <3>1, <3>2 DEF SessionInv
  <2>10. (subsession.camera = Dummy <=> describing # NULL)'
    BY <1>1, <1>5, <2>2, <2>5 DEF Setup, SessionInv, sdpVars
  <2>11. SessionInv'
    BY <2>8, <2>9, <2>9a, <2>10 DEF SessionInv
  <2>12. UdpReached(subsession)'
    <3>1. ASSUME NEW d \in played', streamToken'[d] # NULL, destinations'[d] = "udp"
          PROVE  d \in subsession'.streams[streamToken'[d]].receivers
      <4>1. /\ d \in played /\ d # c
            /\ streamToken'[d] = streamToken[d] /\ destinations'[d] = destinations[d]
        BY <1>1, <1>1a, <1>5, <2>1, <3>1 DEF Setup, SessionTypeOK
      <4>2. d \in subsession.streams[streamToken[d]].receivers /\ streamToken[d] \in Streams
        BY <1>1, <1>1a, <3>1, <4>1 DEF UdpReached
      <4> QED
        BY <2>2, <2>5, <4>1, <4>2 DEF ReceiversWithout, ReceiversKept
    <3> QED
      BY <3>1 DEF UdpReached
  <2> QED
    BY <2>6, <2>7, <2>11, <2>12, TypeOKSplit, PTL
<1>6. ASSUME NEW c \in Clients, SetupNoSuchTrack(c) PROVE IInv'
  <2>1. SessionTypeOK'
    BY <1>1, <1>6 DEF SetupNoSuchTrack, SessionTypeOK, sdpVars
  <2>2. (SharingInv(subsession, streamToken, played) /\ UdpReached(subsession) /\ SessionInv)'
    BY <1>1, <1>6 DEF SetupNoSuchTrack, SessionInv, UdpReached, DatabaseHoldsTheTcpSessions, sdpVars
  <2> QED
    BY <2>1, <2>2, TypeOKSplit, PTL
<1>7. ASSUME NEW c \in Clients, Play(c) PROVE IInv'
  <2>1. /\ SharingInv(StartPlaying(subsession, c), streamToken, played \cup {c})
        /\ StartPlaying(subsession, c).camera = subsession.camera
        /\ \A u \in Streams : StartPlaying(subsession, c).streams[u].receivers =
             subsession.streams[u].receivers \cup (IF u = streamToken[c] THEN {c} ELSE {})
    BY <1>1, StartPlayingKeepsSharing
  <2>2. SharingInv(subsession, streamToken, played)'
    BY <1>7, <2>1 DEF Play
  <2>3. SessionTypeOK'
    BY <1>1, <1>7 DEF Play, SessionTypeOK, sdpVars
  <2>4. SessionInv'
    BY <1>1, <1>7, <2>1 DEF Play, SessionInv, DatabaseHoldsTheTcpSessions, sdpVars
  <2>5. UdpReached(subsession)'
    <3>1. ASSUME NEW d \in played \cup {c}, streamToken[d] # NULL, destinations[d] = "udp"
          PROVE  d \in StartPlaying(subsession, c).streams[streamToken[d]].receivers
      <4>1. streamToken[d] \in Streams
        BY <1>1a, <3>1
      <4>2. d # c => d \in subsession.streams[streamToken[d]].receivers
        BY <1>1, <3>1 DEF UdpReached
      <4> QED
        BY <2>1, <4>1, <4>2
    <3> QED
      BY <1>7, <3>1 DEF Play, UdpReached
  <2> QED
    BY <2>2, <2>3, <2>4, <2>5, TypeOKSplit, PTL
<1>8. ASSUME NEW c \in Clients, Teardown(c) PROVE IInv'
  <2>1. /\ UNCHANGED <<fSDPLines, describing, closing, parameterSets>>
        /\ subsession' = DeleteStream(subsession, c) /\ SessionEnds(c)
    BY <1>8 DEF Teardown, sdpVars
  <2>2. /\ fSDPLines' \in BOOLEAN /\ describing' \in Clients \cup {NULL}
        /\ closing' \in BOOLEAN /\ parameterSets' \in 0..2
        /\ subsession.camera = Dummy <=> describing' # NULL
    BY <1>1, <2>1 DEF SessionTypeOK, SessionInv
  <2> QED
    BY <1>1, <2>1, <2>2, SessionEndsSafely
<1>9. ASSUME NEW c \in Clients, Disconnect(c) PROVE IInv'
  <2>1. CASE describing = c
    <3>1. SessionTypeOK'
      BY <1>1, <1>9, <2>1 DEF Disconnect, SessionTypeOK, sessionVars
    <3>2. (SharingInv(subsession, streamToken, played) /\ UdpReached(subsession) /\ SessionInv)'
      BY <1>1, <1>9, <2>1 DEF Disconnect, SessionInv, UdpReached, DatabaseHoldsTheTcpSessions,
         sessionVars
    <3> QED
      BY <3>1, <3>2, TypeOKSplit, PTL
  <2>2. CASE describing # c /\ c \in fTCPStreamingDatabase
    <3>1. /\ UNCHANGED <<fSDPLines, describing, closing, parameterSets>>
          /\ subsession' = DeleteStream(subsession, c) /\ SessionEnds(c)
      BY <1>9, <2>2 DEF Disconnect, StopTCPStreaming, sdpVars
    <3>2. /\ fSDPLines' \in BOOLEAN /\ describing' \in Clients \cup {NULL}
          /\ closing' \in BOOLEAN /\ parameterSets' \in 0..2
          /\ subsession.camera = Dummy <=> describing' # NULL
      BY <1>1, <3>1 DEF SessionTypeOK, SessionInv
    <3> QED
      BY <1>1, <3>1, <3>2, SessionEndsSafely
  <2>3. CASE describing # c /\ c \notin fTCPStreamingDatabase
    <3>1. /\ UNCHANGED <<fSDPLines, describing, closing, parameterSets>>
          /\ LosesConnection(c, subsession)
      BY <1>9, <2>3 DEF Disconnect, StopTCPStreaming, sdpVars
    <3>2. /\ fSDPLines' \in BOOLEAN /\ describing' \in Clients \cup {NULL}
          /\ closing' \in BOOLEAN /\ parameterSets' \in 0..2
          /\ subsession.camera = Dummy <=> describing' # NULL
      BY <1>1, <3>1 DEF SessionTypeOK, SessionInv
    <3> QED
      BY <1>1, <2>3, <3>1, <3>2, LosesConnectionSafely
  <2> QED
    BY <2>1, <2>2, <2>3
<1>10. CASE CheckForAuxSDPLine
  <2> DEFINE closed == [subsession EXCEPT !.camera = IF @ = Dummy THEN NULL ELSE @]
  <2>1. /\ describing # NULL
        /\ fSDPLines' \in BOOLEAN /\ describing' = NULL
        /\ closing' \in BOOLEAN /\ parameterSets' \in 0..2
        /\ IF closing THEN StopTCPStreaming(describing, closed)
                      ELSE subsession' = closed /\ UNCHANGED sessionVars
    <3>1. fSDPLines' \in BOOLEAN /\ closing' \in BOOLEAN
      BY <1>10, Zenon DEF CheckForAuxSDPLine
    <3>2. describing # NULL /\ describing' = NULL /\ parameterSets' \in 0..2
      BY <1>10 DEF CheckForAuxSDPLine
    <3>3. IF closing THEN StopTCPStreaming(describing, closed)
                     ELSE subsession' = closed /\ UNCHANGED sessionVars
      BY <1>10, Zenon DEF CheckForAuxSDPLine
    <3> QED
      BY <3>1, <3>2, <3>3
  <2>2. subsession.camera = Dummy /\ subsession \in SubsessionType
    BY <1>1, <2>1 DEF SessionInv, SharingInv
  <2>3. /\ closed \in SubsessionType
        /\ closed.streams = subsession.streams
        /\ closed.fLastStreamToken = subsession.fLastStreamToken
        /\ closed.camera = NULL
    BY <2>2 DEF SubsessionType
  <2> HIDE DEF closed
  <2>4. \A t \in Streams : closed.camera = t <=> closed.streams[t].source
    BY <1>1, <2>2, <2>3, SubsessionAssumption DEF SharingInv
  <2>5. SharingInv(closed, streamToken, played)
    BY <1>1, <2>3, <2>4 DEF SharingInv
  <2>5a. UdpReached(closed)
    BY <1>1, <2>3 DEF UdpReached
  <2>6. closed.camera = Dummy <=> describing' # NULL
    BY <2>1, <2>3, SubsessionAssumption
  <2>7. CASE closing
    <3>1. PICK c \in Clients : c = describing
      BY <1>1, <2>1 DEF SessionTypeOK
    <3>2. StopTCPStreaming(c, closed)
      BY <2>1, <2>7, <3>1
    <3>3. CASE c \in fTCPStreamingDatabase
      <4>1. subsession' = DeleteStream(closed, c) /\ SessionEnds(c)
        BY <3>2, <3>3 DEF StopTCPStreaming
      <4> QED
        BY <1>1, <2>1, <2>5, <2>5a, <2>6, <4>1, SessionEndsSafely
    <3>4. CASE c \notin fTCPStreamingDatabase
      <4>1. LosesConnection(c, closed)
        BY <3>2, <3>4 DEF StopTCPStreaming
      <4> QED
        BY <1>1, <2>1, <2>5, <2>5a, <2>6, <3>4, <4>1, LosesConnectionSafely
    <3> QED
      BY <3>3, <3>4
  <2>8. CASE ~closing
    <3>1. subsession' = closed /\ UNCHANGED sessionVars
      BY <2>1, <2>8
    <3>2. SharingInv(subsession, streamToken, played)'
      BY <2>5, <3>1 DEF sessionVars
    <3>3. SessionTypeOK'
      BY <1>1, <2>1, <3>1 DEF SessionTypeOK, sessionVars
    <3>4. SessionInv'
      BY <1>1, <2>6, <3>1 DEF SessionInv, DatabaseHoldsTheTcpSessions, sessionVars
    <3>5. UdpReached(subsession)'
      BY <2>5a, <3>1 DEF UdpReached, sessionVars
    <3> QED
      BY <3>2, <3>3, <3>4, <3>5, TypeOKSplit, PTL
  <2> QED
    BY <2>7, <2>8
<1>11. ASSUME NEW c \in Clients, DescribeAnswered(c) \/ Pause(c) PROVE IInv'
  BY <1>2, <1>11 DEF DescribeAnswered, Pause
<1>12. ASSUME NEW c \in Clients, SendFails(c) PROVE IInv'
  <2>1. /\ streamToken[c] \in Streams /\ destinations[c] # "udp"
        /\ subsession' = EndPlaying(subsession, c)
        /\ UNCHANGED <<sdpVars, sessionVars>>
    BY <1>1a, <1>12 DEF SendFails
  <2>2. /\ SharingInv(subsession', streamToken, played)
        /\ subsession'.camera = subsession.camera
        /\ ReceiversWithout(subsession', subsession, c)
    BY <1>1, <2>1, EndPlayingKeepsSharing
  <2>3. SharingInv(subsession, streamToken, played)'
    BY <2>1, <2>2 DEF sessionVars
  <2>4. SessionTypeOK'
    BY <1>1, <2>1 DEF SessionTypeOK, sdpVars, sessionVars
  <2>5. SessionInv'
    BY <1>1, <2>1, <2>2 DEF SessionInv, DatabaseHoldsTheTcpSessions, sdpVars, sessionVars
  <2>6. UdpReached(subsession)'
    <3>1. ASSUME NEW d \in played, streamToken[d] # NULL, destinations[d] = "udp"
          PROVE  d \in subsession'.streams[streamToken[d]].receivers
      <4>1. d # c /\ streamToken[d] \in Streams
            /\ d \in subsession.streams[streamToken[d]].receivers
        BY <1>1, <1>1a, <2>1, <3>1 DEF UdpReached
      <4> QED
        BY <2>2, <4>1 DEF ReceiversWithout
    <3> QED
      BY <2>1, <3>1 DEF UdpReached, sessionVars
  <2> QED
    BY <2>3, <2>4, <2>5, <2>6, TypeOKSplit, PTL
<1> QED
  BY <1>2, <1>3, <1>4, <1>5, <1>6, <1>7, <1>8, <1>9, <1>10, <1>11, <1>12 DEF Next, Request

\* The inductive invariant holds for any number of clients and streams.
THEOREM SubsessionInvariant == Spec => []IInv
<1>1. Init => IInv
  BY InitInv
<1>2. IInv /\ [Next]_vars => IInv'
  BY NextInv
<1> QED
  BY <1>1, <1>2, PTL DEF Spec

-----------------------------------------------------------------------------

\* Every variable keeps its type.
THEOREM SubsessionTypeOK == Spec => []TypeOK
<1>1. IInv => TypeOK
  BY DEF IInv
<1> QED
  BY <1>1, SubsessionInvariant, PTL

\* A StreamState has as many references as sessions have its token, whatever
\* the order of SETUPs, TEARDOWNs, timeouts and lost connections.
THEOREM ReferencesCounted == Spec => []ReferencesAreCounted
<1>1. IInv => ReferencesAreCounted
  BY DEF IInv, SharingInv, ReferencesAreCounted, Holders, Users
<1> QED
  BY <1>1, SubsessionInvariant, PTL

\* fLastStreamToken names the stream that all sessions use, if any does.
THEOREM OneStreamShared == Spec => []ClientsShareOneStream
<1>1. IInv => ClientsShareOneStream
  BY DEF IInv, SharingInv, ClientsShareOneStream, Holders, Users
<1> QED
  BY <1>1, SubsessionInvariant, PTL

\* The camera is used by the DESCRIBE in progress or by a stream that some
\* session uses, and by nothing else.
THEOREM CameraUsedByOne == Spec => []CameraHasOneUser
<1>1. IInv => CameraHasOneUser
  <2> SUFFICES ASSUME IInv PROVE CameraHasOneUser
    OBVIOUS
  <2>1. SharingInv(subsession, streamToken, played) /\ SessionInv
    BY DEF IInv
  <2>2. ASSUME subsession.camera \in Streams
        PROVE  \E c \in sessions : streamToken[c] = subsession.camera
    <3>1. subsession.streams[subsession.camera].source
      BY <2>1, <2>2 DEF SharingInv
    <3>2. NoStream.source = FALSE
      BY DEF NoStream
    <3>3. Users(streamToken, subsession.camera) # {}
      BY <2>1, <2>2, <3>1, <3>2 DEF SharingInv
    <3>4. PICK c \in Clients : streamToken[c] = subsession.camera
      BY <3>3 DEF Users
    <3>5. c \in sessions
      BY <2>1, <2>2, <3>4, SubsessionAssumption DEF SessionInv
    <3> QED
      BY <3>4, <3>5
  <2>3. \A t \in Streams : subsession.camera = t <=> subsession.streams[t].source
    BY <2>1 DEF SharingInv
  <2> QED
    BY <2>1, <2>2, <2>3 DEF CameraHasOneUser, SessionInv
<1> QED
  BY <1>1, SubsessionInvariant, PTL

\* A stream is sent to nobody but clients that asked to play it and did not
\* leave, and to each of those that it reaches over UDP.
THEOREM ReceiversPlay == Spec => []ReceiversAreThePlayers
<1>1. IInv => ReceiversAreThePlayers
  <2> SUFFICES ASSUME IInv, NEW t \in Streams
               PROVE  /\ subsession.streams[t].receivers \subseteq Holders(t) \cap played
                      /\ \A c \in Holders(t) \cap played :
                           destinations[c] = "udp" => c \in subsession.streams[t].receivers
    BY DEF ReceiversAreThePlayers
  <2>1. subsession.streams[t].receivers \subseteq Holders(t) \cap played
    BY DEF IInv, SharingInv, Holders, Users
  <2>2. ASSUME NEW c \in Holders(t) \cap played, destinations[c] = "udp"
        PROVE  c \in subsession.streams[t].receivers
    <3>1. c \in played /\ streamToken[c] = t /\ t # NULL
      BY SubsessionAssumption DEF Holders
    <3> QED
      BY <2>2, <3>1 DEF IInv, UdpReached
  <2> QED
    BY <2>1, <2>2
<1> QED
  BY <1>1, SubsessionInvariant, PTL

\* The end of a connection stops sessions that stream over it and no others,
\* and all of them but those that a second SETUP was answered with UDP.
THEOREM DatabaseIsExact == Spec => []DatabaseHoldsTheTcpSessions
<1>1. IInv => DatabaseHoldsTheTcpSessions
  BY DEF IInv, SessionInv
<1> QED
  BY <1>1, SubsessionInvariant, PTL

-----------------------------------------------------------------------------
(* No client stops another client's video *)

\* Client d is served by stream t of the subsession s.
Serves(s, t, d) ==
  d \in s.streams[t].receivers /\ s.streams[t].source /\ s.streams[t].playing

\* deleteStream for one session serves the others as before: while d has the
\* token too, c's reference is not the last one.
LEMMA DeleteStreamServesOthers ==
  ASSUME NEW s, NEW pl, NEW c \in Clients, NEW d \in Clients \ {c},
         SharingInv(s, streamToken, pl), streamToken[d] # NULL,
         Serves(s, streamToken[d], d)
  PROVE  Serves(DeleteStream(s, c), streamToken[d], d)
<1> DEFINE t == streamToken[c]
           e == EndPlaying(s, c)
<1>1. s \in SubsessionType /\ streamToken \in [Clients -> Streams \cup {NULL}]
  BY DEF SharingInv
<1>2. CASE t = NULL
  BY <1>2 DEF DeleteStream
<1>3. CASE t # NULL
  <2>1. t \in Streams /\ streamToken[d] \in Streams
    BY <1>1, <1>3
  <2>2. /\ e \in SubsessionType
        /\ \A u \in Streams : u # t => e.streams[u] = s.streams[u]
        /\ e.streams[t] = [s.streams[t] EXCEPT !.receivers = @ \ {c}]
    BY <1>1, <2>1, EndPlayingFields
  <2>3. /\ e.streams[t].referenceCount = Cardinality(Users(streamToken, t))
        /\ e.streams[t].source = s.streams[t].source
        /\ e.streams[t].playing = s.streams[t].playing
        /\ e.streams[t].receivers = s.streams[t].receivers \ {c}
    BY <1>1, <2>1, <2>2 DEF SharingInv, SubsessionType, StreamType
  <2>4. Cardinality(Users(streamToken, t)) > 0
    BY <1>1, <2>1, UsersOneLess
  <2>5. DeleteStream(s, c) = Release(e, t)
    BY <1>3 DEF DeleteStream
  <2> HIDE DEF e, t
  <2>6. /\ \A u \in Streams : u # t => Release(e, t).streams[u] = e.streams[u]
        /\ e.streams[t].referenceCount # 1 =>
             Release(e, t).streams[t] = [e.streams[t] EXCEPT !.referenceCount = @ - 1]
    <3>1. e.streams[t].referenceCount > 0
      BY <2>3, <2>4
    <3>2. e \in SubsessionType /\ t \in Streams
      BY <2>1, <2>2
    <3> QED
      BY <3>1, <3>2, ReleaseFields
  <2>7. CASE streamToken[d] # t
    BY <2>1, <2>2, <2>5, <2>6, <2>7 DEF Serves
  <2>8. CASE streamToken[d] = t
    <3> DEFINE after == [streamToken EXCEPT ![c] = NULL]
    <3>1. streamToken[c] = t
      BY DEF t
    <3>2. /\ Users(after, t) = Users(streamToken, t) \ {c}
          /\ Cardinality(Users(streamToken, t)) \in Nat
          /\ Cardinality(Users(after, t)) = Cardinality(Users(streamToken, t)) - 1
          /\ Cardinality(Users(after, t)) = 0 <=> Users(after, t) = {}
      BY <1>1, <2>1, <3>1, UsersOneLess
    <3>3. d \in Users(streamToken, t) \ {c}
      BY <2>8 DEF Users
    <3> HIDE DEF after
    <3>4. Cardinality(Users(streamToken, t)) # 1
      BY <3>2, <3>3
    <3>5. Release(e, t).streams[t] = [e.streams[t] EXCEPT !.referenceCount = @ - 1]
      BY <2>3, <2>6, <3>4
    <3>6. e.streams[t] \in StreamType
      BY <2>1, <2>2 DEF SubsessionType
    <3>7. Serves(e, t, d)
      BY <2>3, <2>8 DEF Serves
    <3> QED
      BY <2>5, <2>8, <3>5, <3>6, <3>7 DEF Serves, StreamType
  <2> QED
    BY <2>7, <2>8
<1> QED
  BY <1>2, <1>3

\* getStreamParameters serves everybody as before: a stream that it creates
\* had no receivers, and one that it reuses only gets a reference.
LEMMA GetStreamParametersServes ==
  ASSUME NEW s \in SubsessionType, NEW a, NEW d, NEW t \in Streams, NEW u \in Streams,
         GetStreamParameters(s, t, a), Serves(s, u, d)
  PROVE  Serves(a, u, d)
<1>1. CASE Reuse(s, t, a)
  BY <1>1 DEF Reuse, Serves, SubsessionType, StreamType
<1>2. CASE CreateStream(s, t, a)
  <2>1. u # t
    BY <1>2 DEF CreateStream, Serves, NoStream
  <2>2. a.streams[u] = s.streams[u]
    BY <1>2, <2>1 DEF CreateStream, SubsessionType
  <2> QED
    BY <2>2 DEF Serves
<1> QED
  BY <1>1, <1>2 DEF GetStreamParameters

\* startPlaying only adds a receiver.
LEMMA StartPlayingServes ==
  ASSUME NEW s, NEW pl, NEW c \in Clients, NEW d, NEW u \in Streams,
         SharingInv(s, streamToken, pl), Serves(s, u, d)
  PROVE  Serves(StartPlaying(s, c), u, d)
<1>1. s \in SubsessionType /\ streamToken \in [Clients -> Streams \cup {NULL}]
  BY DEF SharingInv
<1> QED
  BY <1>1 DEF StartPlaying, Serves, SubsessionType, StreamType

\* The end of another client's session.
LEMMA SessionEndServesOthers ==
  ASSUME NEW s, NEW c \in Clients, NEW d \in Clients \ {c},
         SharingInv(s, streamToken, played), streamToken[d] # NULL,
         Serves(s, streamToken[d], d),
         subsession' = DeleteStream(s, c), SessionEnds(c)
  PROVE  Fed(d)'
<1>1. streamToken'[d] = streamToken[d]
  BY DEF SessionEnds, SharingInv
<1>2. Serves(subsession', streamToken[d], d)
  BY DeleteStreamServesOthers
<1> QED
  BY <1>1, <1>2 DEF Serves, Fed, StreamOf

\* What a step that ends client c's own stream leaves to the others.
OnlyLeaves(c) ==
  /\ \A d \in Clients \ {c} : streamToken'[d] = streamToken[d] /\ (d \in played' <=> d \in played)
  /\ c \in sessions' => c \notin played' \/ destinations'[c] \in {"tcp", "closed"}

\* The end of a session is such a step.
LEMMA SessionEndsOnlyLeaves ==
  ASSUME NEW c \in Clients, SessionEnds(c), streamToken \in [Clients -> Streams \cup {NULL}]
  PROVE  OnlyLeaves(c)
BY DEF SessionEnds, OnlyLeaves

\* endPlaying serves the others as before.
LEMMA EndPlayingServesOthers ==
  ASSUME NEW s \in SubsessionType, NEW c \in Clients, NEW d \in Clients \ {c},
         streamToken[c] \in Streams, streamToken[d] \in Streams,
         Serves(s, streamToken[d], d)
  PROVE  Serves(EndPlaying(s, c), streamToken[d], d)
<1> DEFINE t == streamToken[c]
           e == EndPlaying(s, c)
<1>1. /\ \A u \in Streams : u # t => e.streams[u] = s.streams[u]
      /\ e.streams[t] = [s.streams[t] EXCEPT !.receivers = @ \ {c}]
  BY EndPlayingFields
<1> HIDE DEF e
<1>2. CASE streamToken[d] # t
  <2>1. e.streams[streamToken[d]] = s.streams[streamToken[d]]
    BY <1>1, <1>2
  <2> QED
    BY <2>1 DEF Serves, e
<1>3. CASE streamToken[d] = t
  <2>1. s.streams[t] \in StreamType
    BY DEF SubsessionType
  <2>2. /\ e.streams[t].source = s.streams[t].source
        /\ e.streams[t].playing = s.streams[t].playing
        /\ e.streams[t].receivers = s.streams[t].receivers \ {c}
    BY <1>1, <2>1 DEF StreamType
  <2>3. Serves(e, streamToken[d], d)
    BY <1>3, <2>2 DEF Serves
  <2> QED
    BY <2>3 DEF e
<1> QED
  BY <1>2, <1>3

\* A client that is fed goes on being fed, or has ended its stream itself.
LEMMA FedOrLeaves ==
  ASSUME IInv, [Next]_vars, NEW c \in Clients, Fed(c)
  PROVE  Fed(c)' \/ OnlyLeaves(c)
<1>1. /\ SessionTypeOK /\ SharingInv(subsession, streamToken, played)
      /\ UdpReached(subsession) /\ SessionInv
  BY TypeOKSplit
<1>2. /\ subsession \in SubsessionType
      /\ streamToken \in [Clients -> Streams \cup {NULL}]
      /\ streamToken[c] \in Streams
      /\ Serves(subsession, streamToken[c], c)
  BY <1>1 DEF SharingInv, Fed, StreamOf, Serves
<1>3. ASSUME UNCHANGED streamToken, Serves(subsession', streamToken[c], c) PROVE Fed(c)'
  BY <1>2, <1>3, SubsessionAssumption DEF Serves, Fed, StreamOf
<1>4. CASE UNCHANGED <<subsession, streamToken>>
  BY <1>2, <1>3, <1>4
<1>5. ASSUME NEW d \in Clients, Describe(d) PROVE Fed(c)'
  <2>1. subsession'.streams = subsession.streams /\ UNCHANGED streamToken
    BY <1>2, <1>5 DEF Describe, sessionVars, SubsessionType
  <2> QED
    BY <1>2, <1>3, <2>1 DEF Serves
<1>6. ASSUME NEW d \in Clients, NEW mode \in {"udp", "tcp"}, Setup(d, mode)
      PROVE  Fed(c)' \/ OnlyLeaves(c)
  <2>1. PICK t \in Streams :
          /\ GetStreamParameters(DeleteStream(subsession, d), t, subsession')
          /\ streamToken' = [streamToken EXCEPT ![d] = t]
    BY <1>6 DEF Setup
  <2>2. CASE d = c
    BY <1>2, <1>6, <2>1, <2>2 DEF Setup, OnlyLeaves
  <2>3. CASE d # c
    <3>1. Serves(DeleteStream(subsession, d), streamToken[c], c)
      BY <1>1, <1>2, <2>3, SubsessionAssumption, DeleteStreamServesOthers
    <3>2. DeleteStream(subsession, d) \in SubsessionType
      <4>1. SharingInv(DeleteStream(subsession, d), [streamToken EXCEPT ![d] = NULL], played \ {d})
        BY <1>1, DeleteStreamKeepsSharing
      <4> QED
        BY <4>1 DEF SharingInv
    <3>3. Serves(subsession', streamToken[c], c)
      BY <1>2, <2>1, <3>1, <3>2, GetStreamParametersServes
    <3>4. streamToken'[c] = streamToken[c]
      BY <1>2, <2>1, <2>3
    <3> QED
      BY <1>2, <3>3, <3>4, SubsessionAssumption DEF Serves, Fed, StreamOf
  <2> QED
    BY <2>2, <2>3
<1>7. ASSUME NEW d \in Clients, Play(d) PROVE Fed(c)'
  BY <1>1, <1>2, <1>3, <1>7, StartPlayingServes DEF Play
<1>8. ASSUME NEW d \in Clients, NEW s, SharingInv(s, streamToken, played),
             Serves(s, streamToken[c], c),
             subsession' = DeleteStream(s, d), SessionEnds(d)
      PROVE  Fed(c)' \/ OnlyLeaves(c)
  <2>1. CASE d = c
    BY <1>2, <1>8, <2>1, SessionEndsOnlyLeaves
  <2>2. CASE d # c
    BY <1>2, <1>8, <2>2, SubsessionAssumption, SessionEndServesOthers
  <2> QED
    BY <2>1, <2>2
<1>8a. ASSUME NEW d \in Clients, NEW s \in SubsessionType,
              Serves(s, streamToken[c], c), LosesConnection(d, s)
       PROVE  Fed(c)' \/ OnlyLeaves(c)
  <2>1. UNCHANGED <<streamToken, played>>
    BY <1>8a DEF LosesConnection
  <2>2. \/ subsession' = s
        \/ /\ destinations[d] = "tcp" /\ streamToken[d] \in Streams
           /\ subsession' = EndPlaying(s, d)
    BY <1>1, <1>2, <1>8a DEF LosesConnection, SessionInv
  <2>3. CASE subsession' = s
    BY <1>3, <1>8a, <2>1, <2>3
  <2>4. CASE d # c /\ streamToken[d] \in Streams /\ subsession' = EndPlaying(s, d)
    BY <1>2, <1>3, <1>8a, <2>1, <2>4, EndPlayingServesOthers
  <2>5. CASE d = c /\ destinations[d] = "tcp"
    <3>1. destinations'[c] = "closed"
      BY <1>1, <1>8a, <2>5 DEF LosesConnection, SessionTypeOK
    <3> QED
      BY <2>1, <3>1 DEF OnlyLeaves
  <2> QED
    BY <2>2, <2>3, <2>4, <2>5
<1>8b. ASSUME NEW d \in Clients, SendFails(d) PROVE Fed(c)' \/ OnlyLeaves(c)
  <2>1. /\ streamToken[d] \in Streams /\ destinations[d] \in {"tcp", "closed"}
        /\ subsession' = EndPlaying(subsession, d)
        /\ UNCHANGED <<streamToken, played, destinations>>
    BY <1>2, <1>8b DEF SendFails, sessionVars
  <2>2. CASE d # c
    BY <1>2, <1>3, <2>1, <2>2, EndPlayingServesOthers
  <2>3. CASE d = c
    BY <2>1, <2>3 DEF OnlyLeaves
  <2> QED
    BY <2>2, <2>3
<1>9. ASSUME NEW d \in Clients, Teardown(d) PROVE Fed(c)' \/ OnlyLeaves(c)
  BY <1>1, <1>2, <1>8, <1>9 DEF Teardown
<1>10. ASSUME NEW d \in Clients, Disconnect(d) PROVE Fed(c)' \/ OnlyLeaves(c)
  <2>1. CASE describing # d /\ d \in fTCPStreamingDatabase
    BY <1>1, <1>2, <1>8, <1>10, <2>1 DEF Disconnect, StopTCPStreaming
  <2>2. CASE describing = d
    BY <1>4, <1>10, <2>2 DEF Disconnect, sessionVars
  <2>3. CASE describing # d /\ d \notin fTCPStreamingDatabase
    BY <1>1, <1>2, <1>8a, <1>10, <2>3 DEF Disconnect, StopTCPStreaming
  <2> QED
    BY <2>1, <2>2, <2>3
<1>11. CASE CheckForAuxSDPLine
  <2> DEFINE closed == [subsession EXCEPT !.camera = IF @ = Dummy THEN NULL ELSE @]
  <2>1. /\ describing # NULL
        /\ IF closing THEN StopTCPStreaming(describing, closed)
                      ELSE subsession' = closed /\ UNCHANGED sessionVars
    BY <1>11, Zenon DEF CheckForAuxSDPLine
  <2>2. subsession.camera = Dummy /\ describing \in Clients
    BY <1>1, <2>1 DEF SessionInv, SessionTypeOK
  <2>3. /\ closed \in SubsessionType
        /\ closed.streams = subsession.streams
        /\ closed.fLastStreamToken = subsession.fLastStreamToken
        /\ closed.camera = NULL
    BY <1>2, <2>2 DEF SubsessionType
  <2> HIDE DEF closed
  <2>4. SharingInv(closed, streamToken, played)
    <3>1. \A t \in Streams : closed.camera = t <=> closed.streams[t].source
      BY <1>1, <2>2, <2>3, SubsessionAssumption DEF SharingInv
    <3> QED
      BY <1>1, <2>3, <3>1 DEF SharingInv
  <2>5. Serves(closed, streamToken[c], c)
    BY <1>2, <2>3 DEF Serves
  <2>6. CASE closing /\ describing \in fTCPStreamingDatabase
    BY <1>8, <2>1, <2>2, <2>4, <2>5, <2>6 DEF StopTCPStreaming
  <2>7. CASE closing /\ describing \notin fTCPStreamingDatabase
    BY <1>8a, <2>1, <2>2, <2>3, <2>5, <2>7 DEF StopTCPStreaming
  <2>8. CASE ~closing
    <3>1. subsession' = closed /\ UNCHANGED streamToken
      BY <2>1, <2>8 DEF sessionVars
    <3> QED
      BY <1>3, <2>5, <3>1
  <2> QED
    BY <2>6, <2>7, <2>8
<1>12. ASSUME NEW d \in Clients, DescribeAnswered(d) \/ SetupNoSuchTrack(d) \/ Pause(d)
       PROVE  UNCHANGED <<subsession, streamToken>>
  BY <1>12 DEF DescribeAnswered, SetupNoSuchTrack, Pause, vars, sessionVars
<1>13. CASE NextNal \/ UNCHANGED vars
  BY <1>4, <1>13 DEF NextNal, vars, sessionVars
<1> QED
  BY <1>4, <1>5, <1>6, <1>7, <1>8b, <1>9, <1>10, <1>11, <1>12, <1>13 DEF Next, Request

\* No client's request, departure or DESCRIBE stops another client's video.
THEOREM OthersAreNotStopped == Spec => NoClientStopsAnother
<1>1. IInv /\ [Next]_vars =>
        [\A c \in Clients : Fed(c) /\ ~Fed(c)' =>
           \A d \in Clients \ {c} :
             /\ streamToken'[d] = streamToken[d] /\ (d \in played' <=> d \in played)
             /\ c \in sessions' => c \notin played' \/ destinations'[c] \in {"tcp", "closed"}]_vars
  <2> SUFFICES ASSUME IInv, [Next]_vars, NEW c \in Clients, Fed(c), ~Fed(c)'
               PROVE  OnlyLeaves(c)
    BY DEF OnlyLeaves
  <2> QED
    BY FedOrLeaves
<1> QED
  BY <1>1, SubsessionInvariant, PTL DEF Spec, NoClientStopsAnother

-----------------------------------------------------------------------------
(* One camera, shared *)

Tokened(token) == {d \in Clients : token[d] # NULL}

\* What the end of a session does to the camera.
LEMMA DeleteStreamCamera ==
  ASSUME NEW s, NEW pl, NEW c \in Clients, SharingInv(s, streamToken, pl)
  PROVE  CameraOf(DeleteStream(s, c)) =
           IF Tokened(streamToken) \subseteq {c} /\ CameraOf(s) = "stream" THEN "nobody"
           ELSE CameraOf(s)
<1> DEFINE r == DeleteStream(s, c)
           gone == [streamToken EXCEPT ![c] = NULL]
<1>1. s \in SubsessionType /\ streamToken \in [Clients -> Streams \cup {NULL}]
  BY DEF SharingInv
<1>2. SharingInv(r, gone, pl \ {c}) /\ (r.camera = Dummy <=> s.camera = Dummy)
  BY DeleteStreamKeepsSharing
<1>3. CASE Tokened(streamToken) \subseteq {c}
  <2>1. \A t \in Streams : Users(gone, t) = {}
    BY <1>1, <1>3, SubsessionAssumption DEF Users, Tokened
  <2>2. NoStream.source = FALSE
    BY DEF NoStream
  <2> HIDE DEF r, gone
  <2>3. r.camera \notin Streams /\ r.camera \in Streams \cup {Dummy, NULL}
    BY <1>2, <2>1, <2>2 DEF SharingInv, SubsessionType
  <2>4. CameraOf(r) = IF s.camera = Dummy THEN "describe" ELSE "nobody"
    BY <1>2, <2>3, SubsessionAssumption DEF CameraOf
  <2> QED
    BY <1>3, <2>4, SubsessionAssumption DEF CameraOf, r
<1>4. CASE ~(Tokened(streamToken) \subseteq {c})
  <2>1. PICK d \in Clients \ {c} : streamToken[d] # NULL
    BY <1>4 DEF Tokened
  <2>2. r.camera = s.camera
    <3>1. CASE streamToken[c] = NULL
      BY <3>1 DEF DeleteStream
    <3>2. CASE streamToken[c] # NULL
      <4> DEFINE t == streamToken[c]
                 e == EndPlaying(s, c)
      <4>1. t \in Streams /\ streamToken[d] \in Streams
        BY <1>1, <2>1, <3>2
      <4>2. t = streamToken[d]
        <5>1. c \in Users(streamToken, t) /\ d \in Users(streamToken, streamToken[d])
          BY DEF Users
        <5> QED
          BY <4>1, <5>1 DEF SharingInv
      <4>3. /\ e \in SubsessionType /\ e.camera = s.camera
            /\ e.streams[t] = [s.streams[t] EXCEPT !.receivers = @ \ {c}]
        BY <1>1, <4>1, EndPlayingFields
      <4>4. e.streams[t].referenceCount = Cardinality(Users(streamToken, t))
        BY <1>1, <4>1, <4>3 DEF SharingInv, SubsessionType, StreamType
      <4>5. /\ Users(gone, t) = Users(streamToken, t) \ {c}
            /\ Cardinality(Users(streamToken, t)) \in Nat
            /\ Cardinality(Users(streamToken, t)) > 0
            /\ Cardinality(Users(gone, t)) = Cardinality(Users(streamToken, t)) - 1
            /\ Cardinality(Users(gone, t)) = 0 <=> Users(gone, t) = {}
        BY <1>1, <4>1, UsersOneLess
      <4>6. d \in Users(streamToken, t) \ {c}
        BY <4>2 DEF Users
      <4>7. r = Release(e, t)
        BY <3>2 DEF DeleteStream
      <4> HIDE DEF e, t, r, gone
      <4>8. e.streams[t].referenceCount # 1 /\ e.streams[t].referenceCount > 0
        BY <4>4, <4>5, <4>6
      <4>9. Release(e, t).camera = e.camera
        BY <4>1, <4>3, <4>8, ReleaseFields
      <4> QED
        BY <4>3, <4>7, <4>9
    <3> QED
      BY <3>1, <3>2
  <2> QED
    BY <1>4, <2>2 DEF CameraOf
<1> QED
  BY <1>3, <1>4

\* What a new session does to it.
LEMMA GetStreamParametersCamera ==
  ASSUME NEW s, NEW token, NEW pl, NEW t \in Streams, NEW a,
         SharingInv(s, token, pl), GetStreamParameters(s, t, a)
  PROVE  CameraOf(a) \in
           IF Tokened(token) = {} /\ CameraOf(s) = "nobody"
             THEN {"stream"} \cup (IF CameraMayFail THEN {"nobody"} ELSE {})
             ELSE {CameraOf(s)}
<1>1. s \in SubsessionType /\ token \in [Clients -> Streams \cup {NULL}]
  BY DEF SharingInv
<1>2. CASE Reuse(s, t, a)
  <2>1. s.fLastStreamToken = t /\ a.camera = s.camera
    BY <1>1, <1>2 DEF Reuse, SubsessionType
  <2>2. Users(token, t) # {}
    BY <2>1 DEF SharingInv
  <2>3. Tokened(token) # {}
    BY <2>2, SubsessionAssumption DEF Users, Tokened
  <2> QED
    BY <2>1, <2>3 DEF CameraOf
<1>3. CASE CreateStream(s, t, a)
  <2>1. PICK source \in NewSourceOutcomes(s) : a.camera = IF source THEN t ELSE s.camera
    BY <1>3 DEF CreateStream
  <2>2. s.fLastStreamToken = NULL
    BY <1>3 DEF CreateStream
  <2>3. Tokened(token) = {}
    <3> SUFFICES ASSUME NEW d \in Clients, token[d] # NULL PROVE FALSE
      BY DEF Tokened
    <3>1. token[d] \in Streams /\ d \in Users(token, token[d])
      BY <1>1 DEF Users
    <3> QED
      BY <2>2, <3>1, SubsessionAssumption DEF SharingInv
  <2>4. CASE source = TRUE
    <3>1. s.camera = NULL /\ a.camera = t
      BY <2>1, <2>4 DEF NewSourceOutcomes
    <3> QED
      BY <2>3, <3>1, SubsessionAssumption DEF CameraOf
  <2>5. CASE source = FALSE
    <3>1. a.camera = s.camera /\ (s.camera = NULL => CameraMayFail)
      BY <2>1, <2>5 DEF NewSourceOutcomes
    <3> QED
      BY <2>3, <3>1, SubsessionAssumption DEF CameraOf
  <2> QED
    BY <2>1, <2>4, <2>5 DEF NewSourceOutcomes
<1> QED
  BY <1>2, <1>3 DEF GetStreamParameters

ViewersOf(s) == UNION {s.streams[t].receivers : t \in Streams}

Viewers == ViewersOf(subsession)

\* Streams whose receivers are those of s without c are seen by all but c.
LEMMA ViewersWithout ==
  ASSUME NEW s, NEW a, NEW c, ReceiversWithout(a, s, c)
  PROVE  ViewersOf(a) = ViewersOf(s) \ {c}
BY DEF ViewersOf, ReceiversWithout

\* The sharing clients and viewers after a session's end.
LEMMA SharersWithout ==
  ASSUME NEW c \in Clients, NEW s, SessionEnds(c),
         SharingInv(s, streamToken, played), subsession' = DeleteStream(s, c)
  PROVE  Sharers' = Sharers \ {c} /\ Viewers' = ViewersOf(s) \ {c}
<1>1. streamToken \in [Clients -> Streams \cup {NULL}]
  BY DEF SharingInv
<1>2. Sharers' = Sharers \ {c}
  BY <1>1 DEF Sharers, SessionEnds
<1>4. ViewersOf(DeleteStream(s, c)) = ViewersOf(s) \ {c}
  BY DeleteStreamKeepsSharing, ViewersWithout
<1>5. Viewers' = ViewersOf(DeleteStream(s, c))
  BY DEF Viewers, ViewersOf
<1> QED
  BY <1>2, <1>4, <1>5

\* A session that begins again, or for the first time.
LEMMA SetupIsBegin ==
  ASSUME IInv, IInv', NEW c \in Clients, NEW mode \in {"udp", "tcp"}, Setup(c, mode)
  PROVE  Shared!Begin(c)
<1> DEFINE gone == [streamToken EXCEPT ![c] = NULL]
           s == DeleteStream(subsession, c)
<1>1. /\ SharingInv(subsession, streamToken, played)
      /\ SharingInv(subsession, streamToken, played)'
      /\ streamToken \in [Clients -> Streams \cup {NULL}]
  BY DEF IInv, SharingInv
<1>2. PICK t \in Streams :
        /\ GetStreamParameters(s, t, subsession')
        /\ streamToken' = [streamToken EXCEPT ![c] = t]
  BY DEF Setup
<1>4. Sharers' = Sharers \cup {c}
  BY <1>1, <1>2, SubsessionAssumption DEF Sharers
<1>7. CameraOf(s) = IF Sharers \subseteq {c} /\ CameraOf(subsession) = "stream" THEN "nobody"
                    ELSE CameraOf(subsession)
  BY <1>1, DeleteStreamCamera DEF Sharers, Tokened
<1>8. /\ SharingInv(s, gone, played \ {c})
      /\ ReceiversWithout(s, subsession, c)
  BY <1>1, DeleteStreamKeepsSharing
<1>8a. gone[c] = NULL
  BY <1>1
<1>9. Tokened(gone) = {} <=> Sharers \subseteq {c}
  BY <1>1 DEF Tokened, Sharers
<1> HIDE DEF s, gone
<1>10. CameraOf(subsession') \in
         IF Tokened(gone) = {} /\ CameraOf(s) = "nobody"
           THEN {"stream"} \cup (IF CameraMayFail THEN {"nobody"} ELSE {})
           ELSE {CameraOf(s)}
  BY <1>2, <1>8, GetStreamParametersCamera
<1>11. CameraOf(subsession') \in Shared!CameraWith(c)
  BY <1>7, <1>9, <1>10 DEF Shared!CameraWith, Shared!CameraWithout
<1>12. CameraOf(subsession)' = CameraOf(subsession')
  OBVIOUS
<1>13. ReceiversKept(subsession', s)
  BY <1>2, <1>8, <1>8a, GetStreamParametersKeepsSharing
<1>14. Viewers' = Viewers \ {c}
  BY <1>8, <1>13 DEF Viewers, ViewersOf, ReceiversWithout, ReceiversKept
<1> QED
  BY <1>4, <1>11, <1>12, <1>14 DEF Shared!Begin, Viewers, ViewersOf

LEMMA SessionEndIsEnd ==
  ASSUME IInv, IInv', NEW c \in Clients, SessionEnds(c),
         subsession' = DeleteStream(subsession, c)
  PROVE  Shared!End(c)
<1>1. /\ SharingInv(subsession, streamToken, played)
      /\ SharingInv(subsession, streamToken, played)'
      /\ streamToken \in [Clients -> Streams \cup {NULL}]
  BY DEF IInv, SharingInv
<1>2. Sharers' = Sharers \ {c} /\ Viewers' = Viewers \ {c}
  BY <1>1, SharersWithout DEF Viewers
<1>3. CameraOf(subsession') =
        IF Sharers \subseteq {c} /\ CameraOf(subsession) = "stream" THEN "nobody"
        ELSE CameraOf(subsession)
  BY <1>1, DeleteStreamCamera DEF Sharers, Tokened
<1>4. CameraOf(subsession)' = CameraOf(subsession')
  OBVIOUS
<1> QED
  BY <1>2, <1>3, <1>4 DEF Shared!End, Shared!CameraWithout, Viewers, ViewersOf

\* A session that goes on, but is no longer sent to.
LEMMA LostIsLose ==
  ASSUME NEW c \in Clients, NEW s, SharingInv(s, streamToken, played),
         streamToken[c] \in Streams, streamToken' = streamToken,
         subsession' = EndPlaying(s, c)
  PROVE  /\ Sharers' = Sharers /\ Viewers' = ViewersOf(s) \ {c}
         /\ CameraOf(subsession)' = CameraOf(s)
<1>1. EndPlaying(s, c).camera = s.camera /\ ReceiversWithout(EndPlaying(s, c), s, c)
  BY EndPlayingKeepsSharing
<1>2. ViewersOf(EndPlaying(s, c)) = ViewersOf(s) \ {c}
  BY <1>1, ViewersWithout
<1>3. Viewers' = ViewersOf(EndPlaying(s, c))
  BY DEF Viewers, ViewersOf
<1>4. CameraOf(subsession)' = CameraOf(s)
  <2>1. subsession'.camera = s.camera
    BY <1>1
  <2> QED
    BY <2>1 DEF CameraOf
<1>5. Sharers' = Sharers
  BY DEF Sharers
<1> QED
  BY <1>2, <1>3, <1>4, <1>5

LEMMA CheckForAuxSDPLineIsEndDescribe ==
  ASSUME IInv, IInv', CheckForAuxSDPLine
  PROVE  \/ Shared!EndDescribe({}, {})
         \/ \E c \in Clients : Shared!EndDescribe({c}, {}) \/ Shared!EndDescribe({}, {c})
<1> DEFINE closed == [subsession EXCEPT !.camera = IF @ = Dummy THEN NULL ELSE @]
<1>1. /\ SessionTypeOK /\ SessionInv
      /\ SharingInv(subsession, streamToken, played)
      /\ SharingInv(subsession, streamToken, played)'
      /\ streamToken \in [Clients -> Streams \cup {NULL}]
  BY TypeOKSplit, PTL DEF IInv, SharingInv
<1>2. describing # NULL
      /\ IF closing THEN StopTCPStreaming(describing, closed)
                    ELSE subsession' = closed /\ UNCHANGED sessionVars
  BY Zenon DEF CheckForAuxSDPLine
<1>3. subsession.camera = Dummy /\ describing \in Clients /\ subsession \in SubsessionType
  BY <1>1, <1>2 DEF SessionInv, SessionTypeOK, SharingInv
<1>4. /\ closed \in SubsessionType
      /\ closed.streams = subsession.streams
      /\ closed.fLastStreamToken = subsession.fLastStreamToken
      /\ closed.camera = NULL
  BY <1>3 DEF SubsessionType
<1> HIDE DEF closed
<1>5. SharingInv(closed, streamToken, played)
  <2>1. \A t \in Streams : closed.camera = t <=> closed.streams[t].source
    BY <1>1, <1>3, <1>4, SubsessionAssumption DEF SharingInv
  <2> QED
    BY <1>1, <1>4, <2>1 DEF SharingInv
<1>6. CameraOf(subsession) = "describe" /\ CameraOf(closed) = "nobody"
  BY <1>3, <1>4, SubsessionAssumption DEF CameraOf
<1>7. CameraOf(subsession)' = CameraOf(subsession') /\ ViewersOf(closed) = Viewers
  BY <1>4 DEF ViewersOf, Viewers
<1>8. CASE closing /\ describing \in fTCPStreamingDatabase
  <2>1. subsession' = DeleteStream(closed, describing) /\ SessionEnds(describing)
    BY <1>2, <1>8 DEF StopTCPStreaming
  <2>2. PICK c \in Clients : c = describing
    BY <1>3
  <2>3. Sharers' = Sharers \ {c} /\ Viewers' = Viewers \ {c}
    BY <1>5, <1>7, <2>1, <2>2, SharersWithout
  <2>4. CameraOf(subsession') = "nobody"
    <3>1. CameraOf(DeleteStream(closed, c)) =
            IF Tokened(streamToken) \subseteq {c} /\ CameraOf(closed) = "stream" THEN "nobody"
            ELSE CameraOf(closed)
      BY <1>5, DeleteStreamCamera
    <3> QED
      BY <1>6, <2>1, <2>2, <3>1
  <2>5. Shared!EndDescribe({c}, {})
    BY <1>6, <1>7, <2>3, <2>4 DEF Shared!EndDescribe, Viewers, ViewersOf
  <2> QED
    BY <2>5
<1>9. CASE closing /\ describing \notin fTCPStreamingDatabase
  <2>1. PICK c \in Clients : c = describing
    BY <1>3
  <2>2. LosesConnection(c, closed)
    BY <1>2, <1>9, <2>1 DEF StopTCPStreaming
  <2>3. streamToken' = streamToken
    BY <2>2 DEF LosesConnection
  <2>4. CASE subsession' = closed
    <3>1. Sharers' = Sharers /\ Viewers' = Viewers
      BY <1>7, <2>3, <2>4 DEF Sharers, Viewers
    <3>2. Shared!EndDescribe({}, {})
      BY <1>6, <1>7, <2>4, <3>1 DEF Shared!EndDescribe, Viewers, ViewersOf
    <3> QED
      BY <3>2
  <2>5. CASE subsession' # closed
    <3>1. streamToken[c] \in Streams /\ subsession' = EndPlaying(closed, c)
      BY <1>1, <2>2, <2>5 DEF LosesConnection, SessionInv
    <3>2. /\ Sharers' = Sharers /\ Viewers' = Viewers \ {c}
          /\ CameraOf(subsession)' = "nobody"
      BY <1>5, <1>6, <1>7, <2>3, <3>1, LostIsLose
    <3>3. Shared!EndDescribe({}, {c})
      BY <1>6, <3>2 DEF Shared!EndDescribe, Viewers, ViewersOf
    <3> QED
      BY <3>3
  <2> QED
    BY <2>4, <2>5
<1>10. CASE ~closing
  <2>1. subsession' = closed /\ UNCHANGED sessionVars
    BY <1>2, <1>10
  <2>2. Sharers' = Sharers /\ Viewers' = Viewers
    BY <1>7, <2>1 DEF Sharers, Viewers, sessionVars
  <2>3. Shared!EndDescribe({}, {})
    BY <1>6, <1>7, <2>1, <2>2 DEF Shared!EndDescribe, Viewers, ViewersOf
  <2> QED
    BY <2>3
<1> QED
  BY <1>8, <1>9, <1>10

\* Every step is one of the abstract specification or changes nothing of it.
LEMMA StepIsShared ==
  ASSUME IInv, IInv', [Next]_vars
  PROVE  [Shared!Next]_(Shared!vars)
<1> DEFINE Same == UNCHANGED <<Sharers, Viewers, CameraOf(subsession)>>
<1>1. ASSUME Same PROVE UNCHANGED Shared!vars
  BY <1>1 DEF Shared!vars, Viewers, ViewersOf
<1>2. CASE UNCHANGED <<subsession, streamToken>>
  <2>1. Same
    BY <1>2 DEF Sharers, Viewers, ViewersOf, CameraOf
  <2> QED
    BY <1>1, <2>1
<1>3. ASSUME NEW c \in Clients, Describe(c) PROVE Shared!Next
  <2>1. /\ subsession \in SubsessionType /\ streamToken' = streamToken
        /\ subsession' = [subsession EXCEPT !.camera = Dummy]
        /\ subsession.camera = NULL
    BY <1>3 DEF Describe, NewSourceOutcomes, sessionVars, IInv, SharingInv
  <2>2. subsession'.camera = Dummy /\ subsession'.streams = subsession.streams
    BY <2>1 DEF SubsessionType
  <2>3. CameraOf(subsession) = "nobody" /\ CameraOf(subsession)' = "describe"
    BY <2>1, <2>2, SubsessionAssumption DEF CameraOf
  <2>4. Sharers' = Sharers /\ Viewers' = Viewers
    BY <2>1, <2>2 DEF Sharers, Viewers, ViewersOf
  <2> QED
    BY <2>3, <2>4 DEF Shared!Next, Shared!BeginDescribe, Viewers, ViewersOf
<1>4. ASSUME NEW c \in Clients, NEW mode \in {"udp", "tcp"}, Setup(c, mode) PROVE Shared!Next
  BY <1>4, SetupIsBegin DEF Shared!Next
<1>5. ASSUME NEW c \in Clients, Play(c) PROVE [Shared!Next]_(Shared!vars)
  <2>1. /\ SharingInv(subsession, streamToken, played)
        /\ SharingInv(subsession, streamToken, played)'
    BY DEF IInv
  <2>2. /\ subsession' = StartPlaying(subsession, c)
        /\ played' = played \cup {c} /\ streamToken' = streamToken
    BY <1>5 DEF Play
  <2>3. /\ subsession'.camera = subsession.camera
        /\ \A u \in Streams : subsession'.streams[u].receivers =
             subsession.streams[u].receivers \cup (IF u = streamToken[c] THEN {c} ELSE {})
    BY <2>1, <2>2, StartPlayingKeepsSharing
  <2>4. Sharers' = Sharers /\ CameraOf(subsession)' = CameraOf(subsession)
    BY <2>2, <2>3 DEF Sharers, CameraOf
  <2>5. streamToken \in [Clients -> Streams \cup {NULL}]
    BY <2>1 DEF SharingInv
  <2>6. CASE c \in Sharers
    <3>1. streamToken[c] \in Streams
      BY <2>5, <2>6 DEF Sharers
    <3>2. Viewers' = Viewers \cup {c}
      BY <2>3, <3>1 DEF Viewers, ViewersOf
    <3> QED
      BY <2>4, <2>6, <3>2 DEF Shared!Next, Shared!View, Viewers, ViewersOf
  <2>7. CASE c \notin Sharers
    <3>1. \A u \in Streams : u # streamToken[c]
      BY <2>7, SubsessionAssumption DEF Sharers
    <3>2. Viewers' = Viewers
      BY <2>3, <3>1 DEF Viewers, ViewersOf
    <3> QED
      BY <1>1, <2>4, <3>2
  <2> QED
    BY <2>6, <2>7
<1>6. ASSUME NEW c \in Clients, Teardown(c) PROVE Shared!Next
  BY <1>6, SessionEndIsEnd DEF Teardown, Shared!Next
<1>7a. ASSUME NEW c \in Clients, streamToken[c] \in Streams, streamToken' = streamToken,
              subsession' = EndPlaying(subsession, c)
       PROVE  Shared!Next
  <2>1. /\ Sharers' = Sharers /\ Viewers' = Viewers \ {c}
        /\ CameraOf(subsession)' = CameraOf(subsession)
    BY <1>7a, LostIsLose DEF IInv, Viewers
  <2> QED
    BY <2>1 DEF Shared!Next, Shared!Lose, Viewers, ViewersOf
<1>7. ASSUME NEW c \in Clients, Disconnect(c) PROVE [Shared!Next]_(Shared!vars)
  <2>1. CASE describing # c /\ c \in fTCPStreamingDatabase
    <3>1. subsession' = DeleteStream(subsession, c) /\ SessionEnds(c)
      BY <1>7, <2>1 DEF Disconnect, StopTCPStreaming
    <3> QED
      BY <3>1, SessionEndIsEnd DEF Shared!Next
  <2>2. CASE describing = c
    BY <1>2, <1>7, <2>2 DEF Disconnect, sessionVars
  <2>3. CASE describing # c /\ c \notin fTCPStreamingDatabase
    <3>1. LosesConnection(c, subsession)
      BY <1>7, <2>3 DEF Disconnect, StopTCPStreaming
    <3>2. streamToken' = streamToken
      BY <3>1 DEF LosesConnection
    <3>3. CASE subsession' = subsession
      BY <1>2, <3>2, <3>3
    <3>4. CASE subsession' # subsession
      <4>1. streamToken[c] \in Streams /\ subsession' = EndPlaying(subsession, c)
        BY <3>1, <3>4 DEF LosesConnection, IInv, SessionInv, SharingInv
      <4> QED
        BY <1>7a, <3>2, <4>1
    <3> QED
      BY <3>3, <3>4
  <2> QED
    BY <2>1, <2>2, <2>3
<1>7b. ASSUME NEW c \in Clients, SendFails(c) PROVE Shared!Next
  <2>1. /\ streamToken[c] \in Streams /\ streamToken' = streamToken
        /\ subsession' = EndPlaying(subsession, c)
    BY <1>7b DEF SendFails, sessionVars, IInv, SharingInv
  <2> QED
    BY <1>7a, <2>1
<1>8. CASE CheckForAuxSDPLine
  BY <1>8, CheckForAuxSDPLineIsEndDescribe DEF Shared!Next
<1>9. ASSUME NEW c \in Clients, DescribeAnswered(c) \/ SetupNoSuchTrack(c) \/ Pause(c)
      PROVE  UNCHANGED <<subsession, streamToken>>
  BY <1>9 DEF DescribeAnswered, SetupNoSuchTrack, Pause, vars, sessionVars
<1>10. CASE NextNal \/ UNCHANGED vars
  BY <1>2, <1>10 DEF NextNal, vars, sessionVars
<1> QED
  BY <1>2, <1>3, <1>4, <1>5, <1>6, <1>7, <1>7b, <1>8, <1>9, <1>10 DEF Next, Request

\* The counting of references, the token of the last stream and the sources
\* amount to one camera shared by all sessions.
THEOREM CameraIsShared == Spec => SharedCameraSpec
<1>1. Init => Shared!Init
  <2> SUFFICES ASSUME Init PROVE Shared!Init
    OBVIOUS
  <2>1. Sharers = {} /\ CameraOf(subsession) = "nobody"
    BY DEF Init, Sharers, CameraOf
  <2>2. Viewers = {}
    BY DEF Init, Viewers, ViewersOf, NoStream
  <2> QED
    BY <2>1, <2>2 DEF Shared!Init, Viewers, ViewersOf
<1>2. IInv /\ IInv' /\ [Next]_vars => [Shared!Next]_(Shared!vars)
  BY StepIsShared
<1> QED
  BY <1>1, <1>2, SubsessionInvariant, PTL DEF Spec, SharedCameraSpec, Shared!Spec

=============================================================================
