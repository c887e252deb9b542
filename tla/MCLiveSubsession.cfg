\* Three clients: one that leaves, one that stays and one that comes.  Two
\* StreamState objects, so that a second one could be made while one is used.
CONSTANTS
  Clients = {c1, c2, c3}
  Streams = {t1, t2}
  Dummy = Dummy
  NULL = NULL
  CameraMayFail = TRUE
SPECIFICATION FairSpec
INVARIANT ReferencesAreCounted
INVARIANT ClientsShareOneStream
INVARIANT CameraHasOneUser
INVARIANT ReceiversAreThePlayers
INVARIANT DatabaseHoldsTheTcpSessions
 
PROPERTY SharedCameraSpec
PROPERTY DescribeEnds
