SPECIFICATION Spec
CONSTANTS
  NALs <- MCNALs
  fMaxOutputPacketSize = 4
  OutPacketBufferMaxSize = 7
  SeqModulus = 5
  MaxDistance = 2
  FirstSeqNos <- MCFirstSeqNos
  MaxPackets = 6
CHECK_DEADLOCK FALSE
INVARIANT PacketsCarryTheNals
INVARIANT PacketsFit
INVARIANT QueueInOrder
INVARIANT FramesAreNals
PROPERTY MarkerEndsAccessUnit
