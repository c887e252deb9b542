\* One client with everything it may send, split in every way.
CONSTANTS
  Clients = {c1}
  Requests <- MCRequests
  Packets <- MCPackets
  REQUEST_BUFFER_SIZE = 10
  maxRTCPPacketSize = 3
  MaxMessages = 4
  NULL = NULL
SPECIFICATION FairSpec
CHECK_DEADLOCK FALSE
INVARIANT RequestsInOrder
INVARIANT RequestsAreSeen
INVARIANT BufferHasRoom
INVARIANT OneReader
INVARIANT ReportsAreTheClients
PROPERTY BytesAreRead
PROPERTY DisconnectIsNoticed
