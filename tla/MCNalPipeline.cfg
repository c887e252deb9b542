\* Three NALs per frame tell the order of a unit from its reverse.  Four
\* frames are one for set-up, one that overwrites it, and two in the steady
\* state; two capture buffers let frames be dropped and buffers be lost.
CONSTANTS
  MAX_NAL_COUNT = 3
  MmapBuffers = 2
  MaxFrames = 4
SPECIFICATION FairSpec
INVARIANT DeliveredInOrder
INVARIANT QueuesAreBounded
INVARIANT BytesAreThoseThatWerePushed
INVARIANT TimesFollowFrames
INVARIANT EmptyQueueMeansNoCapture
PROPERTY RequestsAreAnswered
\* The source stops for good on an empty queue.
CHECK_DEADLOCK FALSE
