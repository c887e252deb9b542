\* What the comments in mainloop and read_frame say about retries.
CONSTANTS
  MAX_NAL_COUNT = 2
  MmapBuffers = 2
  MaxFrames = 2
SPECIFICATION FairSpec
PROPERTY OnlyTransientErrorsRetry
CHECK_DEADLOCK FALSE
