\* The assertion in deliverFrame.
CONSTANTS
  MAX_NAL_COUNT = 2
  MmapBuffers = 2
  MaxFrames = 2
SPECIFICATION Spec
INVARIANT PayloadAssertion
CHECK_DEADLOCK FALSE
