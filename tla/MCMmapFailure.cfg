\* What the comment at LiveSourceWithx264.cpp:54 says, on one object.
CONSTANTS
  Sources = {s1}
  MAX_NAL_COUNT = 2
  Grants <- GrantedCounts
  NULL = NULL
SPECIFICATION Spec
INVARIANT FailedMmapLeavesNothingMapped
CHECK_DEADLOCK FALSE
