\* Two live objects are the most the server makes at once; the third shows
\* what a set-up finds after one that failed and one that was destroyed.
CONSTANTS
  Sources = {s1, s2, s3}
  MAX_NAL_COUNT = 2
  Grants <- GrantedCounts
  NULL = NULL
SPECIFICATION Spec
SYMMETRY Symmetry
INVARIANT CleanupFindsItsResources
INVARIANT ReadySourceCanCapture
INVARIANT TriggerWhileReady
INVARIANT CameraIsReleased
INVARIANT FinishedSourceHoldsNothing
\* Every object is used up in the end.
CHECK_DEADLOCK FALSE
