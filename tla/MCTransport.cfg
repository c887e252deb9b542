\* What the comments in handleCmd_SETUP say of a second SETUP.
CONSTANTS
  Clients = {c1, c2, c3}
  Streams = {t1, t2}
  Dummy = Dummy
  NULL = NULL
  CameraMayFail = TRUE
SPECIFICATION Spec
SYMMETRY Symmetry
INVARIANT TransportAsAnswered
