\* What the README promises the N clients, with a camera that always works.
CONSTANTS
  Clients = {c1, c2, c3}
  Streams = {t1, t2}
  Dummy = Dummy
  NULL = NULL
  CameraMayFail = FALSE
SPECIFICATION Spec
SYMMETRY Symmetry
INVARIANT PlayingClientsAreFed
