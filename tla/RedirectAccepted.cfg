\* A proxy before the service may redirect: one upload is enough.
SPECIFICATION Spec
CONSTANTS
  Puts = {p1}
  Keys = {k1}
  NoPut = NoPut
  Redirects = TRUE
INVARIANTS
  NonSuccessRaises
CHECK_DEADLOCK FALSE
