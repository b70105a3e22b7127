CONSTANTS
  Tcbs = {n1, n2, n3}
  NoTcb = NoTcb
  Masked = FALSE
SPECIFICATION Spec
CHECK_DEADLOCK FALSE
INVARIANTS WellLinked
