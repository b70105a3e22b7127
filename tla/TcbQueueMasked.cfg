CONSTANTS
  Tcbs = {n1, n2, n3}
  NoTcb = NoTcb
  Masked = TRUE
SPECIFICATION Spec
INVARIANTS TypeOK WellLinked
PROPERTIES Refines
