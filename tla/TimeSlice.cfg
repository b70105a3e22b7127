CONSTANTS
  SECOND = 40
  TIME_SLICE = 2
  INTERVAL = 10
  Levels = {0, 1, 2}
  MaxTime = 120
SPECIFICATION Spec
CHECK_DEADLOCK FALSE
INVARIANTS TypeOK PreemptedInTime ErrsOnlyEarly
