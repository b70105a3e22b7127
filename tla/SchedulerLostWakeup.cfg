CONSTANTS
  MaxThreads <- OneThread
  NUMBER_LEVELS <- ProgramLevels
  Mutexes = {m1}
  Creators <- MainOnly
  Joiners <- MainOnly
  ExitValues = {}
  EarlyTicks = FALSE
SPECIFICATION Spec
CHECK_DEADLOCK FALSE
INVARIANTS NoStrandedWaiter
