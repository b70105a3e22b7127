CONSTANTS
  MaxThreads <- TwoThreads
  NUMBER_LEVELS <- ProgramLevels
  Mutexes = {m1, m2}
  Creators <- MainOnly
  Joiners = {}
  ExitValues = {v1, v2}
  EarlyTicks = FALSE
SYMMETRY ClientSymmetry
SPECIFICATION Spec
CHECK_DEADLOCK FALSE
INVARIANTS RunningIsHead ClientCodeIsScheduled WaitersWantTheMutex CrashOnlyWhenStuck
PROPERTIES ExitSurvivesReturn
