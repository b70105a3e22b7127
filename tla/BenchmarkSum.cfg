CONSTANTS
  MaxThreads <- TwoThreads
  NUMBER_LEVELS <- ProgramLevels
  Mutexes = {m1}
  Creators <- MainOnly
  Joiners <- MainOnly
  ExitValues = {}
  EarlyTicks = FALSE
  Items = 1
SPECIFICATION BenchmarkSpec
CHECK_DEADLOCK FALSE
INVARIANTS SumIsVerified
