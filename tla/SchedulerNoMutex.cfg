CONSTANTS
  MaxThreads <- TwoThreads
  NUMBER_LEVELS <- ProgramLevels
  Mutexes = {}
  Creators <- MainAndFirst
  Joiners <- MainAndFirst
  ExitValues = {}
  EarlyTicks = TRUE
SPECIFICATION FairSpec
CHECK_DEADLOCK FALSE
PROPERTIES ReadyThreadRuns JoinCompletes
