CONSTANTS
  MaxThreads <- TwoThreads
  NUMBER_LEVELS <- ProgramLevels
  Mutexes = {m1}
  Creators <- MainOnly
  Joiners <- MainOnly
  ExitValues = {}
  EarlyTicks = TRUE
SPECIFICATION Spec
CHECK_DEADLOCK FALSE
INVARIANTS TypeOK MutualExclusion TcbConservation SingleLevel HasRunBounded JoinReadsDelivered
PROPERTIES TerminatedForever ResumesLiveHead ServesInTurn
