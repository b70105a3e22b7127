CONSTANTS
  NUMBER_LEVELS = 3
  MaxTcbs = 5
  OLDEST_PERCENT = 40
  Times = {0, 1, 2}
  MaxCalls = 2
SPECIFICATION Spec
CHECK_DEADLOCK FALSE
INVARIANTS TypeOK SelectsKth ListsUsable
PROPERTIES OldestAreOldest SurgeryIsClean LostOnlyWhenAlone
