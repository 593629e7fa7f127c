CONSTANTS
  None = None
  Input <- MCInput
  ActionSets <- MCActionSets
  ClosingActions = {"stop"}
  MaxTasks = 2
  MaxHistory = 2
  Grace = 0
  Renames = FALSE
  MaxTime = 2
  MaxId = 2
  MaxRevision = 2
  FaultKinds = {"crash"}
  MaxFaults = 1
SPECIFICATION ThreadSpec
INVARIANTS RunningIsExecuted
PROPERTIES DueTasksFire RunningEnds
CHECK_DEADLOCK FALSE
