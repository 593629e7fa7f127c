CONSTANTS
  None = None
  Input <- MCInput
  ActionSets <- MCActionSets
  ClosingActions = {"stop"}
  MaxTasks = 2
  MaxHistory = 9
  Grace = 0
  Renames = TRUE
  MaxTime = 2
  MaxId = 2
  MaxJobs = 2
  MaxRevision = 1
  FaultKinds = {"crash"}
  MaxFaults = 1
SPECIFICATION CoordinatorSpec
INVARIANTS OnOneThread AlarmIsNextWakeup
PROPERTIES DueTasksFire RunningEnds
CHECK_DEADLOCK FALSE
