CONSTANTS
  None = None
  Input <- MCInput
  ActionSets <- MCActionSets
  ClosingActions = {"stop"}
  MaxTasks = 2
  MaxHistory = 9
  Grace = 1
  Renames = TRUE
  MaxTime = 3
  MaxId = 2
  MaxRevision = 2
  FaultKinds = {"write", "crash"}
  MaxFaults = 1
SPECIFICATION Spec
INVARIANTS TypeOK OncePerRevision HandedIsJournaled EnabledIsArmed
CHECK_DEADLOCK FALSE
