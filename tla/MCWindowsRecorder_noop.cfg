CONSTANTS
  None = None
  UiCalls = {"start"}
  HelperCalls = {"stop"}
  Scheduled = {"start", "stop"}
  MaxCalls <- MCMaxCalls
  PerUi = 1
  PerHelper = 1
  PerScheduler = 2
  FaultKinds = {}
  MaxFaults = 0
SPECIFICATION Spec
PROPERTIES StopIsNoOpWhenStopped
CHECK_DEADLOCK FALSE
