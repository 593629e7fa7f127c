SPECIFICATION FairSpec
CONSTANTS
  None = None
  Slot = {1, 2, 3}
  Peer = {p1}
  Kinds = {"challenge", "envelope", "reset"}
  Breaks = {"envelope"}
  MaxRequests = 3
  MaxConnections = 2
  MaxPending = 1
  Minute = 1
  Ttl = 0
  Idle = 0
  ReplacesAtOnce = TRUE
  FaultKinds = {"write", "replace", "crash"}
  MaxArrivals = 4
  MaxTime = 1
  MaxServers = 2
  MaxFaults = 1
INVARIANTS TypeOK KeyIsOnDisk HandledAsAdmitted
PROPERTIES RequestsEnd
CHECK_DEADLOCK FALSE
