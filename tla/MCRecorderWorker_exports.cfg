SPECIFICATION Spec
CONSTANTS
  None = None
  SegmentSize = 2
  Window = 4
  Capacity = 1
  MaxHeard = 8
  MaxFaults = 1
  Job <- MCJob
  Chunk <- MCChunk
  Latest <- MCLatest
  FaultKinds <- MCFaultKinds
INVARIANTS TypeOK AudioIsWhole ReportsSettle ExpiredIsRemoved OutputMatchesState
PROPERTIES NeverRewinds
CHECK_DEADLOCK FALSE
