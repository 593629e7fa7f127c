SPECIFICATION FairSpec
CONSTANTS
  None = None
  Client = {u1}
  Epoch = {e1, e2, e3}
  Format = {"mono"}
  Body = {}
  MaxSequence = 0
  CacheWindow = 99
  FaultKind = {"network", "crash", "storage", "expire"}
  MaxFaults = 2
  MaxSample = 4
  MaxChunk = 2
  LocalWindow = 9
  MayStop = TRUE
INVARIANT SyncTypeOK
INVARIANT StoredOnce
INVARIANT SequencesInStep
INVARIANT StreamsAreContiguous
PROPERTY PositionsNeverRewind
PROPERTY UploadCatchesUp
PROPERTY StopEndsTheThread
CHECK_DEADLOCK FALSE
