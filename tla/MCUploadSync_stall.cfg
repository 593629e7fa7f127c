SPECIFICATION FairSpec
CONSTANTS
  None = None
  Client = {u1}
  Epoch = {e1, e2}
  Format = {"mono"}
  Body = {}
  MaxSequence = 0
  CacheWindow = 99
  FaultKind = {"network"}
  MaxFaults = 2
  MaxSample = 2
  MaxChunk = 1
  LocalWindow = 1
  MayStop = FALSE
PROPERTY UploadCatchesUp
CHECK_DEADLOCK FALSE
