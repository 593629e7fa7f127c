SPECIFICATION FairSpec
CONSTANTS
  None = None
  Client = {u1, u2}
  Epoch = {e1, e2, e3}
  Format = {"mono"}
  Body = {}
  MaxSequence = 0
  CacheWindow = 99
  FaultKind = {}
  MaxFaults = 0
  MaxSample = 1
  MaxChunk = 1
  LocalWindow = 9
  MayStop = FALSE
PROPERTY UploadCatchesUp
CHECK_DEADLOCK FALSE
