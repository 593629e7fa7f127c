SPECIFICATION SyncSpec
CONSTANTS
  None = None
  Client = {u1, u2}
  Epoch = {e1, e2, e3}
  Format = {"mono"}
  Body = {}
  MaxSequence = 0
  CacheWindow = 99
  FaultKind = {"network", "crash"}
  MaxFaults = 1
  MaxSample = 2
  MaxChunk = 2
  LocalWindow = 1
  MayStop = FALSE
SYMMETRY Uploaders
INVARIANT CompleteStreamsAreWhole
INVARIANT SendsWhatIsNew
INVARIANT AckedStreamsAreSaved
PROPERTY CompleteStreamsStay
PROPERTY ImplementsLog
CHECK_DEADLOCK FALSE
