SPECIFICATION Spec
CONSTANTS
  c1 = c1
  c2 = c2
  None = None
  Starts = {0}
  Client = {c1, c2}
  Epoch = {e1}
  Format = {"mono", "stereo"}
  Body <- MCBody
  MaxSequence = 3
  CacheWindow = 1
  FaultKind = {"crash", "torn", "persist", "storage", "pcm", "expire"}
  MaxFaults = 2
INVARIANT TypeOK
INVARIANT SingleWriters
