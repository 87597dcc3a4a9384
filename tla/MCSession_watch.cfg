SPECIFICATION SessionSpec
CONSTANTS
  Key = {k1, k2}
  Value <- SmallValues
  NoValue = NoValue
  Empty = Empty
  Tx = {s1, s2}
  Backends = {"fjall"}
  Ttl = {}
  MaxNow = 0
  MaxSeq = 2
  Op <- ReadingOps
  Watchers = {s1}
  MaxQueue = 1
  MaxRetries = 0
  MaxEpoch = 0
  MaxVersion = 2
SYMMETRY KeySymmetry
INVARIANT VersionsTrackWrites
PROPERTY ConcurrentWriteCaught
