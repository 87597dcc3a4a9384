SPECIFICATION SessionSpec
CONSTANTS
  Key = {k1, k2}
  Value <- SmallValues
  NoValue = NoValue
  Empty = Empty
  Tx = {s1, s2}
  Backends = {"fjall"}
  Ttl = {}
  MaxNow = 0
  MaxSeq = 2
  Op <- UndeclaredOps
  Watchers = {s1}
  MaxQueue = 1
  MaxRetries = 1
  MaxEpoch = 0
  MaxVersion = 3
SYMMETRY KeySymmetry
PROPERTY AcknowledgedWritesAbort
