SPECIFICATION SessionSpec
CONSTANTS
  Key = {k1}
  Value <- SmallValues
  NoValue = NoValue
  Empty = Empty
  Tx = {s1, s2}
  Backends = {"fjall", "slate"}
  Ttl = {}
  MaxNow = 1
  MaxSeq = 2
  Op <- ExpiringOps
  Watchers = {s1}
  MaxQueue = 1
  MaxRetries = 0
  MaxEpoch = 1
  MaxVersion = 2
 
PROPERTY AcknowledgedWritesAbort
