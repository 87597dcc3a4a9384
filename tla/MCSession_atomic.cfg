SPECIFICATION SessionSpec
CONSTANTS
  Key = {k1, k2}
  Value <- SmallValues
  NoValue = NoValue
  Empty = Empty
  Tx = {s1, s2}
  Backends = {"slate"}
  Ttl = {}
  MaxNow = 0
  MaxSeq = 2
  Op <- BlockOps
  Watchers = {}
  MaxQueue = 2
  MaxRetries = 1
  MaxEpoch = 1
  MaxVersion = 1
SYMMETRY SessionSymmetry
INVARIANT SessionTypeOK
 
