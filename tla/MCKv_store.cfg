SPECIFICATION KvSpec
CONSTANTS
  Key = {k1, k2}
  Value = {v1}
  Tx = {t1, t2}
  Ttl = {}
  MaxNow = 0
  MaxSeq = 2
  Backends = {"slate"}
  NoValue = NoValue
SYMMETRY KvSymmetry
PROPERTY FirstCommitterWins
PROPERTY SerializableReads
 
