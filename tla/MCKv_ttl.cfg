SPECIFICATION KvSpec
CONSTANTS
  Key = {k1}
  Value = {v1}
  Tx = {t1, t2}
  Ttl = {1}
  MaxNow = 2
  MaxSeq = 2
  Backends = {"slate", "fjall"}
  NoValue = NoValue
SYMMETRY KvSymmetry
INVARIANT KvTypeOK
INVARIANT SnapshotCurrent
 
