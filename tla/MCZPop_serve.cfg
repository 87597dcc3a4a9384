SPECIFICATION ZPopSpec
CONSTANTS
  k1 = k1
  k2 = k2
  Key = {k1, k2}
  Elem = {1, 2}
  MaxId = 2
  Client = {c1, c2}
  Writer = {w1, w2}
  KeyLists <- KeyPairs
  MaxAdds = 2
  MaxRetries = 1
SYMMETRY ZPopSymmetry
INVARIANT ZPopTypeOK
INVARIANT ElementsConserved
INVARIANT NobodyForgotten
INVARIANT ClaimLeavesAllQueues
INVARIANT FirstComeFirstServed
INVARIANT QueuedIsConnected
