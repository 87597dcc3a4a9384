SPECIFICATION XReadFairSpec
CONSTANTS
  k1 = k1
  k2 = k2
  Key = {k1, k2}
  Elem = {}
  MaxId = 16
  Reader = {r1}
  Adder = {a1, a2}
  StreamLists <- TwoStreams
  MaxEntries = 2
INVARIANT XReadTypeOK
INVARIANT NoMissedEntry
PROPERTY EntryEndsWait
