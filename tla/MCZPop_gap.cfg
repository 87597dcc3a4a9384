SPECIFICATION ZPopSpec
CONSTANTS
  k1 = k1
  k2 = k2
  Key = {k1}
  Elem = {1, 2}
  MaxId = 2
  Client = {c1, c2}
  Writer = {w1, w2}
  KeyLists <- OneKey
  MaxAdds = 1
  MaxRetries = 1
SYMMETRY ZPopSymmetry
PROPERTY BlocksOnlyWhenEmpty
