SPECIFICATION KeyspaceSpec
CONSTANTS
  db0 = db0
  db1 = db1
  a = a
  b = b
  Db = {db0, db1}
  Name = {a, b}
  Field = {f, g}
  MaxId = 3
  NoPrefix = NoPrefix
  Absent = Absent
  Setups <- OverlappingFlush
SYMMETRY FieldSymmetry
INVARIANT CountIsSize
