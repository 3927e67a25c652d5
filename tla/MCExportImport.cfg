CONSTANTS
  CodeId = {c1, c2}
  ShortCode = {s1, s2}
  User = {u1, u2}
  Operator = u1
  MaxScans = 1
  MaxDuring = 2
  Cuts = {3, 4}
  Ref = {}
  Dest = {d1}
  NoRow = NoRow
  NoRef = NoRef
  MaxVersion = 2
  MaxBatch = 1
SPECIFICATION ExportSpec
SYMMETRY ExportSymmetry
INVARIANTS
  ImportRestores
  ImportFailureHasCause
CHECK_DEADLOCK FALSE
