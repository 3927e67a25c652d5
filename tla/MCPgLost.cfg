CONSTANTS
  u1 = u1
  r1 = r1
  d1 = d1
  s1 = s1
  s2 = s2
  CodeId = {c1, c2, c3}
  ShortCode = {s1, s2}
  User = {u1}
  Ref = {r1}
  Dest = {d1}
  NoRow = NoRow
  NoRef = NoRef
  MaxVersion = 6
  MaxBatch = 2
  Client = {p1, p2, p3}
  Batches <- OpposedBatches
  Expected = {1}
  Kinds = {"create", "update", "state", "delete", "release"}
  MaxCalls = 1
  MaxFaults = 1
SPECIFICATION PgSpec
INVARIANT FailedInsertWroteNothing
CHECK_DEADLOCK FALSE
