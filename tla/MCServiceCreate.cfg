CONSTANTS
  a1 = a1
  g1 = g1
  r1 = r1
  d1 = d1
  d2 = d2
  CodeId = {c1, c2, c3}
  ShortCode = {a1, g1}
  Generated = {g1}
  User = {u1}
  Ref = {r1}
  Dest = {d1, d2}
  NewDest = {d1, d2}
  NoRow = NoRow
  NoRef = NoRef
  NoAlias = NoAlias
  NotFound = NotFound
  Absent = Absent
  MaxVersion = 2
  MaxBatch = 3
  TTL = 1
  IfMatch = {0}
  Worker = {w1, w2}
  Ops = {"create", "batch", "delete", "release"}
  Inputs <- CreateInputs
  Batches <- CreateBatches
  GenerateAttempts = 2
  LastWriteWinsAttempts = 3
  BatchWorkers = 2
  MaxFaults = 1
  MaxHangups = 0
SPECIFICATION ServiceSpec
SYMMETRY ServiceSymmetry
INVARIANTS
  RowHasImage
  NoOrphanWithoutTrouble
  AnswersAreTrue
