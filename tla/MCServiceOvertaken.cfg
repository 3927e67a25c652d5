CONSTANTS
  a1 = a1
  g1 = g1
  r1 = r1
  d1 = d1
  d2 = d2
  CodeId = {c1}
  ShortCode = {a1}
  Generated = {}
  User = {u1}
  Ref = {r1}
  Dest = {d1}
  NewDest = {d1}
  NoRow = NoRow
  NoRef = NoRef
  NoAlias = NoAlias
  NotFound = NotFound
  Absent = Absent
  MaxVersion = 2
  MaxBatch = 1
  TTL = 1
  IfMatch = {0}
  Worker = {w1, w2}
  Ops = {"create", "state", "delete", "release", "scan"}
  Inputs <- AliasInputs
  Batches <- NoBatches
  GenerateAttempts = 2
  LastWriteWinsAttempts = 3
  BatchWorkers = 2
  MaxFaults = 0
  MaxHangups = 0
SPECIFICATION ServiceSpec
INVARIANTS
  VisibleOnNextScan
