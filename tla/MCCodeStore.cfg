CONSTANTS
  CodeId = {c1, c2, c3}
  ShortCode = {s1, s2}
  User = {u1, u2}
  Ref = {r1}
  Dest = {d1}
  NoRow = NoRow
  NoRef = NoRef
  MaxVersion = 3
  MaxBatch = 2
SPECIFICATION StoreSpec
SYMMETRY StoreSymmetry
INVARIANTS
  LiveHoldsReservation
  LookupsUnambiguous
PROPERTIES
  NoSilentHijack
  RowsOnlyMoveForward
  ImplementsNamespace
CHECK_DEADLOCK FALSE
