CONSTANTS
  UserId = {u1, u2, u3}
  TokenId = {t1}
  Email = {admin, lower, upper}
  Request = {q1, q2}
  Fold <- FoldCase
  Admin = u1
  AdminEmail = admin
  None = None
  t1 = t1
  lower = lower
  upper = upper
  admin = admin
  Presented <- SomePresented
  CacheTTL = 1
  SessionTTL = 1
  ClockLeeway = 1
  MaxFlight = 1
  MaxTime = 2
  MaxRequests = 2
  MaxSessions = 1
  MaxBumps = 1
SPECIFICATION AuthSpec
SYMMETRY AuthSymmetry
INVARIANTS
  RevocationLapses
  SessionLapses
  OneIdentityPerEmail
  CredentialsAgree
CHECK_DEADLOCK FALSE
