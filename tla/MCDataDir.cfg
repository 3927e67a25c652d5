SPECIFICATION DataDirSpec
CONSTANTS
    Procs = {p1, p2}
    Server = p1
    Migrations = 2
    NoKey = NoKey
    MaxTroubles = 1
    Callers = {x1, x2}
    Contents = {c1, c2}
    NoFile = NoFile
    MaxCalls = 2
INVARIANTS
    OneSecret
    EmptyKeyHasCause
    PreparedOnce
    PairAgrees
    AckedSurvives
PROPERTY
    SomeoneServes
