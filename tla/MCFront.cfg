CONSTANTS
    Peers = {p1}
    PerMinute = 1
    Cost = 1
    MaxTicks = 11
    QrPublic = FALSE
    CodeIds = {1, 2, 3}
    MaxTime = 2
    Filters <- SomeFilters
    MaxPx = 5000
    MaxPayload = 2900
    Bands = 1
    Requests <- SomeRequests
    Rows <- SomeRows
    Versions <- AllVersions
SPECIFICATION FrontSpec
INVARIANTS
    LimiterIsExact
    GateHolds
    ListedOnce
    AnswersFollowSchema
    SymbolReadable
PROPERTIES
    RendersEnd
CHECK_DEADLOCK FALSE
