SPECIFICATION AnalyticsSpec
CONSTANTS
    Codes = {1, 2}
    Direct = {2}
    Strangers = {3}
    Agents <- MCAgents
    Hosts = {""}
    HourTicks = 2
    DayHours = 1
    FirstWeekday = 0
    RetentionDays = 1
    PruneBatch = 1
    MaxTicks = 3
    MaxFails = 1
    MaxScans = 3
    Ranges <- MCRanges
    DefaultRange = 2
    MaxRange = 4
INVARIANTS
    AnswersMatchHistory
    RollupsCountHistory
    WindowKept
PROPERTY
    OldEventsGo
CHECK_DEADLOCK FALSE
