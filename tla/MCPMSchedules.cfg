SPECIFICATION PMFairSpec
CONSTANTS
    Schedules = {s1}
    Runners = {r1, r2}
    Planners = {p1}
    Completers = {c1, c2}
    Templates <- MCTemplates
    Levels = {0, 9, 10}
    FirstDue = {2}
    DueDates = {1, 3}
    Lead = 1
    DefaultDays = 3
    Never = Never
    NoRow <- MCNoRow
    NoOrder <- MCNoRow
    NoOne = NoOne
    MaxClock = 3
    MaxNum = 3
    MaxRequests = 2
INVARIANTS
    PMTypeOK
    SyncRaisesOnce
    CalendarKept
    ServedAhead
    ServedIsAdvanced
PROPERTY
    DueIsRaised
CHECK_DEADLOCK FALSE
