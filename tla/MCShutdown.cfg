CONSTANTS
    Asset = {a1, a2}
    Stop = {s1, s2}
    Unplanned = {}
    Patch = {}
    MaxMessages = 2
    Window <- Days
    MaxSuffix = 1
    Operator = {o1}
    MaxRequests = 4
    Job = {}
    Edit = {}
SPECIFICATION MCSpec
SYMMETRY Symmetry
CHECK_DEADLOCK FALSE
INVARIANTS
    ShutdownTypeOK
    StopsFollowHeader
    LogShowsThePlan
