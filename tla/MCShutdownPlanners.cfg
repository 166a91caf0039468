CONSTANTS
    Asset = {a1, a2}
    Stop = {s1}
    Unplanned = {}
    Patch = {}
    MaxMessages = 2
    Window <- Day
    MaxSuffix = 2
    Operator = {o1, o2}
    MaxRequests = 3
    Job = {j1}
    Edit = {e1}
SPECIFICATION PlannersSpec
SYMMETRY Symmetry
CHECK_DEADLOCK FALSE
INVARIANTS
    NoDoubleBooking
    JobsFollowShutdown
PROPERTIES
    HeaderForward
