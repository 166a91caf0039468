CONSTANTS
    Asset = {a1}
    Stop = {s1}
    Patch = {}
    MaxMessages = 2
    Report = {f1}
    Order = {w1}
    Target <- Completed
    Request = {r1}
    MaxRequests = 2
    None = None
SPECIFICATION MCSpec
CHECK_DEADLOCK FALSE
INVARIANT CompletedWorkResolves
