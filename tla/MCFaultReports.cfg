CONSTANTS
    Asset = {a1}
    Stop = {s1}
    Patch = {}
    MaxMessages = 3
    Report = {f1, f2}
    Order = {w1, w2}
    Target <- Completed
    Request = {r1, r2}
    MaxRequests = 4
    None = None
SPECIFICATION MCSpec
SYMMETRY Symmetry
CHECK_DEADLOCK FALSE
INVARIANTS
    FaultsTypeOK
    LinksAreItsOwn
    ClosedReportsLetGo
    FinishedWorkResolves
    TriagedOnce
    OneReportPerRule
