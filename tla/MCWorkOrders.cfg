CONSTANTS
    Person = {p1, p2, p3}
    MaxSteps = 2
    Kind <- Kinds
    Target <- Targets
    Request = {r1, r2}
    MaxRequests = 6
    MaxRaced = 3
    Keep = Keep
    Nobody = Nobody
SPECIFICATION Spec
SYMMETRY Symmetry
CHECK_DEADLOCK FALSE
INVARIANTS
    TypeOK
    HandoverSignersDiffer
    StartedWasApproved
    AcceptedHasPassed
    CompletedStaysChecked
