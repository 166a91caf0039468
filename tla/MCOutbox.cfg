CONSTANTS
    Inside = {1, 2}
    After = {2}
    Poison = {1}
    Relay = {p1, p2}
    Limit = 2
    Lease = 1
    MaxBackoff = 2
    Second = 5
    Width = 5
SPECIFICATION Spec
INVARIANT OutboxTypeOK
PROPERTIES
    NothingInvented
    RowsAreTold
