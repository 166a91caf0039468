SPECIFICATION RegistrySpec
CONSTANTS
    p1 = p1
    p2 = p2
    s1 = s1
    s2 = s2
    Plant = {p1, p2}
    Section = {s1, s2}
    Machine = {m1}
    PlantOf <- MCPlantOf
    Orders <- MCOrders
    Request = {r1, r2}
    MaxRequests = 2
    Gone = Gone
INVARIANT CountHolds
CHECK_DEADLOCK FALSE
