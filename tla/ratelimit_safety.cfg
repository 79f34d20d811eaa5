SPECIFICATION Spec
CONSTANTS
    c1 = c1
    c2 = c2
    Conns = {c1, c2}
    Nobody = nobody
    Capacity = 2
    Rate = 2
    MaxClock = 5
INVARIANTS
    TypeOK
    NeverOverdrawn
PROPERTIES
    SpacedRequestsPass
    BucketsKept
CHECK_DEADLOCK FALSE
