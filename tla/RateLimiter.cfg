\* Two processes that share a Redis that comes and goes, and whose maps are
\* cleaned from one entry on, over three minutes.
CONSTANTS
    Process = {p1, p2}
    Key = {k1, k2}
    Call = {a, b}
    Limit = 1
    Capacity = 1
    UsesRedis = TRUE
    MaxWindow = 2
    ArrivalCap = 4
SPECIFICATION Spec
SYMMETRY Symmetry
INVARIANTS LimitPerCounter
PROPERTIES StaleEntriesBounded
CHECK_DEADLOCK FALSE
