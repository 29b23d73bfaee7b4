SPECIFICATION Spec
CONSTANTS
    Tenants = {t1}
    Sentinel = parked
    Deliveries = {d1, d2, d3}
    OrderingKeys = {k1}
    Records = {x1}
    Tokens = {a, b}
    NoToken = none
    LadderLen = 1
    Batch = 1
    MaxSeq = 3
    MaxAttempts = 1
SYMMETRY Symmetry
CHECK_DEADLOCK FALSE
INVARIANTS TypeOK HeadInvariant RecordsFollowRow
PROPERTIES LeasedInOrder NeverPreparedTwice
