SPECIFICATION DrainSpec
CONSTANTS
    Tenants = {t1}
    Sentinel = parked
    Deliveries = {d1, d2}
    OrderingKeys = {k1}
    Records = {x1, x2}
    Tokens = {a, b}
    NoToken = none
    LadderLen = 1
    Batch = 1
    MaxSeq = 2
    MaxAttempts = 2
    Drains = {g1, g2}
    InsideLease = FALSE
    MaxCrashes = 0
    MaxHalts = 0
    MaxTrouble = 0
    NoClaim = noclaim
SYMMETRY Symmetry
CHECK_DEADLOCK FALSE
PROPERTIES SinkInOrder
