SPECIFICATION DrainSpec
CONSTANTS
    Tenants = {t1, t2}
    Sentinel = parked
    Deliveries = {d1}
    OrderingKeys = {k1}
    Records = {x1}
    Tokens = {a, b}
    NoToken = none
    LadderLen = 1
    Batch = 2
    MaxSeq = 1
    MaxAttempts = 2
    Drains = {g1, g2}
    InsideLease = FALSE
    MaxCrashes = 1
    MaxHalts = 1
    MaxTrouble = 1
    NoClaim = noclaim
SYMMETRY Symmetry
CHECK_DEADLOCK FALSE
INVARIANTS DrainTypeOK NoOrphanLease DeliveredIsAtSink ClaimIsCurrent LadderIsExact
PROPERTIES ImplementsOutbox
