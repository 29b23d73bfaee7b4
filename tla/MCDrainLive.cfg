SPECIFICATION FairDrainSpec
CONSTANTS
    Tenants = {t1}
    Sentinel = parked
    Deliveries = {d1, d2}
    OrderingKeys = {k1}
    Records = {x1, x2}
    Tokens = {a, b, c}
    NoToken = none
    LadderLen = 0
    Batch = 1
    MaxSeq = 2
    MaxAttempts = 2
    Drains = {g1, g2}
    InsideLease = TRUE
    MaxCrashes = 1
    MaxHalts = 0
    MaxTrouble = 1
    NoClaim = noclaim
CHECK_DEADLOCK FALSE
INVARIANTS LedgerIsStored LadderIsExact
PROPERTIES EveryRowFinishes SinkInOrder DeliveredRecordIsFinal
