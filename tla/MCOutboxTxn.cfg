SPECIFICATION TxnSpec
CONSTANTS
    Tenants = {t1}
    Sentinel = parked
    Deliveries = {d1, d2}
    OrderingKeys = {k1}
    Records = {}
    Tokens = {a, b}
    NoToken = none
    LadderLen = 1
    Batch = 1
    MaxSeq = 2
    MaxAttempts = 1
    Procs = {p1, p2}
    Ops = {"accept", "claim", "replay", "deliver", "prepare", "retry", "halt", "release", "abandon", "dead"}
    NoRow = norow
    NoClaim = noclaim
SYMMETRY Symmetry
CHECK_DEADLOCK FALSE
INVARIANTS NoWaitCycle MarkerIsFree
PROPERTIES ImplementsOutbox
