SPECIFICATION SinkSpec
CONSTANTS
    NoId = "none"
    MaxDocument = 9
    Malformed = {}
    Records <- MCRecords
    IdOf <- MCIdOf
    SupersedesOf <- MCSupersedesOf
    SizeOf <- MCSizeOf
    Unsealed <- MCUnsealed
    Batches <- MCBatches
    Workers = {w1, w2}
    MaxBytes = 6
    Framing = 2
    MaxCalls = 3
    MaxFaults = 3
CHECK_DEADLOCK FALSE
INVARIANTS ChainsEnd RequestFits LinesAreWhole
PROPERTIES KeepsContract
