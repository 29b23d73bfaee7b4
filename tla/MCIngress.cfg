SPECIFICATION FairMCSpec
CONSTANTS
    Tenants = {"t1", "t2"}
    Sentinel = "parked"
    Deliveries = {d1, d2}
    d1 = d1
    d2 = d2
    OrderingKeys <- MCOrderingKeys
    Records = {}
    Tokens = {}
    NoToken = none
    LadderLen = 0
    Batch = 0
    MaxSeq = 1
    MaxAttempts = 0
    Requests = {p1, p2}
    Slots <- MCSlots
    Registrations <- MCRegistrations
    Before <- MCBefore
    NoSubscription = nosub
    NoKey = ""
    Ids <- MCIds
    Strings <- MCStrings
    ProviderOf <- MCProviderOf
    KeysOf <- MCKeys
    SignedWith <- MCSignedWith
    MaxCandidates = 2
    MaxRegistered = 1
    MaxFaults = 1
    Wiring <- MCWiring
    MaxWiring = 3
    Paths <- MCPaths
    StoredAs <- MCStoredAs
    Escaped = {"%ingress", "%{x}"}
    Dots = {".."}
CHECK_DEADLOCK FALSE
INVARIANTS UnverifiedIsTrue AcknowledgedIsKept QueueHasItsSubscription
    GuardsAreExact EdgeAnswersItsDeliveries
PROPERTIES RoutedToOnlyOwner EveryDeliverySettles
