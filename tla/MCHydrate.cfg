SPECIFICATION MCSpec
CONSTANTS
    Burst = 3
    PerToken = 1
    MaxClock = 3
    Workers = {w1, w2}
    Lists = {listA, listB}
    Old = 3
    PageSize = 2
    MaxPages = 2
    MaxChanges = 2
    Slots = {s1, s2}
    Keys = {k1, k2}
    Callers = {w1, w2}
    Lifetimes <- MCLifetimes
    Leeway = 2
    MaxLifetime = 4
    Transit = 1
    PerSecond = 3
    Width = 16
    MaxTime = 4
    MaxCredentials = 2
    MaxFaults = 2
SYMMETRY MCSymmetry
CHECK_DEADLOCK FALSE
INVARIANTS RateHolds LatestIsCurrent IdNamesContent RecentIsFound
    FetchIsOwn TokenLives
