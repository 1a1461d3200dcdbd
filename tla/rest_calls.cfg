CONSTANTS
    c1 = c1
    c2 = c2
    c3 = c3
    Callers <- MCCallers
    Kind <- MCKind
    Cost <- MCCost
    ThreadCounts = {1, 2}
    Budget = 2
    Rolls = TRUE
    MaxCalls = 3
    MaxFaults = 1
    MaxCancels = 1
SPECIFICATION FairSpec
INVARIANTS
    TypeOK
    GateInv
    MutualExclusion
    AtMostOnce
    ReservationsHeld
    GrantIsHeard
PROPERTIES
    InOrder
    CallsDrain
CHECK_DEADLOCK FALSE
