CONSTANTS
    c1 = c1
    c2 = c2
    c3 = c3
    Callers <- MCCallers
    Kind <- MCKind
    Cost <- MCCost
    ThreadCounts = {2}
    Budget = 2
    Rolls = TRUE
    MaxCalls = 2
    MaxFaults = 0
    MaxCancels = 0
SPECIFICATION FairSpec
PROPERTIES
    EveryCallReturns
CHECK_DEADLOCK FALSE
