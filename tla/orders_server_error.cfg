CONSTANTS
    n1 = n1
    n2 = n2
    a1 = a1
    Orders <- MCOrders
    ServiceOf <- MCServiceOf
    Torn = FALSE
    MaxIoFaults = 0
    MaxMisses = 1
    MaxCrashes = 0
SPECIFICATION Spec
INVARIANTS
    NoneIsRejectedInDoubt
CHECK_DEADLOCK FALSE
