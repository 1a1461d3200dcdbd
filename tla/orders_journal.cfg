CONSTANTS
    n1 = n1
    n2 = n2
    a1 = a1
    Orders <- MCOrders
    ServiceOf <- MCServiceOf
    Torn = TRUE
    MaxIoFaults = 1
    MaxMisses = 1
    MaxCrashes = 1
SPECIFICATION Spec
INVARIANTS
    TypeOK
    LiveIsKnownUnlessTorn
    AcceptedIsLive
    WriteAhead
PROPERTIES
    JournalIsLedger
SYMMETRY MCSymmetry
CHECK_DEADLOCK FALSE
