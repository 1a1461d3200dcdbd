CONSTANTS
    Symbols = {s1}
    Procs <- MCProcs
    OpenQty = 1
    TakeProfits = {TRUE, FALSE}
    StopLosses = {TRUE}
    Trailing = FALSE
    MaxHold = TRUE
    Ambiguous = TRUE
    AckOnly = TRUE
    DropsEvents = TRUE
    MaxFaults = 1
    MaxExternal = 1
    MaxOpens = 2
    MaxTrails = 0
    MaxCrashes = 1
SPECIFICATION Spec
INVARIANTS
    TypeOK
    IInv
    ReservationOwned
    JInv
PROPERTIES
    PollRemovesOnlyFlat
