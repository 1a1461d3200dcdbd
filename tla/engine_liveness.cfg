CONSTANTS
    Symbols = {s1}
    Procs <- MCProcs
    OpenQty = 2
    TakeProfits = {TRUE}
    StopLosses = {TRUE, FALSE}
    Trailing = FALSE
    MaxHold = TRUE
    Ambiguous = TRUE
    AckOnly = FALSE
    DropsEvents = FALSE
    MaxFaults = 2
    MaxExternal = 0
    MaxOpens = 1
    MaxTrails = 0
    MaxCrashes = 1
SPECIFICATION FairSpec
PROPERTIES
    UntrackedIsResolved
    ExpiredLeaves
    ReservationEnds
