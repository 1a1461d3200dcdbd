CONSTANTS
    Symbols = {s1}
    Procs <- MCProcs
    OpenQty = 1
    TakeProfits = {TRUE}
    StopLosses = {TRUE}
    Trailing = FALSE
    MaxHold = TRUE
    Ambiguous = FALSE
    AckOnly = FALSE
    DropsEvents = FALSE
    MaxFaults = 1
    MaxExternal = 0
    MaxOpens = 1
    MaxTrails = 0
    MaxCrashes = 0
SPECIFICATION Spec
PROPERTIES
    NeverNaked
