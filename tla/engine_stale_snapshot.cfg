CONSTANTS
    Symbols = {s1}
    Procs <- MCProcs
    OpenQty = 1
    TakeProfits = {TRUE}
    StopLosses = {TRUE}
    Trailing = FALSE
    MaxHold = FALSE
    Ambiguous = FALSE
    AckOnly = FALSE
    DropsEvents = FALSE
    MaxFaults = 0
    MaxExternal = 0
    MaxOpens = 1
    MaxTrails = 0
    MaxCrashes = 0
SPECIFICATION Spec
PROPERTIES
    ReconcileRemovesOnlyFlat
