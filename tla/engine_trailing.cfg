CONSTANTS
    Symbols = {s1}
    Procs <- MCProcs
    OpenQty = 1
    TakeProfits = {TRUE}
    StopLosses = {TRUE}
    Trailing = TRUE
    MaxHold = FALSE
    Ambiguous = FALSE
    AckOnly = FALSE
    DropsEvents = FALSE
    MaxFaults = 1
    MaxExternal = 0
    MaxOpens = 2
    MaxTrails = 2
    MaxCrashes = 0
SPECIFICATION Spec
INVARIANTS
    JInv
PROPERTIES
    ReplacementOutlivesOpening
    TrackedStopKept
