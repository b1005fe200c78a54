CONSTANTS
    a = a
    b = b
    None = None
    Node <- MCNode
    TTL = 3
    WatchdogTimeout = 1
    ReplyDelay = 1
    Required = TRUE
    StopTimeout = FALSE
    RecoverReadFails = FALSE
    QuickRestart = FALSE
    Timely = FALSE
    MaxFaults = 2
SPECIFICATION Spec
SYMMETRY Symmetry
INVARIANT PrimaryHoldsKey
PROPERTY DisarmedOnlyAtSafepoint
