CONSTANTS
    a = a
    b = b
    None = None
    Node <- MCNode
    TTL = 2
    WatchdogTimeout = 1
    ReplyDelay = 0
    Required = FALSE
    StopTimeout = FALSE
    RecoverReadFails = FALSE
    QuickRestart = FALSE
    Timely = TRUE
    MaxFaults = 1
SPECIFICATION FairSpec
PROPERTY PrimaryReturns
