CONSTANTS
    Tasks = {t1, t2, t3}
    Callers = {c1, c2}
    None = None
    Requests = FALSE
    MaxCalls = 2
    CbThreads = {"ha", "async"}
    Undead = {2}
    MaxCommands = 3
    MaxReloads = 3
    LogThreads = {"ha", "api"}
    QueueSizes = {2, 3}
    MaxEmitted = 4
    MaxHandlers = 2
    Pids = {1, 2}
    Pollers = {"rest"}
    MaxBorn = 4
    MaxPmEvents = 5
    RootPassword = FALSE
    MaxMyEvents = 4
SPECIFICATION ServicesSpec
CHECK_DEADLOCK FALSE
INVARIANTS
    CancelStops
    
    RecordsAccounted
    DemotionStopsStart
PROPERTIES
    CancelReturns
    NoLeftovers
    CloneServed
