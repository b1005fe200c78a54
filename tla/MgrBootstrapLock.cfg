CONSTANTS
    GrNodes = {1, 2, 3}
    SlowRejoin = TRUE
    MaxGroups = 2
    MaxTxns = 2
    MaxGrEvents = 2
SPECIFICATION GrSpec
CHECK_DEADLOCK FALSE
PROPERTY BootstrapsWithLock
