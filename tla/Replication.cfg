CONSTANTS
    BsNodes = {"a", "b"}
    BsNobody = "none"
    MaxSystems = 3
    MaxBsEvents = 2
    RwConfigs <- MCRwConfigs
    MaxWalLen = 3
    MaxRwEvents = 2
    MsNodes = {"a", "b"}
    MsNone = "none"
    SlotTtl = 2
    MaxTicks = 5
    MaxLsn = 2
    MaxMsEvents = 2
    MaxLsWal = 2
    MaxLsEvents = 2
SPECIFICATION ReplicationSpec
CHECK_DEADLOCK FALSE
INVARIANTS
    OneSystem
    SlotSafe
PROPERTIES
    ClusterForms
    NodeRejoins
    RetainedThroughFailover
