CONSTANTS
    x = x
    y = y
    Null = Null
    Devices <- MCDevices
    Settable <- MCDevices
    MagicClose <- MCDevices
    FactoryTimeout = 6
    Configs <- MCConfigs
    WdFaults = {"open", "keepalive"}
    MaxWdFaults = 2
    Node = {1, 2}
    None = 0
    First = 1
    Known = {1}
    NoList = NoList
    TTL = 3
    WatchdogTimeout = 1
    ReplyDelay = 1
    RaceDelay = 2
    Faults = {"outage", "partition", "lost_answer", "lost_write", "restart"}
    MaxFaults = 2
    HcTtl = 3
    HcLoopWait = 1
    HcRetry = 1
    MaxHcNow = 8
    MaxHcEvents = 3
    E3Me = a
    E3Other = b
    E3Nobody = nobody
    E3Lag = 1
    MaxLeases = 2
    MaxRev = 5
    K8Nodes = {"a", "b"}
    K8Nobody = "none"
    K8Ttl = 1
    MaxVersions = 3
    MaxK8Events = 1
    GrNodes = {1, 2}
    SlowRejoin = FALSE
    MaxGroups = 3
    MaxTxns = 2
    MaxGrEvents = 1
    Families <- MCFamilies
    Numbers <- MCNumbers
    Multiples = {1, 4}
    MaxShown = 600
SPECIFICATION ProtectionSpec
CHECK_DEADLOCK FALSE
INVARIANTS
    NoSpuriousReset
    LeaderProtected
    OnePrimary
    StuckReported
    CacheConverges
    
PROPERTIES
    E3KeepsPromise
    NotStolenEarly
    NothingPublishedLost
