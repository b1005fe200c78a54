CONSTANTS
    RsRoles = {"primary", "replica"}
    MaxRequests = 2
    MaxRsEvents = 2
    PrNodes = {"a", "b"}
    PrFirst = "a"
    PrValues = {1, 2}
    MaxPrEvents = 4
    Hosts = {1, 2, 3}
    Unbalanced = {3}
    MaxRows = 4
    MaxCiEvents = 2
    SsNodes = {a, b, c}
    SsNone = none
    ClusterSize = 3
    MaxCommits = 2
    MaxSsEvents = 2
SPECIFICATION DatabasesSpec
CHECK_DEADLOCK FALSE
INVARIANTS
    StopsUnlisted
    
PROPERTIES
    ReplayGoesOn
    PrimaryRegistered
