CONSTANTS
    Editors = {"e1", "e2"}
    KindOf <- MCKindOf
    Patches <- MCPatches
    FirstConfig <- MCFirstConfig
    Bootstrap <- MCBootstrap
    Files <- MCFiles
    Raising = {3}
    MaxEvents = 3
    MfNodes = {"a", "b", "c"}
    Nobody1 = "none"
    Clients = {"x"}
    MfRequests <- MCRequests
    MaxMfNow = 3
    MaxMfEvents = 2
    CtNodes = {"a", "b"}
    CtFirst = "a"
    CtNobody = "none"
    MaxCtCommands = 1
    MaxCtEvents = 1
SPECIFICATION RequestsSpec
CHECK_DEADLOCK FALSE
INVARIANTS
    SwitchoverOnce
PROPERTIES
    ForkPauses
    OneDemotionPerRequest
