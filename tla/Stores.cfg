CONSTANTS
    CsMe = a
    CsOther = b
    CsNobody = nobody
    MaxSessions = 3
    MaxIndex = 5
    ZkMe = a
    ZkOther = b
    ZkNobody = nobody
    MaxZkSessions = 3
    MaxZkOther = 3
    RfMe = a
    RfOther = b
    RfNobody = nobody
    Ttl = 1
    MaxNow = 1
    MaxCommits = 3
    EtcdServers = {s1, s2, s3}
    EtcdHosts = {s1}
    RetryTimeout = 6
    MaxTerm = 2
    MaxEcEvents = 2
SPECIFICATION StoresSpec
CHECK_DEADLOCK FALSE
PROPERTIES
    CsOthersKeyLeftAlone
    
    RfKeepsPromise
    ServedAgain
