CONSTANTS
    UserIDs = {"u1"}
    UUIDs = {"k1"}
    SourceIPs = {"s1", "s2", "s3"}
    Addresses = {"a1"}
    Ports = {443}
    RequestKinds = {"tcp"}
    Openers = {o1}
    Snapshots <- AgeSnapshots
    TCPGlobal = 3
    TCPPerUser = 3
    XUDPGlobal = 1
    XUDPPerUser = 1
    ConcurrentHandshakes = 1
    MaxLeases = 3
    MaxInstalls = 2
SPECIFICATION FairSpec
INVARIANTS
    SourcesExact
    CountersExact
PROPERTIES
    OldestSourcesKept
    RevokedSessionsEnd
CHECK_DEADLOCK FALSE
