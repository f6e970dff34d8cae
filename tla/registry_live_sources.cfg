CONSTANTS
    UserIDs = {"u1"}
    UUIDs = {"k1"}
    SourceIPs = {"s1", "s2"}
    Addresses = {"a1"}
    Ports = {443}
    RequestKinds = {"tcp"}
    Openers = {o1}
    Snapshots <- ConnectorSnapshots
    TCPGlobal = 3
    TCPPerUser = 3
    XUDPGlobal = 1
    XUDPPerUser = 1
    ConcurrentHandshakes = 1
    MaxLeases = 3
    MaxInstalls = 2
SPECIFICATION Spec
INVARIANT
    LiveSourcesWithinLimit
CHECK_DEADLOCK FALSE
