CONSTANTS
    UserIDs = {"u1"}
    UUIDs = {"k1"}
    SourceIPs = {"s1", "s2"}
    Addresses = {"a1"}
    Ports = {443}
    RequestKinds = {"xudp"}
    Openers = {o1}
    Snapshots <- ConnectorSnapshots
    TCPGlobal = 3
    TCPPerUser = 3
    XUDPGlobal = 2
    XUDPPerUser = 2
    ConcurrentHandshakes = 1
    MaxLeases = 2
    MaxInstalls = 2
SPECIFICATION Spec
INVARIANT
    SourcesExact
CHECK_DEADLOCK FALSE
