CONSTANTS
    UserIDs = {"u1"}
    UUIDs = {"k1", "k2"}
    SourceIPs = {"s1", "s2"}
    Addresses = {"a1"}
    Ports = {443}
    RequestKinds = {"tcp", "xudp"}
    Openers = {o1, o2}
    Snapshots <- PolicySnapshots
    TCPGlobal = 2
    TCPPerUser = 1
    XUDPGlobal = 1
    XUDPPerUser = 1
    ConcurrentHandshakes = 1
    MaxLeases = 2
    MaxInstalls = 2
SYMMETRY OpenerSymmetry
SPECIFICATION Spec
INVARIANTS
    TypeOK
    CountersExact
    LimitsRespected
    LivePolicyCurrent
    NoLostInterrupt
PROPERTIES
    ImplementsGate
CHECK_DEADLOCK FALSE
