CONSTANTS
    UserIDs = {"u1"}
    Units = {t1, t2}
    Rates = {1, 2}
    Snapshots <- LeavingUser
    Faults = {}
    MaxBatches = 3
    OutboxMax = 2
    MaxBoots = 1
SPECIFICATION Spec
INVARIANT
    TrafficIsDrained
CHECK_DEADLOCK FALSE
