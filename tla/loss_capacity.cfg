CONSTANTS
    UserIDs = {"u1"}
    Units = {t1, t2}
    Rates = {1, 2}
    Snapshots <- LeavingUser
    Faults = {"database"}
    MaxBatches = 3
    OutboxMax = 1
    MaxBoots = 1
SPECIFICATION Spec
INVARIANT
    StoppedIsSafe
CHECK_DEADLOCK FALSE
