CONSTANTS
    UserIDs = {"u1"}
    Units = {t1, t2}
    Rates = {1, 2}
    Snapshots <- LeavingUser
    Faults = {"database", "apply", "start"}
    MaxBatches = 2
    OutboxMax = 2
    MaxBoots = 2
SPECIFICATION FairSpec
PROPERTIES
    BacklogIsBilled
CHECK_DEADLOCK FALSE
