CONSTANTS
    UserIDs = {"u1"}
    Units = {t1, t2}
    Rates = {1, 2}
    Snapshots <- LeavingUser
    Faults = {"crash", "power", "database", "disk", "close", "apply", "start", "tail", "counter"}
    MaxBatches = 3
    OutboxMax = 2
    MaxBoots = 2
SPECIFICATION Spec
INVARIANTS
    TypeOK
    NeverBilledTwice
    InOneBatch
    FrozenRate
    StoredUntilBilled
PROPERTIES
    BilledInOrder
    ImplementsLedger
SYMMETRY UnitSymmetry
CHECK_DEADLOCK FALSE
