CONSTANTS
    UserIDs = {1, 2}
    Passwords = {1, 2}
    Links = {l1}
    Faults = {"manager", "start", "close", "disk", "database"}
    PanelStates <- Panel
    MaxChanges = 2
    AuthStale = 2
SPECIFICATION FairSpec
INVARIANTS
    TypeOK
    TableExact
    OnlyFaultsFail
    SessionsAuthorized
PROPERTIES
    RotationRevokes
    RevocationArrives
    StaleStops
CHECK_DEADLOCK FALSE
