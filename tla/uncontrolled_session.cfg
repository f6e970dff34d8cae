CONSTANTS
    UserIDs = {1, 2}
    Passwords = {1, 2}
    Links = {l1}
    Faults = {}
    PanelStates <- Panel
    MaxChanges = 2
    AuthStale = 1
SPECIFICATION Spec
INVARIANTS
    EverySessionControlled
CHECK_DEADLOCK FALSE
