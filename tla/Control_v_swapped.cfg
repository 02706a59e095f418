SPECIFICATION Spec
CONSTANTS
    t1 = t1
    t2 = t2
    Tasks = {t1, t2}
    May <- TwoCommand
    Shapes <- LineShapes
    Accepted = {"cookie"}
    PreAuthenticated = TRUE
    HasCookie = TRUE
    HasPassword = FALSE
    Faults = {}
    MaxCalls = 1
    MaxPending = 2
INVARIANTS
    Serialised
CHECK_DEADLOCK FALSE
