SPECIFICATION Spec
CONSTANTS
    t1 = t1
    t2 = t2
    Tasks = {t1}
    May <- OneSubscribes
    Shapes <- LineShapes
    Accepted = {"cookie"}
    PreAuthenticated = TRUE
    HasCookie = TRUE
    HasPassword = FALSE
    Faults = {"timeout"}
    MaxCalls = 1
    MaxPending = 2
INVARIANTS
    StreamLasts
CHECK_DEADLOCK FALSE
