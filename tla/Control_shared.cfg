SPECIFICATION FairSpec
CONSTANTS
    t1 = t1
    t2 = t2
    Tasks = {t1, t2}
    May <- AuthenticatorAndSubscriber
    Shapes <- LineShapes
    Accepted = {"cookie"}
    PreAuthenticated = FALSE
    HasCookie = TRUE
    HasPassword = TRUE
    Faults = {"timeout", "close"}
    MaxCalls = 2
    MaxPending = 1
INVARIANTS
    TypeOK
    AnsweredOwn
    NoneWaitsInVain
    AuthenticatedByTor
PROPERTIES
    CallsReturn
    CloseEndsStreams
CHECK_DEADLOCK FALSE
