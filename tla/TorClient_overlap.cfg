SPECIFICATION Spec
CONSTANTS
    driver = driver
    rival = rival
    waiter = waiter
    s1 = s1
    Callers = {driver, rival}
    May <- TwoDrivers
    Faults = {"dir", "config", "socket", "cancel", "exit", "late"}
    OwnsDataDirectory = FALSE
    SocksFixed = TRUE
    SocksAnswers = {"tcp", "other"}
    MaxRuns = 2
    DiscoverTries = 1
    PollLimit = 1
    Streams = {s1}
INVARIANTS
    TypeOK
    StoppingHasOwner
    NoThreadOutsideSession
    StoppedIsClean
    SubscriberUpToDate
PROPERTIES
    ThreadNeverReplaced
    StopEndsRegistered
CHECK_DEADLOCK FALSE
