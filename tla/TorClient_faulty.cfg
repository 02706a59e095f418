SPECIFICATION FairSpec
CONSTANTS
    driver = driver
    rival = rival
    waiter = waiter
    Callers = {driver, waiter}
    May <- DriverAndWaiter
    Faults = {"dir", "config", "socket", "cancel", "exit", "late"}
    OwnsDataDirectory = TRUE
    SocksFixed = TRUE
    SocksAnswers = {"tcp", "unix", "other"}
    MaxRuns = 3
    DiscoverTries = 2
    PollLimit = 2
    Streams = {}
INVARIANTS
    HandlesAreCurrent
PROPERTIES
    EveryCallReturns
CHECK_DEADLOCK FALSE
