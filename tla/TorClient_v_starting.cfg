SPECIFICATION Spec
CONSTANTS
    driver = driver
    rival = rival
    waiter = waiter
    Callers = {driver}
    May <- OneDriver
    Faults = {"dir"}
    OwnsDataDirectory = TRUE
    SocksFixed = TRUE
    SocksAnswers = {"tcp", "unix", "other"}
    MaxRuns = 1
    DiscoverTries = 1
    PollLimit = 1
    Streams = {}
INVARIANTS
    StartingHasOwner
CHECK_DEADLOCK FALSE
