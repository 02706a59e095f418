SPECIFICATION Spec
CONSTANTS
    driver = driver
    rival = rival
    waiter = waiter
    Callers = {driver, rival}
    May <- TwoDrivers
    Faults = {}
    OwnsDataDirectory = TRUE
    SocksFixed = TRUE
    SocksAnswers = {"tcp", "unix", "other"}
    MaxRuns = 1
    DiscoverTries = 1
    PollLimit = 1
    Streams = {}
PROPERTIES
    OnlyLegalTransitions
CHECK_DEADLOCK FALSE
