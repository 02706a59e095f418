SPECIFICATION ObedientSpec
CONSTANTS
    driver = driver
    rival = rival
    waiter = waiter
    Callers = {driver, waiter}
    May <- DriverAndWaiter
    Faults = {"exit"}
    OwnsDataDirectory = TRUE
    SocksFixed = TRUE
    SocksAnswers = {"tcp", "unix", "other"}
    MaxRuns = 3
    DiscoverTries = 2
    PollLimit = 2
    Streams = {}
INVARIANTS
    AtMostOneTor
    StoppedMeansExited
    DirectoryOutlivesTor
    SerialInv
PROPERTIES
    ImplementsStateMachine
    StopEndsTor
CHECK_DEADLOCK FALSE
