SPECIFICATION Spec
CONSTANTS
    embedded = embedded
    tcp = tcp
    k1 = k1
    k2 = k2
    nobody = nobody
    detached = detached
    nokey = nokey
    Clients = {tcp}
    Owning = {tcp}
    Keys = {k1}
    OwnKeys = {}
    Nobody = nobody
    Detached = detached
    NoKey = nokey
    Faults = {}
    MaxCalls = 3
PROPERTIES
    Readopts
CHECK_DEADLOCK FALSE
