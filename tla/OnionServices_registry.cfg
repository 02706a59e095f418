SPECIFICATION FairSpec
CONSTANTS
    embedded = embedded
    tcp = tcp
    k1 = k1
    k2 = k2
    nobody = nobody
    detached = detached
    nokey = nokey
    Clients = {embedded, tcp}
    Owning = {tcp}
    Keys = {k1, k2}
    OwnKeys = {k2}
    Nobody = nobody
    Detached = detached
    NoKey = nokey
    Faults = {"timeout", "exit"}
    MaxCalls = 3
INVARIANTS
    TypeOK
    Accounted
    KeyBelongs
PROPERTIES
    Vanish
    ImplementsRegistry
CHECK_DEADLOCK FALSE
