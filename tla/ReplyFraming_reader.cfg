SPECIFICATION FairSpec
CONSTANTS
    Texts <- MCTexts
    Replies <- MCReplies
    Undecodable = {"bytes"}
    Faults = {"timeout", "close"}
    MaxCalls = 2
INVARIANTS
    TypeOK
    NothingLost
    WaitsForMore
PROPERTIES
    ReadEnds
    ImplementsChannel
CHECK_DEADLOCK FALSE
