SPECIFICATION FairSpec
CONSTANTS
    NEntries = 4
    Threshold = 2
    MaxReceives = 2
    MaxMsgs = 5
    AllocMayFail = TRUE
    AccessMayFail = TRUE
INVARIANTS
    BuffersConserved
    DrainedIsIdle
PROPERTIES
    InOrder
    AllDelivered
CHECK_DEADLOCK FALSE
