SPECIFICATION FairSpec
CONSTANTS
    NReqs = 3
    MaxCmds = 3
    MaxMishaps = 3
INVARIANTS
    RequestsSound
    AnsweredOnce
    PauseAndLockEnd
    BssAgrees
PROPERTIES
    Answered
CHECK_DEADLOCK FALSE
