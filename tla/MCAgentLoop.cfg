SPECIFICATION FairSpec
CONSTANTS
    NProviders = 3
    MaxStep = 2
    Attempts = 2
    MaxCalls = 2
    MinResults = 1
    MaxResults = 1
    SkillsLike = TRUE
INVARIANTS
    TypeOK
    PairedHistory
    ErrorAfterAllTried
    HookOnce
PROPERTIES
    StopEndsRun
    EndsUnlessHung
CHECK_DEADLOCK FALSE
