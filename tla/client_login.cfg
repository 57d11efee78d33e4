CONSTANTS
    MaxTry = 1
    MaxCalls = 3
    MaxLate = 0
    Drops = 1
    Prompt = TRUE
SPECIFICATION FairSpec
INVARIANTS
    TypeOK
    TemporaryStateHasTimer
    
PROPERTIES
    RetriesEnd
    LogoutPrevails
    LoginAnswered
CHECK_DEADLOCK FALSE
