CONSTANTS
    MaxTry = 1
    MaxCalls = 3
    MaxLate = 0
    Drops = 1
    Prompt = FALSE
SPECIFICATION FairSpec
PROPERTY TemporaryStatesEnd
CHECK_DEADLOCK FALSE
