SPECIFICATION FairSpec
CONSTANTS
    MaxConns = 2
    MaxAsks = 1
    MaxCmds = 2
    Overlap = TRUE
PROPERTIES
    RightAnswer
CHECK_DEADLOCK FALSE
