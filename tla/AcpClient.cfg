SPECIFICATION FairSpec
CONSTANTS
    MaxConns = 2
    MaxAsks = 1
    MaxCmds = 1
    Overlap = TRUE
INVARIANTS
    OneListener
    RequestTracked
    SpinnerOwed
PROPERTIES
    RightAnswerAlone
    Released
CHECK_DEADLOCK FALSE
