SPECIFICATION FairSpec
CONSTANTS
    Inline = FALSE
    Commands <- MCCommands
    Budget = 1
    MaxMessages = 2
    Rate = 2
    BurstBudget = 1
    CoalesceLimit = 1
    MaxInbox = 2
INVARIANTS
    ScreenCurrent
PROPERTIES
    QuitIsFinal
    CadenceHolds
    ServedWhenQuiet
