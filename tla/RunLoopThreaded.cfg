SPECIFICATION FairSpec
CONSTANTS
    Inline = FALSE
    Commands <- MCCommands
    Budget = 2
    MaxMessages = 2
    Rate = 2
    TickChoices <- Bool
    PollInterval = 1
    BurstBudget = 1
    CoalesceLimit = 2
    MaxInbox = 2
INVARIANTS
    ScreenCurrent
    EachResultOnce
PROPERTIES
    QuitEndsInput
    ResultServed
