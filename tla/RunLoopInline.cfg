SPECIFICATION FairSpec
CONSTANTS
    Inline = TRUE
    Commands <- MCCommands
    Budget = 3
    MaxMessages = 4
    Rate = 2
    TickChoices <- Bool
    PollInterval = 1
    BurstBudget = 1
    CoalesceLimit = 2
    MaxInbox = 2
INVARIANTS
    FoldOrder
PROPERTIES
    TickServed
    RepaintServed
