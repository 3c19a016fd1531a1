SPECIFICATION MCSpec
CONSTANTS
    OptionSets <- Presets
    Stdio = {"pipe"}
    Shm = {"ring"}
    Room = 1
    MaxTraffic <- Launches
INVARIANTS
    RestoredAtEnd
    PanicReadable
    ActionsInOrder
PROPERTIES
    KeyboardKept
    SignalEnds
    LastWordsHeard
    ClientExits
CHECK_DEADLOCK FALSE
