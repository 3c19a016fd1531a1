SPECIFICATION FairSpec
CHECK_DEADLOCK FALSE
CONSTANTS
    read = read
    exec = exec
    Asks <- MCAsks
    Allowed <- MCAllowed
    PipeRoom = 1
    InboxRoom = 1
    Ids = {1}
    Manifests <- MCManifests
    MaxFrames <- MCFrames
    Kinds = {"sdk", "any"}
INVARIANTS
    SdkNeverMisjudged
    AnswersReported
    NoEffectAgainstVeto
PROPERTIES
    DeadlineEndsRun
    NothingLeft
    ImplementsMediation
