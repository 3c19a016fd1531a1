SPECIFICATION MCSpec
CONSTANTS
    Cap = 4
    Docs <- MCDocs
    Carets <- MCCarets
    MaxTexts = 3
    MaxSteps = 2
PROPERTIES
    ImplementsTimeline
    UndoStaysInFile
