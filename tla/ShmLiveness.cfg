SPECIFICATION FairSpec
CONSTANTS
    Cap = 3
    Sizes <- MCSizes
    MaxSends <- OneWay
    StoreBuffer = 0
    Mortal <- Host
PROPERTIES
    Delivered
    CloseReleases
    DropEnds
    CrashReleases
