SPECIFICATION Spec
CONSTANTS
    Cap = 3
    Sizes <- MCSizes
    MaxSends <- OneWay
    StoreBuffer = 1
    Mortal <- Nobody
INVARIANTS
    WakeOwed
