SPECIFICATION Spec
CONSTANTS
    Cap = 3
    Sizes <- MCSizes
    MaxSends <- Reply
    StoreBuffer = 2
    Mortal <- Nobody
PROPERTIES
    ImplementsChannel
