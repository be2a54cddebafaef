SPECIFICATION Spec
CONSTANTS
    Values <- MCValues
    ThroughOut <- MCSameType
    MaxProducers = 3
    IntBits = 5
    SizeBits = 8
INVARIANTS
    MaskMatchesInputs
    NeverWaitsForNobody
PROPERTIES
    ImplementsRendezvous
