SPECIFICATION EventSpec
CONSTANTS
    b1 = b1  e1 = e1  e2 = e2
    NoCall = NoCall
    Calls <- TwoStreams
    Kind <- TwoStreamsKind
    CommandCapacity = 1
    QueryCapacity = 0
    EventCapacity = 2
    Retained = 2
    MaxPublished = 3
SYMMETRY StreamSymmetry
INVARIANTS
    EventTypeOK
    ReplayIsExact
    EndIsLast
PROPERTIES
    LagIsEarned
