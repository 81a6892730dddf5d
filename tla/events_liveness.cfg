SPECIFICATION EventFairSpec
CONSTANTS
    b1 = b1  e1 = e1  e2 = e2
    NoCall = NoCall
    Calls <- StreamAndQuery
    Kind <- StreamAndQueryKind
    CommandCapacity = 1
    QueryCapacity = 0
    EventCapacity = 1
    Retained = 1
    MaxPublished = 2
PROPERTIES
    StreamsEnd
