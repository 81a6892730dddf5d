SPECIFICATION CorrelationSpec
CONSTANTS
    b1 = b1  b2 = b2  s1 = s1
    NoCall = NoCall
    Calls <- SmallCalls
    Kind <- SmallKind
    CommandCapacity = 1
    QueryCapacity = 1
SYMMETRY SmallSymmetry
INVARIANTS
    CorrelationTypeOK
    StalenessBounded
    QuietLineHeals
