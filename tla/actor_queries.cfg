SPECIFICATION Spec
CONSTANTS
    b1 = b1  b2 = b2  b3 = b3  p1 = p1
    s1 = s1  e1 = e1  d1 = d1  d2 = d2
    NoCall = NoCall
    Calls <- QueryCalls
    Kind <- QueryKindOf
    CommandCapacity = 2
    QueryCapacity = 2
SYMMETRY QuerySymmetry
INVARIANTS
    TypeOK
    HeldOnce
    OneQueryAtATime
    IdleOwesNothing
    Bounded
PROPERTIES
    QueriesInOrder
    RefusedOnlyWhenFull
