SPECIFICATION Spec
CONSTANTS
    b1 = b1  b2 = b2  b3 = b3  p1 = p1
    s1 = s1  e1 = e1  d1 = d1  d2 = d2
    NoCall = NoCall
    Calls <- FewCalls
    Kind <- FewKindOf
    CommandCapacity = 1
    QueryCapacity = 1
INVARIANT
    RunningAcceptsRequests
