SPECIFICATION Spec
CONSTANTS
    MaxPending = 3
INVARIANTS
    ResultIsTrue
    MoveIsFresh
PROPERTIES
    ReturnsOnceSilent
