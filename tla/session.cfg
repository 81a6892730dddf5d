SPECIFICATION Spec
CONSTANTS
    BufferLen = 2
    MaxSent = 4
    Values <- ChosenValues
    Position <- PositionValue
INVARIANTS
    TypeOK
    Layered
    EventsAreExact
PROPERTIES
    OutcomesAreTrue
