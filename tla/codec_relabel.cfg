SPECIFICATION Spec
CONSTANTS
    BoardWidth = 8
    TrackedPieceCount = 34
    InitialBoards <- Boards
    Touched <- Corners
    Lit <- Patterns
    Levels <- BatteryLevels
    Offsets <- Places
    Damages <- Corruptions
    MaxFaults = 1
INVARIANT
    NoPieceIsRelabelled
