SPECIFICATION BrainSpec
CONSTANTS
    BoardWidth = 4
    BoardHeight = 3
    Kinds = {1, 3}
    Gravity = {1}
    LockTicks = 2
    MsgsPerTick = 1
    Attacks = {1, 2}
    MaxPieces = 3
    MaxAttacks = 2
CHECK_DEADLOCK FALSE
INVARIANTS
    BrainTypeOK PieceFits ClearCompacts BagFair
PROPERTIES
    CellsConserved HoldOnce
