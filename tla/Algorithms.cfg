SPECIFICATION Spec
CONSTANTS
    Numbers = {0, 1, 2, 4}
    MaxLength = 5
    ListNodes = 4
    MaxText = 6
    MaxPattern = 4
    MaxItems = 3
    Capacity = 3
    Width = 3
    MaxNodes = 3
    MaxEdges = 3
    MaxUnions = 3
    MaxUpdates = 7
    MaxQueens = 5
INVARIANTS
    SequencesCorrect
    StructuresCorrect
CHECK_DEADLOCK FALSE
