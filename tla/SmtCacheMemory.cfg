CONSTANTS
    Line = {0, 1, 2, 3}
    HighLine = {0, 1, 2}
    LowLine = {3}
    Offset = {0}
    Value = {0, 1}
    Zero = 0
    NumSets = 1
    Assoc = 2
    None = None
    SliceCounts = {1, 2}

SPECIFICATION Spec

INVARIANTS
    TypeOK
    SlicesArePrivate

PROPERTIES
    OthersUndisturbed
    ImplementsMemory
