CONSTANTS
    Line <- MCLine
    Offset = {0, 1}
    Value = {0, 1}
    Zero = 0
    NumSets = 2
    Assoc = 2
    None = None

SPECIFICATION Spec

INVARIANTS
    TypeOK

PROPERTIES
    ImplementsMemory
