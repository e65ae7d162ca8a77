CONSTANTS
    Line = {0, 1, 2, 3, 4}
    Offset = {0}
    Value = {0, 1}
    Zero = 0
    Slot = {s1, s2}
    LogicalLines = 2
    RmtId = {0, 1}
    OwnerOf <- MCOwnerOf
    None = None

SYMMETRY Symmetry

SPECIFICATION Spec

INVARIANTS
    TypeOK
    MappingIsExact

PROPERTIES
    ImplementsMemory
