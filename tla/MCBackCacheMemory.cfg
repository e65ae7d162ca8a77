CONSTANTS
    Line = {0, 2, 4}
    Offset = {0}
    Value = {0, 1}
    Zero = 0
    NumSets = 2
    Assoc = 1
    None = None
    Slot = {s1, s2}
    MinLines = 0
    MaxLines = 2

SYMMETRY Symmetry

SPECIFICATION Spec

INVARIANTS
    TypeOK
    ResizesWithinPolicy

PROPERTIES
    VictimsStay
    ImplementsMemory
