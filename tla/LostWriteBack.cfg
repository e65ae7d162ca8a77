CONSTANTS
    Line = {0, 1, 2}
    Offset = {0}
    Value = {0, 1}
    Zero = 0
    None = None
    L1Sets = 1
    L1Ways = 2
    L2Sets = 1
    L2Ways = 2

SPECIFICATION Spec

PROPERTIES
    ImplementsMemory
