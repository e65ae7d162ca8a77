CONSTANTS
    Line = {0, 1, 2, 3}
    Offset = {0}
    Byte = {0, 1}
    Zero = 0
    None = None
    L1Sets = 2
    L1Ways = 1
    L2Sets = 1
    L2Ways = 2
    BackLine = {0, 1, 2}
    Slot = {s1, s2}
    MinLines = 0
    MaxLines = 2
    SliceCounts = {1, 2}
    HighLine = {3}
    LowLine = {0, 1, 2}

SPECIFICATION HierarchySpec

SYMMETRY SlotSymmetry

INVARIANTS
    HierarchyTypeOK
    Inclusion
    CopiesAgree
    FlushIsNotReentered

PROPERTIES
    OnlyBackInvalidationLoses
    CleanUntilStored
