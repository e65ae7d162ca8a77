CONSTANTS
    Line = {0, 1, 2, 3}
    HighLineSets = {{0, 3}}
    Offset = {0}
    Value = {0, 1}
    Zero = 0
    NumSets = 1
    Assoc = 3
    None = None
    EpochAccesses = 2
    IncreasePercent = 60
    DecreasePercent = 55
    MinHighWays = 1
    MinLowWays = 1

SPECIFICATION Spec

PROPERTIES
    ImplementsMemory

CHECK_DEADLOCK FALSE
