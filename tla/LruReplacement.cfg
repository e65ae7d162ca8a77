CONSTANTS
    Line <- LruLine
    Offset = {0}
    Value = {0}
    Zero = 0
    NumSets = 2
    Assoc = 3
    None = None

SPECIFICATION Spec

PROPERTIES
    LruReplacement
