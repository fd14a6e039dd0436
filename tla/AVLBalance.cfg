CONSTANTS
    Keys = {1, 2, 3, 4}
    Values = {0}
    Depths = {0}
    MaxItems = 7
    MaxCopies = 2
SPECIFICATION Spec
INVARIANT Balanced
VIEW Contents
CHECK_DEADLOCK FALSE
