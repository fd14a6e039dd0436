CONSTANTS
    Keys = {1, 2, 3, 4}
    Values = {0, 1}
    Depths = {0, 2}
    MaxItems = 6
    MaxCopies = 2
SPECIFICATION Spec
INVARIANTS SearchTree Balanced FindsWhatIsThere
PROPERTIES ImplementsBag
VIEW Contents
CHECK_DEADLOCK FALSE
