CONSTANTS
    Depth = 5
    Sizes = {0, 3, 7}
    MaxInt = 4
    MaxItems = 9
SPECIFICATION Spec
INVARIANTS CacheIsFrontier
PROPERTIES ImplementsQueue
CHECK_DEADLOCK FALSE
