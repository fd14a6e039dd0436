CONSTANTS
    Powers = {1, 2, 4, 8}
    Size = 8
    MaxInt = 3
SPECIFICATION Spec
INVARIANTS HeapButOne
PROPERTIES ImplementsQueue
