CONSTANTS
    K = 2
    Tags = 2
    Elts = 2
    MaxStream = 4
SPECIFICATION Spec
INVARIANTS Inv ReturnsTheElements
PROPERTIES ImplementsReservoir
CHECK_DEADLOCK FALSE
