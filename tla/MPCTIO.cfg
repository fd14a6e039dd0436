CONSTANTS
    Parties = {P0, P1}
    Threads = {t1, t2}
    NIters = 3
SPECIFICATION TIOFairSpec
INVARIANTS Inv FinalClockBounds
PROPERTIES ImplementsMaster Ends
