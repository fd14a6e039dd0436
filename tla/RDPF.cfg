CONSTANTS
    WordBits = 3
    MaxDepth = 3
    Width = 2
    Gens <- MCGens
    Seeds <- MCSeeds
    MaxThreads = 2
    Starts = {0, 3}
    Offsets = {0, 6}
SPECIFICATION Spec
CHECK_DEADLOCK FALSE
INVARIANTS KeysOffByTarget SharesVectors StoredAndExpanded ProcessesTheRange
