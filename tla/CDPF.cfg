CONSTANTS
    WordBits = 2
    LeafBits = 2
    Depth = 4
    Gens <- MCGens
    Seeds <- MCSeeds
    TargetShares = {5}
    OperandShares = {40}
SPECIFICATION Spec
INVARIANTS LeavesDifferAtTarget PathsFit ComparesToZero
