--------------------------- MODULE PriorityQueue ---------------------------
(***************************************************************************)
(* What a MinHeap promises (heap.hpp:12-60): a bag of values, from which   *)
(* extract_min takes a smallest one.                                       *)
(***************************************************************************)
EXTENDS Naturals

CONSTANT MaxInt  \* the greatest value

Values == 0 .. MaxInt

VARIABLES
    count,  \* how many times each value is in the bag
    minval  \* the value that the last extract_min returned

Init ==
    /\ count \in [Values -> Nat]
    /\ minval = 0

Insert(val) ==
    /\ count' = [count EXCEPT ![val] = @ + 1]
    /\ UNCHANGED minval

ExtractMin(val) ==
    /\ count[val] > 0
    /\ \A v \in Values : v < val => count[v] = 0
    /\ count' = [count EXCEPT ![val] = @ - 1]
    /\ minval' = val

Next == \E val \in Values : Insert(val) \/ ExtractMin(val)

Spec == Init /\ [][Next]_<<count, minval>>
=============================================================================
