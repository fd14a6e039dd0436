------------------------------ MODULE KeyedBag ------------------------------
(***************************************************************************)
(* What a search tree promises to those who change it (bst.hpp:196-202): a *)
(* bag of items, each a key and a value, from which one item is deleted by *)
(* its key.                                                                *)
(***************************************************************************)
EXTENDS Naturals

CONSTANTS
    Keys,   \* the keys
    Values  \* the values

Items == Keys \X Values

VARIABLE bag  \* how many times each item is in the bag

Init == bag = [item \in Items |-> 0]

Insert(item) == bag' = [bag EXCEPT ![item] = @ + 1]

Delete(item) ==
    /\ bag[item] > 0
    /\ bag' = [bag EXCEPT ![item] = @ - 1]

Next == \E item \in Items : Insert(item) \/ Delete(item)

Spec == Init /\ [][Next]_bag
=============================================================================
