------------------------------ MODULE MinHeap ------------------------------
(***************************************************************************)
(* The oblivious binary heap (heap.cpp:60-212, 300-486, 597-714), at the   *)
(* level of the values that the shares stand for: an array whose root is   *)
(* cell 1, insertion by the basic loop or by one binary search on a path,  *)
(* and extraction of the minimum by restoring the heap property from the   *)
(* root down, at secret indices, in the basic or the optimized way.        *)
(*                                                                         *)
(* An operation runs alone.  Each turn of its loop, one round of           *)
(* comparison and oblivious swap, is a step, so that the states between    *)
(* the turns can be talked about.                                          *)
(***************************************************************************)
EXTENDS Naturals, FiniteSets

CONSTANTS
    Powers, \* the powers of 2 up to Size
    Size,   \* cells of the array: 1 << maxdepth, or heapsize(k)
    MaxInt  \* 0x7fffffffffffffff: the value of an empty cell

ASSUME SizeAssumption == Size \in Powers /\ Size >= 2
ASSUME PowersAssumption ==
    /\ Powers \subseteq 1 .. Size /\ 1 \in Powers
    /\ \A p, q \in Powers : p < q => 2 * p <= q /\ 2 * p \in Powers
    /\ \A n \in 1 .. Size - 1 : \E p \in Powers : p <= n /\ n < 2 * p
ASSUME MaxIntAssumption == MaxInt \in Nat

VARIABLES
    A,         \* the array
    num_items, \* items in the heap, in cells 1 .. num_items
    pc,        \* "idle", "up" in insert, "down" in extract_min
    child,     \* insert: childindex
    smaller,   \* extract_min: the (secret) index to restore next
    oidx,      \* extract_min: the path so far, as the bits below the root
    layer,     \* extract_min: 1 << the depth of smaller
    height,    \* extract_min: 1 << the depth of the last item it found
    optimized, \* extract_min: its argument is_optimized
    minval     \* the value last returned

extracting == <<smaller, oidx, layer, height, optimized>>
vars == <<A, num_items, pc, child, extracting, minval>>

Values == 0 .. MaxInt
Cells  == 0 .. Size - 1

\* 64-bit subtraction and the sign that a CDPF finds in it (cdpf.hpp:20-50):
\* with values of 63 bits, the sign is that of the true difference.
Diff(a, b) == IF a >= b THEN a - b ELSE (a + 2 * (MaxInt + 1)) - b
Lt(a, b) == Diff(a, b) > MaxInt

\* An oblivious read beyond the array yields 0, an oblivious update is lost.
Read(i) == IF i \in Cells THEN A[i] ELSE 0

\* 1 << floor(log2(n)): the first cell of the layer of cell n.
Layer(n) == CHOOSE p \in Powers : p <= n /\ n < 2 * p

Init ==
    /\ \E n \in 0 .. Size - 1 :
         /\ num_items = n
         \* init(), or init(n) with its increasing values 100, 200, ...
         /\ A = [i \in Cells |-> IF i \in 1 .. n /\ i < MaxInt THEN i ELSE MaxInt]
    /\ pc = "idle"
    /\ child = 0
    /\ smaller = 0
    /\ oidx = 0
    /\ layer = 1
    /\ height = 1
    /\ optimized = FALSE
    /\ minval = 0

-----------------------------------------------------------------------------
(* insert: a new leaf, swapped up the tree.                                *)

Insert(val) ==
    /\ pc = "idle"
    /\ num_items + 1 \in Cells
    /\ num_items' = num_items + 1
    /\ A' = [A EXCEPT ![num_items'] = val]
    /\ child' = num_items'
    /\ pc' = IF num_items' \div 2 > 0 THEN "up" ELSE "idle"
    /\ UNCHANGED <<extracting, minval>>

\* A turn of the loop: the child and its parent are exchanged if the child is
\* less, and it goes on above the parent unless that is the root.
SwapUp ==
    LET parent == child \div 2
        lt     == Lt(A[child], A[parent])
    IN
    /\ pc = "up"
    /\ A' = [A EXCEPT ![child]  = IF lt THEN A[parent] ELSE A[child],
                      ![parent] = IF lt THEN A[child] ELSE A[parent]]
    /\ child' = parent
    /\ pc' = IF parent \div 2 > 0 THEN "up" ELSE "idle"
    /\ UNCHANGED <<num_items, extracting, minval>>

-----------------------------------------------------------------------------
(* insert_optimized: one binary search on the path to the new leaf.        *)

\* The cells on the path from the root to cell n.
Path(n) == {n \div p : p \in Powers} \ {0}

\* binary_search: the first cell of the sorted path whose item is not less than
\* val.  The new leaf is still MaxInt, so there is one.
FoundCell(path, val) ==
    CHOOSE c \in path :
        /\ ~ Lt(A[c], val)
        /\ \A d \in path : d < c => Lt(A[d], val)

\* Cells of the path below the found one take the item above them; the found
\* one takes val.  (The flags of the code are the unit vector of the found
\* index, and its running XOR.)
InsertOptimized(val) ==
    LET n      == num_items + 1
        path   == Path(n)
        found  == FoundCell(path, val)
        zeroed == [A EXCEPT ![n] = 0]
    IN  /\ pc = "idle"
        /\ n \in Cells
        /\ num_items' = n
        /\ A' = [i \in Cells |->
                   IF i = found THEN val
                   ELSE IF i \in path /\ i > found THEN zeroed[i \div 2]
                   ELSE zeroed[i]]
        /\ UNCHANGED <<pc, child, extracting, minval>>

-----------------------------------------------------------------------------
(* extract_min.                                                            *)

\* The last item replaces the root; the cell it leaves becomes empty.  Unless
\* the heap is now empty, the heap property must be restored.  The height is
\* that of the heap before the extraction.
ExtractWith(opt, out) ==
    /\ pc = "idle"
    /\ num_items > 0
    /\ minval' = out
    /\ A' = [[A EXCEPT ![1] = A[num_items]] EXCEPT ![num_items] = MaxInt]
    /\ num_items' = num_items - 1
    /\ height' = Layer(num_items)
    /\ pc' = IF num_items' = 0 THEN "idle" ELSE "down"
    /\ smaller' = 1
    /\ oidx' = 0
    /\ layer' = 1
    /\ optimized' = opt
    /\ UNCHANGED child

\* Faulty variant: the root is read after it was replaced.
ExtractMinReadsLate(opt) == ExtractWith(opt, A[num_items])

\* The root is returned.  extract_min must not be called on an empty heap.
ExtractMin(opt) == ExtractWith(opt, A[1])

\* Where a turn looks: the basic one at the index itself, the optimized one at
\* the oblivious index within the cells of its layer.
Index == IF optimized /\ layer > 1 THEN layer + oidx ELSE smaller

\* The comparison of the two children: the left one is taken if it is less.
LeftLt == Lt(Read(2 * Index), Read(2 * Index + 1))
Chosen(i) == IF LeftLt THEN 2 * i ELSE 2 * i + 1

\* One turn: the child that is taken changes places with its parent if it is
\* smaller, and the next turn is at that child; `bit` goes to oidx.
RestoreWith(bit) ==
    LET parent == Read(Index)
        chosen == Chosen(Index)
        lt_p   == Lt(Read(chosen), parent)
    IN  /\ pc = "down"
        /\ A' = [i \in Cells |-> CASE i = Index /\ lt_p  -> Read(chosen)
                                   [] i = chosen /\ lt_p -> parent
                                   [] OTHER -> A[i]]
        /\ smaller' = Chosen(smaller)
        /\ oidx' = 2 * oidx + bit
        /\ layer' = 2 * layer
        /\ pc' = IF layer' < height THEN "down" ELSE "idle"
        /\ UNCHANGED <<num_items, child, height, optimized, minval>>

\* Faulty variant: the flag lt, and not gt or eq, extends the oblivious index.
RestoreAppendsLt == RestoreWith(IF LeftLt THEN 1 ELSE 0)

\* At the root the index is explicit, below it is secret; both kinds of turn do
\* this.
Restore == RestoreWith(IF LeftLt THEN 0 ELSE 1)

Next ==
    \/ \E val \in Values : Insert(val) \/ InsertOptimized(val)
    \/ SwapUp
    \/ \E opt \in BOOLEAN : ExtractMin(opt)
    \/ Restore

Spec == Init /\ [][Next]_vars

-----------------------------------------------------------------------------
(* Properties.                                                             *)

TypeOK ==
    /\ A \in [Cells -> Values]
    /\ num_items \in 0 .. Size - 1
    /\ pc \in {"idle", "up", "down"}
    /\ child \in Cells
    /\ smaller \in Nat /\ oidx \in Nat /\ layer \in Nat /\ height \in Nat
    /\ optimized \in BOOLEAN
    /\ minval \in Values

\* The parent of i is not greater than i.
Ordered(i) == A[i \div 2] <= A[i]

\* Between operations the heap property holds: what verify_heap_property
\* asserts (heap.cpp:239-249).
HeapProperty == pc = "idle" => \A i \in 2 .. num_items : Ordered(i)

\* During an insertion only the child that moves up may be out of order, and
\* its own children are not less than its parent (heap.cpp:199-211).
OnlyChildOutOfOrder ==
    pc = "up" =>
        /\ child \in 2 .. num_items
        /\ \A i \in 2 .. num_items : i # child => Ordered(i)
        /\ \A i \in 2 .. num_items :
              i \div 2 = child => A[child \div 2] <= A[i]

\* During an extraction only the children of the index to restore may be out
\* of order, and they are not less than its parent (heap.cpp:694-711).
OnlySmallerOutOfOrder ==
    pc = "down" =>
        \A i \in 2 .. num_items :
            /\ i \div 2 # smaller => Ordered(i)
            /\ i \div 2 = smaller /\ smaller > 1 => A[smaller \div 2] <= A[i]

\* Cells beyond the last item hold MaxInt, which insert_optimized's search and
\* the comparison of a last item with its missing sibling rely on
\* (heap.cpp:680-684, duoram.cpp:84-95).
EmptyCellsAreMax == \A i \in Cells : i > num_items => A[i] = MaxInt

\* The optimized and the basic extraction look at the same cells, and neither
\* ever looks at a cell beyond the array (heap.cpp:413-440, 694-711).
SameCells ==
    pc = "down" =>
        /\ smaller = layer + oidx /\ oidx < layer
        /\ 2 * smaller + 1 \in Cells

\* The turns of an extraction go down to the last layer of the heap: smaller is
\* in the layer it is said to be in, above that of the last item before.
LayerInHeap ==
    pc = "down" =>
        /\ layer \in Powers /\ height \in Powers
        /\ layer < height
        /\ num_items < 2 * height /\ 2 * height <= Size

\* Between any two turns, basic or optimized, the order is that of a heap but
\* for the one place the next turn looks at.
HeapButOne ==
    /\ TypeOK
    /\ HeapProperty /\ OnlyChildOutOfOrder /\ OnlySmallerOutOfOrder
    /\ EmptyCellsAreMax /\ SameCells /\ LayerInHeap

\* The bag: how many cells of the heap hold each value.
bag == [v \in Values |-> Cardinality({i \in 1 .. num_items : A[i] = v})]

\* A MinHeap is a priority queue (heap.hpp:37-75).
Queue == INSTANCE PriorityQueue WITH count <- bag

ImplementsQueue == Queue!Spec
=============================================================================
