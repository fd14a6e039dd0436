----------------------------- MODULE CacheHeap -----------------------------
(***************************************************************************)
(* The faster extraction of heap.cpp (715-956), as the Heap driver uses it *)
(* (1005-1090): the tree is left as it is, and a second heap, the cache,   *)
(* holds the indices of the nodes whose parents were extracted and that    *)
(* were not themselves, ordered by the values at them.  treeboolean marks  *)
(* the nodes that are still in.  An operation is a step.                   *)
(***************************************************************************)
EXTENDS Naturals, FiniteSets

CONSTANTS
    Depth,    \* maxdepth: the arrays have 1 << maxdepth cells
    Sizes,    \* items the tree is initialised with: (1 << heapdepth) - 1
    MaxInt,   \* 0x7fffffffffffffff: the value of an empty cell
    MaxItems  \* bound: items inserted up to

\* 1 << n
Shl[n \in Nat] == IF n = 0 THEN 1 ELSE 2 * Shl[n - 1]

Size   == Shl[Depth]
Cells  == 0 .. Size - 1
Values == 0 .. MaxInt

\* Callers insert no more items than there are cells: no insertion checks.
ASSUME DepthAssumption == Depth \in Nat \ {0} /\ Sizes \subseteq Cells
ASSUME MaxIntAssumption == MaxInt \in Nat \ {0}
ASSUME BoundAssumption == MaxItems \in Cells

VARIABLES
    tree,        \* the values
    treeboolean, \* 1 for a node that is in, 0 for one that was extracted
    num_items,   \* items of the tree; extractions leave it
    cache,       \* the indices of the nodes to extract next
    cached,      \* the cache's num_items
    minval       \* the value last extracted

vars == <<tree, treeboolean, num_items, cache, cached, minval>>

\* An oblivious read looks at the low bits of the index.
Read(index) == tree[index % Size]

Init ==
    /\ num_items \in Sizes
    \* init(n), with its increasing values
    /\ tree = [i \in Cells |-> IF i \notin 1 .. num_items THEN MaxInt
                               ELSE IF i < MaxInt THEN i ELSE MaxInt - 1]
    /\ treeboolean = [i \in Cells |-> IF i \in 1 .. num_items THEN 1 ELSE MaxInt]
    /\ cache = [i \in Cells |-> MaxInt]
    /\ cached = 0
    /\ minval = 0

\* The array B after a comparison of a child with its parent: they are
\* exchanged if the rank of the child is less and the parent is one of `at`.
Turned(B, child, rank, at) ==
    LET parent == child \div 2 IN
    IF parent > 0 /\ rank[B[child]] < rank[B[parent]] /\ parent \in at
    THEN [B EXCEPT ![child] = B[parent], ![parent] = B[child]]
    ELSE B

\* The array B after a walk from a cell to the root.  The walk does not end at
\* the first pair that is in order.
Raised(B, cell, rank, at) ==
    LET walk[n \in 0 .. Depth] ==
            IF n = 0 THEN [A |-> B, child |-> cell]
            ELSE LET w == walk[n - 1]
                 IN  [A |-> Turned(w.A, w.child, rank, at), child |-> w.child \div 2]
    IN  walk[Depth].A

\* _insertval_m: insert in the tree, exchanging only with parents that are in.
\* The driver inserts before it extracts.
Insert(val) ==
    /\ num_items < MaxItems
    /\ \A i \in 1 .. num_items : treeboolean[i] = 1
    /\ num_items' = num_items + 1
    /\ treeboolean' = [treeboolean EXCEPT ![num_items'] = 1]
    /\ tree' = Raised([tree EXCEPT ![num_items'] = val], num_items',
                      [v \in Values |-> v], {p \in Cells : treeboolean'[p] = 1})
    /\ UNCHANGED <<cache, cached, minval>>

-----------------------------------------------------------------------------
(* The cache, as a record of its array and the number of its items.        *)

Cache == [A |-> cache, n |-> cached]

\* _restore_heap_property_cache compares the values at the indices.
Restored(B, cell) == Raised(B, cell, [i \in Nat |-> Read(i)], Cells)

\* _insertval_c
InsertC(c, index) ==
    [A |-> Restored([c.A EXCEPT ![c.n + 1] = index], c.n + 1), n |-> c.n + 1]

\* _insertclr: its left and right child.
InsertCLR(c, index) == InsertC(InsertC(c, 2 * index), 2 * index + 1)

\* _extract_min_cache: the last index replaces the first.
ExtractMinCache(c) ==
    [A |-> [[c.A EXCEPT ![1] = c.A[c.n]] EXCEPT ![c.n] = MaxInt], n |-> c.n - 1]

\* _heapify_cache, from the first of the cells to the last one, the cache's
\* leaves.
HeapifyFrom(c, first) ==
    LET path[i \in first - 1 .. c.n] ==
            IF i = first - 1 THEN c.A ELSE Restored(path[i - 1], i)
    IN  [c EXCEPT !.A = path[c.n]]

\* Faulty variant: only the last one.
HeapifyLast(c) == IF c.n < 2 THEN c ELSE HeapifyFrom(c, c.n)

HeapifyCache(c) == HeapifyFrom(c, c.n \div 2 + 1)

-----------------------------------------------------------------------------
(* Extraction.                                                             *)

Extract(index, c) ==
    /\ minval' = Read(index)
    /\ treeboolean' = [treeboolean EXCEPT ![index % Size] = 0]
    /\ cache' = c.A
    /\ cached' = c.n
    /\ UNCHANGED <<tree, num_items>>

\* With an empty cache the root is extracted, and its children are cached if
\* there are more than 3, or 2, items.
ExtractRoot ==
    LET three == IF num_items > 3 THEN InsertC(Cache, 3) ELSE Cache
    IN  /\ cached = 0
        /\ Extract(1, IF num_items > 2 THEN InsertC(three, 2) ELSE three)

\* Otherwise the node at the first index of the cache is.
ExtractCached(c) ==
    /\ cached > 0
    /\ Extract(cache[1], InsertCLR(c, cache[1]))

\* Faulty variant: the children are those of the index that is first after the
\* extraction.
ExtractNextOfNew ==
    LET c == HeapifyCache(ExtractMinCache(Cache))
    IN  cached > 0 /\ Extract(cache[1], InsertCLR(c, IF c.n = 0 THEN 1 ELSE c.A[1]))

ExtractNext == ExtractCached(HeapifyCache(ExtractMinCache(Cache)))

\* Callers that extract no more items than there are, from trees with more
\* than three: from one with three or two, ExtractRoot leaves out a child.
\* The children of every item have cells in the array.
Left == {i \in 1 .. num_items : treeboolean[i] = 1}

Next ==
    \/ \E val \in 0 .. MaxInt - 1 : Insert(val)
    \/ num_items > 3 /\ 2 * num_items < Size /\ Left # {} /\ (ExtractRoot \/ ExtractNext)

Spec == Init /\ [][Next]_vars

-----------------------------------------------------------------------------
(* Properties.                                                             *)

TypeOK ==
    /\ tree \in [Cells -> Values]
    /\ treeboolean \in [Cells -> {0, 1, MaxInt}]
    /\ num_items \in 0 .. Size - 1
    /\ cache \in [Cells -> Nat]
    /\ cached \in 0 .. num_items + 1
    /\ minval \in Values

\* No index of the cache has a smaller value than the first one, although
\* _heapify_cache runs over each path once, from leaf to root, and does not
\* restore the heap property below the root (heap.cpp:761-764).
FirstIsMin == \A i \in 1 .. cached : Read(cache[1]) <= Read(cache[i])

\* Once extractions have begun, the cache holds the children of the extracted
\* nodes that are not extracted, each once (heap.cpp:1043-1084).
Frontier ==
    num_items > 3 /\ treeboolean[1] = 0 =>
        /\ {cache[i] : i \in 1 .. cached} =
               {i \in 2 .. Size - 1 : treeboolean[i \div 2] = 0 /\ treeboolean[i] # 0}
        /\ \A i, j \in 1 .. cached : i # j => cache[i] # cache[j]

\* The cache is the frontier of the extracted nodes, least value first.
CacheIsFrontier == TypeOK /\ FirstIsMin /\ Frontier

\* The nodes that are in are a priority queue: each extraction returns a
\* smallest value of those inserted and not yet extracted.
bag == [v \in Values |-> Cardinality({i \in Left : tree[i] = v})]

Queue == INSTANCE PriorityQueue WITH count <- bag

ImplementsQueue == Queue!Spec
=============================================================================
