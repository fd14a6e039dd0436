--------------------------- MODULE MinHeapProofs ---------------------------
(***************************************************************************)
(* Proofs about MinHeap.tla, for an array of any power of 2 and any        *)
(* greatest value: between operations the array is a heap, and during one  *)
(* it is a heap but for the place that the next turn of the loop repairs.  *)
(***************************************************************************)
EXTENDS MinHeap, Basics

-----------------------------------------------------------------------------
(* Arithmetic of the tree: the parent of a cell, the cells of a path.      *)

LEMMA DivBounds ==
    ASSUME NEW n \in Nat, NEW p \in Nat, p > 0
    PROVE  n \div p \in Nat /\ (n \div p) * p <= n /\ n < (n \div p) * p + p
OBVIOUS

LEMMA DivUnique ==
    ASSUME NEW n \in Nat, NEW p \in Nat, p > 0, NEW k \in Nat,
           k * p <= n, n < k * p + p
    PROVE  n \div p = k
OBVIOUS

\* The grandparents: half of n \div p is n \div 2p.
LEMMA HalfOfDiv ==
    ASSUME NEW n \in Nat, NEW p \in Nat, p > 0
    PROVE  (n \div p) \div 2 = n \div (2 * p)
<1> DEFINE c == n \div p
           h == c \div 2
<1>1. c \in Nat /\ c * p <= n /\ n < c * p + p
  BY DivBounds
<1>2. h \in Nat /\ (c = 2 * h \/ c = 2 * h + 1)
  BY <1>1
<1> HIDE DEF c, h
<1>3. h * (2 * p) = (2 * h) * p /\ (2 * h + 1) * p = (2 * h) * p + p
  BY <1>2
<1>4. (2 * h) * p \in Nat /\ 2 * p \in Nat /\ 2 * p = p + p
  BY <1>2
<1>5. h * (2 * p) <= n /\ n < h * (2 * p) + 2 * p
  BY <1>1, <1>2, <1>3, <1>4
<1>6. n \div (2 * p) = h
  BY <1>2, <1>4, <1>5, DivUnique
<1> QED BY <1>6 DEF c, h

\* A greater divisor gives no greater quotient.
LEMMA DivAntitone ==
    ASSUME NEW n \in Nat, NEW p \in Nat, NEW q \in Nat, 0 < p, p <= q
    PROVE  n \div q <= n \div p
<1> DEFINE a == n \div p
           b == n \div q
<1>1. a \in Nat /\ n < a * p + p
  BY DivBounds
<1>2. b \in Nat /\ b * q <= n
  BY DivBounds
<1> HIDE DEF a, b
<1>3. SUFFICES ASSUME b > a PROVE FALSE
  BY <1>1, <1>2 DEF a, b
<1>4. b * p <= b * q
  BY <1>2
<1>5. (a + 1) * p <= b * p /\ (a + 1) * p = a * p + p
  BY <1>1, <1>2, <1>3
<1>6. a * p \in Nat /\ b * p \in Nat /\ b * q \in Nat /\ (a + 1) * p \in Nat
  BY <1>1, <1>2
<1> QED BY <1>1, <1>2, <1>4, <1>5, <1>6

\* The parent of a cell of the heap is a cell of the heap.
LEMMA Parent ==
    ASSUME NEW i \in Nat, i >= 2
    PROVE  i \div 2 \in Nat /\ i \div 2 >= 1 /\ i \div 2 < i
OBVIOUS

LEMMA SizeFacts ==
    /\ Size \in Nat /\ Size >= 2
    /\ MaxInt \in Nat
    /\ \A p \in Powers : p \in Nat /\ p >= 1 /\ p <= Size
<1>1. \A p \in Powers : p \in 1 .. Size
  BY PowersAssumption
<1>2. \A p \in 1 .. Size : p \in Int /\ p >= 1 /\ p <= Size
  OBVIOUS
<1>3. Size \in Int /\ Size >= 2
  BY <1>1, <1>2, SizeAssumption
<1> QED BY <1>1, <1>2, <1>3, MaxIntAssumption

\* The sign of the difference is the order.
LEMMA LtIsLess ==
    ASSUME NEW a \in Values, NEW b \in Values
    PROVE  Lt(a, b) <=> a < b
BY MaxIntAssumption DEF Lt, Diff, Values

\* The layer of a cell: its first cell is a power of 2.
LEMMA LayerFacts ==
    ASSUME NEW n \in 1 .. Size - 1
    PROVE  Layer(n) \in Powers /\ Layer(n) <= n /\ n < 2 * Layer(n)
<1>1. \E p \in Powers : p <= n /\ n < 2 * p
  BY PowersAssumption
<1> QED BY <1>1 DEF Layer

\* Twice a power of 2 that leaves something of n is a power of 2.
LEMMA NextPower ==
    ASSUME NEW n \in 1 .. Size - 1, NEW p \in Powers, 2 * p <= n
    PROVE  2 * p \in Powers
<1>1. Layer(n) \in Powers /\ n < 2 * Layer(n)
  BY LayerFacts
<1>2. p \in Nat /\ Layer(n) \in Nat /\ n \in Nat
  BY <1>1, SizeFacts
<1>3. p < Layer(n)
  BY <1>1, <1>2
<1> QED BY <1>1, <1>3, PowersAssumption

\* The path to n starts at the root, ends at n, and has the parent of each of
\* its cells; the cells above a cell of the path are not below its parent.
LEMMA PathFacts ==
    ASSUME NEW n \in 1 .. Size - 1
    PROVE  /\ n \in Path(n)
           /\ \A c \in Path(n) : c \in 1 .. n
           /\ \A c \in Path(n) : c >= 2 => c \div 2 \in Path(n)
           /\ \A c, d \in Path(n) : c < d => c <= d \div 2
<1>0. n \in Nat /\ n >= 1 /\ \A p \in Powers : p \in Nat /\ p > 0
  BY SizeFacts
<1>1. n \in Path(n)
  <2>1. n \div 1 = n
    BY <1>0
  <2> QED BY <1>0, <2>1, PowersAssumption DEF Path
<1>2. ASSUME NEW c \in Path(n) PROVE c \in 1 .. n
  <2>1. PICK p \in Powers : c = n \div p
    BY DEF Path
  <2>2. c \in Nat /\ c <= n \div 1
    BY <1>0, <2>1, DivBounds, DivAntitone
  <2>3. c # 0 /\ n \div 1 = n
    BY <1>0 DEF Path
  <2> QED BY <1>0, <2>2, <2>3
<1>3. ASSUME NEW c \in Path(n), c >= 2 PROVE c \div 2 \in Path(n)
  <2>1. PICK p \in Powers : c = n \div p
    BY DEF Path
  <2>2. c \in Nat /\ c * p <= n /\ p \in Nat /\ p > 0
    BY <1>0, <2>1, DivBounds
  <2>3. 2 * p <= c * p /\ 2 * p \in Nat /\ c * p \in Nat
    BY <1>3, <2>2
  <2>4. 2 * p \in Powers
    BY <1>0, <2>2, <2>3, NextPower
  <2>5. c \div 2 = n \div (2 * p)
    BY <1>0, <2>1, <2>2, HalfOfDiv
  <2>6. c \div 2 # 0
    BY <1>3, <2>2
  <2> QED BY <2>4, <2>5, <2>6 DEF Path
<1>4. ASSUME NEW c \in Path(n), NEW d \in Path(n), c < d PROVE c <= d \div 2
  <2>1. PICK p \in Powers : c = n \div p
    BY DEF Path
  <2>2. PICK q \in Powers : d = n \div q
    BY DEF Path
  <2>3. p \in Nat /\ q \in Nat /\ p > 0 /\ q > 0 /\ c \in Nat /\ d \in Nat
    BY <1>0, <1>2
  <2>4. q < p
    <3>1. SUFFICES ASSUME p <= q PROVE FALSE
      BY <2>3
    <3>2. n \div q <= n \div p
      BY <1>0, <2>3, <3>1, DivAntitone
    <3> QED BY <1>4, <2>1, <2>2, <2>3, <3>2
  <2>5. 2 * q <= p
    BY <2>4, PowersAssumption
  <2>6. n \div p <= n \div (2 * q)
    BY <1>0, <2>3, <2>5, DivAntitone
  <2>7. d \div 2 = n \div (2 * q)
    BY <1>0, <2>2, <2>3, HalfOfDiv
  <2> QED BY <2>1, <2>6, <2>7
<1> QED BY <1>1, <1>2, <1>3, <1>4

\* Every non-empty set of numbers has a least element.
LEMMA LeastElement ==
    ASSUME NEW T, T \subseteq Nat, T # {}
    PROVE  \E x \in T : \A y \in T : x <= y
<1> DEFINE R == OpToRel(<, Nat)
<1>1. IsWellFoundedOn(R, Nat)
  BY NatLessThanWellFounded
<1>2. PICK x \in T : \A y \in T : ~ (<<y, x>> \in R)
  BY <1>1, WFMin
<1>3. \A y \in T : ~ (y < x)
  BY <1>2 DEF OpToRel
<1> QED BY <1>3

-----------------------------------------------------------------------------
(* HeapButOne is inductive.                                                *)

\* The types, in the form that the arithmetic of the steps needs.
LEMMA Typed ==
    ASSUME TypeOK
    PROVE  /\ \A i \in Cells : A[i] \in Values /\ A[i] \in Nat
           /\ num_items \in Nat /\ num_items < Size
           /\ child \in Nat /\ Size \in Nat /\ MaxInt \in Nat
           /\ smaller \in Nat /\ oidx \in Nat /\ layer \in Nat /\ height \in Nat
           /\ \A i \in Nat : i \in Cells <=> i < Size
           /\ \A v \in Values : v \in Nat /\ v <= MaxInt
           /\ 0 \in Values /\ MaxInt \in Values
BY SizeFacts DEF TypeOK, Cells, Values

LEMMA InitHeap == Init => HeapButOne
<1> SUFFICES ASSUME Init PROVE HeapButOne
  OBVIOUS
<1>1. Size \in Nat /\ Size >= 2 /\ MaxInt \in Nat
  BY SizeFacts
<1>2. PICK n \in 0 .. Size - 1 :
        /\ num_items = n
        /\ A = [i \in Cells |-> IF i \in 1 .. n /\ i < MaxInt THEN i ELSE MaxInt]
  BY DEF Init
<1>3. TypeOK
  <2>1. A \in [Cells -> Values]
    BY <1>1, <1>2 DEF Cells, Values
  <2>2. 0 \in Cells /\ 0 \in Values /\ num_items \in 0 .. Size - 1
    BY <1>1, <1>2 DEF Cells, Values
  <2> QED BY <2>1, <2>2 DEF Init, TypeOK
<1>4. \A i \in 2 .. num_items : Ordered(i)
  <2> TAKE i \in 2 .. num_items
  <2>1. i \in Cells /\ i \div 2 \in Cells /\ i \div 2 \in 1 .. n /\ i \div 2 < i
    BY <1>1, <1>2 DEF Cells
  <2> QED BY <1>1, <1>2, <2>1 DEF Ordered
<1>5. EmptyCellsAreMax
  BY <1>1, <1>2 DEF EmptyCellsAreMax
<1> QED
  BY <1>3, <1>4, <1>5
  DEF Init, HeapButOne, HeapProperty, OnlyChildOutOfOrder,
      OnlySmallerOutOfOrder, SameCells, LayerInHeap

\* A new leaf is the only cell that may be less than its parent.
LEMMA InsertKeeps ==
    ASSUME HeapButOne, NEW val \in Values, Insert(val)
    PROVE  HeapButOne'
<1> DEFINE n == num_items + 1
<1>1. /\ TypeOK /\ pc = "idle" /\ n \in Cells /\ num_items' = n
      /\ A' = [A EXCEPT ![n] = val] /\ child' = n
      /\ pc' = IF n \div 2 > 0 THEN "up" ELSE "idle"
      /\ UNCHANGED <<extracting, minval>>
  BY DEF HeapButOne, Insert
<1>2. n \in Nat /\ n >= 1 /\ n < Size
  BY <1>1, Typed
<1>3. TypeOK'
  BY <1>1, <1>2, Typed DEF TypeOK, Cells, extracting
<1>4. \A i \in 2 .. n - 1 : Ordered(i)'
  <2> TAKE i \in 2 .. n - 1
  <2>1. A[i \div 2] <= A[i]
    <3>1. i \in 2 .. num_items
      BY <1>2, <1>1, Typed
    <3> QED BY <1>1, <3>1 DEF HeapButOne, HeapProperty, Ordered
  <2>2. i \in Cells /\ i # n /\ i \div 2 \in Cells /\ i \div 2 # n
    BY <1>2, Parent, SizeFacts DEF Cells
  <2>3. A'[i] = A[i] /\ A'[i \div 2] = A[i \div 2]
    BY <1>1, <2>2 DEF TypeOK
  <2> QED BY <2>1, <2>3 DEF Ordered
<1>5. HeapProperty'
  BY <1>1, <1>2 DEF HeapProperty
<1>6. OnlyChildOutOfOrder'
  <2> SUFFICES ASSUME pc' = "up" PROVE OnlyChildOutOfOrder'
    BY DEF OnlyChildOutOfOrder
  <2>1. n \in 2 .. n
    BY <1>1, <1>2
  <2>2. \A i \in 2 .. n : i # n => i \in 2 .. n - 1
    BY <1>2
  <2>3. \A i \in 2 .. n : i \div 2 # n
    BY <1>2
  <2> QED BY <1>1, <1>4, <2>1, <2>2, <2>3 DEF OnlyChildOutOfOrder
<1>7. EmptyCellsAreMax'
  <2>1. \A i \in Cells : i > n => i > num_items /\ i # n
    BY <1>1, Typed DEF Cells
  <2>2. \A i \in Cells : i # n => A'[i] = A[i]
    BY <1>1 DEF TypeOK
  <2> QED BY <1>1, <2>1, <2>2 DEF HeapButOne, EmptyCellsAreMax
<1> QED
  BY <1>1, <1>3, <1>5, <1>6, <1>7
  DEF HeapButOne, OnlySmallerOutOfOrder, SameCells, LayerInHeap

\* A child that is less than its parent goes above it.
LEMMA SwapUpKeeps ==
    ASSUME HeapButOne, SwapUp
    PROVE  HeapButOne'
<1> DEFINE p == child \div 2
           lt == Lt(A[child], A[p])
<1>1. /\ TypeOK /\ pc = "up"
      /\ A' = [A EXCEPT ![child] = IF lt THEN A[p] ELSE A[child],
                        ![p] = IF lt THEN A[child] ELSE A[p]]
      /\ child' = p
      /\ pc' = IF p \div 2 > 0 THEN "up" ELSE "idle"
      /\ num_items' = num_items
      /\ UNCHANGED <<extracting, minval>>
  BY DEF HeapButOne, SwapUp
<1>2. /\ child \in 2 .. num_items
      /\ \A i \in 2 .. num_items : i # child => A[i \div 2] <= A[i]
      /\ \A i \in 2 .. num_items : i \div 2 = child => A[p] <= A[i]
  BY <1>1 DEF HeapButOne, OnlyChildOutOfOrder, Ordered
<1>3. /\ num_items \in Nat /\ num_items < Size /\ Size \in Nat
      /\ child \in Nat /\ child >= 2
  BY <1>1, <1>2, Typed
<1>4. p \in Nat /\ p >= 1 /\ p < child /\ p \in Cells /\ child \in Cells
  BY <1>2, <1>3 DEF Cells
<1>5. /\ A[child] \in Values /\ A[p] \in Values
      /\ \A i \in Cells : A[i] \in Nat
  BY <1>1, <1>4, Typed
<1>6. lt <=> A[child] < A[p]
  BY <1>5, LtIsLess
<1> HIDE DEF lt
<1>7. /\ A'[child] = IF lt THEN A[p] ELSE A[child]
      /\ A'[p] = IF lt THEN A[child] ELSE A[p]
      /\ \A i \in Cells : i # child /\ i # p => A'[i] = A[i]
  BY <1>1, <1>4 DEF TypeOK
<1>8. TypeOK'
  <2>1. A' \in [Cells -> Values]
    BY <1>1, <1>4, <1>5 DEF TypeOK
  <2> QED BY <1>1, <1>4, <2>1 DEF TypeOK, extracting
<1> HIDE DEF p
\* Only the parent may now be less than its own parent.
<1>9. ASSUME NEW i \in 2 .. num_items, i # p PROVE Ordered(i)'
  <2>1. /\ i \in Nat /\ i >= 2 /\ i \in Cells /\ i \div 2 \in Cells
        /\ i \div 2 < i
    BY <1>3 DEF Cells
  <2>2. CASE i = child
    BY <1>4, <1>5, <1>6, <1>7, <2>2 DEF Ordered, p
  <2>3. CASE i # child /\ i \div 2 = child
    BY <1>2, <1>4, <1>5, <1>6, <1>7, <1>9, <2>1, <2>3 DEF Ordered
  <2>4. CASE i # child /\ i \div 2 = p
    BY <1>2, <1>4, <1>5, <1>6, <1>7, <1>9, <2>1, <2>4 DEF Ordered
  <2>5. CASE i # child /\ i \div 2 # child /\ i \div 2 # p
    BY <1>2, <1>7, <1>9, <2>1, <2>5 DEF Ordered
  <2> QED BY <2>2, <2>3, <2>4, <2>5
\* The children of the parent are not less than the parent's parent.
<1>10. ASSUME NEW i \in 2 .. num_items, i \div 2 = p, p >= 2
       PROVE  A'[p \div 2] <= A'[i]
  <2>1. /\ i \in Nat /\ i \in Cells /\ i # p
        /\ p \div 2 \in Cells /\ p \div 2 < p /\ p \in 2 .. num_items
    BY <1>2, <1>3, <1>4, <1>10 DEF Cells
  <2>2. A[p \div 2] <= A[p] /\ A'[p \div 2] = A[p \div 2]
    BY <1>2, <1>4, <1>7, <2>1
  <2>3. CASE i = child
    BY <1>4, <1>5, <1>6, <1>7, <2>1, <2>2, <2>3
  <2>4. CASE i # child
    <3>1. A[p] <= A[i] /\ A'[i] = A[i]
      BY <1>2, <1>7, <1>10, <2>1, <2>4
    <3> QED BY <1>4, <1>5, <2>1, <2>2, <3>1
  <2> QED BY <2>3, <2>4
<1>11. HeapProperty'
  <2>1. pc' = "idle" => p < 2
    BY <1>1, <1>4 DEF p
  <2> QED BY <1>1, <1>9, <2>1 DEF HeapProperty
<1>12. OnlyChildOutOfOrder'
  <2> SUFFICES ASSUME pc' = "up" PROVE OnlyChildOutOfOrder'
    BY DEF OnlyChildOutOfOrder
  <2>1. p >= 2
    BY <1>1, <1>4 DEF p
  <2>2. p \in 2 .. num_items
    BY <1>2, <1>3, <1>4, <2>1
  <2> QED BY <1>1, <1>9, <1>10, <2>1, <2>2 DEF OnlyChildOutOfOrder, p
<1>13. EmptyCellsAreMax'
  <2>1. \A i \in Cells : i > num_items => i # child /\ i # p
    BY <1>2, <1>3, <1>4 DEF Cells
  <2> QED BY <1>1, <1>7, <2>1 DEF HeapButOne, EmptyCellsAreMax
<1> QED
  BY <1>1, <1>8, <1>11, <1>12, <1>13
  DEF HeapButOne, OnlySmallerOutOfOrder, SameCells, LayerInHeap

\* The binary search finds the first cell of the path that is not less than
\* the new value.
LEMMA FoundFacts ==
    ASSUME TypeOK, EmptyCellsAreMax, NEW n \in Cells, n = num_items + 1,
           NEW val \in Values
    PROVE  /\ FoundCell(Path(n), val) \in Path(n)
           /\ val <= A[FoundCell(Path(n), val)]
           /\ \A d \in Path(n) : d < FoundCell(Path(n), val) => A[d] < val
<1> DEFINE path == Path(n)
           T == {c \in path : ~ Lt(A[c], val)}
<1>1. n \in 1 .. Size - 1 /\ Size \in Nat
  BY Typed, SizeFacts DEF Cells
<1>2. n \in path /\ \A c \in path : c \in 1 .. n
  BY <1>1, PathFacts
<1>3. \A c \in path : c \in Cells /\ c \in Nat /\ A[c] \in Values
  BY <1>1, <1>2, Typed DEF Cells
<1>4. n \in T
  <2>1. A[n] = MaxInt
    BY <1>1, Typed DEF EmptyCellsAreMax
  <2>2. ~ (A[n] < val) /\ A[n] \in Values
    BY <2>1, Typed
  <2> QED BY <1>2, <2>2, LtIsLess
<1> HIDE DEF path
<1>5. PICK c \in T : \A y \in T : c <= y
  BY <1>3, <1>4, LeastElement
<1>6. c \in path /\ ~ Lt(A[c], val) /\ \A d \in path : d < c => Lt(A[d], val)
  BY <1>3, <1>5
<1> DEFINE f == FoundCell(path, val)
<1>7. f \in path /\ ~ Lt(A[f], val) /\ \A d \in path : d < f => Lt(A[d], val)
  BY <1>6 DEF FoundCell
<1> HIDE DEF f
<1>8. val <= A[f]
  BY <1>3, <1>7, LtIsLess, Typed
<1>9. \A d \in path : d < f => A[d] < val
  BY <1>3, <1>7, LtIsLess
<1> QED BY <1>7, <1>8, <1>9 DEF f, path

\* What the optimized insertion leaves in each cell.
LEMMA InsertOptimizedCells ==
    ASSUME TypeOK, NEW val \in Values, InsertOptimized(val),
           NEW n, n = num_items + 1,
           NEW f, f = FoundCell(Path(n), val), f \in Path(n)
    PROVE  /\ A'[f] = val
           /\ \A i \in Path(n) : i > f => A'[i] = A[i \div 2]
           /\ \A i \in Cells : i # f /\ ~ (i \in Path(n) /\ i > f) => A'[i] = A[i]
           /\ A' \in [Cells -> Values]
<1> DEFINE path == Path(n)
           zeroed == [A EXCEPT ![n] = 0]
<1>1. /\ n \in Cells
      /\ A' = [i \in Cells |->
                  IF i = f THEN val
                  ELSE IF i \in path /\ i > f THEN zeroed[i \div 2]
                  ELSE zeroed[i]]
  BY DEF InsertOptimized
<1>2. n \in 1 .. Size - 1 /\ Size \in Nat
  BY <1>1, Typed, SizeFacts DEF Cells
<1>3. n \in path /\ \A c \in path : c \in 1 .. n
  BY <1>2, PathFacts
<1>4. \A c \in path : c \in Cells /\ c \in Nat
  BY <1>2, <1>3 DEF Cells
<1>5. zeroed \in [Cells -> Values] /\ \A i \in Cells : i # n => zeroed[i] = A[i]
  BY Typed DEF TypeOK
<1> HIDE DEF path, zeroed
<1>6. A'[f] = val
  BY <1>1, <1>4 DEF path
<1>7. ASSUME NEW i \in path, i > f
      PROVE  A'[i] = A[i \div 2] /\ i \div 2 \in Cells
  <2>1. i \in Cells /\ i \in 1 .. n /\ f \in 1 .. n
    BY <1>3, <1>4 DEF path
  <2>2. i \div 2 \in Cells /\ i \div 2 # n /\ i # f
    BY <1>2, <1>7, <2>1 DEF Cells
  <2> QED BY <1>1, <1>5, <1>7, <2>1, <2>2
<1>8. ASSUME NEW i \in Cells, i # f, ~ (i \in path /\ i > f) PROVE A'[i] = A[i]
  <2>1. i # n
    BY <1>2, <1>3, <1>8 DEF path
  <2> QED BY <1>1, <1>5, <1>8, <2>1
<1>9. A' \in [Cells -> Values]
  <2> SUFFICES ASSUME NEW i \in Cells PROVE A'[i] \in Values
    BY <1>1
  <2>1. CASE i = f
    BY <1>6, <2>1
  <2>2. CASE i # f /\ i \in path /\ i > f
    BY <1>7, <2>2, Typed
  <2>3. CASE i # f /\ ~ (i \in path /\ i > f)
    BY <1>8, <2>3, Typed
  <2> QED BY <2>1, <2>2, <2>3
<1> QED BY <1>6, <1>7, <1>8, <1>9 DEF path

\* The cells of the path from the found one on move down: the order stays.
LEMMA InsertOptimizedKeeps ==
    ASSUME HeapButOne, NEW val \in Values, InsertOptimized(val)
    PROVE  HeapButOne'
<1> DEFINE n == num_items + 1
           path == Path(n)
           f == FoundCell(path, val)
<1>1. /\ TypeOK /\ EmptyCellsAreMax /\ pc = "idle" /\ n \in Cells
      /\ num_items' = n /\ UNCHANGED <<pc, child, extracting, minval>>
      /\ \A i \in 2 .. num_items : A[i \div 2] <= A[i]
  BY DEF HeapButOne, HeapProperty, Ordered, InsertOptimized
<1>2. n \in 1 .. Size - 1 /\ Size \in Nat /\ num_items \in Nat
  BY <1>1, Typed, SizeFacts DEF Cells
<1>3. /\ n \in path
      /\ \A c \in path : c \in 1 .. n
      /\ \A c \in path : c >= 2 => c \div 2 \in path
      /\ \A c, d \in path : c < d => c <= d \div 2
  BY <1>2, PathFacts
<1>4. /\ f \in path
      /\ val <= A[f]
      /\ \A d \in path : d < f => A[d] < val
  BY <1>1, FoundFacts
<1>5. /\ A'[f] = val
      /\ \A i \in path : i > f => A'[i] = A[i \div 2]
      /\ \A i \in Cells : i # f /\ ~ (i \in path /\ i > f) => A'[i] = A[i]
      /\ A' \in [Cells -> Values]
  BY <1>1, <1>4, InsertOptimizedCells
<1>6. /\ \A i \in Cells : A[i] \in Nat
      /\ val \in Nat
      /\ \A i \in 1 .. n : i \in Cells
  BY <1>1, <1>2, Typed DEF Cells
<1> HIDE DEF path, f
<1>7. TypeOK'
  BY <1>1, <1>2, <1>5 DEF TypeOK, extracting
<1>8. ASSUME NEW j \in 2 .. n PROVE A'[j \div 2] <= A'[j]
  <2> DEFINE k == j \div 2
  <2>1. /\ j \in Nat /\ j >= 2 /\ j <= n /\ k \in Nat /\ k >= 1 /\ k < j
        /\ k \in 1 .. n - 1 /\ j \in Cells /\ k \in Cells /\ f \in 1 .. n
    BY <1>2, <1>3, <1>4, <1>6
  <2>2. k >= 2 => A[k \div 2] <= A[k] /\ k \div 2 \in Cells
    BY <1>1, <1>2, <2>1 DEF Cells
  <2>3. j # n => A[k] <= A[j]
    BY <1>1, <1>2, <2>1
  <2>4. j \in path => k \in path
    BY <1>3, <2>1
  <2>5. f < j /\ j \in path => f <= k
    BY <1>3, <1>4
  <2> HIDE DEF k
  <2>6. CASE j = f
    <3>1. k \in path /\ k < f /\ k # f
      BY <1>4, <2>1, <2>4, <2>6
    <3>2. A[k] < val /\ A'[k] = A[k]
      BY <1>4, <1>5, <2>1, <3>1
    <3> QED BY <1>5, <1>6, <2>1, <2>6, <3>2 DEF k
  <2>7. CASE j \in path /\ j > f
    <3>1. A'[j] = A[k] /\ k \in path /\ f <= k
      BY <1>5, <2>4, <2>5, <2>7 DEF k
    <3>2. CASE k = f
      BY <1>4, <1>5, <3>1, <3>2 DEF k
    <3>3. CASE k > f
      <4>1. A'[k] = A[k \div 2]
        BY <1>5, <3>1, <3>3
      <4>2. k >= 2
        BY <2>1, <3>3
      <4> QED BY <2>2, <3>1, <4>1, <4>2 DEF k
    <3> QED BY <2>1, <3>1, <3>2, <3>3
  <2>8. CASE j \in path /\ j < f
    <3>1. j # n /\ k < f /\ j # f
      BY <1>2, <2>1, <2>8
    <3>2. A'[j] = A[j] /\ A'[k] = A[k]
      BY <1>5, <2>1, <2>8, <3>1
    <3> QED BY <2>3, <3>1, <3>2 DEF k
  <2>9. CASE j \notin path
    <3>1. j # n /\ j # f /\ A'[j] = A[j] /\ A[k] <= A[j]
      BY <1>3, <1>4, <1>5, <2>1, <2>3, <2>9
    <3>2. CASE k = f
      BY <1>4, <1>5, <1>6, <2>1, <3>1, <3>2 DEF k
    <3>3. CASE k \in path /\ k > f
      <4>1. A'[k] = A[k \div 2] /\ k >= 2
        BY <1>5, <2>1, <3>3
      <4> QED BY <1>6, <2>1, <2>2, <3>1, <4>1 DEF k
    <3>4. CASE k # f /\ ~ (k \in path /\ k > f)
      BY <1>5, <2>1, <3>1, <3>4 DEF k
    <3> QED BY <3>2, <3>3, <3>4
  <2> QED BY <2>1, <2>6, <2>7, <2>8, <2>9
<1>9. EmptyCellsAreMax'
  <2>1. \A i \in Cells : i > n => i > num_items /\ i # f /\ i \notin path
    BY <1>2, <1>3, <1>4 DEF Cells
  <2> QED BY <1>1, <1>5, <2>1 DEF EmptyCellsAreMax
<1> QED
  BY <1>1, <1>7, <1>8, <1>9
  DEF HeapButOne, HeapProperty, Ordered, OnlyChildOutOfOrder,
      OnlySmallerOutOfOrder, SameCells, LayerInHeap

\* The last item at the root is the only one that may be out of order.
LEMMA ExtractMinKeeps ==
    ASSUME HeapButOne, NEW opt \in BOOLEAN, ExtractMin(opt)
    PROVE  HeapButOne'
<1>1. /\ TypeOK /\ EmptyCellsAreMax /\ pc = "idle" /\ num_items > 0
      /\ \A i \in 2 .. num_items : A[i \div 2] <= A[i]
      /\ minval' = A[1]
      /\ A' = [[A EXCEPT ![1] = A[num_items]] EXCEPT ![num_items] = MaxInt]
      /\ num_items' = num_items - 1
      /\ height' = Layer(num_items)
      /\ pc' = IF num_items' = 0 THEN "idle" ELSE "down"
      /\ smaller' = 1 /\ oidx' = 0 /\ layer' = 1 /\ optimized' = opt /\ child' = child
  BY DEF HeapButOne, HeapProperty, Ordered, ExtractMin, ExtractWith
<1>2. /\ num_items \in Nat /\ num_items >= 1 /\ num_items < Size /\ Size \in Nat
      /\ num_items \in Cells /\ 1 \in Cells /\ num_items \in 1 .. Size - 1
  BY <1>1, Typed, SizeFacts DEF Cells
<1>3. /\ height' \in Powers /\ height' <= num_items /\ num_items < 2 * height'
      /\ height' \in Nat
  BY <1>1, <1>2, LayerFacts, SizeFacts
<1>4. /\ \A i \in Cells : i # 1 /\ i # num_items => A'[i] = A[i]
      /\ A'[num_items] = MaxInt
  BY <1>1, <1>2 DEF TypeOK
<1>5. TypeOK'
  <2>1. A[1] \in Values /\ A[num_items] \in Values /\ MaxInt \in Values
    BY <1>1, <1>2, Typed
  <2>2. A' \in [Cells -> Values]
    BY <1>1, <1>2, <2>1 DEF TypeOK
  <2>3. num_items' \in 0 .. Size - 1
    BY <1>1, <1>2
  <2> QED BY <1>1, <1>3, <2>1, <2>2, <2>3 DEF TypeOK
<1>6. HeapProperty'
  BY <1>1, <1>2 DEF HeapProperty
<1>7. OnlySmallerOutOfOrder'
  <2> SUFFICES ASSUME NEW i \in 2 .. num_items - 1, i \div 2 # 1
               PROVE  Ordered(i)'
    <3>1. ~ (smaller' > 1)
      BY <1>1
    <3> QED BY <1>1, <3>1 DEF OnlySmallerOutOfOrder
  <2>1. /\ i \in Cells /\ i # 1 /\ i # num_items
        /\ i \div 2 \in Cells /\ i \div 2 # num_items /\ i \in 2 .. num_items
    BY <1>2 DEF Cells
  <2> QED BY <1>1, <1>4, <2>1 DEF Ordered
<1>8. EmptyCellsAreMax'
  <2> SUFFICES ASSUME NEW i \in Cells, i > num_items - 1 PROVE A'[i] = MaxInt
    BY <1>1 DEF EmptyCellsAreMax
  <2>1. CASE i = num_items
    BY <1>4, <2>1
  <2>2. CASE i # num_items
    <3>1. i > num_items /\ i # 1
      BY <1>2, <2>2 DEF Cells
    <3> QED BY <1>1, <1>4, <2>2, <3>1 DEF EmptyCellsAreMax
  <2> QED BY <2>1, <2>2
\* The heap had two items, so that the layer of the last is not the root, and
\* the array has another layer.
<1>9. SameCells' /\ LayerInHeap'
  <2> SUFFICES ASSUME pc' = "down" PROVE SameCells' /\ LayerInHeap'
    BY DEF SameCells, LayerInHeap
  <2>1. num_items >= 2
    BY <1>1, <1>2
  <2> DEFINE h == height'
  <2>0. h \in Nat /\ num_items < 2 * h
    BY <1>3
  <2>2. 1 < h /\ (2 * h <= Size => 3 < Size)
    <3> HIDE DEF h
    <3> QED BY <1>2, <2>0, <2>1
  <2>3. height' < Size
    BY <1>2, <1>3
  <2>4. 2 * height' <= Size
    BY <1>3, <2>3, SizeAssumption, PowersAssumption
  <2>5. 3 \in Cells
    BY <1>2, <2>2, <2>4 DEF Cells
  <2> QED
    BY <1>1, <1>2, <1>3, <2>2, <2>4, <2>5, PowersAssumption
    DEF SameCells, LayerInHeap
<1>10. OnlyChildOutOfOrder'
  BY <1>1 DEF OnlyChildOutOfOrder
<1> QED BY <1>5, <1>6, <1>7, <1>8, <1>9, <1>10 DEF HeapButOne

\* The cells that a turn of extract_min compares, and what it leaves in them.
LEMMA RestoreCells ==
    ASSUME HeapButOne, Restore
    PROVE  \E c \in {2 * smaller, 2 * smaller + 1}, lt \in BOOLEAN :
              /\ smaller \in Cells /\ smaller \in Nat /\ smaller >= 1
              /\ 2 * smaller \in Cells /\ 2 * smaller + 1 \in Cells
              /\ A[c] <= A[2 * smaller] /\ A[c] <= A[2 * smaller + 1]
              /\ lt <=> A[c] < A[smaller]
              /\ A'[smaller] = IF lt THEN A[c] ELSE A[smaller]
              /\ A'[c] = IF lt THEN A[smaller] ELSE A[c]
              /\ \A i \in Cells : i # smaller /\ i # c => A'[i] = A[i]
              /\ A' \in [Cells -> Values]
              /\ smaller' = c
              /\ oidx' = 2 * oidx + (c - 2 * smaller)
<1> DEFINE s == smaller
           c == Chosen(s)
           lt == Lt(Read(c), Read(s))
<1>1. /\ TypeOK /\ pc = "down" /\ s = layer + oidx /\ 2 * s + 1 \in Cells
      /\ layer \in Powers
  BY DEF HeapButOne, SameCells, LayerInHeap, Restore, RestoreWith
<1>2. layer \in Nat /\ layer >= 1 /\ oidx \in Nat /\ Size \in Nat
  BY <1>1, Typed, SizeFacts
<1>3. s \in Nat /\ s >= 1 /\ s \in Cells /\ 2 * s \in Cells
  BY <1>1, <1>2 DEF Cells
<1>4. Index = s
  BY <1>1 DEF Index
<1>5. /\ A' = [i \in Cells |-> CASE i = s /\ lt -> Read(c)
                                 [] i = c /\ lt -> Read(s)
                                 [] OTHER -> A[i]]
      /\ smaller' = c
      /\ oidx' = 2 * oidx + IF LeftLt THEN 0 ELSE 1
  BY <1>4 DEF Restore, RestoreWith
<1>6. c = IF LeftLt THEN 2 * s ELSE 2 * s + 1
  BY DEF Chosen
<1>7. /\ Read(2 * s) = A[2 * s] /\ Read(2 * s + 1) = A[2 * s + 1]
      /\ Read(s) = A[s] /\ Read(c) = A[c] /\ c \in Cells
  BY <1>1, <1>3, <1>6 DEF Read
<1>8. /\ A[2 * s] \in Values /\ A[2 * s + 1] \in Values
      /\ A[s] \in Values /\ A[c] \in Values
      /\ \A i \in Cells : A[i] \in Nat
  BY <1>1, <1>3, <1>7, Typed
<1>9. LeftLt <=> A[2 * s] < A[2 * s + 1]
  BY <1>4, <1>7, <1>8, LtIsLess DEF LeftLt
<1>10. lt <=> A[c] < A[s]
  BY <1>7, <1>8, LtIsLess
<1>11. c # s /\ c - 2 * s = IF LeftLt THEN 0 ELSE 1
  <2>1. CASE LeftLt
    BY <1>3, <1>6, <2>1
  <2>2. CASE ~ LeftLt
    BY <1>3, <1>6, <2>2
  <2> QED BY <2>1, <2>2
<1>12. lt \in BOOLEAN
  BY DEF Lt
<1> HIDE DEF s, c, lt
<1>13. /\ A'[s] = IF lt THEN A[c] ELSE A[s]
       /\ A'[c] = IF lt THEN A[s] ELSE A[c]
       /\ \A i \in Cells : i # s /\ i # c => A'[i] = A[i]
  BY <1>3, <1>5, <1>7, <1>11
<1>14. A' \in [Cells -> Values]
  <2> SUFFICES ASSUME NEW i \in Cells PROVE A'[i] \in Values
    BY <1>5
  <2> QED BY <1>1, <1>8, <1>13, Typed
<1>15. A[c] <= A[2 * s] /\ A[c] <= A[2 * s + 1]
  <2>1. A[2 * s] \in Nat /\ A[2 * s + 1] \in Nat
    BY <1>1, <1>3, <1>8
  <2> QED BY <1>6, <1>9, <2>1
<1>16. c \in {2 * s, 2 * s + 1}
  BY <1>6
<1>17. oidx' = 2 * oidx + (c - 2 * s)
  BY <1>5, <1>11
<1> QED
  BY <1>1, <1>3, <1>5, <1>10, <1>12, <1>13, <1>14, <1>15, <1>16, <1>17 DEF s

\* A turn of extract_min moves the place that is out of order down.
LEMMA RestoreKeeps ==
    ASSUME HeapButOne, Restore
    PROVE  HeapButOne'
<1> DEFINE s == smaller
<1>1. /\ TypeOK /\ EmptyCellsAreMax /\ pc = "down"
      /\ s = layer + oidx /\ oidx < layer
      /\ layer \in Powers /\ height \in Powers /\ layer < height
      /\ num_items < 2 * height /\ 2 * height <= Size
      /\ \A i \in 2 .. num_items : i \div 2 # s => A[i \div 2] <= A[i]
      /\ \A i \in 2 .. num_items : i \div 2 = s /\ s > 1 => A[s \div 2] <= A[i]
      /\ layer' = 2 * layer
      /\ pc' = IF layer' < height THEN "down" ELSE "idle"
      /\ UNCHANGED <<num_items, child, height, optimized, minval>>
  BY DEF HeapButOne, OnlySmallerOutOfOrder, Ordered, SameCells, LayerInHeap,
         Restore, RestoreWith
<1>2. /\ layer \in Nat /\ height \in Nat /\ oidx \in Nat /\ num_items \in Nat
      /\ num_items < Size /\ Size \in Nat /\ MaxInt \in Nat
      /\ \A i \in Cells : A[i] \in Nat /\ A[i] <= MaxInt /\ i \in Nat
      /\ \A i \in Nat : i \in Cells <=> i < Size
  BY <1>1, Typed DEF Cells
<1>3. PICK c \in {2 * s, 2 * s + 1}, lt \in BOOLEAN :
              /\ s \in Cells /\ s \in Nat /\ s >= 1
              /\ 2 * s \in Cells /\ 2 * s + 1 \in Cells
              /\ A[c] <= A[2 * s] /\ A[c] <= A[2 * s + 1]
              /\ lt <=> A[c] < A[s]
              /\ A'[s] = IF lt THEN A[c] ELSE A[s]
              /\ A'[c] = IF lt THEN A[s] ELSE A[c]
              /\ \A i \in Cells : i # s /\ i # c => A'[i] = A[i]
              /\ A' \in [Cells -> Values]
              /\ smaller' = c
              /\ oidx' = 2 * oidx + (c - 2 * s)
  BY RestoreCells
<1> HIDE DEF s
<1>4. c \in Nat /\ c \in Cells /\ c > s /\ c \div 2 = s /\ c >= 2
  BY <1>3
<1>5. 2 * layer \in Powers /\ 2 * layer <= height
  BY <1>1, PowersAssumption
<1>6. c = layer' + oidx' /\ oidx' < layer' /\ oidx' \in Nat /\ layer' \in Nat
  BY <1>1, <1>2, <1>3
<1> DEFINE l == layer'
\* The cell is in its layer.
<1>6a. l \in Nat /\ l <= c /\ c < 2 * l
  <2> DEFINE o == oidx'
  <2>1. l \in Nat /\ o \in Nat /\ c = l + o /\ o < l
    BY <1>6
  <2> HIDE DEF l, o
  <2> QED BY <1>4, <2>1
<1> HIDE DEF l
<1>7. TypeOK'
  BY <1>1, <1>3, <1>4, <1>6 DEF TypeOK
\* Items only change places with items.
<1>8. lt => c \in 2 .. num_items /\ s \in 1 .. num_items
  <2>1. lt => A[c] < MaxInt
    BY <1>2, <1>3, <1>4
  <2>2. lt => ~ (c > num_items)
    BY <1>1, <1>2, <1>4, <2>1 DEF EmptyCellsAreMax
  <2> QED BY <1>2, <1>3, <1>4, <2>2
<1>9. EmptyCellsAreMax'
  <2> SUFFICES ASSUME NEW i \in Cells, i > num_items PROVE A'[i] = MaxInt
    BY <1>1 DEF EmptyCellsAreMax
  <2>1. A[i] = MaxInt
    BY <1>1 DEF EmptyCellsAreMax
  <2>2. A'[i] = A[i]
    BY <1>2, <1>3, <1>8
  <2> QED BY <2>1, <2>2
<1>10. A'[s] <= A[c]
  BY <1>2, <1>3, <1>4
<1>11. ASSUME NEW i \in 2 .. num_items, i \div 2 # c PROVE A'[i \div 2] <= A'[i]
  <2>1. /\ i \in Nat /\ i >= 2 /\ i \in Cells /\ i \div 2 \in Cells
        /\ i \div 2 \in Nat /\ i \div 2 < i
    BY <1>2
  <2>2. CASE i \div 2 = s
    <3>1. i \in {2 * s, 2 * s + 1} /\ i # s
      BY <1>3, <2>1, <2>2
    <3>2. CASE i = c
      BY <1>2, <1>3, <1>4, <2>2, <3>2
    <3>3. CASE i # c
      <4>1. A'[i] = A[i] /\ A[c] <= A[i]
        BY <1>3, <2>1, <3>1, <3>3
      <4>2. A'[s] \in Nat /\ A[c] \in Nat /\ A[i] \in Nat
        BY <1>2, <1>3, <1>4, <2>1
      <4> QED BY <1>10, <2>2, <4>1, <4>2
    <3> QED BY <3>2, <3>3
  <2>3. CASE i \div 2 # s /\ i = s
    <3>1. A[s \div 2] <= A[s] /\ s > 1
      BY <1>1, <2>1, <2>3
    <3>2. A'[s \div 2] = A[s \div 2]
      BY <1>3, <1>11, <2>1, <2>3
    <3>3. lt => A[s \div 2] <= A[c]
      BY <1>1, <1>4, <1>8, <3>1
    <3> QED BY <1>3, <2>3, <3>1, <3>2, <3>3
  <2>4. CASE i \div 2 # s /\ i # s
    <3>1. i # c
      BY <1>4, <2>4
    <3>2. A'[i] = A[i] /\ A'[i \div 2] = A[i \div 2]
      BY <1>3, <1>11, <2>1, <2>4, <3>1
    <3> QED BY <1>1, <2>4, <3>2
  <2> QED BY <2>2, <2>3, <2>4
<1>12. ASSUME NEW i \in 2 .. num_items, i \div 2 = c PROVE A'[c \div 2] <= A'[i]
  <2>1. i \in Nat /\ i \in Cells /\ i # s /\ i # c
    BY <1>2, <1>4, <1>12
  <2>2. A'[i] = A[i] /\ A[c] <= A[i]
    BY <1>1, <1>3, <1>4, <1>12, <2>1
  <2>3. A'[s] \in Nat /\ A[c] \in Nat /\ A[i] \in Nat
    BY <1>2, <1>3, <1>4, <2>1
  <2> QED BY <1>4, <1>10, <2>2, <2>3
<1>13. HeapProperty'
  <2> SUFFICES ASSUME pc' = "idle", NEW i \in 2 .. num_items PROVE Ordered(i)'
    BY <1>1 DEF HeapProperty
  <2>1. l >= height
    BY <1>1, <1>2, <1>6a DEF l
  <2>2. i \in Nat /\ i < 2 * height
    BY <1>1, <1>2
  <2>3. height <= c /\ (c = i \div 2 => 2 * c <= i)
    BY <1>2, <1>4, <1>6a, <2>1, <2>2
  <2>4. i \div 2 # c
    BY <1>2, <1>4, <2>2, <2>3
  <2> QED BY <1>11, <2>4 DEF Ordered
<1>14. OnlySmallerOutOfOrder'
  BY <1>1, <1>3, <1>11, <1>12 DEF OnlySmallerOutOfOrder, Ordered
<1>15. SameCells' /\ LayerInHeap'
  <2> SUFFICES ASSUME pc' = "down" PROVE SameCells' /\ LayerInHeap'
    BY DEF SameCells, LayerInHeap
  <2>1. layer' \in Powers /\ layer' < height
    BY <1>1, <1>5
  <2>2. 2 * l <= height
    BY <1>1, <2>1, PowersAssumption DEF l
  <2>3. 2 * height <= Size
    BY <1>1
  <2>5. 2 * c + 1 < Size
    BY <1>2, <1>4, <1>6a, <2>2, <2>3
  <2>4. 2 * c + 1 \in Cells
    BY <1>2, <1>4, <2>5
  <2> QED BY <1>1, <1>3, <1>6, <2>1, <2>4 DEF SameCells, LayerInHeap
<1>16. OnlyChildOutOfOrder'
  BY <1>1 DEF OnlyChildOutOfOrder
<1> QED
  BY <1>7, <1>9, <1>13, <1>14, <1>15, <1>16 DEF HeapButOne

LEMMA NextKeeps ==
    ASSUME HeapButOne, [Next]_vars
    PROVE  HeapButOne'
<1>1. CASE UNCHANGED vars
  BY <1>1
  DEF vars, extracting, HeapButOne, TypeOK, HeapProperty, Ordered, SameCells,
      OnlyChildOutOfOrder, OnlySmallerOutOfOrder, EmptyCellsAreMax, LayerInHeap
<1>2. ASSUME NEW val \in Values, Insert(val) PROVE HeapButOne'
  BY <1>2, InsertKeeps
<1>3. ASSUME NEW val \in Values, InsertOptimized(val) PROVE HeapButOne'
  BY <1>3, InsertOptimizedKeeps
<1>4. CASE SwapUp
  BY <1>4, SwapUpKeeps
<1>5. ASSUME NEW opt \in BOOLEAN, ExtractMin(opt) PROVE HeapButOne'
  BY <1>5, ExtractMinKeeps
<1>6. CASE Restore
  BY <1>6, RestoreKeeps
<1> QED BY <1>1, <1>2, <1>3, <1>4, <1>5, <1>6 DEF Next

\* HeapButOne is an invariant: whatever is inserted, by the loop or by the
\* binary search, and however the minimum is extracted, in an array of any
\* size, the order between two turns is that of a heap but for one place, and
\* no turn looks outside of the array (heap.cpp:60-212, 300-486, 597-714).
THEOREM HeapInvariant == Spec => []HeapButOne
<1>1. Init => HeapButOne
  BY InitHeap
<1>2. HeapButOne /\ [Next]_vars => HeapButOne'
  BY NextKeeps
<1> QED BY <1>1, <1>2, PTL DEF Spec



-----------------------------------------------------------------------------
(* The array stands for a bag of values: how the operations change it.     *)

\* Half of a power of 2 is a power of 2.
LEMMA HalfPower ==
    ASSUME NEW q \in Powers, q > 1
    PROVE  \E p \in Powers : q = 2 * p
<1>1. q \in Nat /\ q <= Size /\ Size \in Nat
  BY SizeFacts
<1>2. q - 1 \in 1 .. Size - 1
  BY <1>1
<1>3. PICK p \in Powers : p <= q - 1 /\ q - 1 < 2 * p
  BY <1>2, PowersAssumption
<1>4. p \in Nat /\ p < q
  BY <1>1, <1>3, SizeFacts
<1>5. 2 * p <= q
  BY <1>4, PowersAssumption
<1>6. q = 2 * p
  BY <1>1, <1>3, <1>4, <1>5
<1> QED BY <1>6

\* Every cell of the path but the last has a child on it.
LEMMA ChildOnPath ==
    ASSUME NEW n \in 1 .. Size - 1, NEW c \in Path(n), c # n
    PROVE  \E d \in Path(n) : d \div 2 = c /\ d > c
<1>0. n \in Nat /\ \A p \in Powers : p \in Nat /\ p >= 1
  BY SizeFacts
<1>1. PICK q \in Powers : c = n \div q
  BY DEF Path
<1>2. q > 1
  <2>1. n \div 1 = n
    BY <1>0
  <2> QED BY <1>0, <1>1, <2>1
<1>3. PICK p \in Powers : q = 2 * p
  BY <1>2, HalfPower
<1> DEFINE d == n \div p
<1>4. d \in Nat /\ d \div 2 = c
  BY <1>0, <1>1, <1>3, DivBounds, HalfOfDiv
<1>5. c >= 1
  BY PathFacts
<1> HIDE DEF d
<1>6. d > c /\ d # 0
  BY <1>4, <1>5
<1>7. d \in Path(n)
  BY <1>6 DEF d, Path
<1> QED BY <1>4, <1>6, <1>7

-----------------------------------------------------------------------------
(* The refinement.                                                         *)

\* The number of cells that hold v.
Count(B, n, v) == Cardinality(Items(B, n, v))

LEMMA BagCounts ==
    /\ bag = [v \in Values |-> Count(A, num_items, v)]
    /\ bag' = [v \in Values |-> Count(A', num_items', v)]
BY DEF bag, Items, Count

LEMMA CountIsNat ==
    ASSUME NEW n \in Nat, NEW B, NEW v
    PROVE  Count(B, n, v) \in Nat
BY ItemsFinite DEF Count

\* In a heap, no item is less than the root: a least one that was would have a
\* parent that is less still.
LEMMA RootIsMinimum ==
    ASSUME HeapButOne, pc = "idle", num_items >= 1, NEW i \in 1 .. num_items
    PROVE  A[1] <= A[i]
<1>1. /\ TypeOK /\ \A j \in 2 .. num_items : A[j \div 2] <= A[j]
  BY DEF HeapButOne, HeapProperty, Ordered
<1>2. /\ num_items \in Nat
      /\ \A j \in 1 .. num_items : j \in Cells /\ j \in Nat /\ A[j] \in Nat
      /\ 1 \in 1 .. num_items
  BY <1>1, Typed
<1> DEFINE T == {j \in 1 .. num_items : A[j] < A[1]}
<1>3. SUFFICES ASSUME T # {} PROVE FALSE
  BY <1>2
<1>4. PICK x \in T : \A y \in T : x <= y
  BY <1>2, <1>3, LeastElement
<1>5. x \in 2 .. num_items /\ A[x] < A[1]
  BY <1>2, <1>4
<1>6. x \div 2 \in 1 .. num_items /\ x \div 2 < x /\ A[x \div 2] <= A[x]
  BY <1>1, <1>2, <1>5
<1>7. x \div 2 \in T
  BY <1>2, <1>5, <1>6
<1> QED BY <1>2, <1>4, <1>5, <1>6, <1>7

\* An insertion, by either way, adds one to the count of its value.
LEMMA InsertionAddsOne ==
    ASSUME NEW n \in Nat, n = num_items + 1, num_items' = n, num_items \in Nat,
           NEW val \in Values, minval' = minval,
           NEW B, B[n] = val, \A i \in 1 .. num_items : B[i] = A[i],
           \A v \in Values : Count(A', n, v) = Count(B, n, v)
    PROVE  Queue!Insert(val)
<1>1. ASSUME NEW v \in Values
      PROVE  Count(A', n, v) = IF v = val THEN Count(A, num_items, v) + 1
                               ELSE Count(A, num_items, v)
  <2>1. n >= 1 /\ n - 1 = num_items
    OBVIOUS
  <2>2. Items(B, num_items, v) = Items(A, num_items, v)
    BY SameArray
  <2>3. Cardinality(Items(B, n, v)) = IF B[n] = v THEN Cardinality(Items(B, n - 1, v)) + 1
                                      ELSE Cardinality(Items(B, n - 1, v))
    BY <2>1, LastItem
  <2> QED BY <2>1, <2>2, <2>3 DEF Count
<1>2. bag' = [bag EXCEPT ![val] = @ + 1]
  BY <1>1, BagCounts
<1> QED BY <1>2 DEF Queue!Insert

LEMMA InsertRefines ==
    ASSUME HeapButOne, NEW val \in Values, Insert(val)
    PROVE  Queue!Insert(val)
<1> DEFINE n == num_items + 1
<1>1. /\ TypeOK /\ n \in Cells /\ num_items' = n
      /\ A' = [A EXCEPT ![n] = val] /\ minval' = minval
  BY DEF HeapButOne, Insert
<1>2. num_items \in Nat /\ n \in Nat /\ \A i \in 1 .. num_items : i \in Cells /\ i # n
  BY <1>1, Typed
<1>3. A'[n] = val /\ \A i \in 1 .. num_items : A'[i] = A[i]
  BY <1>1, <1>2 DEF TypeOK
<1> HIDE DEF n
<1> QED BY <1>1, <1>2, <1>3, InsertionAddsOne DEF n

\* The items of the path from the found cell on move to the cells below: which
\* is to append the value and to move it up to the found cell.
LEMMA InsertOptimizedRefines ==
    ASSUME HeapButOne, NEW val \in Values, InsertOptimized(val)
    PROVE  Queue!Insert(val)
<1> DEFINE n == num_items + 1
           path == Path(n)
           f == FoundCell(path, val)
           B == [A EXCEPT ![n] = val]
           h == [i \in 1 .. n |-> IF i = f THEN n
                                  ELSE IF i \in path /\ i > f THEN i \div 2 ELSE i]
<1>1. /\ TypeOK /\ EmptyCellsAreMax /\ n \in Cells /\ num_items' = n /\ minval' = minval
  BY DEF HeapButOne, InsertOptimized
<1>2. /\ n \in 1 .. Size - 1 /\ Size \in Nat /\ num_items \in Nat /\ n \in Nat
      /\ \A i \in 1 .. n : i \in Cells
  BY <1>1, Typed, SizeFacts DEF Cells
<1>3. /\ n \in path
      /\ \A c \in path : c \in 1 .. n
      /\ \A c \in path : c >= 2 => c \div 2 \in path
      /\ \A c, d \in path : c < d => c <= d \div 2
      /\ \A c \in path : c # n => \E d \in path : d \div 2 = c /\ d > c
  BY <1>2, PathFacts, ChildOnPath
<1>4. f \in path
  BY <1>1, FoundFacts
<1>5. /\ A'[f] = val
      /\ \A i \in path : i > f => A'[i] = A[i \div 2]
      /\ \A i \in Cells : i # f /\ ~ (i \in path /\ i > f) => A'[i] = A[i]
  BY <1>1, <1>4, InsertOptimizedCells
<1>6. B[n] = val /\ \A i \in 1 .. n : i # n => B[i] = A[i]
  BY <1>1, <1>2 DEF TypeOK
<1> HIDE DEF path, f, B
<1>7. \A i \in path : i > f => /\ i \div 2 \in path /\ i \div 2 >= f
                              /\ i \div 2 < i /\ i \div 2 # n
  BY <1>2, <1>3, <1>4
<1>8. h \in [1 .. n -> 1 .. n]
  BY <1>2, <1>3, <1>4, <1>7
<1>9. \A i \in 1 .. n : h[i] = IF i = f THEN n
                               ELSE IF i \in path /\ i > f THEN i \div 2 ELSE i
  OBVIOUS
<1> HIDE DEF h
<1>10. ASSUME NEW i \in 1 .. n, NEW j \in 1 .. n, i < j PROVE h[i] # h[j]
  <2>0. f \in 1 .. n /\ i \in Nat /\ j \in Nat
    BY <1>3, <1>4
  <2>1. CASE i = f
    <3>1. j # f
      BY <1>10, <2>0, <2>1
    <3>2. j = n => j \in path
      BY <1>3
    <3>3. CASE j \in path
      BY <1>7, <1>9, <1>10, <2>0, <2>1, <3>1, <3>3
    <3>4. CASE j \notin path
      BY <1>3, <1>9, <1>10, <2>0, <2>1, <3>1, <3>4
    <3> QED BY <3>3, <3>4
  <2>2. CASE j = f
    BY <1>2, <1>9, <1>10, <2>0, <2>2
  <2>3. CASE i # f /\ j # f /\ j \in path /\ j > f
    <3>1. h[j] = j \div 2 /\ j \div 2 \in path /\ j \div 2 >= f
      BY <1>7, <1>9, <2>3
    <3>2. CASE i \in path /\ i > f
      <4>1. i <= j \div 2 /\ h[i] = i \div 2 /\ i \div 2 < i
        BY <1>3, <1>7, <1>9, <1>10, <2>3, <3>2
      <4> QED BY <2>0, <3>1, <4>1
    <3>3. CASE ~ (i \in path /\ i > f)
      <4>1. h[i] = i
        BY <1>9, <2>3, <3>3
      <4> QED BY <2>0, <2>3, <3>1, <3>3, <4>1
    <3> QED BY <3>2, <3>3
  <2>4. CASE i # f /\ j # f /\ ~ (j \in path /\ j > f)
    <3>1. h[j] = j
      BY <1>9, <2>4
    <3>2. h[i] = i \/ h[i] = i \div 2
      BY <1>9, <2>4
    <3> QED BY <1>10, <2>0, <3>1, <3>2
  <2> QED BY <2>1, <2>2, <2>3, <2>4
<1>11. \A i, j \in 1 .. n : h[i] = h[j] => i = j
  <2> SUFFICES ASSUME NEW i \in 1 .. n, NEW j \in 1 .. n, i # j PROVE h[i] # h[j]
    OBVIOUS
  <2>1. i < j \/ j < i
    OBVIOUS
  <2> QED BY <1>10, <2>1
<1>12. ASSUME NEW j \in 1 .. n PROVE \E i \in 1 .. n : h[i] = j
  <2>0. f \in 1 .. n /\ j \in Nat
    BY <1>3, <1>4
  <2>1. CASE j = n
    BY <1>9, <2>0, <2>1
  <2>2. CASE j # n /\ j \in path /\ j >= f
    <3>1. PICK d \in path : d \div 2 = j /\ d > j
      BY <1>3, <2>2
    <3>2. d \in 1 .. n /\ d > f
      BY <1>3, <2>0, <2>2, <3>1
    <3> QED BY <1>9, <3>1, <3>2
  <2>3. CASE j # n /\ ~ (j \in path /\ j >= f)
    BY <1>4, <1>9, <2>0, <2>3
  <2> QED BY <2>1, <2>2, <2>3
<1>13. ASSUME NEW i \in 1 .. n PROVE A'[i] = B[h[i]]
  <2>1. CASE i = f
    BY <1>5, <1>6, <1>9, <2>1
  <2>2. CASE i # f /\ i \in path /\ i > f
    <3>1. i \div 2 \in 1 .. n /\ i \div 2 # n
      BY <1>3, <1>7, <2>2
    <3> QED BY <1>5, <1>6, <1>9, <2>2, <3>1
  <2>3. CASE i # f /\ ~ (i \in path /\ i > f)
    <3>1. i # n
      BY <1>2, <1>3, <1>4, <2>3
    <3> QED BY <1>2, <1>5, <1>6, <1>9, <2>3, <3>1
  <2> QED BY <2>1, <2>2, <2>3
<1>14. Rearranges(h, n, B, A')
  BY <1>8, <1>11, <1>12, <1>13 DEF Rearranges
<1>15. \A v \in Values : Count(A', n, v) = Count(B, n, v)
  BY <1>2, <1>14, Rearranged DEF Count
<1>16. \A i \in 1 .. num_items : B[i] = A[i]
  BY <1>2, <1>6
<1> HIDE DEF n
<1> QED BY <1>1, <1>2, <1>6, <1>15, <1>16, InsertionAddsOne DEF n

\* A turn of insert exchanges two items, or none.
LEMMA SwapUpRefines ==
    ASSUME HeapButOne, SwapUp
    PROVE  bag' = bag /\ minval' = minval
<1> DEFINE p == child \div 2
           lt == Lt(A[child], A[p])
<1>1. /\ TypeOK /\ child \in 2 .. num_items /\ num_items' = num_items
      /\ A' = [A EXCEPT ![child] = IF lt THEN A[p] ELSE A[child],
                        ![p] = IF lt THEN A[child] ELSE A[p]]
      /\ minval' = minval
  BY DEF HeapButOne, OnlyChildOutOfOrder, SwapUp
<1>2. /\ num_items \in Nat /\ \A i \in 1 .. num_items : i \in Cells
      /\ child \in 1 .. num_items /\ p \in 1 .. num_items /\ p # child
  BY <1>1, Typed
<1> HIDE DEF p, lt
<1>3. /\ A'[child] = IF lt THEN A[p] ELSE A[child]
      /\ A'[p] = IF lt THEN A[child] ELSE A[p]
      /\ \A i \in 1 .. num_items : i # child /\ i # p => A'[i] = A[i]
  BY <1>1, <1>2 DEF TypeOK
<1>4. ASSUME NEW v \in Values PROVE Count(A', num_items, v) = Count(A, num_items, v)
  <2>1. CASE lt
    BY <1>2, <1>3, <2>1, Exchanged DEF Count
  <2>2. CASE ~ lt
    BY <1>2, <1>3, <2>2, SameArray DEF Count
  <2> QED BY <2>1, <2>2
<1> QED BY <1>1, <1>4, BagCounts

\* So does a turn of extract_min.
LEMMA RestoreRefines ==
    ASSUME HeapButOne, Restore
    PROVE  bag' = bag /\ minval' = minval
<1> DEFINE s == smaller
<1>1. /\ TypeOK /\ EmptyCellsAreMax /\ num_items' = num_items /\ minval' = minval
  BY DEF HeapButOne, Restore, RestoreWith
<1>2. PICK c \in {2 * s, 2 * s + 1}, lt \in BOOLEAN :
              /\ s \in Cells /\ s \in Nat /\ s >= 1
              /\ 2 * s \in Cells /\ 2 * s + 1 \in Cells
              /\ lt <=> A[c] < A[s]
              /\ A'[s] = IF lt THEN A[c] ELSE A[s]
              /\ A'[c] = IF lt THEN A[s] ELSE A[c]
              /\ \A i \in Cells : i # s /\ i # c => A'[i] = A[i]
  BY RestoreCells
<1> HIDE DEF s
<1>3. c \in Nat /\ c \in Cells /\ c > s
  BY <1>2
<1>4. /\ num_items \in Nat /\ \A i \in 1 .. num_items : i \in Cells
      /\ \A i \in Cells : A[i] \in Nat /\ A[i] <= MaxInt
      /\ MaxInt \in Nat
  BY <1>1, Typed
<1>5. ASSUME NEW v \in Values PROVE Count(A', num_items, v) = Count(A, num_items, v)
  <2>1. CASE lt
    <3>1. A[c] < MaxInt
      BY <1>2, <1>3, <1>4, <2>1
    <3>2. ~ (c > num_items)
      BY <1>1, <1>3, <1>4, <3>1 DEF EmptyCellsAreMax
    <3>3. c \in 1 .. num_items /\ s \in 1 .. num_items
      BY <1>2, <1>3, <1>4, <3>2
    <3>4. /\ A'[s] = A[c] /\ A'[c] = A[s]
          /\ \A i \in 1 .. num_items : i # s /\ i # c => A'[i] = A[i]
      BY <1>2, <1>4, <2>1
    <3> QED BY <1>4, <3>3, <3>4, Exchanged DEF Count
  <2>2. CASE ~ lt
    <3>1. \A i \in 1 .. num_items : A'[i] = A[i]
      BY <1>2, <1>4, <2>2
    <3> QED BY <3>1, SameArray DEF Count
  <2> QED BY <2>1, <2>2
<1> QED BY <1>1, <1>5, BagCounts

\* extract_min returns a least item, and takes it out of the bag.
LEMMA ExtractMinRefines ==
    ASSUME HeapButOne, NEW opt \in BOOLEAN, ExtractMin(opt)
    PROVE  \E val \in Values : Queue!ExtractMin(val)
<1> DEFINE n == num_items
           B == [[A EXCEPT ![1] = A[n]] EXCEPT ![n] = A[1]]
<1>1. /\ TypeOK /\ pc = "idle" /\ n > 0
      /\ minval' = A[1]
      /\ A' = [[A EXCEPT ![1] = A[n]] EXCEPT ![n] = MaxInt]
      /\ num_items' = n - 1
  BY DEF HeapButOne, ExtractMin, ExtractWith
<1>2. /\ n \in Nat /\ n >= 1 /\ n - 1 \in Nat /\ \A i \in 1 .. n : i \in Cells
      /\ 1 \in 1 .. n /\ n \in 1 .. n
      /\ \A i \in Cells : A[i] \in Values /\ A[i] \in Nat
  BY <1>1, Typed
<1>3. A[1] \in Values /\ \A i \in 1 .. n : A[1] <= A[i]
  BY <1>1, <1>2, RootIsMinimum
<1>4. /\ B[n] = A[1] /\ B[1] = A[n]
      /\ \A i \in 1 .. n : i # 1 /\ i # n => B[i] = A[i]
      /\ \A i \in 1 .. n - 1 : A'[i] = B[i]
  BY <1>1, <1>2 DEF TypeOK
<1> HIDE DEF n, B
<1>5. ASSUME NEW v \in Values
      PROVE  Count(A, n, v) = IF A[1] = v THEN Count(A', n - 1, v) + 1
                              ELSE Count(A', n - 1, v)
  <2>1. Count(B, n, v) = Count(A, n, v)
    BY <1>2, <1>4, Exchanged DEF Count
  <2>2. Items(A', n - 1, v) = Items(B, n - 1, v)
    BY <1>4, SameArray
  <2>3. Cardinality(Items(B, n, v)) = IF B[n] = v THEN Cardinality(Items(B, n - 1, v)) + 1
                                      ELSE Cardinality(Items(B, n - 1, v))
    BY <1>2, LastItem
  <2> QED BY <1>4, <2>1, <2>2, <2>3 DEF Count
<1>6. /\ bag = [v \in Values |-> Count(A, n, v)]
      /\ bag' = [v \in Values |-> Count(A', n - 1, v)]
  BY <1>1, BagCounts DEF n
<1>7. \A v \in Values : Count(A, n, v) \in Nat /\ Count(A', n - 1, v) \in Nat
  BY <1>2, CountIsNat
<1>8. bag[A[1]] > 0
  <2>1. bag[A[1]] = Count(A', n - 1, A[1]) + 1 /\ Count(A', n - 1, A[1]) \in Nat
    BY <1>3, <1>5, <1>6, <1>7
  <2> QED BY <2>1
<1>9. ASSUME NEW v \in Values, v < A[1] PROVE bag[v] = 0
  <2>1. Items(A, n, v) = {}
    <3>1. \A i \in 1 .. n : A[i] # v
      BY <1>2, <1>3, <1>9
    <3> QED BY <3>1 DEF Items
  <2> QED BY <1>6, <2>1, FS_EmptySet DEF Count
<1>10. bag' = [bag EXCEPT ![A[1]] = @ - 1]
  <2>1. \A v \in Values : bag'[v] = IF v = A[1] THEN bag[v] - 1 ELSE bag[v]
    BY <1>5, <1>6, <1>7
  <2> QED BY <1>6, <2>1
<1>11. Queue!ExtractMin(A[1])
  BY <1>1, <1>8, <1>9, <1>10 DEF Queue!ExtractMin, Queue!Values, Values
<1> QED BY <1>3, <1>11

LEMMA HeapInitRefines == Init => Queue!Init
<1> SUFFICES ASSUME Init PROVE Queue!Init
  OBVIOUS
<1>1. TypeOK
  BY InitHeap DEF HeapButOne
<1>2. num_items \in Nat
  BY <1>1, Typed
<1>3. bag \in [Values -> Nat]
  BY <1>2, BagCounts, CountIsNat
<1> QED BY <1>3 DEF Init, Queue!Init, Queue!Values, Values

LEMMA HeapNextRefines ==
    ASSUME HeapButOne, [Next]_vars
    PROVE  [Queue!Next]_<<bag, minval>>
<1>0. Queue!Values = Values
  BY DEF Queue!Values, Values
<1>1. CASE UNCHANGED vars
  BY <1>1 DEF vars, bag
<1>2. ASSUME NEW val \in Values, Insert(val) \/ InsertOptimized(val)
      PROVE  Queue!Next
  BY <1>0, <1>2, InsertRefines, InsertOptimizedRefines DEF Queue!Next
<1>3. CASE SwapUp
  BY <1>3, SwapUpRefines
<1>4. ASSUME NEW opt \in BOOLEAN, ExtractMin(opt) PROVE Queue!Next
  BY <1>0, <1>4, ExtractMinRefines DEF Queue!Next
<1>5. CASE Restore
  BY <1>5, RestoreRefines
<1> QED BY <1>1, <1>2, <1>3, <1>4, <1>5 DEF Next

\* A MinHeap of any size implements a priority queue (heap.hpp:12-60): no item
\* is lost, doubled or made up, and extract_min returns a least one, for
\* insert and insert_optimized, and for the basic and the optimized extraction.
THEOREM HeapIsPriorityQueue == Spec => ImplementsQueue
<1>1. Init => Queue!Init
  BY HeapInitRefines
<1>2. HeapButOne /\ [Next]_vars => [Queue!Next]_<<bag, minval>>
  BY HeapNextRefines
<1> QED BY <1>1, <1>2, HeapInvariant, PTL DEF Spec, ImplementsQueue, Queue!Spec

=============================================================================
