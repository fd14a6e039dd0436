-------------------------- MODULE CacheHeapProofs --------------------------
(***************************************************************************)
(* Proofs about CacheHeap.tla, for arrays of any depth and any greatest    *)
(* value: the cache is the frontier of the extracted nodes, a least one    *)
(* first, and the items that are left are a priority queue.                *)
(***************************************************************************)
EXTENDS CacheHeap, Basics

-----------------------------------------------------------------------------
(* Powers of 2.                                                            *)

LEMMA ShlFacts ==
    /\ Shl[0] = 1
    /\ \A n \in Nat : Shl[n] \in Nat \ {0} /\ Shl[n + 1] = 2 * Shl[n]
<1>1. Shl = CHOOSE c : Doubles(c)
  BY DEF Shl, Doubles
<1>2. IsPowers(Shl)
  BY <1>1, PowersOf2
<1> QED BY <1>2 DEF IsPowers

LEMMA SizeFacts ==
    /\ Size \in Nat /\ Size >= 2 /\ Size % 2 = 0
    /\ 0 \in Cells /\ 1 \in Cells
    /\ Depth \in Nat
    /\ \A i : i \in Cells <=> i \in Nat /\ i < Size
<1>1. Depth \in Nat /\ Depth - 1 \in Nat /\ (Depth - 1) + 1 = Depth
  BY DepthAssumption
<1>2. Shl[Depth - 1] \in Nat \ {0} /\ Shl[Depth] = 2 * Shl[Depth - 1]
  BY <1>1, ShlFacts
<1> QED BY <1>1, <1>2 DEF Size, Cells

\* Halving a cell Depth times comes down to nothing.
Halving(h, cell) ==
    /\ h \in [Nat -> Nat] /\ h[0] = cell
    /\ \A n \in Nat : h[n + 1] = h[n] \div 2

LEMMA HalvingEnds ==
    ASSUME NEW cell \in Cells, NEW h, Halving(h, cell)
    PROVE  /\ h[Depth] = 0
           /\ \A n \in Nat : h[n] \in Cells
           /\ \A m, n \in Nat : m <= n => h[n] <= h[m]
<1> DEFINE T == {n \in Nat : n <= Depth => h[n] < Shl[Depth - n]}
           U == {n \in Nat : h[n] \in Cells}
<1>1. Depth \in Nat
  BY SizeFacts
<1>2. \A n \in Nat : n \in T
  <2>1. 0 \in T
    BY <1>1, SizeFacts DEF Halving, Size
  <2>2. ASSUME NEW n \in Nat, n \in T, n + 1 <= Depth PROVE h[n + 1] < Shl[Depth - (n + 1)]
    <3> DEFINE k == Depth - (n + 1)
    <3>1. k \in Nat /\ k + 1 = Depth - n /\ n <= Depth
      BY <1>1, <2>2
    <3>2. Shl[k] \in Nat /\ Shl[k + 1] = 2 * Shl[k]
      BY <3>1, ShlFacts
    <3>3. h[n] \in Nat /\ h[n] < Shl[k + 1] /\ h[n + 1] = h[n] \div 2
      BY <2>2, <3>1 DEF Halving
    <3> HIDE DEF k
    <3>4. h[n + 1] < Shl[k]
      BY <3>2, <3>3
    <3> QED BY <3>4 DEF k
  <2>3. \A n \in Nat : n \in T => n + 1 \in T
    BY <2>2
  <2> HIDE DEF T
  <2> QED BY <2>1, <2>3, SetInduction
<1>3. h[Depth] = 0
  <2>1. h[Depth] < Shl[Depth - Depth] /\ h[Depth] \in Nat
    BY <1>1, <1>2 DEF Halving
  <2>2. Depth - Depth = 0
    BY <1>1
  <2> QED BY <2>1, <2>2, ShlFacts
<1>4. \A n \in Nat : h[n + 1] \in Nat /\ h[n] \in Nat /\ h[n + 1] <= h[n]
  BY DEF Halving
<1>5. \A n \in Nat : n \in U
  <2>1. 0 \in U
    BY DEF Halving
  <2>2. ASSUME NEW n \in Nat, n \in U PROVE n + 1 \in U
    BY <1>4, <2>2, SizeFacts
  <2> HIDE DEF U
  <2> QED BY <2>1, <2>2, SetInduction
<1>6. ASSUME NEW m \in Nat PROVE \A n \in Nat : m <= n => h[n] <= h[m]
  <2> DEFINE V == {n \in Nat : m <= n => h[n] <= h[m]}
  <2>1. 0 \in V
    BY <1>4
  <2>2. ASSUME NEW n \in Nat, n \in V PROVE n + 1 \in V
    <3>1. CASE m = n + 1
      BY <1>4, <3>1
    <3>2. CASE m # n + 1
      BY <1>4, <2>2, <3>2
    <3> QED BY <3>1, <3>2
  <2> HIDE DEF V
  <2>3. \A n \in Nat : n \in V
    BY <2>1, <2>2, SetInduction
  <2> QED BY <2>3 DEF V
<1> QED BY <1>3, <1>5, <1>6

-----------------------------------------------------------------------------
(* The walk of Raised as a sequence of arrays and of cells.                *)

LEMMA TurnedType ==
    ASSUME NEW X, NEW B \in [Cells -> X], NEW child \in Cells, NEW rank, NEW at
    PROVE  /\ Turned(B, child, rank, at) \in [Cells -> X]
           /\ child \div 2 \in Cells
<1>1. child \div 2 \in Cells
  BY SizeFacts
<1> QED BY <1>1 DEF Turned

Walk(a, h, X, B, cell, rank, at) ==
    /\ a \in [Nat -> [Cells -> X]] /\ Halving(h, cell) /\ a[0] = B
    /\ \A n \in Nat : a[n + 1] = Turned(a[n], h[n], rank, at)

LEMMA RaisedWalks ==
    ASSUME NEW X, NEW B \in [Cells -> X], NEW cell \in Cells, NEW rank, NEW at
    PROVE  \E a, h : Walk(a, h, X, B, cell, rank, at) /\ Raised(B, cell, rank, at) = a[Depth]
<1> DEFINE S == [A : [Cells -> X], child : Cells]
           s == [A |-> B, child |-> cell]
           F == [w \in S |-> [A |-> Turned(w.A, w.child, rank, at), child |-> w.child \div 2]]
           Def(c) == c = [n \in 0 .. Depth |->
                            IF n = 0 THEN [A |-> B, child |-> cell]
                            ELSE LET w == c[n - 1]
                                 IN  [A |-> Turned(w.A, w.child, rank, at),
                                      child |-> w.child \div 2]]
<1>1. s \in S
  OBVIOUS
<1>2. F \in [S -> S]
  <2>1. ASSUME NEW w \in S
        PROVE  [A |-> Turned(w.A, w.child, rank, at), child |-> w.child \div 2] \in S
    BY TurnedType
  <2> QED BY <2>1
<1>3. PICK g \in [Nat -> S] : g[0] = s /\ \A i \in Nat : g[i + 1] = F[g[i]]
  <2> HIDE DEF S, F, s
  <2>1. HasOrbit(S, s, F)
    BY <1>1, <1>2, OrbitExists
  <2> QED BY <2>1 DEF HasOrbit
<1>4. \A i \in Nat : /\ g[i] \in S
                     /\ g[i + 1] = [A |-> Turned(g[i].A, g[i].child, rank, at),
                                    child |-> g[i].child \div 2]
  BY <1>3
<1> DEFINE k == [n \in 0 .. Depth |-> g[n]]
<1>5. Depth \in Nat
  BY SizeFacts
<1>6. Def(k)
  <2>1. ASSUME NEW n \in 0 .. Depth
        PROVE  g[n] = IF n = 0 THEN [A |-> B, child |-> cell]
                      ELSE LET w == k[n - 1]
                           IN  [A |-> Turned(w.A, w.child, rank, at), child |-> w.child \div 2]
    <3>1. CASE n = 0
      BY <1>3, <3>1
    <3>2. CASE n # 0
      <4>1. n - 1 \in Nat /\ n - 1 \in 0 .. Depth /\ (n - 1) + 1 = n
        BY <1>5, <3>2
      <4>2. k[n - 1] = g[n - 1]
        BY <4>1
      <4> HIDE DEF k, S
      <4> QED BY <1>4, <3>2, <4>1, <4>2
    <3> QED BY <3>1, <3>2
  <2> QED BY <2>1
<1> DEFINE c == CHOOSE f : Def(f)
<1>7. Def(c)
  <2> HIDE DEF Def, k
  <2> QED BY <1>6
<1>8. Raised(B, cell, rank, at) = c[Depth].A
  BY DEF Raised
<1>9. \A n \in 0 .. Depth : c[n] = g[n]
  <2> HIDE DEF c, S
  <2>1. c[0] = g[0]
    BY <1>3, <1>5, <1>7
  <2>2. ASSUME NEW n \in Nat, n < Depth, c[n] = g[n] PROVE c[n + 1] = g[n + 1]
    <3>1. n + 1 \in 0 .. Depth /\ n + 1 # 0 /\ (n + 1) - 1 = n
      BY <1>5, <2>2
    <3>2. c[n + 1] = LET w == c[(n + 1) - 1]
                     IN  [A |-> Turned(w.A, w.child, rank, at), child |-> w.child \div 2]
      BY <1>7, <3>1
    <3> HIDE <1>7
    <3> QED BY <1>4, <2>2, <3>1, <3>2
  <2> HIDE DEF Def, k, F, s
  <2> QED BY <1>5, <2>1, <2>2, RecursionIs
<1> DEFINE a == [n \in Nat |-> g[n].A]
           h == [n \in Nat |-> g[n].child]
<1> HIDE DEF c, k, F
<1>10. a \in [Nat -> [Cells -> X]] /\ h \in [Nat -> Cells]
  BY <1>4
<1>11. Cells \subseteq Nat
  BY SizeFacts
<1>12. Walk(a, h, X, B, cell, rank, at)
  <2>1. a[0] = B /\ h[0] = cell
    BY <1>3
  <2>2. ASSUME NEW n \in Nat
        PROVE  a[n + 1] = Turned(a[n], h[n], rank, at) /\ h[n + 1] = h[n] \div 2
    <3>1. /\ a[n + 1] = g[n + 1].A /\ h[n + 1] = g[n + 1].child
          /\ a[n] = g[n].A /\ h[n] = g[n].child
      OBVIOUS
    <3>2. g[n + 1] = [A |-> Turned(g[n].A, g[n].child, rank, at),
                      child |-> g[n].child \div 2]
      BY <1>4
    <3> HIDE DEF a, h, S
    <3> QED BY <3>1, <3>2
  <2> HIDE DEF a, h
  <2> QED BY <1>10, <1>11, <2>1, <2>2 DEF Walk, Halving
<1>13. Raised(B, cell, rank, at) = a[Depth]
  BY <1>5, <1>8, <1>9
<1> HIDE DEF a, h
<1> QED BY <1>10, <1>12, <1>13

\* What exchanges a child and its parent below n rearranges the first n cells.
RearrangesTo(n, B, C) ==
    /\ \E f : Rearranges(f, n, B, C)
    /\ \A i \in Cells \ (1 .. n) : C[i] = B[i]

LEMMA TurnedCells ==
    ASSUME NEW X, NEW B \in [Cells -> X], NEW child \in Cells, NEW rank, NEW at,
           NEW C, C = Turned(B, child, rank, at), NEW parent, parent = child \div 2
    PROVE  \/ C = B
           \/ /\ parent > 0 /\ parent < child /\ rank[B[child]] < rank[B[parent]]
              /\ parent \in at
              /\ C[child] = B[parent] /\ C[parent] = B[child]
              /\ \A i \in Cells : i # child /\ i # parent => C[i] = B[i]
<1>1. child \in Nat /\ parent \in Nat /\ parent \in Cells /\ (parent > 0 => parent < child)
  BY SizeFacts
<1> QED BY <1>1 DEF Turned

LEMMA TurnedRearranges ==
    ASSUME NEW X, NEW B \in [Cells -> X], NEW n \in Cells, NEW child \in Cells, child <= n,
           NEW rank, NEW at
    PROVE  RearrangesTo(n, B, Turned(B, child, rank, at))
<1>1. PICK C, parent : C = Turned(B, child, rank, at) /\ parent = child \div 2
  OBVIOUS
<1>2. n \in Nat /\ child \in Nat /\ parent \in Nat /\ 1 .. n \subseteq Cells
  BY <1>1, SizeFacts
<1>3. CASE C = B
  <2>1. \E f : Rearranges(f, n, B, C)
    BY <1>2, <1>3, SameRearranges
  <2> QED BY <1>1, <1>3, <2>1 DEF RearrangesTo
<1>4. CASE /\ parent > 0 /\ parent < child
           /\ C[child] = B[parent] /\ C[parent] = B[child]
           /\ \A i \in Cells : i # child /\ i # parent => C[i] = B[i]
  <2>1. child \in 1 .. n /\ parent \in 1 .. n
    BY <1>2, <1>4
  <2>2. \A i \in 1 .. n : i # child /\ i # parent => C[i] = B[i]
    BY <1>2, <1>4
  <2>3. \E f : Rearranges(f, n, B, C)
    BY <1>2, <1>4, <2>1, <2>2, ExchangeRearranges
  <2> QED BY <1>1, <1>4, <2>1, <2>3 DEF RearrangesTo
<1>5. C = B \/ (/\ parent > 0 /\ parent < child
                /\ C[child] = B[parent] /\ C[parent] = B[child]
                /\ \A i \in Cells : i # child /\ i # parent => C[i] = B[i])
  BY <1>1, TurnedCells
<1> QED BY <1>3, <1>4, <1>5

LEMMA RearrangesTwice ==
    ASSUME NEW n \in Nat, NEW B, NEW C, NEW D, RearrangesTo(n, B, C), RearrangesTo(n, C, D)
    PROVE  RearrangesTo(n, B, D)
<1>1. PICK f : Rearranges(f, n, B, C)
  BY DEF RearrangesTo
<1>2. PICK g : Rearranges(g, n, C, D)
  BY DEF RearrangesTo
<1>3. \E m : Rearranges(m, n, B, D)
  BY <1>1, <1>2, TwiceRearranged
<1> QED BY <1>3 DEF RearrangesTo

\* What holds of every array that the walk makes holds of the last one.
Kept(W, rank, at) ==
    \A x \in Cells : \A A \in W[x] : Turned(A, x, rank, at) \in W[x \div 2]

LEMMA RaisedInduction ==
    ASSUME NEW X, NEW B \in [Cells -> X], NEW cell \in Cells, NEW rank, NEW at, NEW W,
           B \in W[cell], Kept(W, rank, at)
    PROVE  Raised(B, cell, rank, at) \in W[0]
<1>1. PICK a, h : Walk(a, h, X, B, cell, rank, at) /\ Raised(B, cell, rank, at) = a[Depth]
  BY RaisedWalks
<1>2. Halving(h, cell)
  BY <1>1 DEF Walk
<1>3. Depth \in Nat /\ h[Depth] = 0 /\ h[0] = cell /\ \A n \in Nat : h[n] \in Cells
  BY <1>2, HalvingEnds, SizeFacts DEF Halving
<1> DEFINE T == {n \in Nat : a[n] \in W[h[n]]}
<1>4. 0 \in T
  BY <1>1, <1>3 DEF Walk
<1>5. ASSUME NEW n \in Nat, n \in T PROVE n + 1 \in T
  <2>1. a[n + 1] = Turned(a[n], h[n], rank, at) /\ h[n + 1] = h[n] \div 2
    BY <1>1, <1>2 DEF Walk, Halving
  <2>2. a[n] \in W[h[n]] /\ h[n] \in Cells
    BY <1>3, <1>5
  <2> QED BY <2>1, <2>2 DEF Kept
<1>6. Depth \in T
  <2> HIDE DEF T
  <2> QED BY <1>3, <1>4, <1>5, SetInduction
<1> QED BY <1>1, <1>3, <1>6

LEMMA RaisedRearranges ==
    ASSUME NEW X, NEW B \in [Cells -> X], NEW n \in Cells, NEW cell \in Cells, cell <= n,
           NEW rank, NEW at
    PROVE  /\ Raised(B, cell, rank, at) \in [Cells -> X]
           /\ RearrangesTo(n, B, Raised(B, cell, rank, at))
<1> DEFINE W == [x \in Cells |-> {A \in [Cells -> X] : x <= n /\ RearrangesTo(n, B, A)}]
<1>1. n \in Nat /\ 0 \in Cells
  BY SizeFacts
<1>2. B \in W[cell]
  <2>1. \E f : Rearranges(f, n, B, B)
    BY <1>1, SameRearranges
  <2> QED BY <2>1 DEF RearrangesTo
<1>3. Kept(W, rank, at)
  <2> SUFFICES ASSUME NEW x \in Cells, NEW A \in W[x]
               PROVE  Turned(A, x, rank, at) \in W[x \div 2]
    BY DEF Kept
  <2>1. A \in [Cells -> X] /\ x <= n /\ RearrangesTo(n, B, A)
    OBVIOUS
  <2>2. RearrangesTo(n, A, Turned(A, x, rank, at))
    BY <2>1, TurnedRearranges
  <2>3. RearrangesTo(n, B, Turned(A, x, rank, at))
    BY <1>1, <2>1, <2>2, RearrangesTwice
  <2>4. Turned(A, x, rank, at) \in [Cells -> X] /\ x \div 2 \in Cells
    BY <2>1, TurnedType
  <2>5. x \div 2 <= n
    BY <1>1, <2>1, SizeFacts
  <2> QED BY <2>3, <2>4, <2>5
<1>4. Raised(B, cell, rank, at) \in W[0]
  <2> HIDE DEF W
  <2> QED BY <1>2, <1>3, RaisedInduction
<1> QED BY <1>1, <1>4
\* A walk that may exchange every pair brings up what ranks least.  P is the
\* path of the walk until it comes to x, and up to the root when x is 0.
Top(x) == IF x > 0 THEN x ELSE 1

Brought(P, A, B, rank, x) ==
    /\ P \subseteq Cells \ {0} /\ Top(x) \in P
    /\ \A c \in P : x <= c /\ rank[A[Top(x)]] <= rank[A[c]]
    /\ \A c \in P : c >= 2 => c \div 2 \in P \/ c = x
    /\ \A i \in Cells \ P : A[i] = B[i]
    /\ rank[A[1]] <= rank[B[1]]

LEMMA BroughtStep ==
    ASSUME NEW X, NEW A \in [Cells -> X], NEW B \in [Cells -> X], NEW rank \in [X -> Nat],
           NEW x \in Cells, NEW P, Brought(P, A, B, rank, x)
    PROVE  \E Q : P \subseteq Q /\ Brought(Q, Turned(A, x, rank, Cells), B, rank, x \div 2)
<1>1. PICK D, y : D = Turned(A, x, rank, Cells) /\ y = x \div 2
  OBVIOUS
<1>2. /\ x \in Nat /\ y \in Nat /\ y \in Cells /\ 1 \in Cells /\ Cells \subseteq Nat
      /\ D \in [Cells -> X] /\ y <= x
  <2>1. Turned(A, x, rank, Cells) \in [Cells -> X] /\ x \div 2 \in Cells
    BY TurnedType
  <2>2. x \in Nat /\ x \div 2 \in Nat /\ x \div 2 <= x /\ 1 \in Cells /\ Cells \subseteq Nat
    BY SizeFacts
  <2> QED BY <1>1, <2>1, <2>2
<1>3. \A i \in Cells : rank[A[i]] \in Nat /\ rank[D[i]] \in Nat /\ rank[B[i]] \in Nat
  BY <1>2
<1>4. CASE y = 0
  <2>1. D = A
    BY <1>1, <1>2, <1>4 DEF Turned
  <2>2. Top(x) = 1 /\ Top(y) = 1 /\ x < 2
    BY <1>1, <1>2, <1>4 DEF Top
  <2>3. Brought(P, D, B, rank, y)
    BY <1>2, <1>4, <2>1, <2>2 DEF Brought
  <2> QED BY <1>1, <2>3
<1>5. CASE y > 0
  <2>1. y < x /\ x > 0 /\ Top(x) = x /\ Top(y) = y /\ x >= 2
    BY <1>1, <1>2, <1>5 DEF Top
  <2>2. \/ D = A /\ rank[A[y]] <= rank[A[x]]
        \/ /\ rank[A[x]] < rank[A[y]] /\ D[x] = A[y] /\ D[y] = A[x]
           /\ \A i \in Cells : i # x /\ i # y => D[i] = A[i]
    <3>1. ~ (rank[A[x]] < rank[A[y]]) => D = A
      BY <1>1, <1>2 DEF Turned
    <3>2. rank[A[x]] < rank[A[y]] => D = [A EXCEPT ![x] = A[y], ![y] = A[x]]
      BY <1>1, <1>2, <1>5 DEF Turned
    <3> QED BY <1>2, <1>3, <2>1, <3>1, <3>2
  <2>3. /\ P \subseteq Cells \ {0} /\ x \in P
        /\ \A c \in P : x <= c /\ rank[A[x]] <= rank[A[c]]
        /\ \A c \in P : c >= 2 => c \div 2 \in P \/ c = x
        /\ \A i \in Cells \ P : A[i] = B[i]
        /\ rank[A[1]] <= rank[B[1]]
    BY <2>1 DEF Brought
  <2> DEFINE Q == P \cup {y}
  <2>4. Q \subseteq Cells \ {0} /\ Top(y) \in Q
    BY <1>2, <1>5, <2>1, <2>3
  <2>5. ASSUME NEW c \in Q PROVE y <= c /\ rank[D[y]] <= rank[D[c]]
    <3>1. c \in Cells /\ c \in Nat
      BY <1>2, <2>4
    <3>2. CASE c = y
      BY <1>2, <1>3, <3>2
    <3>3. CASE c # y
      <4>1. x <= c /\ rank[A[x]] <= rank[A[c]]
        BY <2>3, <3>3
      <4>2. rank[D[y]] <= rank[D[c]]
        BY <1>2, <1>3, <2>2, <3>1, <3>3, <4>1
      <4> QED BY <1>2, <3>1, <4>1, <4>2
    <3> QED BY <3>2, <3>3
  <2>6. ASSUME NEW c \in Q, c >= 2 PROVE c \div 2 \in Q \/ c = y
    BY <1>1, <2>3, <2>6
  <2>7. ASSUME NEW i \in Cells \ Q PROVE D[i] = B[i]
    BY <2>2, <2>3
  <2>8. rank[D[1]] <= rank[B[1]]
    <3>1. rank[D[1]] <= rank[A[1]]
      BY <1>2, <1>3, <2>1, <2>2
    <3> QED BY <1>2, <1>3, <2>3, <3>1
  <2> HIDE DEF Q
  <2>9. Brought(Q, D, B, rank, y)
    BY <2>1, <2>4, <2>5, <2>6, <2>7, <2>8 DEF Brought
  <2>10. P \subseteq Q
    BY DEF Q
  <2> QED BY <1>1, <2>9, <2>10
<1> QED BY <1>2, <1>4, <1>5

LEMMA RaisedRoot ==
    ASSUME NEW X, NEW B \in [Cells -> X], NEW cell \in Cells, cell >= 1, NEW rank \in [X -> Nat]
    PROVE  \E P : cell \in P /\ Brought(P, Raised(B, cell, rank, Cells), B, rank, 0)
<1> DEFINE W == [x \in Cells |->
                   {A \in [Cells -> X] : \E P : cell \in P /\ Brought(P, A, B, rank, x)}]
<1>1. 0 \in Cells /\ 1 \in Cells /\ cell \in Nat
  BY SizeFacts
<1>2. B \in W[cell]
  <2>1. Top(cell) = cell /\ rank[B[cell]] \in Nat /\ rank[B[1]] \in Nat
    BY <1>1 DEF Top
  <2>2. Brought({cell}, B, B, rank, cell)
    BY <1>1, <2>1 DEF Brought
  <2> QED BY <2>2
<1>3. Kept(W, rank, Cells)
  <2> SUFFICES ASSUME NEW x \in Cells, NEW A \in W[x]
               PROVE  Turned(A, x, rank, Cells) \in W[x \div 2]
    BY DEF Kept
  <2>1. PICK P : cell \in P /\ Brought(P, A, B, rank, x)
    OBVIOUS
  <2>2. A \in [Cells -> X]
    OBVIOUS
  <2>3. PICK Q : P \subseteq Q /\ Brought(Q, Turned(A, x, rank, Cells), B, rank, x \div 2)
    BY <2>1, <2>2, BroughtStep
  <2>4. Turned(A, x, rank, Cells) \in [Cells -> X] /\ x \div 2 \in Cells
    BY <2>2, TurnedType
  <2> QED BY <2>1, <2>3, <2>4
<1>4. Raised(B, cell, rank, Cells) \in W[0]
  <2> HIDE DEF W
  <2> QED BY <1>2, <1>3, RaisedInduction
<1> QED BY <1>1, <1>4
-----------------------------------------------------------------------------
(* Insertion into the tree.                                                *)

\* The first n cells are in heap order but for x and its parent, and x's
\* children are in order with x's parent.
HeapBut(A, n, x) ==
    /\ \A c \in 2 .. n : c # x => A[c \div 2] <= A[c]
    /\ \A c \in 2 .. n : c \div 2 = x /\ x >= 2 => A[x \div 2] <= A[c]

LEMMA HeapButStep ==
    ASSUME NEW A \in [Cells -> Values], NEW n \in Cells, NEW x \in Cells, x <= n,
           NEW at, 1 .. n \subseteq at, HeapBut(A, n, x)
    PROVE  HeapBut(Turned(A, x, [v \in Values |-> v], at), n, x \div 2)
<1>1. PICK D, y : D = Turned(A, x, [v \in Values |-> v], at) /\ y = x \div 2
  OBVIOUS
<1>2. /\ x \in Nat /\ y \in Nat /\ n \in Nat /\ y <= x /\ Cells \subseteq Nat
      /\ 1 .. n \subseteq Cells
  <2>1. x \in Nat /\ x \div 2 \in Nat /\ x \div 2 <= x /\ n \in Nat
    BY SizeFacts
  <2> QED BY <1>1, <2>1, SizeFacts
<1>3. \A i \in 1 .. n : A[i] \in Nat
  BY <1>2, MaxIntAssumption DEF Values
<1>4. \A c \in 2 .. n : c \div 2 \in 1 .. n /\ c \div 2 < c /\ c \in 1 .. n
  BY <1>2
<1>5. /\ \A c \in 2 .. n : c # x => A[c \div 2] <= A[c]
      /\ \A c \in 2 .. n : c \div 2 = x /\ x >= 2 => A[y] <= A[c]
  BY <1>1 DEF HeapBut
<1>6. CASE y = 0
  <2>1. D = A /\ x < 2
    BY <1>1, <1>2, <1>6 DEF Turned
  <2>2. HeapBut(D, n, y)
    BY <1>2, <1>4, <1>5, <1>6, <2>1 DEF HeapBut
  <2> QED BY <1>1, <2>2
<1>7. CASE y > 0
  <2>1. x \in 2 .. n /\ y \in 1 .. n /\ y < x /\ x \in 1 .. n
    BY <1>1, <1>2, <1>7
  <2>2. CASE A[x] < A[y]
    <3>1. /\ D[x] = A[y] /\ D[y] = A[x]
          /\ \A i \in 1 .. n : i # x /\ i # y => D[i] = A[i]
      <4>1. D = [A EXCEPT ![x] = A[y], ![y] = A[x]]
        BY <1>1, <1>2, <1>7, <2>1, <2>2 DEF Turned
      <4> QED BY <1>2, <2>1, <4>1
    <3>2. ASSUME NEW c \in 2 .. n, c # y PROVE D[c \div 2] <= D[c]
      <4>1. PICK p : p = c \div 2
        OBVIOUS
      <4>2. c \in 1 .. n /\ p \in 1 .. n /\ p < c /\ (c # x => A[p] <= A[c])
        BY <1>4, <1>5, <4>1
      <4>3. CASE c = x
        BY <1>1, <1>3, <2>1, <2>2, <3>1, <4>1, <4>3
      <4>4. CASE c # x /\ p = x
        <5>1. A[y] <= A[c]
          BY <1>5, <2>1, <4>1, <4>4
        <5> QED BY <3>1, <3>2, <4>1, <4>2, <4>4, <5>1
      <4>5. CASE c # x /\ p = y
        <5>1. A[x] <= A[c]
          BY <1>3, <2>1, <2>2, <4>2, <4>5
        <5> QED BY <3>1, <3>2, <4>1, <4>2, <4>5, <5>1
      <4>6. CASE c # x /\ p # x /\ p # y
        BY <3>1, <3>2, <4>1, <4>2, <4>6
      <4> QED BY <4>3, <4>4, <4>5, <4>6
    <3>3. ASSUME NEW c \in 2 .. n, c \div 2 = y, y >= 2 PROVE D[y \div 2] <= D[c]
      <4>1. PICK q : q = y \div 2
        OBVIOUS
      <4>2. q \in 1 .. n /\ q < y /\ A[q] <= A[y] /\ q # x
        <5>1. y \in 2 .. n /\ y # x
          BY <2>1, <3>3
        <5> QED BY <1>2, <1>4, <1>5, <2>1, <4>1, <5>1
      <4>3. D[q] = A[q]
        BY <2>1, <3>1, <4>2
      <4>4. CASE c = x
        BY <3>1, <4>1, <4>2, <4>3, <4>4
      <4>5. CASE c # x
        <5>1. A[y] <= A[c] /\ c \in 1 .. n /\ c # y
          BY <1>4, <1>5, <3>3, <4>5
        <5>2. A[q] <= A[c]
          BY <1>3, <2>1, <4>2, <5>1
        <5> QED BY <3>1, <4>1, <4>3, <4>5, <5>1, <5>2
      <4> QED BY <4>4, <4>5
    <3>4. HeapBut(D, n, y)
      BY <3>2, <3>3 DEF HeapBut
    <3> QED BY <1>1, <3>4
  <2>3. CASE ~ (A[x] < A[y])
    <3>1. D = A
      BY <1>1, <1>2, <2>1, <2>3 DEF Turned
    <3>2. A[y] <= A[x]
      BY <1>3, <2>1, <2>3
    <3>3. \A c \in 2 .. n : A[c \div 2] <= A[c]
      BY <1>1, <1>5, <3>2
    <3>4. ASSUME NEW c \in 2 .. n, c \div 2 = y, y >= 2 PROVE A[y \div 2] <= A[c]
      <4>1. y \in 2 .. n
        BY <2>1, <3>4
      <4>2. A[y \div 2] <= A[y] /\ A[y] <= A[c]
        BY <3>3, <3>4, <4>1
      <4>3. y \div 2 \in 1 .. n /\ c \in 1 .. n
        BY <1>4, <4>1
      <4> QED BY <1>3, <2>1, <4>2, <4>3
    <3>5. HeapBut(D, n, y)
      BY <3>1, <3>3, <3>4 DEF HeapBut
    <3> QED BY <1>1, <3>5
  <2> QED BY <2>2, <2>3
<1> QED BY <1>2, <1>6, <1>7

\* The tree is in heap order.
Ordered(A, n) == \A c \in 2 .. n : A[c \div 2] <= A[c]

LEMMA RaisedOrdered ==
    ASSUME NEW B \in [Cells -> Values], NEW n \in Cells, n >= 1, NEW at, 1 .. n \subseteq at,
           Ordered(B, n - 1)
    PROVE  Ordered(Raised(B, n, [v \in Values |-> v], at), n)
<1> DEFINE rank == [v \in Values |-> v]
           W == [x \in Cells |-> {A \in [Cells -> Values] : x <= n /\ HeapBut(A, n, x)}]
<1>1. n \in Nat /\ 0 \in Cells
  BY SizeFacts
<1>2. B \in W[n]
  <2>1. \A c \in 2 .. n : c # n => c \in 2 .. n - 1
    BY <1>1
  <2>2. \A c \in 2 .. n : c \div 2 # n
    BY <1>1
  <2>3. HeapBut(B, n, n)
    BY <2>1, <2>2 DEF HeapBut, Ordered
  <2> QED BY <1>1, <2>3
<1>3. Kept(W, rank, at)
  <2> SUFFICES ASSUME NEW x \in Cells, NEW A \in W[x]
               PROVE  Turned(A, x, rank, at) \in W[x \div 2]
    BY DEF Kept
  <2>1. A \in [Cells -> Values] /\ x <= n /\ HeapBut(A, n, x)
    OBVIOUS
  <2>2. HeapBut(Turned(A, x, rank, at), n, x \div 2)
    BY <2>1, HeapButStep
  <2>3. Turned(A, x, rank, at) \in [Cells -> Values] /\ x \div 2 \in Cells
    BY <2>1, TurnedType
  <2>4. x \div 2 <= n
    BY <1>1, <2>1, SizeFacts
  <2> QED BY <2>2, <2>3, <2>4
<1>4. Raised(B, n, rank, at) \in W[0]
  <2> HIDE DEF W, rank
  <2> QED BY <1>2, <1>3, RaisedInduction
<1>5. HeapBut(Raised(B, n, rank, at), n, 0)
  BY <1>1, <1>4
<1> HIDE DEF rank
<1> QED BY <1>5 DEF HeapBut, Ordered, rank
-----------------------------------------------------------------------------
(* The cache.                                                              *)

Rank == [i \in Nat |-> Read(i)]

TreeOK == tree \in [Cells -> Values]

LEMMA RankType ==
    ASSUME TreeOK
    PROVE  /\ Rank \in [Nat -> Nat]
           /\ \A i \in Nat : i % Size \in Cells /\ Rank[i] = tree[i % Size]
           /\ \A i \in Cells : Rank[i] = tree[i]
<1>1. \A i \in Nat : i % Size \in Cells
  BY SizeFacts
<1>2. \A i \in Cells : i \in Nat /\ i % Size = i
  BY SizeFacts
<1>3. Values \subseteq Nat
  BY DEF Values
<1>4. \A i \in Nat : Read(i) \in Nat /\ Read(i) = tree[i % Size]
  BY <1>1, <1>3 DEF Read, TreeOK
<1> QED BY <1>1, <1>2, <1>4 DEF Rank

LEMMA RestoredFacts ==
    ASSUME TreeOK, NEW B \in [Cells -> Nat], NEW n \in Cells, NEW cell \in 1 .. n
    PROVE  /\ Restored(B, cell) \in [Cells -> Nat]
           /\ RearrangesTo(n, B, Restored(B, cell))
           /\ \E P : cell \in P /\ Brought(P, Restored(B, cell), B, Rank, 0)
<1>1. Restored(B, cell) = Raised(B, cell, Rank, Cells)
  BY DEF Restored, Rank
<1>2. cell \in Cells /\ cell <= n /\ cell >= 1
  BY SizeFacts
<1>3. Rank \in [Nat -> Nat]
  BY RankType
<1>4. /\ Raised(B, cell, Rank, Cells) \in [Cells -> Nat]
      /\ RearrangesTo(n, B, Raised(B, cell, Rank, Cells))
  BY <1>2, RaisedRearranges
<1>5. \E P : cell \in P /\ Brought(P, Raised(B, cell, Rank, Cells), B, Rank, 0)
  BY <1>2, <1>3, RaisedRoot
<1> QED BY <1>1, <1>4, <1>5

\* The cache c holds the indices of S, each once, in some order and with one
\* of a least value first.
IsCache(c, S) ==
    /\ c = [A |-> c.A, n |-> c.n]
    /\ c.A \in [Cells -> Nat] /\ c.n \in Cells
    /\ {c.A[i] : i \in 1 .. c.n} = S
    /\ \A i, j \in 1 .. c.n : i # j => c.A[i] # c.A[j]

LeastFirst(c) == \A i \in 1 .. c.n : Rank[c.A[1]] <= Rank[c.A[i]]

LEMMA StillCache ==
    ASSUME NEW A, NEW B \in [Cells -> Nat], NEW n \in Cells, NEW S,
           IsCache([A |-> A, n |-> n], S), RearrangesTo(n, A, B)
    PROVE  IsCache([A |-> B, n |-> n], S)
<1>1. n \in Nat
  BY SizeFacts
<1>2. PICK f : Rearranges(f, n, A, B)
  BY DEF RearrangesTo
<1>3. /\ {A[i] : i \in 1 .. n} = S
      /\ \A i, j \in 1 .. n : i # j => A[i] # A[j]
  BY DEF IsCache
<1>4. {B[i] : i \in 1 .. n} = S /\ \A i, j \in 1 .. n : i # j => B[i] # B[j]
  BY <1>1, <1>2, <1>3, SameItems
<1> QED BY <1>4 DEF IsCache

LEMMA InsertCFacts ==
    ASSUME TreeOK, NEW c, NEW S, IsCache(c, S), LeastFirst(c), c.n + 1 \in Cells,
           NEW index \in Nat \ S
    PROVE  /\ IsCache(InsertC(c, index), S \cup {index})
           /\ LeastFirst(InsertC(c, index))
           /\ InsertC(c, index).n = c.n + 1
<1>1. PICK n, B, R : /\ n = c.n + 1 /\ B = [c.A EXCEPT ![n] = index]
                     /\ R = Restored(B, n)
  OBVIOUS
<1>2. c.A \in [Cells -> Nat] /\ c.n \in Cells /\ n \in Cells
  BY <1>1 DEF IsCache
<1>3. n \in Nat /\ n \in 1 .. n /\ c.n = n - 1 /\ c.n \in Nat
  BY <1>1, <1>2, SizeFacts
<1>4. /\ B \in [Cells -> Nat] /\ B[n] = index
      /\ \A i \in 1 .. n - 1 : B[i] = c.A[i]
  BY <1>1, <1>2, <1>3, SizeFacts
<1>5. /\ {c.A[i] : i \in 1 .. n - 1} = S
      /\ \A i, j \in 1 .. n - 1 : i # j => c.A[i] # c.A[j]
      /\ \A i \in 1 .. n - 1 : Rank[c.A[1]] <= Rank[c.A[i]]
  BY <1>3 DEF IsCache, LeastFirst
<1>6. IsCache([A |-> B, n |-> n], S \cup {index})
  <2>1. \A i \in 1 .. n - 1 : B[i] \in S
    BY <1>4, <1>5
  <2>2. {B[i] : i \in 1 .. n} = S \cup {index}
    <3>1. ASSUME NEW i \in 1 .. n PROVE B[i] \in S \cup {index}
      <4>1. CASE i = n
        BY <1>4, <4>1
      <4>2. CASE i # n
        BY <1>3, <2>1, <4>2
      <4> QED BY <4>1, <4>2
    <3>2. ASSUME NEW s \in S PROVE s \in {B[i] : i \in 1 .. n}
      <4>1. PICK i \in 1 .. n - 1 : c.A[i] = s
        BY <1>5
      <4>2. i \in 1 .. n /\ B[i] = s
        BY <1>3, <1>4, <4>1
      <4> QED BY <4>2
    <3>3. index \in {B[i] : i \in 1 .. n}
      BY <1>3, <1>4
    <3> QED BY <3>1, <3>2, <3>3
  <2>3. ASSUME NEW i \in 1 .. n, NEW j \in 1 .. n, i # j PROVE B[i] # B[j]
    <3>1. CASE i = n
      BY <1>3, <1>4, <2>1, <2>3, <3>1
    <3>2. CASE j = n
      BY <1>3, <1>4, <2>1, <2>3, <3>2
    <3>3. CASE i # n /\ j # n
      <4>1. i \in 1 .. n - 1 /\ j \in 1 .. n - 1
        BY <1>3, <3>3
      <4> QED BY <1>4, <1>5, <2>3, <4>1
    <3> QED BY <3>1, <3>2, <3>3
  <2> QED BY <1>2, <1>4, <2>2, <2>3 DEF IsCache
<1>7. R \in [Cells -> Nat] /\ RearrangesTo(n, B, R) /\ \E P : n \in P /\ Brought(P, R, B, Rank, 0)
  BY <1>1, <1>2, <1>3, <1>4, RestoredFacts
<1>8. IsCache([A |-> R, n |-> n], S \cup {index})
  BY <1>2, <1>6, <1>7, StillCache
<1>9. LeastFirst([A |-> R, n |-> n])
  <2>1. PICK P : n \in P /\ Brought(P, R, B, Rank, 0)
    BY <1>7
  <2>2. /\ \A i \in P : Rank[R[1]] <= Rank[R[i]]
        /\ \A i \in Cells \ P : R[i] = B[i]
        /\ Rank[R[1]] <= Rank[B[1]]
    BY <2>1 DEF Brought, Top
  <2>3. Rank \in [Nat -> Nat]
    BY RankType
  <2>4. ASSUME NEW i \in 1 .. n, i \notin P PROVE Rank[R[1]] <= Rank[R[i]]
    <3>1. i \in Cells /\ R[i] = B[i] /\ 1 \in Cells
      BY <1>2, <2>2, <2>4, SizeFacts
    <3>2. i \in 1 .. n - 1 /\ 1 \in 1 .. n - 1
      BY <1>3, <2>1, <2>4
    <3>3. Rank[B[1]] <= Rank[B[i]]
      BY <1>4, <1>5, <3>2
    <3>4. Rank[R[1]] \in Nat /\ Rank[B[1]] \in Nat /\ Rank[B[i]] \in Nat
      BY <1>4, <1>7, <2>3, <3>1
    <3>5. Rank[R[1]] <= Rank[B[i]]
      BY <2>2, <3>3, <3>4
    <3> QED BY <3>1, <3>5
  <2>5. \A i \in 1 .. n : Rank[R[1]] <= Rank[R[i]]
    BY <2>2, <2>4
  <2> QED BY <2>5 DEF LeastFirst
<1>10. InsertC(c, index) = [A |-> R, n |-> n]
  BY <1>1 DEF InsertC
<1> QED BY <1>1, <1>8, <1>9, <1>10
LEMMA ExtractMinFacts ==
    ASSUME NEW c, NEW S, IsCache(c, S), c.n >= 1
    PROVE  /\ IsCache(ExtractMinCache(c), S \ {c.A[1]})
           /\ ExtractMinCache(c).n = c.n - 1
<1>1. PICK n, A, B : /\ n = c.n /\ A = c.A
                     /\ B = [[A EXCEPT ![1] = A[n]] EXCEPT ![n] = MaxInt]
  OBVIOUS
<1>2. A \in [Cells -> Nat] /\ n \in Cells
  BY <1>1 DEF IsCache
<1>3. n \in Nat /\ n >= 1 /\ 1 \in Cells /\ n - 1 \in Cells /\ 1 .. n \subseteq Cells
  BY <1>1, <1>2, SizeFacts
<1>4. B \in [Cells -> Nat]
  BY <1>1, <1>2, <1>3, MaxIntAssumption
<1>5. \A i \in 1 .. n - 1 : i \in 1 .. n /\ B[i] = IF i = 1 THEN A[n] ELSE A[i]
  BY <1>1, <1>2, <1>3
<1>6. /\ {A[i] : i \in 1 .. n} = S
      /\ \A i, j \in 1 .. n : i # j => A[i] # A[j]
  BY <1>1 DEF IsCache
<1>7. {B[i] : i \in 1 .. n - 1} = S \ {A[1]}
  <2>1. ASSUME NEW i \in 1 .. n - 1 PROVE B[i] \in S \ {A[1]}
    <3>1. CASE i = 1
      <4>1. n \in 1 .. n /\ n # 1 /\ B[i] = A[n] /\ 1 \in 1 .. n
        BY <1>3, <1>5, <3>1
      <4> QED BY <1>6, <4>1
    <3>2. CASE i # 1
      <4>1. i \in 1 .. n /\ B[i] = A[i] /\ 1 \in 1 .. n
        BY <1>3, <1>5, <3>2
      <4> QED BY <1>6, <3>2, <4>1
    <3> QED BY <3>1, <3>2
  <2>2. ASSUME NEW s \in S, s # A[1] PROVE s \in {B[i] : i \in 1 .. n - 1}
    <3>1. PICK i \in 1 .. n : A[i] = s
      BY <1>6
    <3>2. CASE i = n
      <4>1. 1 \in 1 .. n - 1
        BY <1>3, <2>2, <3>1, <3>2
      <4>2. B[1] = s
        BY <1>5, <3>1, <3>2, <4>1
      <4> QED BY <4>1, <4>2
    <3>3. CASE i # n
      <4>1. i \in 1 .. n - 1 /\ i # 1
        BY <1>3, <2>2, <3>1, <3>3
      <4>2. B[i] = s
        BY <1>5, <3>1, <4>1
      <4> QED BY <4>1, <4>2
    <3> QED BY <3>2, <3>3
  <2> QED BY <2>1, <2>2
<1>8. ASSUME NEW i \in 1 .. n - 1, NEW j \in 1 .. n - 1, i # j PROVE B[i] # B[j]
  <2>1. n \in 1 .. n /\ i # n /\ j # n
    BY <1>3
  <2> QED BY <1>5, <1>6, <1>8, <2>1
<1>9. IsCache([A |-> B, n |-> n - 1], S \ {A[1]})
  BY <1>3, <1>4, <1>7, <1>8 DEF IsCache
<1>10. ExtractMinCache(c) = [A |-> B, n |-> n - 1]
  BY <1>1 DEF ExtractMinCache
<1> QED BY <1>1, <1>9, <1>10

\* The arrays of _heapify_cache, from the cell f on.
IsHeapifying(k, A, f, n) ==
    k = [i \in f .. n |-> IF i = f THEN A ELSE Restored(k[i - 1], i)]

LEMMA HeapifyingExists ==
    ASSUME TreeOK, NEW A \in [Cells -> Nat], NEW n \in Cells, NEW f \in Nat, f <= n
    PROVE  \E k : IsHeapifying(k, A, f, n)
<1> DEFINE S == [A : [Cells -> Nat], i : f .. n]
           s == [A |-> A, i |-> f]
           F == [w \in S |-> IF w.i < n THEN [A |-> Restored(w.A, w.i + 1), i |-> w.i + 1]
                             ELSE w]
<1>1. n \in Nat /\ s \in S
  BY SizeFacts
<1>2. F \in [S -> S]
  <2>1. ASSUME NEW w \in S, w.i < n
        PROVE  [A |-> Restored(w.A, w.i + 1), i |-> w.i + 1] \in S
    <3>1. w.A \in [Cells -> Nat] /\ w.i + 1 \in 1 .. n /\ w.i + 1 \in f .. n
      BY <1>1, <2>1
    <3>2. Restored(w.A, w.i + 1) \in [Cells -> Nat]
      BY <3>1, RestoredFacts
    <3> QED BY <3>1, <3>2
  <2> QED BY <2>1
<1>3. PICK g \in [Nat -> S] : g[0] = s /\ \A i \in Nat : g[i + 1] = F[g[i]]
  <2> HIDE DEF S, F, s
  <2>1. HasOrbit(S, s, F)
    BY <1>1, <1>2, OrbitExists
  <2> QED BY <2>1 DEF HasOrbit
<1>4. ASSUME NEW i \in Nat, g[i].i < n
      PROVE  g[i + 1].A = Restored(g[i].A, g[i].i + 1) /\ g[i + 1].i = g[i].i + 1
  <2>1. g[i] \in S /\ g[i + 1] = F[g[i]]
    BY <1>3
  <2>2. g[i + 1] = [A |-> Restored(g[i].A, g[i].i + 1), i |-> g[i].i + 1]
    BY <1>4, <2>1
  <2> QED BY <2>2
<1> DEFINE T == {m \in Nat : f + m <= n => g[m].i = f + m}
<1>5. \A m \in Nat : m \in T
  <2>1. 0 \in T
    BY <1>3
  <2>2. ASSUME NEW m \in Nat, m \in T, f + (m + 1) <= n PROVE g[m + 1].i = f + (m + 1)
    <3>1. g[m].i = f + m /\ f + m < n
      BY <1>1, <2>2
    <3>2. g[m + 1].i = (f + m) + 1
      BY <1>4, <3>1
    <3> QED BY <3>2
  <2>3. ASSUME NEW m \in Nat, m \in T PROVE m + 1 \in T
    <3>1. f + (m + 1) <= n => g[m + 1].i = f + (m + 1)
      BY <2>2, <2>3
    <3> HIDE DEF S, F, s
    <3> QED BY <3>1
  <2> HIDE DEF T
  <2> QED BY <2>1, <2>3, SetInduction
<1> DEFINE k == [i \in f .. n |-> g[i - f].A]
<1>6. ASSUME NEW i \in f .. n PROVE k[i] = IF i = f THEN A ELSE Restored(k[i - 1], i)
  <2>1. CASE i = f
    <3>1. i - f = 0 /\ k[i] = g[i - f].A
      BY <2>1
    <3> QED BY <1>3, <2>1, <3>1
  <2>2. CASE i # f
    <3>1. PICK m : m = i - 1 - f
      OBVIOUS
    <3>2. m \in Nat /\ m + 1 = i - f /\ f + m = i - 1 /\ i - 1 < n /\ (i - 1) + 1 = i
          /\ i - 1 \in f .. n /\ (i - 1) - f = m
      BY <1>1, <2>2, <3>1
    <3>3. k[i] = g[m + 1].A /\ k[i - 1] = g[m].A
      BY <3>2
    <3>4. g[m].i = i - 1
      BY <1>1, <1>5, <3>2
    <3> HIDE DEF k, S, F
    <3>5. g[m + 1].A = Restored(g[m].A, g[m].i + 1) /\ g[m].i + 1 = i
      BY <1>4, <3>2, <3>4
    <3> QED BY <2>2, <3>3, <3>5
  <2> QED BY <2>1, <2>2
<1>7. IsHeapifying(k, A, f, n)
  <2>1. k = [i \in f .. n |-> k[i]]
    OBVIOUS
  <2> HIDE DEF k
  <2> QED BY <1>6, <2>1 DEF IsHeapifying
<1> HIDE DEF k
<1> QED BY <1>7
\* D is made of paths to the root, those of the cells from f + 1 to i among
\* them, and the first index is a least one on them.
Covered(D, B, f, i) ==
    /\ D \subseteq Cells \ {0}
    /\ \A j \in Cells : f < j /\ j <= i => j \in D
    /\ \A j \in D : j >= 2 => j \div 2 \in D
    /\ \A j \in D : Rank[B[1]] <= Rank[B[j]]

LEMMA CoveredStep ==
    ASSUME TreeOK, NEW B \in [Cells -> Nat], NEW R \in [Cells -> Nat], NEW f \in Nat,
           NEW i \in Cells, NEW P, i \in P, Brought(P, R, B, Rank, 0),
           NEW D, Covered(D, B, f, i - 1)
    PROVE  Covered(D \cup P, R, f, i)
<1>1. Rank \in [Nat -> Nat] /\ 1 \in Cells /\ i \in Nat /\ \A j \in Cells : j \in Nat
  BY RankType, SizeFacts
<1>2. /\ P \subseteq Cells \ {0}
      /\ \A j \in P : Rank[R[1]] <= Rank[R[j]]
      /\ \A j \in P : j >= 2 => j \div 2 \in P \/ j = 0
      /\ \A j \in Cells \ P : R[j] = B[j]
      /\ Rank[R[1]] <= Rank[B[1]]
  BY DEF Brought, Top
<1>3. /\ D \subseteq Cells \ {0}
      /\ \A j \in Cells : f < j /\ j <= i - 1 => j \in D
      /\ \A j \in D : j >= 2 => j \div 2 \in D
      /\ \A j \in D : Rank[B[1]] <= Rank[B[j]]
  BY DEF Covered
<1>4. \A j \in Cells : Rank[R[j]] \in Nat /\ Rank[B[j]] \in Nat
  BY <1>1
<1>5. ASSUME NEW j \in D \cup P PROVE Rank[R[1]] <= Rank[R[j]]
  <2>1. CASE j \in P
    BY <1>2, <2>1
  <2>2. CASE j \notin P
    <3>1. j \in Cells /\ R[j] = B[j] /\ Rank[B[1]] <= Rank[B[j]]
      BY <1>2, <1>3, <1>5, <2>2
    <3> QED BY <1>1, <1>2, <1>4, <3>1
  <2> QED BY <2>1, <2>2
<1>6. ASSUME NEW j \in Cells, f < j, j <= i PROVE j \in D \cup P
  <2>1. j = i \/ j <= i - 1
    BY <1>1, <1>6
  <2> QED BY <1>3, <1>6, <2>1
<1>7. ASSUME NEW j \in D \cup P, j >= 2 PROVE j \div 2 \in D \cup P
  BY <1>2, <1>3, <1>7
<1>8. D \cup P \subseteq Cells \ {0}
  BY <1>2, <1>3
<1> QED BY <1>5, <1>6, <1>7, <1>8 DEF Covered

\* Every cell is on the path of a leaf.
LEMMA AllCovered ==
    ASSUME NEW B, NEW n \in Cells, NEW D, Covered(D, B, n \div 2, n)
    PROVE  1 .. n \subseteq D
<1>1. n \in Nat /\ 1 .. n \subseteq Cells
  BY SizeFacts
<1> DEFINE T == {m \in Nat : \A j \in 1 .. n : n - j <= m => j \in D}
<1>2. ASSUME NEW j \in 1 .. n, \A i \in 1 .. n : i > j => i \in D PROVE j \in D
  <2>1. CASE j > n \div 2
    BY <1>1, <2>1 DEF Covered
  <2>2. CASE j <= n \div 2
    <3>1. 2 * j \in 1 .. n /\ 2 * j > j /\ 2 * j >= 2 /\ (2 * j) \div 2 = j
      BY <1>1, <2>2
    <3>2. 2 * j \in D
      BY <1>2, <3>1
    <3> QED BY <3>1, <3>2 DEF Covered
  <2> QED BY <1>1, <2>1, <2>2
<1>3. 0 \in T
  <2>1. ASSUME NEW j \in 1 .. n, n - j <= 0 PROVE j \in D
    <3>1. \A i \in 1 .. n : ~ (i > j)
      BY <1>1, <2>1
    <3> QED BY <1>2, <3>1
  <2> QED BY <2>1
<1>4. ASSUME NEW m \in Nat, m \in T PROVE m + 1 \in T
  <2>1. ASSUME NEW j \in 1 .. n, n - j <= m + 1 PROVE j \in D
    <3>1. \A i \in 1 .. n : i > j => n - i <= m
      BY <1>1, <2>1
    <3>2. \A i \in 1 .. n : i > j => i \in D
      BY <1>4, <3>1
    <3> QED BY <1>2, <3>2
  <2> QED BY <2>1
<1>5. n \in T
  <2> HIDE DEF T
  <2> QED BY <1>1, <1>3, <1>4, SetInduction
<1>6. \A j \in 1 .. n : n - j <= n
  BY <1>1
<1> QED BY <1>5, <1>6

LEMMA HeapifyFacts ==
    ASSUME TreeOK, NEW c, NEW S, IsCache(c, S)
    PROVE  /\ IsCache(HeapifyCache(c), S)
           /\ LeastFirst(HeapifyCache(c))
           /\ HeapifyCache(c).n = c.n
<1>1. PICK n, A, f : n = c.n /\ A = c.A /\ f = n \div 2
  OBVIOUS
<1>2. A \in [Cells -> Nat] /\ n \in Cells /\ c = [A |-> A, n |-> n]
  BY <1>1 DEF IsCache
<1>3. n \in Nat /\ f \in Nat /\ f <= n /\ f + 1 - 1 = f /\ 1 .. n \subseteq Cells
  BY <1>1, <1>2, SizeFacts
<1> DEFINE first == c.n \div 2 + 1
           Def(g) == g = [i \in first - 1 .. c.n |->
                            IF i = first - 1 THEN c.A ELSE Restored(g[i - 1], i)]
           k == CHOOSE g : Def(g)
<1>4. IsHeapifying(k, A, f, n)
  <2>1. PICK g : IsHeapifying(g, A, f, n)
    BY <1>2, <1>3, HeapifyingExists
  <2>2. first - 1 = f /\ c.n = n /\ c.A = A
    BY <1>1, <1>3
  <2> HIDE DEF first
  <2>3. Def(g)
    <3>1. /\ g = [i \in f .. n |-> g[i]]
          /\ \A i \in f .. n : g[i] = IF i = f THEN A ELSE Restored(g[i - 1], i)
      BY <2>1 DEF IsHeapifying
    <3> QED BY <2>2, <3>1
  <2>4. Def(k)
    <3> HIDE DEF Def
    <3> QED BY <2>3
  <2> HIDE DEF k
  <2>5. /\ k = [i \in first - 1 .. c.n |-> k[i]]
        /\ \A i \in first - 1 .. c.n :
              k[i] = IF i = first - 1 THEN c.A ELSE Restored(k[i - 1], i)
    BY <2>4
  <2>6. /\ k = [i \in f .. n |-> k[i]]
        /\ \A i \in f .. n : k[i] = IF i = f THEN A ELSE Restored(k[i - 1], i)
    BY <2>2, <2>5
  <2> HIDE DEF Def
  <2> QED BY <2>6 DEF IsHeapifying
<1>5. HeapifyCache(c) = [A |-> k[n], n |-> n]
  <2>1. HeapifyCache(c) = [c EXCEPT !.A = k[c.n]]
    BY DEF HeapifyCache, HeapifyFrom
  <2> HIDE DEF k
  <2> QED BY <1>1, <1>2, <2>1
<1> HIDE DEF k
<1>6. k[f] = A
  BY <1>3, <1>4 DEF IsHeapifying
<1>7. ASSUME NEW i \in Nat, f < i, i <= n PROVE k[i] = Restored(k[i - 1], i)
  BY <1>3, <1>4, <1>7 DEF IsHeapifying
<1> DEFINE Stage(i) == /\ k[i] \in [Cells -> Nat] /\ RearrangesTo(n, A, k[i])
                       /\ \E D : Covered(D, k[i], f, i)
           T == {i \in Nat : f <= i /\ i <= n => Stage(i)}
<1>8. Stage(f)
  <2>1. \E h : Rearranges(h, n, A, A)
    BY <1>3, SameRearranges
  <2>2. RearrangesTo(n, A, A)
    BY <2>1 DEF RearrangesTo
  <2>3. Covered({}, A, f, f)
    BY <1>3, SizeFacts DEF Covered
  <2> QED BY <1>2, <1>6, <2>2, <2>3
<1>9. ASSUME NEW i \in Nat, f < i, i <= n, Stage(i - 1) PROVE Stage(i)
  <2>1. PICK B, R : B = k[i - 1] /\ R = k[i] /\ R = Restored(B, i)
    BY <1>7, <1>9
  <2>2. B \in [Cells -> Nat] /\ RearrangesTo(n, A, B) /\ i \in 1 .. n /\ i \in Cells
    BY <1>3, <1>9, <2>1
  <2>3. PICK D : Covered(D, B, f, i - 1)
    BY <1>9, <2>1
  <2> HIDE DEF Stage
  <2>4. R \in [Cells -> Nat] /\ RearrangesTo(n, B, R)
    BY <1>2, <2>1, <2>2, RestoredFacts
  <2>5. PICK P : i \in P /\ Brought(P, R, B, Rank, 0)
    <3>1. \E P : i \in P /\ Brought(P, Restored(B, i), B, Rank, 0)
      BY <1>2, <2>2, RestoredFacts
    <3> QED BY <2>1, <3>1
  <2>6. Covered(D \cup P, R, f, i)
    BY <1>3, <2>2, <2>3, <2>4, <2>5, CoveredStep
  <2>7. RearrangesTo(n, A, R)
    BY <1>3, <2>2, <2>4, RearrangesTwice
  <2> QED BY <2>1, <2>4, <2>6, <2>7 DEF Stage
<1>10. Stage(n)
  <2> HIDE DEF Stage
  <2>1. 0 \in T
    <3>1. CASE f = 0
      BY <1>8, <3>1
    <3>2. CASE f # 0
      BY <1>3, <3>2
    <3> QED BY <3>1, <3>2
  <2>2. ASSUME NEW i \in Nat, i \in T PROVE i + 1 \in T
    <3>1. f = i + 1 => Stage(i + 1)
      BY <1>8
    <3>2. f < i + 1 /\ i + 1 <= n => Stage(i + 1)
      <4> SUFFICES ASSUME f < i + 1, i + 1 <= n PROVE Stage(i + 1)
        OBVIOUS
      <4>1. (i + 1) - 1 = i /\ f <= i /\ i <= n
        BY <1>3
      <4>2. Stage((i + 1) - 1)
        BY <2>2, <4>1
      <4> QED BY <1>9, <4>2
    <3> QED BY <1>3, <3>1, <3>2
  <2> HIDE DEF T
  <2>3. n \in T
    BY <1>3, <2>1, <2>2, SetInduction
  <2> QED BY <1>3, <2>3 DEF T
<1>11. IsCache([A |-> k[n], n |-> n], S)
  <2>1. k[n] \in [Cells -> Nat] /\ RearrangesTo(n, A, k[n])
    BY <1>10
  <2> HIDE DEF Stage
  <2>2. IsCache([A |-> A, n |-> n], S)
    BY <1>2
  <2> QED BY <1>2, <2>1, <2>2, StillCache
<1>12. LeastFirst([A |-> k[n], n |-> n])
  <2>1. PICK D : Covered(D, k[n], n \div 2, n)
    BY <1>1, <1>10
  <2> HIDE DEF Stage
  <2>2. 1 .. n \subseteq D
    BY <1>2, <2>1, AllCovered
  <2> QED BY <2>1, <2>2 DEF Covered, LeastFirst
<1> QED BY <1>1, <1>5, <1>11, <1>12
-----------------------------------------------------------------------------
(* The inductive invariant.                                                *)

\* The nodes to extract next: those of the cache.
Edge == {i \in 2 .. Size - 1 : treeboolean[i \div 2] = 0 /\ treeboolean[i] # 0}

Types ==
    /\ num_items \in Cells /\ cached \in Cells /\ minval \in Values
    /\ tree \in [Cells -> Values] /\ treeboolean \in [Cells -> {0, 1, MaxInt}]
    /\ cache \in [Cells -> Nat]

\* The cells up to num_items have values, the others none.
Filled ==
    \A i \in Cells : IF i \in 1 .. num_items
                     THEN tree[i] < MaxInt /\ treeboolean[i] \in {0, 1}
                     ELSE tree[i] = MaxInt /\ treeboolean[i] = MaxInt

\* A node is not extracted before its parent.
Closed == \A i \in 2 .. num_items : treeboolean[i] = 0 => treeboolean[i \div 2] = 0

\* Once extractions have begun, the cache holds the edge; an extraction takes
\* one index out of it and puts two in.
Begun ==
    IF treeboolean[1] = 0
    THEN /\ num_items > 3 /\ 2 * num_items < Size
         /\ IsCache(Cache, Edge) /\ LeastFirst(Cache)
         /\ Cardinality(Left) + cached = num_items + 1
    ELSE cached = 0

CInv == Types /\ Filled /\ Ordered(tree, num_items) /\ Closed /\ Begun

LEMMA CInvInit == Init => CInv
<1> SUFFICES ASSUME Init PROVE CInv
  OBVIOUS
<1>1. /\ num_items \in Cells /\ num_items \in Nat /\ 0 \in Cells /\ 1 \in Cells
      /\ 1 .. num_items \subseteq Cells /\ MaxInt \in Nat \ {0}
      /\ \A i \in Cells : i \in Nat
  BY DepthAssumption, MaxIntAssumption, SizeFacts DEF Init
<1>2. \A i \in Cells : tree[i] = IF i \notin 1 .. num_items THEN MaxInt
                                 ELSE IF i < MaxInt THEN i ELSE MaxInt - 1
  BY DEF Init
<1>3. \A i \in Cells : treeboolean[i] = IF i \in 1 .. num_items THEN 1 ELSE MaxInt
  BY DEF Init
<1>4. Types
  BY <1>1 DEF Types, Init, Values
<1>5. Filled
  BY <1>1, <1>2, <1>3 DEF Filled
<1>6. Ordered(tree, num_items)
  <2> SUFFICES ASSUME NEW i \in 2 .. num_items PROVE tree[i \div 2] <= tree[i]
    BY DEF Ordered
  <2>1. PICK p : p = i \div 2
    OBVIOUS
  <2>2. p \in 1 .. num_items /\ i \in 1 .. num_items /\ p < i
    BY <1>1, <2>1
  <2> QED BY <1>1, <1>2, <2>1, <2>2
<1>7. Closed
  <2>1. \A i \in 2 .. num_items : treeboolean[i] = 1
    BY <1>1, <1>3
  <2> QED BY <2>1 DEF Closed
<1>8. Begun
  BY <1>1, <1>3 DEF Begun, Init
<1> QED BY <1>4, <1>5, <1>6, <1>7, <1>8 DEF CInv

\* What is true of a cell if it is of all lesser ones is true of all.
LEMMA Upward ==
    ASSUME NEW n \in Nat, NEW T,
           \A i \in 1 .. n : (\A j \in 1 .. n : j < i => j \in T) => i \in T
    PROVE  1 .. n \subseteq T
<1> DEFINE U == {m \in Nat : \A i \in 1 .. n : i <= m => i \in T}
<1>1. 0 \in U
  OBVIOUS
<1>2. ASSUME NEW m \in Nat, m \in U PROVE m + 1 \in U
  <2>1. ASSUME NEW i \in 1 .. n, i <= m + 1 PROVE i \in T
    <3>1. \A j \in 1 .. n : j < i => j \in T
      BY <1>2, <2>1
    <3> QED BY <3>1
  <2> QED BY <2>1
<1>3. n \in U
  <2> HIDE DEF U
  <2> QED BY <1>1, <1>2, SetInduction
<1> QED BY <1>3

\* Above every node that is left there is one of the edge, of no greater value.
LEMMA EdgeAbove ==
    ASSUME CInv, treeboolean[1] = 0, NEW i \in Left
    PROVE  \E e \in Edge : e \in 1 .. num_items /\ tree[e] <= tree[i]
<1>1. /\ num_items \in Nat /\ 1 .. num_items \subseteq Cells /\ num_items < Size /\ Size \in Nat
      /\ \A j \in 1 .. num_items : tree[j] \in Nat /\ treeboolean[j] \in {0, 1}
  <2>1. num_items \in Nat /\ num_items < Size /\ 1 .. num_items \subseteq Cells /\ Size \in Nat
    BY SizeFacts DEF CInv, Types
  <2>2. \A j \in 1 .. num_items : tree[j] \in Nat /\ treeboolean[j] \in {0, 1}
    BY <2>1 DEF CInv, Types, Filled, Values
  <2> QED BY <2>1, <2>2
<1> DEFINE T == {j \in 1 .. num_items : treeboolean[j] = 1 =>
                   \E e \in Edge : e \in 1 .. num_items /\ tree[e] <= tree[j]}
<1>2. ASSUME NEW j \in 1 .. num_items, \A k \in 1 .. num_items : k < j => k \in T,
             treeboolean[j] = 1
      PROVE  \E e \in Edge : e \in 1 .. num_items /\ tree[e] <= tree[j]
  <2>1. PICK p : p = j \div 2
    OBVIOUS
  <2>2. p \in 1 .. num_items /\ p < j /\ j \in 2 .. num_items
    <3>1. j # 1
      BY <1>2
    <3> QED BY <1>1, <2>1, <3>1
  <2>3. tree[p] <= tree[j]
    BY <2>1, <2>2 DEF CInv, Ordered
  <2>4. CASE treeboolean[p] = 0
    <3>1. j \in Edge
      BY <1>1, <1>2, <2>1, <2>2, <2>4 DEF Edge
    <3> QED BY <1>1, <3>1
  <2>5. CASE treeboolean[p] # 0
    <3>1. treeboolean[p] = 1 /\ p \in T
      BY <1>1, <1>2, <2>2, <2>5
    <3>2. PICK e \in Edge : e \in 1 .. num_items /\ tree[e] <= tree[p]
      BY <3>1
    <3>3. tree[e] <= tree[j]
      BY <1>1, <2>2, <2>3, <3>2
    <3> QED BY <3>2, <3>3
  <2> QED BY <2>4, <2>5
<1>3. 1 .. num_items \subseteq T
  <2>1. \A j \in 1 .. num_items : (\A k \in 1 .. num_items : k < j => k \in T) => j \in T
    BY <1>2
  <2> HIDE DEF T
  <2> QED BY <1>1, <2>1, Upward
<1> QED BY <1>3 DEF Left

\* Before the first extraction all nodes are in.
LEMMA AllIn ==
    ASSUME CInv, treeboolean[1] # 0
    PROVE  Left = 1 .. num_items
<1>1. /\ num_items \in Nat /\ 1 .. num_items \subseteq Cells
      /\ \A j \in 1 .. num_items : treeboolean[j] \in {0, 1}
  BY SizeFacts DEF CInv, Types, Filled
<1> DEFINE T == {j \in 1 .. num_items : treeboolean[j] = 1}
<1>2. ASSUME NEW j \in 1 .. num_items, \A k \in 1 .. num_items : k < j => k \in T
      PROVE  j \in T
  <2>1. CASE j = 1
    BY <1>1, <2>1
  <2>2. CASE j # 1
    <3>1. PICK p : p = j \div 2
      OBVIOUS
    <3>2. p \in 1 .. num_items /\ p < j /\ j \in 2 .. num_items
      BY <1>1, <2>2, <3>1
    <3>3. treeboolean[p] = 1
      BY <1>2, <3>2
    <3> QED BY <1>1, <3>1, <3>2, <3>3 DEF CInv, Closed
  <2> QED BY <2>1, <2>2
<1>3. 1 .. num_items \subseteq T
  <2> HIDE DEF T
  <2> QED BY <1>1, <1>2, Upward
<1> QED BY <1>3 DEF Left

\* In heap order the root is the least.
LEMMA RootIsLeast ==
    ASSUME CInv
    PROVE  \A i \in 1 .. num_items : tree[1] <= tree[i]
<1>1. /\ num_items \in Nat
      /\ \A j \in 1 .. num_items : tree[j] \in Nat
  <2>1. num_items \in Nat /\ 1 .. num_items \subseteq Cells
    BY SizeFacts DEF CInv, Types
  <2> QED BY <2>1 DEF CInv, Types, Values
<1> DEFINE T == {i \in 1 .. num_items : tree[1] <= tree[i]}
<1>2. ASSUME NEW j \in 1 .. num_items, \A k \in 1 .. num_items : k < j => k \in T
      PROVE  j \in T
  <2>1. CASE j = 1
    BY <1>1, <2>1
  <2>2. CASE j # 1
    <3>1. PICK p : p = j \div 2
      OBVIOUS
    <3>2. p \in 1 .. num_items /\ p < j /\ j \in 2 .. num_items /\ 1 \in 1 .. num_items
      BY <1>1, <2>2, <3>1
    <3>3. tree[1] <= tree[p]
      BY <1>2, <3>2
    <3>4. tree[p] <= tree[j]
      BY <3>1, <3>2 DEF CInv, Ordered
    <3> QED BY <1>1, <3>2, <3>3, <3>4
  <2> QED BY <2>1, <2>2
<1>3. 1 .. num_items \subseteq T
  <2> HIDE DEF T
  <2> QED BY <1>1, <1>2, Upward
<1> QED BY <1>3
-----------------------------------------------------------------------------
(* Insertion.                                                              *)

\* R is the tree A of n items after val was inserted.
Inserted(A, n, val, R) ==
    /\ R \in [Cells -> Values] /\ Ordered(R, n + 1)
    /\ \A i \in 1 .. n + 1 : R[i] < MaxInt
    /\ \A i \in Cells \ (1 .. n + 1) : R[i] = A[i]
    /\ \A v \in Values : Cardinality(Items(R, n + 1, v)) =
                           IF v = val THEN Cardinality(Items(A, n, v)) + 1
                           ELSE Cardinality(Items(A, n, v))

LEMMA InsertedFacts ==
    ASSUME NEW A \in [Cells -> Values], NEW n \in Nat, n + 1 \in Cells, Ordered(A, n),
           \A i \in 1 .. n : A[i] < MaxInt, NEW val \in 0 .. MaxInt - 1,
           NEW at, 1 .. n + 1 \subseteq at
    PROVE  Inserted(A, n, val, Raised([A EXCEPT ![n + 1] = val], n + 1,
                                      [v \in Values |-> v], at))
<1>1. PICK m, B, R : /\ m = n + 1 /\ B = [A EXCEPT ![m] = val]
                     /\ R = Raised(B, m, [v \in Values |-> v], at)
  OBVIOUS
<1>2. /\ m \in Nat /\ m >= 1 /\ m \in Cells /\ m - 1 = n /\ 1 .. m \subseteq Cells
      /\ 1 .. n \subseteq 1 .. m /\ val \in Values /\ val < MaxInt
  <2>1. m \in Nat /\ m >= 1 /\ m - 1 = n /\ 1 .. n \subseteq 1 .. m /\ m \in Cells
    BY <1>1
  <2>2. 1 .. m \subseteq Cells
    BY <2>1, SizeFacts
  <2>3. val \in Values /\ val < MaxInt
    BY MaxIntAssumption DEF Values
  <2> QED BY <2>1, <2>2, <2>3
<1>3. /\ B \in [Cells -> Values] /\ B[m] = val
      /\ \A i \in Cells : i # m => B[i] = A[i]
  BY <1>1, <1>2
<1>4. Ordered(B, m - 1)
  <2> SUFFICES ASSUME NEW i \in 2 .. n PROVE B[i \div 2] <= B[i]
    BY <1>2 DEF Ordered
  <2>1. i \div 2 \in 1 .. n /\ i \in 1 .. n
    OBVIOUS
  <2>2. \A j \in 1 .. n : j # m /\ j \in Cells
    BY <1>1, <1>2
  <2>3. B[i] = A[i] /\ B[i \div 2] = A[i \div 2]
    BY <1>3, <2>1, <2>2
  <2> QED BY <2>3 DEF Ordered
<1>5. R \in [Cells -> Values] /\ RearrangesTo(m, B, R)
  <2>1. /\ Raised(B, m, [v \in Values |-> v], at) \in [Cells -> Values]
        /\ RearrangesTo(m, B, Raised(B, m, [v \in Values |-> v], at))
    BY <1>2, <1>3, RaisedRearranges
  <2> QED BY <1>1, <2>1
<1>6. Ordered(R, m)
  <2>1. 1 .. m \subseteq at
    BY <1>1
  <2>2. Ordered(Raised(B, m, [v \in Values |-> v], at), m)
    BY <1>2, <1>3, <1>4, <2>1, RaisedOrdered
  <2> QED BY <1>1, <2>2
<1>7. PICK f : Rearranges(f, m, B, R)
  BY <1>5 DEF RearrangesTo
<1>8. ASSUME NEW i \in 1 .. m PROVE R[i] < MaxInt
  <2>1. f[i] \in 1 .. m /\ R[i] = B[f[i]]
    BY <1>7 DEF Rearranges
  <2>2. \A j \in 1 .. m : B[j] < MaxInt
    <3>1. ASSUME NEW j \in 1 .. m, j # m PROVE j \in 1 .. n
      BY <1>1, <3>1
    <3> QED BY <1>2, <1>3, <3>1
  <2> QED BY <2>1, <2>2
<1>9. ASSUME NEW i \in Cells \ (1 .. m) PROVE R[i] = A[i]
  <2>1. R[i] = B[i] /\ i # m
    BY <1>2, <1>5 DEF RearrangesTo
  <2> QED BY <1>3, <2>1
<1>10. ASSUME NEW v \in Values
       PROVE  Cardinality(Items(R, m, v)) = IF v = val THEN Cardinality(Items(A, n, v)) + 1
                                            ELSE Cardinality(Items(A, n, v))
  <2>1. Cardinality(Items(R, m, v)) = Cardinality(Items(B, m, v))
    BY <1>2, <1>7, Rearranged
  <2>2. Cardinality(Items(B, m, v)) =
          IF B[m] = v THEN Cardinality(Items(B, m - 1, v)) + 1
          ELSE Cardinality(Items(B, m - 1, v))
    BY <1>2, LastItem
  <2>3. \A i \in 1 .. n : B[i] = A[i]
    BY <1>1, <1>2, <1>3
  <2>4. Items(B, n, v) = Items(A, n, v)
    BY <2>3, SameArray
  <2> QED BY <1>2, <1>3, <2>1, <2>2, <2>4
<1>11. Inserted(A, n, val, R)
  BY <1>1, <1>5, <1>6, <1>8, <1>9, <1>10 DEF Inserted
<1> QED BY <1>1, <1>11

LEMMA InsertFacts ==
    ASSUME CInv, NEW val \in 0 .. MaxInt - 1, Insert(val)
    PROVE  /\ Inserted(tree, num_items, val, tree')
           /\ num_items' = num_items + 1 /\ num_items' \in Cells
           /\ Left = 1 .. num_items /\ Left' = 1 .. num_items'
           /\ treeboolean' = [treeboolean EXCEPT ![num_items + 1] = 1]
           /\ treeboolean[1] # 0
<1>1. /\ num_items \in Nat /\ num_items + 1 \in Cells /\ num_items < MaxItems
      /\ 1 .. num_items + 1 \subseteq Cells
  BY BoundAssumption, SizeFacts DEF CInv, Types, Insert
<1>2. /\ tree \in [Cells -> Values] /\ treeboolean \in [Cells -> {0, 1, MaxInt}]
      /\ Ordered(tree, num_items)
      /\ \A i \in 1 .. num_items : tree[i] < MaxInt /\ treeboolean[i] = 1
  BY <1>1 DEF CInv, Types, Filled, Insert
<1>3. /\ num_items' = num_items + 1
      /\ treeboolean' = [treeboolean EXCEPT ![num_items + 1] = 1]
  BY DEF Insert
<1>4. \A i \in 1 .. num_items + 1 : treeboolean'[i] = 1
  <2>1. ASSUME NEW i \in 1 .. num_items + 1, i # num_items + 1 PROVE i \in 1 .. num_items
    BY <1>1, <2>1
  <2> QED BY <1>1, <1>2, <1>3, <2>1
<1>5. Inserted(tree, num_items, val, tree')
  <2>1. PICK at : at = {p \in Cells : treeboolean'[p] = 1}
    OBVIOUS
  <2>2. 1 .. num_items + 1 \subseteq at
    BY <1>1, <1>4, <2>1
  <2>3. tree' = Raised([tree EXCEPT ![num_items + 1] = val], num_items + 1,
                       [v \in Values |-> v], at)
    BY <2>1 DEF Insert
  <2>4. Inserted(tree, num_items, val,
                 Raised([tree EXCEPT ![num_items + 1] = val], num_items + 1,
                        [v \in Values |-> v], at))
    BY <1>1, <1>2, <2>2, InsertedFacts
  <2> QED BY <2>3, <2>4
<1>6. Left = 1 .. num_items /\ Left' = 1 .. num_items'
  BY <1>2, <1>3, <1>4 DEF Left
<1>7. treeboolean[1] # 0
  <2>1. CASE num_items = 0
    <3>1. 1 \in Cells /\ 1 \notin 1 .. num_items
      BY <2>1, SizeFacts
    <3> QED BY <3>1, MaxIntAssumption DEF CInv, Filled
  <2>2. CASE num_items # 0
    <3>1. 1 \in 1 .. num_items
      BY <1>1, <2>2
    <3> QED BY <1>2, <3>1
  <2> QED BY <2>1, <2>2
<1> QED BY <1>1, <1>3, <1>5, <1>6, <1>7

LEMMA InsertInv ==
    ASSUME CInv, NEW val \in 0 .. MaxInt - 1, Insert(val)
    PROVE  CInv'
<1>1. /\ Inserted(tree, num_items, val, tree')
      /\ num_items' = num_items + 1 /\ num_items' \in Cells
      /\ Left' = 1 .. num_items'
      /\ treeboolean' = [treeboolean EXCEPT ![num_items + 1] = 1]
      /\ treeboolean[1] # 0
  BY InsertFacts
<1>2. cache' = cache /\ cached' = cached /\ minval' = minval
  BY DEF Insert
<1>3. Types
  BY DEF CInv
<1>4. num_items \in Nat /\ 1 \in Cells /\ 1 .. num_items' \subseteq Cells
  <2>1. PICK m : m = num_items'
    OBVIOUS
  <2>2. m \in Cells
    BY <1>1, <2>1
  <2>3. 1 .. m \subseteq Cells /\ 1 \in Cells
    BY <2>2, SizeFacts
  <2>4. num_items \in Nat
    BY <1>3, SizeFacts DEF Types
  <2> QED BY <2>1, <2>3, <2>4
<1>5. Types'
  BY <1>1, <1>2, <1>3 DEF Types, Inserted
<1>6. \A i \in 1 .. num_items' : treeboolean'[i] = 1
  BY <1>1 DEF Left
<1>7. Filled'
  <2> SUFFICES ASSUME NEW i \in Cells
               PROVE  IF i \in 1 .. num_items'
                      THEN tree'[i] < MaxInt /\ treeboolean'[i] \in {0, 1}
                      ELSE tree'[i] = MaxInt /\ treeboolean'[i] = MaxInt
    BY DEF Filled
  <2>1. CASE i \in 1 .. num_items'
    BY <1>1, <1>6, <2>1 DEF Inserted
  <2>2. CASE i \notin 1 .. num_items'
    <3>1. tree'[i] = tree[i] /\ i # num_items + 1 /\ i \notin 1 .. num_items
      BY <1>1, <1>4, <2>2 DEF Inserted
    <3>2. treeboolean'[i] = treeboolean[i]
      BY <1>1, <1>3, <3>1 DEF Types
    <3>3. tree[i] = MaxInt /\ treeboolean[i] = MaxInt
      BY <3>1 DEF CInv, Filled
    <3> QED BY <2>2, <3>1, <3>2, <3>3
  <2> QED BY <2>1, <2>2
<1>8. Ordered(tree', num_items')
  BY <1>1 DEF Inserted
<1>9. Closed'
  BY <1>4, <1>6 DEF Closed
<1>10. Begun'
  <2>1. 1 \in 1 .. num_items'
    BY <1>1, <1>4
  <2>2. treeboolean'[1] # 0
    BY <1>6, <2>1
  <2>3. cached' = 0
    BY <1>1, <1>2 DEF CInv, Begun
  <2> QED BY <2>2, <2>3 DEF Begun
<1> QED BY <1>5, <1>7, <1>8, <1>9, <1>10 DEF CInv
-----------------------------------------------------------------------------
(* Extraction.                                                             *)

\* The node j can be extracted: it is in, and its parent is not.
OnEdge(j) == j \in Left /\ (j = 1 \/ treeboolean[j \div 2] = 0)

Removed(j) ==
    /\ tree' = tree /\ num_items' = num_items
    /\ treeboolean' = [treeboolean EXCEPT ![j] = 0]

LEMMA ItemFacts ==
    ASSUME CInv
    PROVE  /\ num_items \in Nat /\ 1 .. num_items \subseteq Cells /\ Size \in Nat
           /\ Size % 2 = 0 /\ num_items < Size
           /\ \A i : i \in Cells <=> i \in Nat /\ i < Size
           /\ \A i \in 1 .. num_items : /\ tree[i] \in Nat /\ tree[i] < MaxInt
                                        /\ treeboolean[i] \in {0, 1}
           /\ \A i \in Cells \ (1 .. num_items) : tree[i] = MaxInt /\ treeboolean[i] = MaxInt
           /\ IsFiniteSet(Left) /\ Cardinality(Left) \in Nat
<1>1. /\ num_items \in Nat /\ 1 .. num_items \subseteq Cells /\ Size \in Nat
      /\ Size % 2 = 0 /\ num_items < Size
      /\ \A i : i \in Cells <=> i \in Nat /\ i < Size
  BY SizeFacts DEF CInv, Types
<1>2. \A i \in 1 .. num_items : /\ tree[i] \in Nat /\ tree[i] < MaxInt
                                /\ treeboolean[i] \in {0, 1}
  BY <1>1 DEF CInv, Types, Filled, Values
<1>3. \A i \in Cells \ (1 .. num_items) : tree[i] = MaxInt /\ treeboolean[i] = MaxInt
  BY DEF CInv, Filled
<1>4. IsFiniteSet(Left) /\ Cardinality(Left) \in Nat
  <2>1. Left \in SUBSET (1 .. num_items) /\ IsFiniteSet(1 .. num_items)
    BY <1>1, FS_Interval DEF Left
  <2>2. IsFiniteSet(Left)
    BY <2>1, FS_Subset
  <2> QED BY <2>2, FS_CardinalityType
<1> QED BY <1>1, <1>2, <1>3, <1>4

LEMMA RemovedFacts ==
    ASSUME CInv, NEW j, OnEdge(j), Removed(j)
    PROVE  /\ j \in 1 .. num_items /\ j \in Cells /\ treeboolean[j] = 1
           /\ \A i \in Cells : treeboolean'[i] = IF i = j THEN 0 ELSE treeboolean[i]
           /\ treeboolean'[1] = 0
           /\ Left' = Left \ {j} /\ Cardinality(Left') = Cardinality(Left) - 1
<1>1. j \in 1 .. num_items /\ j \in Cells /\ treeboolean[j] = 1 /\ j \in Nat /\ 1 \in Cells
  BY ItemFacts, SizeFacts DEF OnEdge, Left
<1>2. \A i \in Cells : treeboolean'[i] = IF i = j THEN 0 ELSE treeboolean[i]
  BY DEF CInv, Types, Removed
<1>3. treeboolean'[1] = 0
  <2>1. CASE j = 1
    BY <1>1, <1>2, <2>1
  <2>2. CASE j # 1
    <3>1. treeboolean[1] = 0
      <4>1. treeboolean[j \div 2] = 0 /\ j \div 2 \in 1 .. num_items
        BY <1>1, <2>2, ItemFacts DEF OnEdge
      <4>2. j \div 2 \notin Left
        BY <4>1 DEF Left
      <4> QED BY <4>1, <4>2, AllIn
    <3> QED BY <1>1, <1>2, <2>2, <3>1
  <2> QED BY <2>1, <2>2
<1>4. Left' = Left \ {j}
  <2>1. \A i \in 1 .. num_items : i \in Cells
    BY ItemFacts
  <2> QED BY <1>1, <1>2, <2>1 DEF Left, Removed
<1>5. Cardinality(Left \ {j}) = Cardinality(Left) - 1
  BY ItemFacts, FS_RemoveElement DEF OnEdge
<1> QED BY <1>1, <1>2, <1>3, <1>4, <1>5

LEMMA EdgeMoves ==
    ASSUME CInv, NEW j, OnEdge(j), Removed(j), 2 * num_items < Size
    PROVE  Edge' = ((Edge \ {j}) \cup {2 * j}) \cup {2 * j + 1}
<1>1. /\ j \in 1 .. num_items /\ j \in Cells /\ treeboolean[j] = 1
      /\ \A i \in Cells : treeboolean'[i] = IF i = j THEN 0 ELSE treeboolean[i]
  BY RemovedFacts
<1>2. /\ num_items \in Nat /\ 1 .. num_items \subseteq Cells /\ Size \in Nat
      /\ Size % 2 = 0 /\ num_items < Size
      /\ \A i : i \in Cells <=> i \in Nat /\ i < Size
      /\ \A i \in Cells \ (1 .. num_items) : treeboolean[i] = MaxInt
  BY ItemFacts
<1>3. \A i \in 2 .. Size - 1 : /\ i \in Cells /\ i \div 2 \in Cells
                               /\ (i \div 2 = j <=> i = 2 * j \/ i = 2 * j + 1)
  BY <1>1, <1>2
<1>4. \A i : i \in Edge <=> /\ i \in 2 .. Size - 1
                            /\ treeboolean[i \div 2] = 0 /\ treeboolean[i] # 0
  BY DEF Edge
<1>5. \A i : i \in Edge' <=> /\ i \in 2 .. Size - 1
                             /\ treeboolean'[i \div 2] = 0 /\ treeboolean'[i] # 0
  BY DEF Edge
<1>6. ASSUME NEW i \in {2 * j, 2 * j + 1}
      PROVE  i \in 2 .. Size - 1 /\ i \div 2 = j /\ i # j /\ treeboolean[i] # 0
  <2>1. i \in 2 .. Size - 1 /\ i \div 2 = j /\ i # j /\ i \in Cells
    BY <1>1, <1>2
  <2>2. CASE i \in 1 .. num_items
    <3>1. i \in 2 .. num_items
      BY <2>1, <2>2
    <3> QED BY <1>1, <2>1, <3>1 DEF CInv, Closed
  <2>3. CASE i \notin 1 .. num_items
    BY <1>2, <2>1, <2>3, MaxIntAssumption
  <2> QED BY <2>1, <2>2, <2>3
<1>7. ASSUME NEW i \in Edge' PROVE i \in ((Edge \ {j}) \cup {2 * j}) \cup {2 * j + 1}
  <2>1. i \in 2 .. Size - 1 /\ treeboolean'[i \div 2] = 0 /\ treeboolean'[i] # 0
    BY <1>5
  <2>2. i # j /\ treeboolean[i] # 0 /\ (i \div 2 = j \/ treeboolean[i \div 2] = 0)
    BY <1>1, <1>3, <2>1
  <2> QED BY <1>3, <1>4, <2>1, <2>2
<1>8. ASSUME NEW i \in Edge \ {j} PROVE i \in Edge'
  <2>1. i \in 2 .. Size - 1 /\ treeboolean[i \div 2] = 0 /\ treeboolean[i] # 0 /\ i # j
    BY <1>4
  <2> QED BY <1>1, <1>3, <1>5, <2>1
<1>9. ASSUME NEW i \in {2 * j, 2 * j + 1} PROVE i \in Edge'
  <2>1. i \in 2 .. Size - 1 /\ i \div 2 = j /\ i # j /\ treeboolean[i] # 0
    BY <1>6
  <2>2. treeboolean'[i] # 0 /\ treeboolean'[i \div 2] = 0
    BY <1>1, <1>3, <2>1
  <2> QED BY <1>5, <2>1, <2>2
<1> QED BY <1>7, <1>8, <1>9

LEMMA ExtractInv ==
    ASSUME CInv, NEW j, OnEdge(j), num_items > 3, 2 * num_items < Size,
           NEW c, IsCache(c, ((Edge \ {j}) \cup {2 * j}) \cup {2 * j + 1}), LeastFirst(c),
           Cardinality(Left) + c.n = num_items + 2, Extract(j, c)
    PROVE  CInv' /\ Removed(j) /\ minval' = tree[j]
<1>1. j \in 1 .. num_items /\ j \in Cells
  BY ItemFacts DEF OnEdge, Left
<1>2. j % Size = j
  BY <1>1, ItemFacts
<1>3. /\ minval' = tree[j] /\ treeboolean' = [treeboolean EXCEPT ![j] = 0]
      /\ cache' = c.A /\ cached' = c.n /\ tree' = tree /\ num_items' = num_items
  BY <1>2 DEF Extract, Read
<1>4. Removed(j)
  BY <1>3 DEF Removed
<1>5. /\ \A i \in Cells : treeboolean'[i] = IF i = j THEN 0 ELSE treeboolean[i]
      /\ treeboolean'[1] = 0
      /\ Cardinality(Left') = Cardinality(Left) - 1
      /\ treeboolean[j] = 1
  BY <1>4, RemovedFacts
<1>6. Types'
  BY <1>1, <1>3 DEF CInv, Types, IsCache
<1>7. Filled'
  BY <1>1, <1>3, <1>5 DEF CInv, Filled
<1>8. Ordered(tree', num_items')
  BY <1>3 DEF CInv
<1>9. Closed'
  <2> SUFFICES ASSUME NEW i \in 2 .. num_items, treeboolean'[i] = 0
               PROVE  treeboolean'[i \div 2] = 0
    BY <1>3 DEF Closed
  <2>1. i \in Cells /\ i \div 2 \in Cells
    BY ItemFacts
  <2>2. treeboolean[i \div 2] = 0
    <3>1. CASE i = j
      BY <3>1 DEF OnEdge
    <3>2. CASE i # j
      BY <1>5, <2>1, <3>2 DEF CInv, Closed
    <3> QED BY <3>1, <3>2
  <2> QED BY <1>5, <2>1, <2>2
<1>10. Begun'
  <2>1. Edge' = ((Edge \ {j}) \cup {2 * j}) \cup {2 * j + 1}
    BY <1>4, EdgeMoves
  <2>2. Cache' = c
    BY <1>3 DEF Cache, IsCache
  <2>3. Rank' = Rank
    BY <1>3 DEF Rank, Read
  <2>4. IsCache(Cache', Edge')
    BY <2>1, <2>2
  <2>5. (LeastFirst(Cache))'
    BY <2>2, <2>3 DEF LeastFirst
  <2>6. c.n \in Nat /\ Cardinality(Left) \in Nat
    BY ItemFacts, SizeFacts DEF IsCache
  <2>7. Cardinality(Left') + cached' = num_items' + 1
    BY <1>3, <1>5, <2>6, ItemFacts
  <2> QED BY <1>3, <1>5, <2>4, <2>5, <2>7 DEF Begun
<1> QED BY <1>3, <1>4, <1>6, <1>7, <1>8, <1>9, <1>10 DEF CInv
\* What an extraction does to the tree: it takes out a node j of a least value.
Extracts(j) ==
    /\ OnEdge(j) /\ Removed(j) /\ minval' = tree[j]
    /\ \A i \in Left : tree[j] <= tree[i]

LEMMA ExtractRootInv ==
    ASSUME CInv, num_items > 3, 2 * num_items < Size, Left # {}, ExtractRoot
    PROVE  CInv' /\ Extracts(1)
<1>1. treeboolean[1] # 0
  <2> SUFFICES ASSUME treeboolean[1] = 0 PROVE FALSE
    OBVIOUS
  <2>1. PICK i : i \in Left
    OBVIOUS
  <2>2. PICK e : e \in Edge
    BY <2>1, EdgeAbove
  <2>3. cached = 0 /\ {cache[k] : k \in 1 .. cached} = Edge
    BY DEF CInv, Begun, ExtractRoot, IsCache, Cache
  <2> QED BY <2>2, <2>3
<1>2. Left = 1 .. num_items
  BY <1>1, AllIn
<1>3. num_items \in Nat /\ 1 \in Left /\ OnEdge(1)
  <2>1. num_items \in Nat
    BY ItemFacts
  <2> QED BY <1>2, <2>1 DEF OnEdge
<1>4. Edge = {}
  <2> SUFFICES ASSUME NEW i \in Edge PROVE FALSE
    OBVIOUS
  <2>1. PICK p : p = i \div 2
    OBVIOUS
  <2>2. p \in Cells /\ treeboolean[p] = 0
    BY <2>1, ItemFacts DEF Edge
  <2>3. CASE p \in 1 .. num_items
    BY <1>2, <2>2, <2>3 DEF Left
  <2>4. CASE p \notin 1 .. num_items
    BY <2>2, <2>4, ItemFacts, MaxIntAssumption
  <2> QED BY <2>3, <2>4
<1>5. PICK c, d, e : c = Cache /\ d = InsertC(c, 3) /\ e = InsertC(d, 2)
  OBVIOUS
<1>6. cached = 0
  BY DEF ExtractRoot
<1>7. 0 \in Cells /\ 1 \in Cells /\ 2 \in Cells
  BY <1>3, ItemFacts
<1>8. IsCache(c, {}) /\ LeastFirst(c) /\ c.n = 0
  BY <1>5, <1>6, <1>7 DEF CInv, Types, Cache, IsCache, LeastFirst
<1>9. TreeOK
  BY DEF CInv, Types, TreeOK
<1>10. IsCache(d, {3}) /\ LeastFirst(d) /\ d.n = 1
  <2>1. c.n + 1 \in Cells /\ 3 \in Nat \ {} /\ c.n + 1 = 1 /\ {} \cup {3} = {3}
    BY <1>7, <1>8
  <2>2. /\ IsCache(InsertC(c, 3), {} \cup {3}) /\ LeastFirst(InsertC(c, 3))
        /\ InsertC(c, 3).n = c.n + 1
    BY <1>8, <1>9, <2>1, InsertCFacts
  <2> QED BY <1>5, <2>1, <2>2
<1>11. IsCache(e, {3} \cup {2}) /\ LeastFirst(e) /\ e.n = 2
  <2>1. d.n + 1 \in Cells /\ 2 \in Nat \ {3} /\ d.n + 1 = 2
    BY <1>7, <1>10
  <2>2. /\ IsCache(InsertC(d, 2), {3} \cup {2}) /\ LeastFirst(InsertC(d, 2))
        /\ InsertC(d, 2).n = d.n + 1
    BY <1>9, <1>10, <2>1, InsertCFacts
  <2> QED BY <1>5, <2>1, <2>2
<1>12. Extract(1, e)
  <2>1. Extract(1, InsertC(InsertC(Cache, 3), 2))
    BY <1>3 DEF ExtractRoot
  <2> QED BY <1>5, <2>1
<1>13. {3} \cup {2} = ((Edge \ {1}) \cup {2 * 1}) \cup {2 * 1 + 1}
  BY <1>4
<1>14. Cardinality(Left) + e.n = num_items + 2
  <2>1. Cardinality(1 .. num_items) = num_items
    BY <1>3, FS_Interval
  <2> QED BY <1>2, <1>11, <2>1
<1>15. IsCache(e, ((Edge \ {1}) \cup {2 * 1}) \cup {2 * 1 + 1})
  BY <1>11, <1>13
<1>16. CInv' /\ Removed(1) /\ minval' = tree[1]
  <2>1. LeastFirst(e)
    BY <1>11
  <2> HIDE <1>11
  <2> QED BY <1>3, <1>12, <1>14, <1>15, <2>1, ExtractInv
<1>17. \A i \in Left : tree[1] <= tree[i]
  BY <1>2, RootIsLeast
<1> QED BY <1>3, <1>16, <1>17 DEF Extracts

LEMMA ExtractNextInv ==
    ASSUME CInv, num_items > 3, 2 * num_items < Size, Left # {}, ExtractNext
    PROVE  CInv' /\ Extracts(cache[1])
<1>1. cached > 0 /\ treeboolean[1] = 0
  BY DEF CInv, Begun, ExtractNext, ExtractCached
<1>2. /\ IsCache(Cache, Edge) /\ LeastFirst(Cache)
      /\ Cardinality(Left) + cached = num_items + 1
  BY <1>1 DEF CInv, Begun
<1>3. PICK j : j = cache[1]
  OBVIOUS
<1>4. cached \in Nat /\ cached >= 1 /\ 1 \in 1 .. cached /\ cached \in Cells
  <2>1. cached \in Cells /\ cached \in Nat
    BY SizeFacts DEF CInv, Types
  <2> QED BY <1>1, <2>1
<1>5. j \in Edge /\ {cache[i] : i \in 1 .. cached} = Edge
  BY <1>2, <1>3, <1>4 DEF IsCache, Cache
<1>6. TreeOK
  BY DEF CInv, Types, TreeOK
<1>7. /\ num_items \in Nat /\ 1 .. num_items \subseteq Cells /\ Size \in Nat
      /\ Size % 2 = 0 /\ num_items < Size
      /\ \A i : i \in Cells <=> i \in Nat /\ i < Size
      /\ \A i \in 1 .. num_items : /\ tree[i] \in Nat /\ tree[i] < MaxInt
                                   /\ treeboolean[i] \in {0, 1}
      /\ \A i \in Cells \ (1 .. num_items) : tree[i] = MaxInt /\ treeboolean[i] = MaxInt
      /\ Cardinality(Left) \in Nat /\ IsFiniteSet(Left)
  BY ItemFacts
<1>8. \A e \in Edge : e \in Cells /\ tree[j] <= tree[e]
  <2> SUFFICES ASSUME NEW e \in Edge PROVE e \in Cells /\ tree[j] <= tree[e]
    OBVIOUS
  <2>1. j \in Cells /\ e \in Cells
    BY <1>5, <1>7 DEF Edge
  <2>2. PICK i \in 1 .. cached : cache[i] = e
    BY <1>5
  <2>3. Rank[cache[1]] <= Rank[cache[i]]
    BY <1>2 DEF LeastFirst, Cache
  <2>4. Rank[j] = tree[j] /\ Rank[e] = tree[e]
    BY <1>6, <2>1, RankType
  <2> QED BY <1>3, <2>1, <2>2, <2>3, <2>4
<1>9. \A i \in Left : tree[j] <= tree[i]
  <2> SUFFICES ASSUME NEW i \in Left PROVE tree[j] <= tree[i]
    OBVIOUS
  <2>1. PICK e \in Edge : e \in 1 .. num_items /\ tree[e] <= tree[i]
    BY <1>1, EdgeAbove
  <2>2. tree[j] <= tree[e] /\ i \in 1 .. num_items
    BY <1>8, <2>1 DEF Left
  <2>3. tree[j] \in Nat
    BY <1>5, <1>7, <1>8, MaxIntAssumption
  <2> QED BY <1>7, <2>1, <2>2, <2>3
<1>10. j \in 1 .. num_items
  <2>1. PICK i : i \in Left
    OBVIOUS
  <2>2. tree[j] <= tree[i] /\ i \in 1 .. num_items
    BY <1>9, <2>1 DEF Left
  <2>3. tree[i] < MaxInt /\ tree[i] \in Nat
    BY <1>7, <2>2
  <2>4. tree[j] # MaxInt
    BY <2>2, <2>3, MaxIntAssumption
  <2> QED BY <1>5, <1>7, <1>8, <2>4
<1>11. OnEdge(j)
  <2>1. treeboolean[j \div 2] = 0 /\ treeboolean[j] = 1
    BY <1>5, <1>7, <1>10 DEF Edge
  <2> QED BY <1>10, <2>1 DEF OnEdge, Left
<1>12. cached + 1 \in Cells
  <2>1. Cardinality(Left) # 0
    BY <1>7, FS_EmptySet
  <2>2. cached + 1 <= num_items + 1
    BY <1>2, <1>4, <1>7, <2>1
  <2> QED BY <1>4, <1>7, <2>2
<1>13. PICK b, c, d, e : /\ b = ExtractMinCache(Cache) /\ c = HeapifyCache(b)
                         /\ d = InsertC(c, 2 * j) /\ e = InsertC(d, 2 * j + 1)
  OBVIOUS
<1>14. IsCache(b, Edge \ {j}) /\ b.n = cached - 1
  <2>1. Cache.n = cached /\ Cache.A[1] = j /\ Cache.n >= 1
    BY <1>3, <1>4 DEF Cache
  <2>2. /\ IsCache(ExtractMinCache(Cache), Edge \ {Cache.A[1]})
        /\ ExtractMinCache(Cache).n = Cache.n - 1
    BY <1>2, <2>1, ExtractMinFacts
  <2> QED BY <1>13, <2>1, <2>2
<1>15. IsCache(c, Edge \ {j}) /\ LeastFirst(c) /\ c.n = cached - 1
  <2>1. /\ IsCache(HeapifyCache(b), Edge \ {j}) /\ LeastFirst(HeapifyCache(b))
        /\ HeapifyCache(b).n = b.n
    BY <1>6, <1>14, HeapifyFacts
  <2> QED BY <1>13, <1>14, <2>1
<1>16. /\ 2 * j \in Nat \ (Edge \ {j})
       /\ 2 * j + 1 \in Nat \ ((Edge \ {j}) \cup {2 * j})
  <2>1. j \in Nat /\ (2 * j) \div 2 = j /\ (2 * j + 1) \div 2 = j
    BY <1>10
  <2>2. treeboolean[j] # 0
    BY <1>5 DEF Edge
  <2>3. 2 * j \notin Edge /\ 2 * j + 1 \notin Edge
    BY <2>1, <2>2 DEF Edge
  <2> QED BY <2>1, <2>3
<1>17. IsCache(d, (Edge \ {j}) \cup {2 * j}) /\ LeastFirst(d) /\ d.n = cached
  <2>1. c.n + 1 = cached /\ c.n + 1 \in Cells
    BY <1>4, <1>15
  <2>2. /\ IsCache(InsertC(c, 2 * j), (Edge \ {j}) \cup {2 * j})
        /\ LeastFirst(InsertC(c, 2 * j)) /\ InsertC(c, 2 * j).n = c.n + 1
    BY <1>6, <1>15, <1>16, <2>1, InsertCFacts
  <2> QED BY <1>13, <2>1, <2>2
<1>18. /\ IsCache(e, ((Edge \ {j}) \cup {2 * j}) \cup {2 * j + 1})
       /\ LeastFirst(e) /\ e.n = cached + 1
  <2>1. d.n + 1 = cached + 1 /\ d.n + 1 \in Cells
    BY <1>12, <1>17
  <2>2. /\ IsCache(InsertC(d, 2 * j + 1), ((Edge \ {j}) \cup {2 * j}) \cup {2 * j + 1})
        /\ LeastFirst(InsertC(d, 2 * j + 1)) /\ InsertC(d, 2 * j + 1).n = d.n + 1
    BY <1>6, <1>16, <1>17, <2>1, InsertCFacts
  <2> QED BY <1>13, <2>1, <2>2
<1>19. Extract(j, e)
  BY <1>3, <1>13 DEF ExtractNext, ExtractCached, InsertCLR
<1>20. Cardinality(Left) + e.n = num_items + 2
  BY <1>2, <1>4, <1>7, <1>18
<1>21. CInv' /\ Removed(j) /\ minval' = tree[j]
  BY <1>11, <1>18, <1>19, <1>20, ExtractInv
<1> QED BY <1>3, <1>9, <1>11, <1>21 DEF Extracts
-----------------------------------------------------------------------------
(* The theorems.                                                           *)

LEMMA CInvStutter ==
    ASSUME CInv, UNCHANGED vars
    PROVE  CInv'
<1>1. /\ tree' = tree /\ treeboolean' = treeboolean /\ num_items' = num_items
      /\ cache' = cache /\ cached' = cached /\ minval' = minval
  BY DEF vars
<1>2. Types' /\ Filled' /\ Closed' /\ Ordered(tree', num_items')
  BY <1>1 DEF CInv, Types, Filled, Closed
<1>3. Edge' = Edge /\ Cache' = Cache /\ Left' = Left /\ Rank' = Rank
  BY <1>1 DEF Edge, Cache, Left, Rank, Read
<1>4. (LeastFirst(Cache))' <=> LeastFirst(Cache)
  BY <1>3 DEF LeastFirst
<1>5. Begun'
  BY <1>1, <1>3, <1>4 DEF CInv, Begun
<1> QED BY <1>2, <1>5 DEF CInv

LEMMA CInvNext ==
    ASSUME CInv, [Next]_vars
    PROVE  CInv'
<1>1. CASE UNCHANGED vars
  BY <1>1, CInvStutter
<1>2. ASSUME NEW val \in 0 .. MaxInt - 1, Insert(val) PROVE CInv'
  BY <1>2, InsertInv
<1>3. CASE num_items > 3 /\ 2 * num_items < Size /\ Left # {} /\ ExtractRoot
  BY <1>3, ExtractRootInv
<1>4. CASE num_items > 3 /\ 2 * num_items < Size /\ Left # {} /\ ExtractNext
  BY <1>4, ExtractNextInv
<1> QED BY <1>1, <1>2, <1>3, <1>4 DEF Next

\* The tree stays in heap order, nodes are extracted after their parents, and
\* the cache holds the children of the extracted nodes that are not extracted,
\* a least one first, through every insertion and extraction of heap.cpp
\* (715-956).
THEOREM CacheInvariance == Spec => []CInv
<1>1. CInv /\ [Next]_vars => CInv'
  BY CInvNext
<1> QED BY <1>1, CInvInit, PTL DEF Spec

LEMMA CInvIsFrontier == CInv => CacheIsFrontier
<1> SUFFICES ASSUME CInv PROVE CacheIsFrontier
  OBVIOUS
<1>1. /\ num_items \in Nat /\ num_items < Size /\ Size \in Nat
      /\ Cardinality(Left) \in Nat /\ \A i : i \in Cells <=> i \in Nat /\ i < Size
  BY ItemFacts
<1>2. /\ tree \in [Cells -> Values] /\ treeboolean \in [Cells -> {0, 1, MaxInt}]
      /\ cache \in [Cells -> Nat] /\ minval \in Values /\ cached \in Cells
  BY DEF CInv, Types
<1>3. TypeOK
  <2>1. cached \in 0 .. num_items + 1
    <3>1. CASE treeboolean[1] = 0
      <4>1. Cardinality(Left) + cached = num_items + 1
        BY <3>1 DEF CInv, Begun
      <4> QED BY <1>1, <1>2, <4>1
    <3>2. CASE treeboolean[1] # 0
      BY <1>1, <3>2 DEF CInv, Begun
    <3> QED BY <3>1, <3>2
  <2> QED BY <1>1, <1>2, <2>1 DEF TypeOK
<1>4. FirstIsMin
  <2> SUFFICES ASSUME NEW i \in 1 .. cached PROVE Read(cache[1]) <= Read(cache[i])
    BY DEF FirstIsMin
  <2>1. treeboolean[1] = 0 /\ i \in Cells /\ 1 \in Cells
    BY <1>1, <1>2 DEF CInv, Begun
  <2>2. Rank[cache[1]] <= Rank[cache[i]]
    BY <2>1 DEF CInv, Begun, LeastFirst, Cache
  <2>3. cache[1] \in Nat /\ cache[i] \in Nat
    BY <1>2, <2>1
  <2> QED BY <2>2, <2>3 DEF Rank
<1>5. Frontier
  <2> SUFFICES ASSUME treeboolean[1] = 0
               PROVE  /\ {cache[i] : i \in 1 .. cached} = Edge
                      /\ \A i, j \in 1 .. cached : i # j => cache[i] # cache[j]
    BY DEF Frontier, Edge
  <2>1. IsCache(Cache, Edge)
    BY DEF CInv, Begun
  <2> QED BY <2>1 DEF IsCache, Cache
<1> QED BY <1>3, <1>4, <1>5 DEF CacheIsFrontier

\* For arrays of any depth, the first index of the cache is of a least value
\* and the cache is the frontier of the extracted nodes, although
\* _heapify_cache runs over each path once (heap.cpp:761-764).
THEOREM CacheAlwaysFrontier == Spec => []CacheIsFrontier
BY CacheInvariance, CInvIsFrontier, PTL

LEMMA BagType ==
    ASSUME CInv
    PROVE  /\ bag \in [Values -> Nat]
           /\ \A v \in Values : /\ IsFiniteSet({i \in Left : tree[i] = v})
                                /\ bag[v] = Cardinality({i \in Left : tree[i] = v})
<1>1. ASSUME NEW v \in Values
      PROVE  /\ IsFiniteSet({i \in Left : tree[i] = v})
             /\ Cardinality({i \in Left : tree[i] = v}) \in Nat
  <2>1. {i \in Left : tree[i] = v} \in SUBSET Left /\ IsFiniteSet(Left)
    BY ItemFacts
  <2>2. IsFiniteSet({i \in Left : tree[i] = v})
    BY <2>1, FS_Subset
  <2> QED BY <2>2, FS_CardinalityType
<1> QED BY <1>1 DEF bag

LEMMA CacheInsertRefines ==
    ASSUME CInv, NEW val \in 0 .. MaxInt - 1, Insert(val)
    PROVE  Queue!Insert(val) /\ val \in Values
<1>1. /\ Inserted(tree, num_items, val, tree')
      /\ num_items' = num_items + 1
      /\ Left = 1 .. num_items /\ Left' = 1 .. num_items'
  BY InsertFacts
<1>2. val \in Values
  BY MaxIntAssumption DEF Values
<1>3. ASSUME NEW v \in Values PROVE bag'[v] = IF v = val THEN bag[v] + 1 ELSE bag[v]
  <2>1. bag[v] = Cardinality(Items(tree, num_items, v))
    BY <1>1 DEF bag, Items
  <2>2. bag'[v] = Cardinality(Items(tree', num_items + 1, v))
    BY <1>1 DEF bag, Items
  <2> QED BY <1>1, <2>1, <2>2 DEF Inserted
<1>4. bag' = [bag EXCEPT ![val] = @ + 1]
  <2>1. bag' = [v \in Values |-> bag'[v]] /\ bag = [v \in Values |-> bag[v]]
    BY DEF bag
  <2>2. bag' = [v \in Values |-> IF v = val THEN bag[v] + 1 ELSE bag[v]]
    BY <1>3, <2>1
  <2> QED BY <1>2, <2>1, <2>2
<1>5. minval' = minval
  BY DEF Insert
<1> QED BY <1>2, <1>4, <1>5 DEF Queue!Insert

LEMMA CacheExtractRefines ==
    ASSUME CInv, NEW j, Extracts(j)
    PROVE  \E val \in Values : Queue!ExtractMin(val)
<1>1. PICK val : val = tree[j]
  OBVIOUS
<1>2. /\ OnEdge(j) /\ Removed(j) /\ minval' = val
      /\ \A i \in Left : val <= tree[i]
  BY <1>1 DEF Extracts
<1>3. /\ j \in 1 .. num_items /\ j \in Left
      /\ Left' = Left \ {j} /\ tree' = tree
  BY <1>2, RemovedFacts DEF OnEdge, Removed
<1>4. val \in Values /\ val \in Nat
  BY <1>1, <1>3, ItemFacts DEF CInv, Types
<1>5. \A v \in Values : /\ IsFiniteSet({i \in Left : tree[i] = v})
                        /\ bag[v] = Cardinality({i \in Left : tree[i] = v})
                        /\ bag[v] \in Nat
  BY BagType
<1>6. bag[val] > 0
  <2>1. {i \in Left : tree[i] = val} # {}
    BY <1>1, <1>3
  <2>2. Cardinality({i \in Left : tree[i] = val}) # 0
    BY <1>4, <1>5, <2>1, FS_EmptySet
  <2> QED BY <1>4, <1>5, <2>2
<1>7. ASSUME NEW v \in Values, v < val PROVE bag[v] = 0
  <2>1. \A i \in Left : tree[i] \in Nat
    BY ItemFacts DEF Left
  <2>2. {i \in Left : tree[i] = v} = {}
    BY <1>2, <1>4, <1>7, <2>1 DEF Values
  <2> QED BY <1>5, <2>2, FS_EmptySet
<1>8. ASSUME NEW v \in Values PROVE bag'[v] = IF v = val THEN bag[v] - 1 ELSE bag[v]
  <2>1. PICK S : S = {i \in Left : tree[i] = v}
    OBVIOUS
  <2>2. bag'[v] = Cardinality({i \in Left \ {j} : tree[i] = v})
    BY <1>3 DEF bag
  <2>3. CASE v = val
    <3>1. {i \in Left \ {j} : tree[i] = v} = S \ {j} /\ j \in S
      BY <1>1, <1>3, <2>1, <2>3
    <3>2. Cardinality(S \ {j}) = Cardinality(S) - 1
      BY <1>5, <2>1, <3>1, FS_RemoveElement
    <3> QED BY <1>5, <2>1, <2>2, <2>3, <3>1, <3>2
  <2>4. CASE v # val
    <3>1. {i \in Left \ {j} : tree[i] = v} = S
      BY <1>1, <2>1, <2>4
    <3> QED BY <1>5, <2>1, <2>2, <2>4, <3>1
  <2> QED BY <2>3, <2>4
<1>9. bag' = [bag EXCEPT ![val] = @ - 1]
  <2>1. bag' = [v \in Values |-> bag'[v]] /\ bag = [v \in Values |-> bag[v]]
    BY DEF bag
  <2>2. bag' = [v \in Values |-> IF v = val THEN bag[v] - 1 ELSE bag[v]]
    BY <1>8, <2>1
  <2> QED BY <1>4, <2>1, <2>2
<1>10. Queue!ExtractMin(val)
  BY <1>2, <1>6, <1>7, <1>9 DEF Queue!ExtractMin, Queue!Values, Values
<1> QED BY <1>4, <1>10

LEMMA CacheInitRefines == Init => Queue!Init
<1> SUFFICES ASSUME Init PROVE Queue!Init
  OBVIOUS
<1>1. bag \in [Values -> Nat]
  BY CInvInit, BagType
<1> QED BY <1>1 DEF Init, Queue!Init, Queue!Values, Values

LEMMA CacheNextRefines ==
    ASSUME CInv, [Next]_vars
    PROVE  [Queue!Next]_<<bag, minval>>
<1>0. Queue!Values = Values
  BY DEF Queue!Values, Values
<1>1. CASE UNCHANGED vars
  BY <1>1 DEF vars, bag, Left
<1>2. ASSUME NEW val \in 0 .. MaxInt - 1, Insert(val) PROVE Queue!Next
  <2>1. Queue!Insert(val) /\ val \in Values
    BY <1>2, CacheInsertRefines
  <2> QED BY <1>0, <2>1 DEF Queue!Next
<1>3. ASSUME NEW j, Extracts(j) PROVE Queue!Next
  <2>1. PICK val \in Values : Queue!ExtractMin(val)
    BY <1>3, CacheExtractRefines
  <2> QED BY <1>0, <2>1 DEF Queue!Next
<1>4. CASE num_items > 3 /\ 2 * num_items < Size /\ Left # {} /\ ExtractRoot
  <2>1. Extracts(1)
    BY <1>4, ExtractRootInv
  <2> QED BY <1>3, <2>1
<1>5. CASE num_items > 3 /\ 2 * num_items < Size /\ Left # {} /\ ExtractNext
  <2>1. Extracts(cache[1])
    BY <1>5, ExtractNextInv
  <2> QED BY <1>3, <2>1
<1> QED BY <1>1, <1>2, <1>4, <1>5 DEF Next

\* The tree with its Booleans and its cache implements a priority queue
\* (heap.cpp:715-956): each extraction returns a least value of those inserted
\* and not yet extracted, and takes out that one only.
THEOREM CacheIsPriorityQueue == Spec => ImplementsQueue
<1>1. CInv /\ [Next]_vars => [Queue!Next]_<<bag, minval>>
  BY CacheNextRefines
<1> QED BY <1>1, CacheInitRefines, CacheInvariance, PTL DEF Spec, ImplementsQueue, Queue!Spec
=============================================================================
