----------------------------- MODULE RDPFProofs -----------------------------
(***************************************************************************)
(* Proofs about RDPF.tla, for RDPFs of any depth and width, words of any   *)
(* length and any generators: that the parties' layers are the same but at *)
(* the target's node, where their flags differ, and that keys have the     *)
(* shape of their phase; that the leaves share the vectors of the target;  *)
(* that storing and expanding change nothing; and that the threads of an   *)
(* evaluation process its range.                                           *)
(* The parties correct a level knowing only the XOR of all children on a   *)
(* side; over both parties that is the XOR of the target's children,       *)
(* because the others occur twice.  Leaves are found by descending: a key  *)
(* has a tree of layers, and paths are ways through it, moved from an      *)
(* index to the next as a carry goes through the digits.                   *)
(***************************************************************************)
EXTENDS RDPF, Basics, SequenceTheorems

-----------------------------------------------------------------------------
(* Powers of 2, quotients and bits, as in Basics.                          *)

LEMMA Binary ==
    /\ Shl = Pow2 /\ XorBits = XorTable
    /\ \A v, k : Bit(v, k) = Digit(v, k)
<1>1. Shl = Pow2
  BY DEF Shl, Pow2
<1>2. XorBits = XorTable
  BY DEF XorBits, XorTable
<1> QED BY <1>1, <1>2 DEF Bit, Digit

LEMMA ShlFacts ==
    /\ Shl[0] = 1
    /\ \A n \in Nat : Shl[n] \in Nat \ {0} /\ Shl[n + 1] = 2 * Shl[n]
BY Binary, Pow2Facts

LEMMA ShlSum ==
    ASSUME NEW m \in Nat, NEW n \in Nat
    PROVE  Shl[m + n] = Shl[m] * Shl[n]
BY Binary, Pow2Sum

\* A quotient by a power of 2 is twice the next one and a bit.
LEMMA NextQuotient ==
    ASSUME NEW v \in Nat, NEW k \in Nat
    PROVE  /\ v \div Shl[k] = 2 * (v \div Shl[k + 1]) + Bit(v, k)
           /\ v \div Shl[k] \in Nat /\ v \div Shl[k + 1] \in Nat
           /\ Bit(v, k) \in {0, 1}
BY Binary, QuotientOfPower

LEMMA Sizes ==
    /\ WordBits \in Nat /\ WordBits > 0 /\ 0 \in Bits
    /\ MaxDepth \in Nat /\ MaxDepth >= 1 /\ MaxDepth <= 63 /\ MaxDepth <= WordBits
    /\ Width \in Nat /\ Width > 0 /\ LWidth \in Nat /\ LWidth >= 1
<1>1. WordBits \in Nat /\ WordBits > 0
  BY WordBitsAssumption
<1>2. MaxDepth \in Nat /\ MaxDepth >= 1 /\ MaxDepth <= 63 /\ MaxDepth <= WordBits
  BY <1>1, DepthAssumption
<1>3. Width \in Nat /\ Width > 0 /\ Width \div 2 \in Nat
  BY WidthAssumption
<1> QED BY <1>1, <1>2, <1>3 DEF Bits, LWidth

-----------------------------------------------------------------------------
(* Nodes, leaves and children.                                             *)

Generators == [(0 .. LWidth) \X Node -> Node]

LEMMA XorType ==
    ASSUME NEW a \in Node, NEW b \in Node
    PROVE  /\ XorNode(a, b) \in Node
           /\ \A f : xor_if(a, b, f) \in Node
           /\ \A f : xor_lsb(a, f) \in Node
<1>1. {0} \in Node
  BY Sizes DEF Node
<1> QED BY <1>1 DEF XorNode, xor_if, xor_lsb, Node

LEMMA NodeType ==
    ASSUME NEW G \in Generators, NEW n \in Node, NEW side, NEW j \in 0 .. LWidth
    PROVE  prg(G, n, side, j) \in Node
<1> DEFINE in == (n \ {0}) \cup (IF side = 1 THEN {0} ELSE {})
<1>1. in \in Node
  BY Sizes DEF Node
<1> HIDE DEF in
<1>2. G[<<j, in>>] \in Node
  BY <1>1 DEF Generators
<1>3. XorNode(G[<<j, in>>], in) \in Node
  BY <1>1, <1>2, XorType
<1> QED BY <1>3 DEF prg, in

\* The nodes of a child, of one or of a leaf.
Wide(leaf) == IF leaf THEN LWidth ELSE 1
Leaves(leaf) == [1 .. Wide(leaf) -> Node]

LEMMA WideType ==
    \A leaf : Wide(leaf) \in Nat /\ Wide(leaf) >= 1 /\ 1 \in 1 .. Wide(leaf)
BY Sizes DEF Wide

LEMMA ChildType ==
    ASSUME Gens[gen] \in Generators, NEW n \in Node, NEW side, NEW leaf
    PROVE  Child(n, side, leaf) \in Leaves(leaf)
<1>1. CASE leaf
  <2>1. \A j \in 1 .. LWidth : prg(Gens[gen], n, side, j) \in Node
    BY Sizes, NodeType
  <2> QED BY <1>1, <2>1 DEF Child, Leaves, Wide
<1>2. CASE ~ leaf
  <2>1. prg(Gens[gen], n, side, 0) \in Node
    BY Sizes, NodeType
  <2>2. \A x : <<x>> = [j \in 1 .. 1 |-> x]
    OBVIOUS
  <2>3. Child(n, side, leaf) = [j \in 1 .. 1 |-> prg(Gens[gen], n, side, 0)]
    BY <1>2, <2>2 DEF Child
  <2> QED BY <1>2, <2>1, <2>3 DEF Leaves, Wide
<1> QED BY <1>1, <1>2

LEMMA LeafOps ==
    ASSUME NEW W \in Nat, W >= 1, NEW a \in [1 .. W -> Node], NEW b \in [1 .. W -> Node]
    PROVE  /\ XorLeaf(a, b) \in [1 .. W -> Node]
           /\ \A j \in 1 .. W : XorLeaf(a, b)[j] = XorNode(a[j], b[j])
           /\ \A f : /\ xor_leaf_lsb(a, f) \in [1 .. W -> Node]
                     /\ xor_leaf_lsb(a, f)[1] = xor_lsb(a[1], f)
                     /\ \A j \in 1 .. W : j # 1 => xor_leaf_lsb(a, f)[j] = a[j]
           /\ \A f : xor_leaf_if(a, b, f) \in [1 .. W -> Node]
<1>1. \A j \in 1 .. W : a[j] \in Node /\ b[j] \in Node
  OBVIOUS
<1>2. XorLeaf(a, b) = [j \in 1 .. W |-> XorNode(a[j], b[j])]
  BY DEF XorLeaf
<1>3. XorLeaf(a, b) \in [1 .. W -> Node]
  BY <1>1, <1>2, XorType
<1>4. 1 \in 1 .. W
  OBVIOUS
<1>5. ASSUME NEW f
      PROVE  /\ xor_leaf_lsb(a, f) \in [1 .. W -> Node]
             /\ xor_leaf_lsb(a, f)[1] = xor_lsb(a[1], f)
             /\ \A j \in 1 .. W : j # 1 => xor_leaf_lsb(a, f)[j] = a[j]
  <2>1. xor_lsb(a[1], f) \in Node
    BY <1>1, <1>4, XorType
  <2>2. xor_leaf_lsb(a, f) = [a EXCEPT ![1] = xor_lsb(a[1], f)]
    BY DEF xor_leaf_lsb
  <2> QED BY <1>4, <2>1, <2>2
<1>6. \A f : xor_leaf_if(a, b, f) \in [1 .. W -> Node]
  BY <1>3 DEF xor_leaf_if
<1> QED BY <1>2, <1>3, <1>5, <1>6

\* The flag of a XOR.
LEMMA FlagOfXor ==
    \A a, b : get_lsb(XorNode(a, b)) <=> (get_lsb(a) # get_lsb(b))
BY DEF get_lsb, XorNode

LEMMA FlagOfFlip ==
    \A a, f : f \in BOOLEAN => (get_lsb(xor_lsb(a, f)) <=> (get_lsb(a) # f))
BY DEF get_lsb, xor_lsb, XorNode

LEMMA XorBack ==
    \A a, b : /\ XorNode(a, XorNode(a, b)) = b
              /\ XorNode(XorNode(a, b), a) = b
              /\ XorNode(XorNode(a, b), b) = a
              /\ XorNode(a, b) = XorNode(b, a)
              /\ XorNode(a, {}) = a
              /\ XorNode(a, a) = {}
              /\ (XorNode(a, b) = {} => a = b)
BY DEF XorNode

LEMMA FlipTwice ==
    \A a, f : /\ xor_lsb(xor_lsb(a, f), f) = a
              /\ xor_lsb(a, FALSE) = a
BY DEF xor_lsb, XorNode

\* Flipping the flags of two nodes flips that of their XOR if one is flipped.
LEMMA XorOfFlips ==
    \A a, b, f, g : f \in BOOLEAN /\ g \in BOOLEAN =>
        XorNode(xor_lsb(a, f), xor_lsb(b, g)) = xor_lsb(XorNode(a, b), f # g)
BY DEF xor_lsb, XorNode

LEMMA LeafFlips ==
    ASSUME NEW W \in Nat, W >= 1, NEW a \in [1 .. W -> Node], NEW b \in [1 .. W -> Node],
           NEW f \in BOOLEAN, NEW g \in BOOLEAN
    PROVE  /\ XorLeaf(xor_leaf_lsb(a, f), xor_leaf_lsb(b, g)) = xor_leaf_lsb(XorLeaf(a, b), f # g)
           /\ xor_leaf_lsb(xor_leaf_lsb(a, f), f) = a
<1> DEFINE u == xor_leaf_lsb(a, f)
           v == xor_leaf_lsb(b, g)
           c == XorLeaf(a, b)
           w == xor_leaf_lsb(c, f # g)
           x == XorLeaf(u, v)
           y == xor_leaf_lsb(u, f)
<1>1. c \in [1 .. W -> Node] /\ \A j \in 1 .. W : c[j] = XorNode(a[j], b[j])
  BY LeafOps
<1>2. /\ u \in [1 .. W -> Node] /\ u[1] = xor_lsb(a[1], f)
      /\ \A j \in 1 .. W : j # 1 => u[j] = a[j]
  BY LeafOps
<1>3. /\ v \in [1 .. W -> Node] /\ v[1] = xor_lsb(b[1], g)
      /\ \A j \in 1 .. W : j # 1 => v[j] = b[j]
  BY LeafOps
<1> HIDE DEF u, v, c
<1>4. /\ w \in [1 .. W -> Node] /\ w[1] = xor_lsb(c[1], f # g)
      /\ \A j \in 1 .. W : j # 1 => w[j] = c[j]
  BY <1>1, LeafOps
<1>5. x \in [1 .. W -> Node] /\ \A j \in 1 .. W : x[j] = XorNode(u[j], v[j])
  BY <1>2, <1>3, LeafOps
<1>6. /\ y \in [1 .. W -> Node] /\ y[1] = xor_lsb(u[1], f)
      /\ \A j \in 1 .. W : j # 1 => y[j] = u[j]
  BY <1>2, LeafOps
<1> HIDE DEF w, x, y
<1>7. \A j \in 1 .. W : x[j] = w[j] /\ y[j] = a[j]
  <2> SUFFICES ASSUME NEW j \in 1 .. W PROVE x[j] = w[j] /\ y[j] = a[j]
    OBVIOUS
  <2>1. CASE j = 1
    <3>1. x[1] = XorNode(xor_lsb(a[1], f), xor_lsb(b[1], g))
      BY <2>1, <1>2, <1>3, <1>5
    <3>2. w[1] = xor_lsb(XorNode(a[1], b[1]), f # g)
      BY <2>1, <1>1, <1>4
    <3>3. y[1] = xor_lsb(xor_lsb(a[1], f), f)
      BY <1>2, <1>6
    <3> QED BY <2>1, <3>1, <3>2, <3>3, XorOfFlips, FlipTwice
  <2>2. CASE j # 1
    BY <2>2, <1>1, <1>2, <1>3, <1>4, <1>5, <1>6
  <2> QED BY <2>1, <2>2
<1>8. x = w
  BY <1>4, <1>5, <1>7
<1>9. y = a
  BY <1>6, <1>7
<1> QED BY <1>8, <1>9 DEF x, w, y, u, v, c
\* The same for the flags of leaves.
LEMMA LeafFlags ==
    ASSUME NEW W \in Nat, W >= 1, NEW a \in [1 .. W -> Node], NEW b \in [1 .. W -> Node]
    PROVE  /\ leaf_lsb(XorLeaf(a, b)) <=> (leaf_lsb(a) # leaf_lsb(b))
           /\ \A f \in BOOLEAN : leaf_lsb(xor_leaf_lsb(a, f)) <=> (leaf_lsb(a) # f)
<1>1. XorLeaf(a, b)[1] = XorNode(a[1], b[1])
  BY LeafOps
<1>2. get_lsb(XorNode(a[1], b[1])) <=> (get_lsb(a[1]) # get_lsb(b[1]))
  BY FlagOfXor
<1>3. ASSUME NEW f \in BOOLEAN PROVE leaf_lsb(xor_leaf_lsb(a, f)) <=> (leaf_lsb(a) # f)
  <2>1. xor_leaf_lsb(a, f)[1] = xor_lsb(a[1], f)
    BY LeafOps
  <2>2. get_lsb(xor_lsb(a[1], f)) <=> (get_lsb(a[1]) # f)
    BY FlagOfFlip
  <2> QED BY <2>1, <2>2 DEF leaf_lsb
<1> QED BY <1>1, <1>2, <1>3 DEF leaf_lsb

\* A correction by the difference of two leaves makes them the same.
LEMMA LeavesMeet ==
    ASSUME NEW W \in Nat, W >= 1, NEW m \in [1 .. W -> Node], NEW n \in [1 .. W -> Node],
           NEW f \in BOOLEAN, NEW g \in BOOLEAN, f # g
    PROVE  xor_leaf_if(m, XorLeaf(m, n), f) = xor_leaf_if(n, XorLeaf(m, n), g)
<1> DEFINE d == XorLeaf(m, n)
<1>1. d \in [1 .. W -> Node] /\ \A j \in 1 .. W : d[j] = XorNode(m[j], n[j])
  BY LeafOps
<1> HIDE DEF d
<1> DEFINE x == XorLeaf(m, d)
           y == XorLeaf(n, d)
<1>2. x \in [1 .. W -> Node] /\ \A j \in 1 .. W : x[j] = XorNode(m[j], d[j])
  BY <1>1, LeafOps
<1>3. y \in [1 .. W -> Node] /\ \A j \in 1 .. W : y[j] = XorNode(n[j], d[j])
  BY <1>1, LeafOps
<1> HIDE DEF x, y
<1>4. \A j \in 1 .. W : x[j] = n[j]
  BY <1>1, <1>2, XorBack
<1>5. \A j \in 1 .. W : y[j] = m[j]
  BY <1>1, <1>3, XorBack
<1>6. x = n /\ y = m
  BY <1>2, <1>3, <1>4, <1>5
<1>7. xor_leaf_if(m, d, f) = (IF f THEN x ELSE m) /\ xor_leaf_if(n, d, g) = (IF g THEN y ELSE n)
  BY DEF xor_leaf_if, x, y
<1>8. xor_leaf_if(m, d, f) = xor_leaf_if(n, d, g)
  BY <1>6, <1>7
<1> QED BY <1>8 DEF d

\* One by a word whose flag is not the one between those of two leaves makes
\* their flags differ.
LEMMA FlagsPart ==
    ASSUME NEW W \in Nat, W >= 1, NEW m \in [1 .. W -> Node], NEW n \in [1 .. W -> Node],
           NEW w \in [1 .. W -> Node], NEW f \in BOOLEAN, NEW g \in BOOLEAN, f # g,
           leaf_lsb(w) <=> (leaf_lsb(m) <=> leaf_lsb(n))
    PROVE  leaf_lsb(xor_leaf_if(m, w, f)) # leaf_lsb(xor_leaf_if(n, w, g))
<1>1. leaf_lsb(m) \in BOOLEAN /\ leaf_lsb(n) \in BOOLEAN /\ leaf_lsb(w) \in BOOLEAN
  BY DEF get_lsb, leaf_lsb
<1>2. /\ leaf_lsb(XorLeaf(m, w)) <=> (leaf_lsb(m) # leaf_lsb(w))
      /\ leaf_lsb(XorLeaf(n, w)) <=> (leaf_lsb(n) # leaf_lsb(w))
  <2>1. XorLeaf(m, w)[1] = XorNode(m[1], w[1]) /\ XorLeaf(n, w)[1] = XorNode(n[1], w[1])
    BY LeafOps
  <2> QED BY <2>1, FlagOfXor DEF leaf_lsb
<1>3. CASE f
  <2>1. xor_leaf_if(m, w, f) = XorLeaf(m, w) /\ xor_leaf_if(n, w, g) = n
    BY <1>3 DEF xor_leaf_if
  <2> QED BY <1>1, <1>2, <2>1
<1>4. CASE g
  <2>1. xor_leaf_if(m, w, f) = m /\ xor_leaf_if(n, w, g) = XorLeaf(n, w)
    BY <1>4 DEF xor_leaf_if
  <2> QED BY <1>1, <1>2, <2>1
<1> QED BY <1>3, <1>4

-----------------------------------------------------------------------------
(* The XOR of a side of a layer.                                           *)

Odd(S) == Cardinality(S) % 2 = 1

\* Sets that differ at most in t have the same parity if they agree in t.
LEMMA ParityDiffers ==
    ASSUME NEW S, NEW T, IsFiniteSet(S), IsFiniteSet(T), NEW t,
           \A i : i # t => (i \in S <=> i \in T)
    PROVE  (Odd(S) # Odd(T)) <=> ((t \in S) # (t \in T))
<1> DEFINE U == S \ {t}
<1>1. U = T \ {t}
  OBVIOUS
<1>2. IsFiniteSet(U) /\ Cardinality(U) \in Nat
  BY FS_Difference, FS_CardinalityType
<1>3. /\ t \in S => Cardinality(S) = Cardinality(U) + 1
      /\ t \notin S => Cardinality(S) = Cardinality(U)
  <2>1. CASE t \in S
    <3>1. S = U \cup {t} /\ t \notin U
      BY <2>1
    <3>2. Cardinality(U \cup {t}) = Cardinality(U) + 1
      BY <1>2, <3>1, FS_AddElement
    <3> QED BY <2>1, <3>1, <3>2
  <2>2. CASE t \notin S
    BY <2>2
  <2> QED BY <2>1, <2>2
<1>4. /\ t \in T => Cardinality(T) = Cardinality(U) + 1
      /\ t \notin T => Cardinality(T) = Cardinality(U)
  <2>1. CASE t \in T
    <3>1. T = U \cup {t} /\ t \notin U
      BY <2>1, <1>1
    <3>2. Cardinality(U \cup {t}) = Cardinality(U) + 1
      BY <1>2, <3>1, FS_AddElement
    <3> QED BY <2>1, <3>1, <3>2
  <2>2. CASE t \notin T
    <3>1. T = U
      BY <2>2, <1>1
    <3> QED BY <2>2, <3>1
  <2> QED BY <2>1, <2>2
<1> HIDE DEF U
<1>5. (Cardinality(U) + 1) % 2 = 1 <=> Cardinality(U) % 2 # 1
  BY <1>2
<1>6. /\ t \in S => (Odd(S) <=> Cardinality(U) % 2 # 1)
      /\ t \notin S => (Odd(S) <=> Cardinality(U) % 2 = 1)
  BY <1>3, <1>5 DEF Odd
<1>7. /\ t \in T => (Odd(T) <=> Cardinality(U) % 2 # 1)
      /\ t \notin T => (Odd(T) <=> Cardinality(U) % 2 = 1)
  BY <1>4, <1>5 DEF Odd
<1> QED BY <1>6, <1>7 DEF Odd

\* The XOR over leaves that are the same but at t differs by those at t.
LEMMA XorOverDiffers ==
    ASSUME NEW W \in Nat, W >= 1, NEW S, IsFiniteSet(S), NEW t \in S,
           NEW f \in [S -> [1 .. W -> Node]], NEW g \in [S -> [1 .. W -> Node]],
           \A i \in S : i # t => f[i] = g[i]
    PROVE  /\ XorOver(f, S, W) \in [1 .. W -> Node]
           /\ XorOver(g, S, W) \in [1 .. W -> Node]
           /\ XorLeaf(XorOver(f, S, W), XorOver(g, S, W)) = XorLeaf(f[t], g[t])
<1> DEFINE F(j, b) == {i \in S : b \in f[i][j]}
           H(j, b) == {i \in S : b \in g[i][j]}
           x == XorOver(f, S, W)
           y == XorOver(g, S, W)
<1>1. x = [j \in 1 .. W |-> {b \in Bits : Odd(F(j, b))}]
  BY DEF XorOver, Odd
<1>2. y = [j \in 1 .. W |-> {b \in Bits : Odd(H(j, b))}]
  BY DEF XorOver, Odd
<1>3. x \in [1 .. W -> Node] /\ y \in [1 .. W -> Node]
  BY <1>1, <1>2 DEF Node
<1>4. /\ f[t] \in [1 .. W -> Node] /\ g[t] \in [1 .. W -> Node]
  OBVIOUS
<1> HIDE DEF x, y
<1> DEFINE u == XorLeaf(x, y)
           v == XorLeaf(f[t], g[t])
<1>5. u \in [1 .. W -> Node] /\ \A j \in 1 .. W : u[j] = XorNode(x[j], y[j])
  BY <1>3, LeafOps
<1>6. v \in [1 .. W -> Node] /\ \A j \in 1 .. W : v[j] = XorNode(f[t][j], g[t][j])
  BY <1>4, LeafOps
<1> HIDE DEF u, v
<1>7. ASSUME NEW j \in 1 .. W PROVE u[j] = v[j]
  <2>1. u[j] \subseteq Bits /\ v[j] \subseteq Bits /\ u[j] = XorNode(x[j], y[j])
        /\ v[j] = XorNode(f[t][j], g[t][j])
    BY <1>5, <1>6 DEF Node
  <2>2. ASSUME NEW b \in Bits PROVE b \in u[j] <=> b \in v[j]
    <3>1. (b \in x[j] <=> Odd(F(j, b))) /\ (b \in y[j] <=> Odd(H(j, b)))
      BY <1>1, <1>2
    <3>2. (Odd(F(j, b)) # Odd(H(j, b))) <=> ((t \in F(j, b)) # (t \in H(j, b)))
      <4>1. IsFiniteSet(F(j, b)) /\ IsFiniteSet(H(j, b))
        BY FS_Subset
      <4>2. \A i : i # t => (i \in F(j, b) <=> i \in H(j, b))
        OBVIOUS
      <4> HIDE DEF F, H
      <4> QED BY <4>1, <4>2, ParityDiffers
    <3>3. (t \in F(j, b) <=> b \in f[t][j]) /\ (t \in H(j, b) <=> b \in g[t][j])
      OBVIOUS
    <3>4. b \in u[j] <=> ((b \in x[j]) # (b \in y[j]))
      BY <2>1 DEF XorNode
    <3>5. b \in v[j] <=> ((b \in f[t][j]) # (b \in g[t][j]))
      BY <2>1 DEF XorNode
    <3> HIDE DEF F, H
    <3>6. Odd(F(j, b)) \in BOOLEAN /\ Odd(H(j, b)) \in BOOLEAN
      BY DEF Odd
    <3> QED BY <3>1, <3>2, <3>3, <3>4, <3>5, <3>6
  <2> QED BY <2>1, <2>2
<1>8. u = v
  BY <1>5, <1>6, <1>7
<1> QED BY <1>3, <1>8 DEF u, v, x, y

-----------------------------------------------------------------------------
(* A level.                                                                *)

\* Two layers of N nodes that are the same but at t, where their flags differ.
OffAt(L0, L1, N, t) ==
    /\ L0 \in [0 .. N - 1 -> Node] /\ L1 \in [0 .. N - 1 -> Node]
    /\ t \in 0 .. N - 1
    /\ get_lsb(L0[t]) # get_lsb(L1[t])
    /\ \A i \in 0 .. N - 1 : i # t => L0[i] = L1[i]

LEMMA SideXors ==
    ASSUME Gens[gen] \in Generators, NEW N \in Nat, NEW L0, NEW L1, NEW t,
           OffAt(L0, L1, N, t), NEW side, NEW leaf
    PROVE  /\ SideXor(L0, side, leaf) \in Leaves(leaf)
           /\ SideXor(L1, side, leaf) \in Leaves(leaf)
           /\ XorLeaf(SideXor(L0, side, leaf), SideXor(L1, side, leaf))
                = XorLeaf(Child(L0[t], side, leaf), Child(L1[t], side, leaf))
<1> DEFINE W == Wide(leaf)
           S == 0 .. N - 1
           f == [i \in S |-> Child(L0[i], side, leaf)]
           g == [i \in S |-> Child(L1[i], side, leaf)]
<1>1. W \in Nat /\ W >= 1
  BY WideType
<1>2. IsFiniteSet(S) /\ t \in S
  BY FS_Interval DEF OffAt
<1>3. \A i \in S : L0[i] \in Node /\ L1[i] \in Node
  BY DEF OffAt
<1>4. f \in [S -> Leaves(leaf)] /\ g \in [S -> Leaves(leaf)]
  BY <1>3, ChildType
<1>5. \A i \in S : i # t => f[i] = g[i]
  BY DEF OffAt
<1>6. DOMAIN L0 = S /\ DOMAIN L1 = S
  BY DEF OffAt
<1>7. SideXor(L0, side, leaf) = XorOver(f, S, W) /\ SideXor(L1, side, leaf) = XorOver(g, S, W)
  BY <1>6 DEF SideXor, Wide
<1>8. f[t] = Child(L0[t], side, leaf) /\ g[t] = Child(L1[t], side, leaf)
  BY <1>2
<1>9. f \in [S -> [1 .. W -> Node]] /\ g \in [S -> [1 .. W -> Node]]
  BY <1>4 DEF Leaves
<1> HIDE DEF f, g, S, W
<1>10. /\ XorOver(f, S, W) \in [1 .. W -> Node] /\ XorOver(g, S, W) \in [1 .. W -> Node]
       /\ XorLeaf(XorOver(f, S, W), XorOver(g, S, W)) = XorLeaf(f[t], g[t])
  BY <1>1, <1>2, <1>5, <1>9, XorOverDiffers
<1> QED BY <1>7, <1>8, <1>10 DEF Leaves, W

\* The flag that makes the flags of the target's children l0, r0 and l1, r1 add
\* up to 1.
LevelFlag(l0, r0, l1, r1) ==
    ~ ((leaf_lsb(l0) # leaf_lsb(l1)) # (leaf_lsb(r0) # leaf_lsb(r1)))

\* A correction is that of the target's children alone.
LEMMA CorrectionIs ==
    ASSUME Gens[gen] \in Generators, NEW N \in Nat, NEW layers, NEW t,
           OffAt(layers[0], layers[1], N, t), NEW bit, NEW leaf,
           NEW c, c = Correction(layers, bit, leaf),
           NEW l0, l0 = Child(layers[0][t], 0, leaf), NEW l1, l1 = Child(layers[1][t], 0, leaf),
           NEW r0, r0 = Child(layers[0][t], 1, leaf), NEW r1, r1 = Child(layers[1][t], 1, leaf)
    PROVE  /\ c.cfbit \in BOOLEAN /\ c.cfbit = LevelFlag(l0, r0, l1, r1)
           /\ c.cw = IF bit = 0 THEN xor_leaf_lsb(XorLeaf(r0, r1), c.cfbit) ELSE XorLeaf(l0, l1)
<1> DEFINE W == Wide(leaf)
           A0 == SideXor(layers[0], 0, leaf)
           A1 == SideXor(layers[1], 0, leaf)
           B0 == SideXor(layers[0], 1, leaf)
           B1 == SideXor(layers[1], 1, leaf)
           p0 == XorBool(XorBool(leaf_lsb(A0), leaf_lsb(B0)), FALSE)
           p1 == XorBool(XorBool(leaf_lsb(A1), leaf_lsb(B1)), TRUE)
<1>1. W \in Nat /\ W >= 1 /\ 1 \in 1 .. W
  BY WideType
<1>2. /\ A0 \in [1 .. W -> Node] /\ A1 \in [1 .. W -> Node] /\ XorLeaf(A0, A1) = XorLeaf(l0, l1)
      /\ B0 \in [1 .. W -> Node] /\ B1 \in [1 .. W -> Node] /\ XorLeaf(B0, B1) = XorLeaf(r0, r1)
  BY SideXors DEF Leaves
<1>3. layers[0][t] \in Node /\ layers[1][t] \in Node
  BY DEF OffAt
<1>4. /\ l0 \in [1 .. W -> Node] /\ l1 \in [1 .. W -> Node]
      /\ r0 \in [1 .. W -> Node] /\ r1 \in [1 .. W -> Node]
  BY <1>3, ChildType DEF Leaves
<1>5. p0 \in BOOLEAN /\ p1 \in BOOLEAN
  BY DEF XorBool
<1>6. c = [cw |-> IF bit = 0 THEN XorLeaf(xor_leaf_lsb(B0, p0), xor_leaf_lsb(B1, p1))
                  ELSE XorLeaf(A0, A1),
           cfbit |-> XorBool(p0, p1)]
  <2>1. 0 \in Halves /\ 1 \in Halves /\ Flag(0) = FALSE /\ Flag(1) = TRUE
    BY DEF Halves, Flag
  <2> QED BY <2>1 DEF Correction
<1> HIDE DEF W, A0, A1, B0, B1
<1>7. /\ leaf_lsb(XorLeaf(A0, A1)) <=> (leaf_lsb(A0) # leaf_lsb(A1))
      /\ leaf_lsb(XorLeaf(B0, B1)) <=> (leaf_lsb(B0) # leaf_lsb(B1))
      /\ leaf_lsb(XorLeaf(l0, l1)) <=> (leaf_lsb(l0) # leaf_lsb(l1))
      /\ leaf_lsb(XorLeaf(r0, r1)) <=> (leaf_lsb(r0) # leaf_lsb(r1))
  <2>1. \A a, b \in [1 .. W -> Node] : leaf_lsb(XorLeaf(a, b)) <=> (leaf_lsb(a) # leaf_lsb(b))
    BY <1>1, LeafFlags
  <2>2. leaf_lsb(XorLeaf(A0, A1)) <=> (leaf_lsb(A0) # leaf_lsb(A1))
    BY <1>2, <2>1
  <2>3. leaf_lsb(XorLeaf(B0, B1)) <=> (leaf_lsb(B0) # leaf_lsb(B1))
    BY <1>2, <2>1
  <2>4. leaf_lsb(XorLeaf(l0, l1)) <=> (leaf_lsb(l0) # leaf_lsb(l1))
    BY <1>4, <2>1
  <2>5. leaf_lsb(XorLeaf(r0, r1)) <=> (leaf_lsb(r0) # leaf_lsb(r1))
    BY <1>4, <2>1
  <2> QED BY <2>2, <2>3, <2>4, <2>5
<1>8. (p0 # p1) = LevelFlag(l0, r0, l1, r1)
  <2>1. \A x : leaf_lsb(x) \in BOOLEAN
    BY DEF leaf_lsb, get_lsb
  <2>2. /\ (leaf_lsb(A0) # leaf_lsb(A1)) <=> (leaf_lsb(l0) # leaf_lsb(l1))
        /\ (leaf_lsb(B0) # leaf_lsb(B1)) <=> (leaf_lsb(r0) # leaf_lsb(r1))
    BY <1>2, <1>7
  <2>3. \A a, b, x, y \in BOOLEAN :
          (((a # x) # FALSE) # ((b # y) # TRUE)) <=> ~ ((a # b) # (x # y))
    BY Zenon
  <2>4. (p0 # p1) <=> ~ ((leaf_lsb(A0) # leaf_lsb(A1)) # (leaf_lsb(B0) # leaf_lsb(B1)))
    <3> HIDE DEF p0, p1
    <3>1. p0 = ((leaf_lsb(A0) # leaf_lsb(B0)) # FALSE) /\ p1 = ((leaf_lsb(A1) # leaf_lsb(B1)) # TRUE)
      BY Zenon DEF p0, p1, XorBool
    <3>2. /\ leaf_lsb(A0) \in BOOLEAN /\ leaf_lsb(A1) \in BOOLEAN
          /\ leaf_lsb(B0) \in BOOLEAN /\ leaf_lsb(B1) \in BOOLEAN
      BY <2>1
    <3> QED BY <2>3, <3>1, <3>2, Zenon
  <2>5. (p0 # p1) <=> LevelFlag(l0, r0, l1, r1)
    BY <2>2, <2>4 DEF LevelFlag
  <2>6. LevelFlag(l0, r0, l1, r1) \in BOOLEAN
    BY DEF LevelFlag
  <2> QED BY <2>5, <2>6
<1> HIDE DEF p0, p1
<1>9. XorLeaf(xor_leaf_lsb(B0, p0), xor_leaf_lsb(B1, p1)) = xor_leaf_lsb(XorLeaf(B0, B1), p0 # p1)
  BY <1>1, <1>2, <1>5, LeafFlips
<1>10. c.cfbit = (p0 # p1)
  BY <1>6 DEF XorBool
<1> QED BY <1>2, <1>6, <1>8, <1>9, <1>10 DEF LevelFlag

\* The children of the target: one pair the same, the flags of the other differ.
LEMMA TargetSplits ==
    ASSUME NEW W \in Nat, W >= 1, NEW f \in BOOLEAN, NEW g \in BOOLEAN, f # g,
           NEW l0 \in [1 .. W -> Node], NEW l1 \in [1 .. W -> Node],
           NEW r0 \in [1 .. W -> Node], NEW r1 \in [1 .. W -> Node],
           NEW bit \in {0, 1},
           NEW cfbit, cfbit = LevelFlag(l0, r0, l1, r1),
           NEW CW, CW = IF bit = 0 THEN xor_leaf_lsb(XorLeaf(r0, r1), cfbit)
                        ELSE XorLeaf(l0, l1),
           NEW CWR, CWR = xor_leaf_lsb(CW, cfbit)
    PROVE  /\ bit = 0 => /\ xor_leaf_if(r0, CWR, f) = xor_leaf_if(r1, CWR, g)
                         /\ leaf_lsb(xor_leaf_if(l0, CW, f)) # leaf_lsb(xor_leaf_if(l1, CW, g))
           /\ bit = 1 => /\ xor_leaf_if(l0, CW, f) = xor_leaf_if(l1, CW, g)
                         /\ leaf_lsb(xor_leaf_if(r0, CWR, f)) # leaf_lsb(xor_leaf_if(r1, CWR, g))
<1>1. cfbit \in BOOLEAN
  BY DEF LevelFlag
<1>2. \A x : leaf_lsb(x) \in BOOLEAN
  BY DEF leaf_lsb, get_lsb
<1> DEFINE L == XorLeaf(l0, l1)
           R == XorLeaf(r0, r1)
<1>3. /\ L \in [1 .. W -> Node] /\ (leaf_lsb(L) <=> (leaf_lsb(l0) # leaf_lsb(l1)))
      /\ R \in [1 .. W -> Node] /\ (leaf_lsb(R) <=> (leaf_lsb(r0) # leaf_lsb(r1)))
  BY LeafOps, LeafFlags
<1>4. ASSUME NEW x \in [1 .. W -> Node]
      PROVE  /\ xor_leaf_lsb(x, cfbit) \in [1 .. W -> Node]
             /\ leaf_lsb(xor_leaf_lsb(x, cfbit)) <=> (leaf_lsb(x) # cfbit)
  BY <1>1, LeafOps, LeafFlags
<1>5. CASE bit = 0
  <2>1. CW = xor_leaf_lsb(R, cfbit)
    BY <1>5
  <2> HIDE DEF L, R
  <2>2. CWR = R
    <3>1. xor_leaf_lsb(xor_leaf_lsb(R, cfbit), cfbit) = R
      BY <1>1, <1>3, LeafFlips
    <3> QED BY <2>1, <3>1
  <2>3. xor_leaf_if(r0, CWR, f) = xor_leaf_if(r1, CWR, g)
    BY <2>2, LeavesMeet DEF R
  <2>4. CW \in [1 .. W -> Node] /\ (leaf_lsb(CW) <=> (leaf_lsb(R) # cfbit))
    BY <1>3, <1>4, <2>1
  <2>5. leaf_lsb(CW) <=> (leaf_lsb(l0) <=> leaf_lsb(l1))
    <3>1. CASE leaf_lsb(R)
      <4>1. cfbit <=> (leaf_lsb(l0) # leaf_lsb(l1))
        BY <1>3, <3>1, Zenon DEF LevelFlag
      <4>2. leaf_lsb(CW) <=> ~ cfbit
        BY <1>1, <2>4, <3>1, Zenon
      <4> QED BY <1>1, <1>2, <4>1, <4>2
    <3>2. CASE ~ leaf_lsb(R)
      <4>1. cfbit <=> ~ (leaf_lsb(l0) # leaf_lsb(l1))
        <5>1. ~ (leaf_lsb(r0) # leaf_lsb(r1))
          BY <1>3, <3>2, Zenon
        <5>2. cfbit = ~ (leaf_lsb(l0) # leaf_lsb(l1))
          BY <1>2, <5>1 DEF LevelFlag
        <5> QED BY <5>2
      <4>2. leaf_lsb(CW) <=> cfbit
        BY <1>1, <1>2, <2>4, <3>2
      <4> QED BY <1>1, <1>2, <4>1, <4>2
    <3> QED BY <3>1, <3>2, Zenon
  <2>6. leaf_lsb(xor_leaf_if(l0, CW, f)) # leaf_lsb(xor_leaf_if(l1, CW, g))
    <3>1. \A w \in [1 .. W -> Node] :
            (leaf_lsb(w) <=> (leaf_lsb(l0) <=> leaf_lsb(l1)))
              => leaf_lsb(xor_leaf_if(l0, w, f)) # leaf_lsb(xor_leaf_if(l1, w, g))
      BY FlagsPart
    <3> QED BY <2>4, <2>5, <3>1, Zenon
  <2> QED BY <1>5, <2>3, <2>6
<1>6. CASE bit = 1
  <2>1. CW = L
    BY <1>6
  <2> HIDE DEF L, R
  <2>2. xor_leaf_if(l0, CW, f) = xor_leaf_if(l1, CW, g)
    BY <2>1, LeavesMeet DEF L
  <2>3. CWR \in [1 .. W -> Node] /\ (leaf_lsb(CWR) <=> (leaf_lsb(L) # cfbit))
    BY <1>3, <1>4, <2>1
  <2>4. leaf_lsb(CWR) <=> (leaf_lsb(r0) <=> leaf_lsb(r1))
    BY <1>2, <1>3, <2>3 DEF LevelFlag
  <2>5. leaf_lsb(xor_leaf_if(r0, CWR, f)) # leaf_lsb(xor_leaf_if(r1, CWR, g))
    BY <2>3, <2>4, FlagsPart
  <2> QED BY <1>6, <2>2, <2>5
<1> QED BY <1>5, <1>6

LEMMA CorrectionType ==
    ASSUME Gens[gen] \in Generators, NEW N \in Nat, NEW layers, NEW t,
           OffAt(layers[0], layers[1], N, t), NEW bit, NEW leaf,
           NEW c, c = Correction(layers, bit, leaf)
    PROVE  /\ c.cfbit \in BOOLEAN
           /\ c.cw \in Leaves(leaf) /\ xor_leaf_lsb(c.cw, c.cfbit) \in Leaves(leaf)
<1> DEFINE W == Wide(leaf)
           l0 == Child(layers[0][t], 0, leaf)
           l1 == Child(layers[1][t], 0, leaf)
           r0 == Child(layers[0][t], 1, leaf)
           r1 == Child(layers[1][t], 1, leaf)
<1>1. /\ c.cfbit \in BOOLEAN
      /\ c.cw = IF bit = 0 THEN xor_leaf_lsb(XorLeaf(r0, r1), c.cfbit) ELSE XorLeaf(l0, l1)
  BY CorrectionIs
<1>2. layers[0][t] \in Node /\ layers[1][t] \in Node
  BY DEF OffAt
<1>3. /\ l0 \in [1 .. W -> Node] /\ l1 \in [1 .. W -> Node]
      /\ r0 \in [1 .. W -> Node] /\ r1 \in [1 .. W -> Node]
  BY <1>2, ChildType DEF Leaves
<1>4. W \in Nat /\ W >= 1
  BY WideType
<1> HIDE DEF W, l0, l1, r0, r1
<1>5. XorLeaf(r0, r1) \in [1 .. W -> Node] /\ XorLeaf(l0, l1) \in [1 .. W -> Node]
  BY <1>3, <1>4, LeafOps
<1>6. \A x \in [1 .. W -> Node] : \A f : xor_leaf_lsb(x, f) \in [1 .. W -> Node]
  BY <1>4, LeafOps
<1>7. c.cw \in [1 .. W -> Node]
  BY <1>1, <1>5, <1>6
<1> QED BY <1>1, <1>6, <1>7 DEF Leaves, W

\* The leaves below a layer of N nodes, corrected by c.
Below(F, layer, N, c, leaf) ==
    /\ F \in [0 .. 2 * N - 1 -> Leaves(leaf)]
    /\ \A i \in 0 .. 2 * N - 1 :
         F[i] = Corrected(Child(layer[i \div 2], i % 2, leaf), i % 2, layer[i \div 2], c)

LEMMA FinalizedIs ==
    ASSUME Gens[gen] \in Generators, NEW N \in Nat, NEW layer \in [0 .. N - 1 -> Node],
           NEW leaf, NEW c, c.cw \in Leaves(leaf), xor_leaf_lsb(c.cw, c.cfbit) \in Leaves(leaf)
    PROVE  Below(Finalized(layer, c, leaf), layer, N, c, leaf)
<1> DEFINE F == Finalized(layer, c, leaf)
           new(i) == Corrected(Child(layer[i \div 2], i % 2, leaf), i % 2, layer[i \div 2], c)
<1>1. Cardinality(DOMAIN layer) = N
  <2>1. Cardinality(0 .. N - 1) = N
    BY FS_Interval
  <2> QED BY <2>1
<1>2. F = [i \in 0 .. 2 * N - 1 |-> new(i)]
  BY <1>1 DEF Finalized
<1>3. ASSUME NEW i \in 0 .. 2 * N - 1
      PROVE  i \div 2 \in 0 .. N - 1 /\ i % 2 \in {0, 1} /\ new(i) \in Leaves(leaf)
  <2>1. i \div 2 \in 0 .. N - 1 /\ i % 2 \in {0, 1}
    OBVIOUS
  <2>2. layer[i \div 2] \in Node
    BY <2>1
  <2>3. Child(layer[i \div 2], i % 2, leaf) \in Leaves(leaf)
    BY <2>2, ChildType
  <2>4. \A a, b \in Leaves(leaf): \A f : xor_leaf_if(a, b, f) \in Leaves(leaf)
    BY WideType, LeafOps DEF Leaves
  <2> QED BY <2>1, <2>3, <2>4 DEF Corrected
<1> HIDE DEF new
<1>4. F \in [0 .. 2 * N - 1 -> Leaves(leaf)] /\ \A i \in 0 .. 2 * N - 1 : F[i] = new(i)
  BY <1>2, <1>3
<1> QED BY <1>3, <1>4 DEF new, Below

LEMMA Twice ==
    ASSUME NEW t \in Nat
    PROVE  /\ 2 * t \in Nat /\ (2 * t) \div 2 = t /\ (2 * t) % 2 = 0
           /\ 2 * t + 1 \in Nat /\ (2 * t + 1) \div 2 = t /\ (2 * t + 1) % 2 = 1
OBVIOUS

\* The next layers are the same but at the target's child, whose flags differ.
Fits(F0, F1, M, u, leaf) ==
    /\ F0 \in [0 .. M - 1 -> Leaves(leaf)] /\ F1 \in [0 .. M - 1 -> Leaves(leaf)]
    /\ u \in 0 .. M - 1
    /\ leaf_lsb(F0[u]) # leaf_lsb(F1[u])
    /\ \A i \in 0 .. M - 1 : i # u => F0[i] = F1[i]

LEMMA LayersFit ==
    ASSUME Gens[gen] \in Generators, NEW N \in Nat, NEW layers, NEW t,
           OffAt(layers[0], layers[1], N, t), NEW bit \in {0, 1}, NEW leaf,
           NEW c, c = Correction(layers, bit, leaf),
           NEW F0, F0 = Finalized(layers[0], c, leaf),
           NEW F1, F1 = Finalized(layers[1], c, leaf)
    PROVE  Fits(F0, F1, 2 * N, 2 * t + bit, leaf)
<1> DEFINE W == Wide(leaf)
           L0 == layers[0]
           L1 == layers[1]
           l0 == Child(L0[t], 0, leaf)
           l1 == Child(L1[t], 0, leaf)
           r0 == Child(L0[t], 1, leaf)
           r1 == Child(L1[t], 1, leaf)
           f == get_lsb(L0[t])
           g == get_lsb(L1[t])
           CW == c.cw
           CWR == xor_leaf_lsb(c.cw, c.cfbit)
<1>1. /\ L0 \in [0 .. N - 1 -> Node] /\ L1 \in [0 .. N - 1 -> Node]
      /\ t \in 0 .. N - 1 /\ L0[t] \in Node /\ L1[t] \in Node /\ f # g
      /\ \A i \in 0 .. N - 1 : i # t => L0[i] = L1[i]
  BY DEF OffAt
<1>2. f \in BOOLEAN /\ g \in BOOLEAN
  BY DEF get_lsb
<1>3. c.cfbit \in BOOLEAN /\ CW \in Leaves(leaf) /\ CWR \in Leaves(leaf)
  BY CorrectionType
<1>4. /\ c.cfbit = LevelFlag(l0, r0, l1, r1)
      /\ CW = IF bit = 0 THEN xor_leaf_lsb(XorLeaf(r0, r1), c.cfbit) ELSE XorLeaf(l0, l1)
  BY CorrectionIs
<1>5. /\ F0 \in [0 .. 2 * N - 1 -> Leaves(leaf)]
      /\ \A i \in 0 .. 2 * N - 1 :
           /\ i \div 2 \in 0 .. N - 1 /\ i % 2 \in {0, 1}
           /\ F0[i] = Corrected(Child(L0[i \div 2], i % 2, leaf), i % 2, L0[i \div 2], c)
  <2>1. layers[0] \in [0 .. N - 1 -> Node]
    BY <1>1
  <2>2. \A i \in 0 .. 2 * N - 1 : i \div 2 \in 0 .. N - 1 /\ i % 2 \in {0, 1}
    OBVIOUS
  <2>3. Below(F0, layers[0], N, c, leaf)
    BY <1>3, <2>1, FinalizedIs
  <2> QED BY <2>2, <2>3 DEF Below
<1>6. /\ F1 \in [0 .. 2 * N - 1 -> Leaves(leaf)]
      /\ \A i \in 0 .. 2 * N - 1 :
           F1[i] = Corrected(Child(L1[i \div 2], i % 2, leaf), i % 2, L1[i \div 2], c)
  <2>1. layers[1] \in [0 .. N - 1 -> Node]
    BY <1>1
  <2>2. Below(F1, layers[1], N, c, leaf)
    BY <1>3, <2>1, FinalizedIs
  <2> QED BY <2>2 DEF Below
<1>7. /\ l0 \in [1 .. W -> Node] /\ l1 \in [1 .. W -> Node]
      /\ r0 \in [1 .. W -> Node] /\ r1 \in [1 .. W -> Node]
  BY <1>1, ChildType DEF Leaves
<1>8. W \in Nat /\ W >= 1
  BY WideType
<1>9. /\ 2 * t \in 0 .. 2 * N - 1 /\ (2 * t) \div 2 = t /\ (2 * t) % 2 = 0
      /\ 2 * t + 1 \in 0 .. 2 * N - 1 /\ (2 * t + 1) \div 2 = t /\ (2 * t + 1) % 2 = 1
  <2>1. t \in Nat /\ t <= N - 1
    BY <1>1
  <2> QED BY <2>1, Twice
<1>10. /\ F0[2 * t] = xor_leaf_if(l0, CW, f) /\ F1[2 * t] = xor_leaf_if(l1, CW, g)
       /\ F0[2 * t + 1] = xor_leaf_if(r0, CWR, f) /\ F1[2 * t + 1] = xor_leaf_if(r1, CWR, g)
  <2>1. /\ F0[2 * t] = Corrected(l0, 0, L0[t], c) /\ F0[2 * t + 1] = Corrected(r0, 1, L0[t], c)
    BY <1>5, <1>9
  <2>2. /\ F1[2 * t] = Corrected(l1, 0, L1[t], c) /\ F1[2 * t + 1] = Corrected(r1, 1, L1[t], c)
    BY <1>6, <1>9
  <2>3. \A x, n : /\ Corrected(x, 0, n, c) = xor_leaf_if(x, c.cw, get_lsb(n))
                  /\ Corrected(x, 1, n, c)
                       = xor_leaf_if(x, xor_leaf_lsb(c.cw, c.cfbit), get_lsb(n))
    BY DEF Corrected
  <2> QED BY <2>1, <2>2, <2>3
<1>11. \A i \in 0 .. 2 * N - 1 : i \div 2 # t => F0[i] = F1[i]
  BY <1>1, <1>5, <1>6
<1> HIDE DEF l0, l1, r0, r1, f, g, CW, CWR, L0, L1, W
<1>12. /\ bit = 0 => /\ xor_leaf_if(r0, CWR, f) = xor_leaf_if(r1, CWR, g)
                     /\ leaf_lsb(xor_leaf_if(l0, CW, f)) # leaf_lsb(xor_leaf_if(l1, CW, g))
       /\ bit = 1 => /\ xor_leaf_if(l0, CW, f) = xor_leaf_if(l1, CW, g)
                     /\ leaf_lsb(xor_leaf_if(r0, CWR, f)) # leaf_lsb(xor_leaf_if(r1, CWR, g))
  <2>1. CWR = xor_leaf_lsb(CW, c.cfbit)
    BY DEF CW, CWR
  <2>2. f # g
    BY <1>1
  <2> DEFINE cfbit == c.cfbit
  <2>3. /\ cfbit = LevelFlag(l0, r0, l1, r1) /\ CWR = xor_leaf_lsb(CW, cfbit)
        /\ CW = IF bit = 0 THEN xor_leaf_lsb(XorLeaf(r0, r1), cfbit) ELSE XorLeaf(l0, l1)
    BY <1>4, <2>1
  <2> HIDE DEF cfbit
  <2> QED BY <1>2, <1>7, <1>8, <2>2, <2>3, TargetSplits
<1>13. \A i \in 0 .. 2 * N - 1 : i \div 2 = t => i = 2 * t \/ i = 2 * t + 1
  BY <1>1
<1>14. CASE bit = 0
  <2>1. leaf_lsb(F0[2 * t]) # leaf_lsb(F1[2 * t]) /\ F0[2 * t + 1] = F1[2 * t + 1]
    BY <1>10, <1>12, <1>14
  <2>2. 2 * t + bit = 2 * t
    BY <1>1, <1>14
  <2> QED BY <1>5, <1>6, <1>9, <1>11, <1>13, <2>1, <2>2 DEF Fits
<1>15. CASE bit = 1
  <2>1. leaf_lsb(F0[2 * t + 1]) # leaf_lsb(F1[2 * t + 1]) /\ F0[2 * t] = F1[2 * t]
    BY <1>10, <1>12, <1>15
  <2>2. 2 * t + bit = 2 * t + 1
    BY <1>15
  <2> QED BY <1>5, <1>6, <1>9, <1>11, <1>13, <2>1, <2>2 DEF Fits
<1> QED BY <1>14, <1>15

-----------------------------------------------------------------------------
(* The layers and the keys while and after they are made.                  *)

\* Internal layers and leaf layers that are complete.
Internal == IF phase = "levels" THEN level ELSE depth - 1
LeafLayers == IF incremental THEN level ELSE IF level = depth THEN 1 ELSE 0

Choices ==
    /\ gen \in DOMAIN Gens
    /\ depth \in 1 .. MaxDepth
    /\ incremental \in BOOLEAN
    /\ save_expansion \in BOOLEAN
    /\ target \in Nat /\ target < Shl[depth]

Progress ==
    /\ phase \in {"levels", "made", "eval", "done"}
    /\ level \in 0 .. depth
    /\ phase = "levels" <=> level < depth

\* A key with levels of its own for words and for leaves.
KeyWith(S) ==
    [seed : Node, whichhalf : Halves, maxdepth : Nat, curdepth : Nat,
     cw : Seq(Node), cfbits : Seq(BOOLEAN), li : Seq(S)]

KeyShape(k, p, words, leaves) ==
    /\ \E S : k \in KeyWith(S)
    /\ k.whichhalf = p /\ (get_lsb(k.seed) <=> p = 1)
    /\ k.maxdepth = depth
    /\ Len(k.cw) = words /\ Len(k.cfbits) = words /\ Len(k.li) = leaves

KeysInv ==
    /\ DOMAIN key = Halves
    /\ \A p \in Halves : KeyShape(key[p], p, IF level < depth THEN level ELSE depth - 1, LeafLayers)

LayersInv ==
    /\ DOMAIN cur = Halves
    /\ OffAt(cur[0], cur[1], Shl[Internal], target \div Shl[depth - Internal])

IInv == Choices /\ Progress /\ KeysInv /\ LayersInv

\* The depth byte of a file tells the depth and both flags.
LEMMA ByteParts ==
    ASSUME NEW d \in 1 .. 63, NEW e, NEW m,
           NEW byte, byte = d + (IF e THEN 64 ELSE 0) + (IF m THEN 128 ELSE 0),
           NEW d1, d1 = IF byte > 128 THEN byte - 128 ELSE byte
    PROVE  /\ byte > 128 <=> m
           /\ d1 > 64 <=> e
           /\ (IF d1 > 64 THEN d1 - 64 ELSE d1) = d
<1>1. CASE m /\ e
  BY <1>1
<1>2. CASE m /\ ~ e
  BY <1>2
<1>3. CASE ~ m /\ e
  BY <1>3
<1>4. CASE ~ m /\ ~ e
  BY <1>4
<1> QED BY <1>1, <1>2, <1>3, <1>4

\* What is read back of a key: its leaf levels, expanded if the first one is.
Reread(k, n) ==
    [i \in 1 .. n |-> IF k.li[1].expansion # <<>> THEN k.li[i]
                      ELSE [k.li[i] EXCEPT !.expansion = <<>>]]

LEMMA DepthByte ==
    ASSUME NEW k, k.maxdepth \in 1 .. 63
    PROVE  ReadBack(Written(k)) =
             [seed |-> k.seed, whichhalf |-> IF get_lsb(k.seed) THEN 1 ELSE 0,
              maxdepth |-> k.maxdepth, curdepth |-> k.maxdepth,
              cw |-> k.cw, cfbits |-> k.cfbits,
              li |-> Reread(k, IF Len(k.li) > 1 THEN k.maxdepth ELSE 1)]
<1> DEFINE d == k.maxdepth
           e == k.li[1].expansion # <<>>
           m == Len(k.li) > 1
           f == Written(k)
           byte == f.depth
           d1 == IF byte > 128 THEN byte - 128 ELSE byte
           d2 == IF d1 > 64 THEN d1 - 64 ELSE d1
<1>1. /\ f.seed = k.seed /\ f.cw = k.cw /\ f.cfbits = k.cfbits /\ f.levels = k.li
      /\ byte = d + (IF e THEN 64 ELSE 0) + (IF m THEN 128 ELSE 0)
  BY DEF Written
<1>2. (byte > 128 <=> m) /\ (d1 > 64 <=> e) /\ d2 = d
  <2>1. d \in 1 .. 63
    OBVIOUS
  <2> HIDE DEF d, e, m, f
  <2> QED BY <1>1, <2>1, ByteParts
<1>3. ReadBack(f) =
        [seed |-> f.seed, whichhalf |-> IF get_lsb(f.seed) THEN 1 ELSE 0,
         maxdepth |-> d2, curdepth |-> d2, cw |-> f.cw, cfbits |-> f.cfbits,
         li |-> [i \in 1 .. (IF byte > 128 THEN d2 ELSE 1) |->
                   IF d1 > 64 THEN f.levels[i] ELSE [f.levels[i] EXCEPT !.expansion = <<>>]]]
  <2> HIDE DEF f
  <2> QED BY DEF ReadBack
<1>4. [i \in 1 .. (IF byte > 128 THEN d2 ELSE 1) |->
         IF d1 > 64 THEN f.levels[i] ELSE [f.levels[i] EXCEPT !.expansion = <<>>]]
        = Reread(k, IF m THEN d ELSE 1)
  <2> HIDE DEF byte, d1, d2, f, d, m
  <2>1. (IF byte > 128 THEN d2 ELSE 1) = (IF m THEN d ELSE 1)
    BY <1>2
  <2>2. \A i : (IF d1 > 64 THEN f.levels[i] ELSE [f.levels[i] EXCEPT !.expansion = <<>>])
               = (IF k.li[1].expansion # <<>> THEN k.li[i] ELSE [k.li[i] EXCEPT !.expansion = <<>>])
    BY <1>1, <1>2
  <2> DEFINE A(i) == IF d1 > 64 THEN f.levels[i] ELSE [f.levels[i] EXCEPT !.expansion = <<>>]
             B(i) == IF k.li[1].expansion # <<>> THEN k.li[i]
                     ELSE [k.li[i] EXCEPT !.expansion = <<>>]
             N == IF m THEN d ELSE 1
  <2>3. Reread(k, N) = [i \in 1 .. N |-> B(i)]
    BY DEF Reread
  <2>4. \A i : A(i) = B(i)
    BY <2>2
  <2> HIDE DEF A, B
  <2>5. [i \in 1 .. N |-> A(i)] = [i \in 1 .. N |-> B(i)]
    BY <2>4
  <2> HIDE DEF N
  <2>6. [i \in 1 .. N |-> A(i)] = Reread(k, N)
    BY <2>3, <2>5
  <2> DEFINE M == IF byte > 128 THEN d2 ELSE 1
  <2>7. M = N
    BY <2>1 DEF N
  <2> HIDE DEF M
  <2>8. [i \in 1 .. M |-> A(i)] = Reread(k, N)
    BY <2>6, <2>7
  <2> QED BY <2>8, Zenon DEF A, N, M
<1> DEFINE LV == [i \in 1 .. (IF byte > 128 THEN d2 ELSE 1) |->
                    IF d1 > 64 THEN f.levels[i] ELSE [f.levels[i] EXCEPT !.expansion = <<>>]]
<1>5. LV = Reread(k, IF Len(k.li) > 1 THEN k.maxdepth ELSE 1)
  BY <1>4
<1>6. ReadBack(f) = [seed |-> f.seed, whichhalf |-> IF get_lsb(f.seed) THEN 1 ELSE 0,
                     maxdepth |-> d2, curdepth |-> d2, cw |-> f.cw, cfbits |-> f.cfbits, li |-> LV]
  BY <1>3
<1>7. d2 = k.maxdepth
  BY <1>2
<1> HIDE DEF LV, d2, f
<1>8. ReadBack(f) = [seed |-> k.seed, whichhalf |-> IF get_lsb(k.seed) THEN 1 ELSE 0,
                     maxdepth |-> k.maxdepth, curdepth |-> k.maxdepth,
                     cw |-> k.cw, cfbits |-> k.cfbits, li |-> LV]
  BY <1>1, <1>6, <1>7
<1> QED BY <1>5, <1>8 DEF f

LEMMA ReadBackShape ==
    ASSUME NEW k, NEW p \in Halves, NEW words \in Nat, NEW leaves \in Nat,
           KeyShape(k, p, words, leaves), depth \in 1 .. 63,
           leaves = 1 \/ leaves = depth
    PROVE  KeyShape(ReadBack(Written(k)), p, words, leaves)
<1> DEFINE r == ReadBack(Written(k))
           n == IF Len(k.li) > 1 THEN k.maxdepth ELSE 1
           lev == Reread(k, n)
<1>1. PICK S : k \in KeyWith(S)
  BY DEF KeyShape
<1>2. /\ k.seed \in Node /\ k.cw \in Seq(Node) /\ k.cfbits \in Seq(BOOLEAN)
      /\ k.li \in Seq(S) /\ k.maxdepth = depth
      /\ Len(k.cw) = words /\ Len(k.cfbits) = words /\ Len(k.li) = leaves
      /\ (get_lsb(k.seed) <=> p = 1)
  BY <1>1 DEF KeyWith, KeyShape
<1>3. n = leaves
  BY <1>2
<1>4. r = [seed |-> k.seed, whichhalf |-> IF get_lsb(k.seed) THEN 1 ELSE 0,
           maxdepth |-> k.maxdepth, curdepth |-> k.maxdepth,
           cw |-> k.cw, cfbits |-> k.cfbits, li |-> lev]
  BY <1>2, DepthByte
<1>5. (IF get_lsb(k.seed) THEN 1 ELSE 0) = p
  BY <1>2 DEF Halves
<1> DEFINE T == {lev[i] : i \in 1 .. n}
<1>6. lev \in Seq(T) /\ Len(lev) = leaves
  <2>1. n \in Nat /\ DOMAIN lev = 1 .. n
    BY <1>3 DEF Reread
  <2>2. \A i \in 1 .. n : lev[i] \in T
    OBVIOUS
  <2> HIDE DEF lev, n
  <2>3. lev \in [1 .. n -> T]
    <3>1. lev = [i \in 1 .. n |-> lev[i]]
      BY DEF lev, Reread
    <3> QED BY <2>2, <3>1
  <2> QED BY <1>3, <2>1, <2>3
<1> HIDE DEF lev, n, T, r
<1>7. r \in KeyWith(T)
  BY <1>2, <1>4, <1>5, <1>6 DEF KeyWith
<1>8. KeyShape(r, p, words, leaves)
  BY <1>2, <1>4, <1>5, <1>6, <1>7 DEF KeyShape
<1> QED BY <1>8 DEF r

LEMMA ExpandedShape ==
    ASSUME NEW k, NEW p, NEW words \in Nat, NEW leaves \in Nat,
           KeyShape(k, p, words, leaves)
    PROVE  KeyShape(Expanded(k), p, words, leaves)
<1>1. PICK S : k \in KeyWith(S)
  BY DEF KeyShape
<1> DEFINE new(i) == IF k.li[i].expansion # <<>> THEN k.li[i]
                     ELSE [k.li[i] EXCEPT !.expansion = ExpandedLayer(k, k.maxdepth - i + 1)]
           lev == [i \in DOMAIN k.li |-> new(i)]
           T == {new(i) : i \in DOMAIN k.li}
<1>2. k.li \in Seq(S) /\ DOMAIN k.li = 1 .. leaves
  BY <1>1 DEF KeyWith, KeyShape
<1> HIDE DEF new
<1>3. lev \in Seq(T) /\ Len(lev) = leaves
  <2>1. lev \in [1 .. leaves -> T]
    BY <1>2
  <2> QED BY <2>1
<1>4. Expanded(k) = [k EXCEPT !.li = lev]
  BY DEF Expanded, new
<1> HIDE DEF lev, T
<1>5. Expanded(k) \in KeyWith(T)
  BY <1>1, <1>3, <1>4 DEF KeyWith
<1>6. /\ Expanded(k).li = lev /\ Expanded(k).cw = k.cw /\ Expanded(k).cfbits = k.cfbits
      /\ Expanded(k).whichhalf = k.whichhalf /\ Expanded(k).seed = k.seed
      /\ Expanded(k).maxdepth = k.maxdepth
  BY <1>1, <1>4 DEF KeyWith
<1> QED BY <1>3, <1>5, <1>6 DEF KeyShape

-----------------------------------------------------------------------------
(* The invariant.                                                          *)

LEMMA GensType ==
    ASSUME Choices
    PROVE  Gens[gen] \in Generators
BY GensAssumption DEF Choices, Generators

\* The target's node of a level is a child of the one of the level before.
LEMMA TargetNext ==
    ASSUME Choices, NEW l \in Nat, l < depth
    PROVE  LET bit == Bit(target, depth - l - 1)
               t == target \div Shl[depth - l]
           IN  /\ bit \in {0, 1}
               /\ t \in Nat
               /\ target \div Shl[depth - (l + 1)] = 2 * t + bit
<1>1. depth \in Nat /\ target \in Nat /\ depth - l - 1 \in Nat
  BY Sizes DEF Choices
<1>2. (depth - l - 1) + 1 = depth - l /\ depth - l - 1 = depth - (l + 1)
  BY <1>1
<1> DEFINE k == depth - l - 1
<1>3. /\ target \div Shl[k] = 2 * (target \div Shl[k + 1]) + Bit(target, k)
      /\ target \div Shl[k + 1] \in Nat /\ Bit(target, k) \in {0, 1}
  BY <1>1, NextQuotient
<1> QED BY <1>2, <1>3

LEMMA InitShape ==
    ASSUME Init
    PROVE  IInv
<1>1. depth \in 1 .. MaxDepth /\ MaxDepth \in Nat /\ depth \in Nat /\ depth >= 1
  BY Sizes DEF Init
<1>2. Shl[depth] \in Nat /\ Shl[depth] > 0 /\ Shl[0] = 1
  BY <1>1, ShlFacts
<1>3. Choices
  <2>1. target \in Nat /\ target < Shl[depth]
    BY <1>2 DEF Init
  <2> QED BY <1>1, <2>1 DEF Init, Choices
<1>4. Progress
  BY <1>1 DEF Init, Progress
<1>5. PICK s \in Seeds :
        LET seed == [p \in Halves |-> IF p = 0 THEN s[p] \ {0} ELSE s[p] \cup {0}] IN
        /\ cur = [p \in Halves |-> [i \in {0} |-> seed[p]]]
        /\ key = [p \in Halves |->
                    [seed |-> seed[p], whichhalf |-> p, maxdepth |-> depth,
                     curdepth |-> depth, cw |-> <<>>, cfbits |-> <<>>, li |-> <<>>]]
  BY DEF Init
<1> DEFINE seed == [p \in Halves |-> IF p = 0 THEN s[p] \ {0} ELSE s[p] \cup {0}]
<1>6. \A p \in Halves : seed[p] \in Node /\ (get_lsb(seed[p]) <=> p = 1)
  <2>1. s \in [Halves -> Node]
    BY SeedsAssumption
  <2>2. \A p \in Halves : s[p] \in Node
    BY <2>1
  <2> QED BY <2>2, Sizes DEF Halves, Node, get_lsb
<1>7. /\ cur = [p \in Halves |-> [i \in {0} |-> seed[p]]]
      /\ key = [p \in Halves |->
                    [seed |-> seed[p], whichhalf |-> p, maxdepth |-> depth,
                     curdepth |-> depth, cw |-> <<>>, cfbits |-> <<>>, li |-> <<>>]]
  BY <1>5
<1> HIDE DEF seed
<1>8. KeysInv
  <2>1. level = 0 /\ LeafLayers = 0 /\ level < depth
    BY <1>1 DEF Init, LeafLayers
  <2>2. ASSUME NEW p \in Halves PROVE KeyShape(key[p], p, 0, 0)
    <3>1. key[p] = [seed |-> seed[p], whichhalf |-> p, maxdepth |-> depth,
                    curdepth |-> depth, cw |-> <<>>, cfbits |-> <<>>, li |-> <<>>]
      BY <1>7
    <3>2. key[p] \in KeyWith({})
      BY <1>1, <1>6, <3>1 DEF KeyWith
    <3>3. Len(key[p].cw) = 0 /\ Len(key[p].cfbits) = 0 /\ Len(key[p].li) = 0
      BY <3>1
    <3> QED BY <1>6, <3>1, <3>2, <3>3 DEF KeyShape
  <2> QED BY <1>7, <2>1, <2>2 DEF KeysInv
<1>9. LayersInv
  <2>1. Internal = 0 /\ depth - 0 = depth
    BY <1>1 DEF Init, Internal
  <2>2. target \div Shl[depth] = 0
    BY <1>2, <1>3 DEF Choices
  <2>3. 0 .. Shl[0] - 1 = {0}
    BY <1>2
  <2>4. /\ cur[0] \in [{0} -> Node] /\ cur[1] \in [{0} -> Node]
        /\ cur[0][0] = seed[0] /\ cur[1][0] = seed[1]
    BY <1>6, <1>7 DEF Halves
  <2>5. get_lsb(cur[0][0]) # get_lsb(cur[1][0])
    BY <1>6, <2>4 DEF Halves
  <2>6. OffAt(cur[0], cur[1], Shl[0], 0)
    BY <2>3, <2>4, <2>5 DEF OffAt
  <2>7. DOMAIN cur = Halves
    BY <1>7
  <2> QED BY <2>1, <2>2, <2>6, <2>7 DEF LayersInv
<1> QED BY <1>3, <1>4, <1>8, <1>9 DEF IInv

\* A key with a level more.
LEMMA KeyGrows ==
    ASSUME NEW k, NEW p, NEW words \in Nat, NEW leaves \in Nat,
           KeyShape(k, p, words, leaves),
           NEW last, NEW more, NEW cw \in Node, NEW cfbit \in BOOLEAN, NEW info
    PROVE  KeyShape([k EXCEPT
                       !.cw = IF last THEN @ ELSE Append(@, cw),
                       !.cfbits = IF last THEN @ ELSE Append(@, cfbit),
                       !.li = IF more THEN <<info>> \o @ ELSE @],
                    p, IF last THEN words ELSE words + 1, IF more THEN leaves + 1 ELSE leaves)
<1>1. PICK S : k \in KeyWith(S)
  BY DEF KeyShape
<1>2. /\ k.cw \in Seq(Node) /\ k.cfbits \in Seq(BOOLEAN) /\ k.li \in Seq(S)
      /\ Len(k.cw) = words /\ Len(k.cfbits) = words /\ Len(k.li) = leaves
  BY <1>1 DEF KeyWith, KeyShape
<1> DEFINE T == S \cup {info}
           a == IF last THEN k.cw ELSE Append(k.cw, cw)
           b == IF last THEN k.cfbits ELSE Append(k.cfbits, cfbit)
           e == IF more THEN <<info>> \o k.li ELSE k.li
           kn == [k EXCEPT !.cw = a, !.cfbits = b, !.li = e]
<1>3. a \in Seq(Node) /\ b \in Seq(BOOLEAN) /\ e \in Seq(T)
  <2>1. a \in Seq(Node) /\ b \in Seq(BOOLEAN)
    <3>1. Append(k.cw, cw) \in Seq(Node)
      BY <1>2, AppendProperties
    <3>2. Append(k.cfbits, cfbit) \in Seq(BOOLEAN)
      BY <1>2, AppendProperties
    <3> QED BY <1>2, <3>1, <3>2
  <2>2. k.li \in Seq(T)
    <3>1. \A i \in 1 .. Len(k.li) : k.li[i] \in T
      BY <1>2, ElementOfSeq
    <3>2. k.li = [i \in 1 .. Len(k.li) |-> k.li[i]] /\ Len(k.li) \in Nat
      BY <1>2, LenProperties
    <3> HIDE DEF T
    <3> QED BY <3>1, <3>2, IsASeq
  <2>3. <<info>> \in Seq(T)
    OBVIOUS
  <2>4. <<info>> \o k.li \in Seq(T)
    BY <2>2, <2>3, ConcatProperties
  <2> QED BY <2>1, <2>2, <2>4
<1>4. /\ Len(a) = IF last THEN words ELSE words + 1
      /\ Len(b) = IF last THEN words ELSE words + 1
      /\ Len(e) = IF more THEN leaves + 1 ELSE leaves
  BY <1>2
<1>5. kn = [k EXCEPT
              !.cw = IF last THEN @ ELSE Append(@, cw),
              !.cfbits = IF last THEN @ ELSE Append(@, cfbit),
              !.li = IF more THEN <<info>> \o @ ELSE @]
  OBVIOUS
<1> HIDE DEF a, b, e, T
<1>6. kn \in KeyWith(T)
  BY <1>1, <1>3 DEF KeyWith
<1>7. /\ kn.cw = a /\ kn.cfbits = b /\ kn.li = e
      /\ kn.whichhalf = k.whichhalf /\ kn.seed = k.seed /\ kn.maxdepth = k.maxdepth
  BY <1>1 DEF KeyWith
<1> HIDE DEF kn
<1>8. KeyShape(kn, p, IF last THEN words ELSE words + 1, IF more THEN leaves + 1 ELSE leaves)
  BY <1>4, <1>6, <1>7 DEF KeyShape
<1> QED BY <1>5, <1>8

\* The parties' layers after a level, and the leaf layers.
LEMMA LevelShape ==
    ASSUME IInv, phase = "levels", NEW leaf,
           NEW c, c = Correction(cur, Bit(target, depth - level - 1), leaf),
           NEW next, next = [p \in Halves |-> Finalized(cur[p], c, leaf)]
    PROVE  /\ level \in Nat /\ level < depth
           /\ c.cfbit \in BOOLEAN /\ c.cw \in Leaves(leaf)
           /\ Fits(next[0], next[1], Shl[level + 1], target \div Shl[depth - (level + 1)], leaf)
<1> DEFINE N == Shl[level]
           t == target \div Shl[depth - level]
           bit == Bit(target, depth - level - 1)
           u == target \div Shl[depth - (level + 1)]
<1>1. level \in Nat /\ level < depth /\ Internal = level
  BY Sizes DEF IInv, Choices, Progress, Internal
<1>2. OffAt(cur[0], cur[1], N, t)
  BY <1>1 DEF IInv, LayersInv
<1>3. N \in Nat /\ Shl[level + 1] = 2 * N
  BY <1>1, ShlFacts
<1>4. bit \in {0, 1} /\ t \in Nat /\ u = 2 * t + bit
  BY <1>1, TargetNext DEF IInv
<1>5. Gens[gen] \in Generators
  BY GensType DEF IInv
<1>6. next[0] = Finalized(cur[0], c, leaf) /\ next[1] = Finalized(cur[1], c, leaf)
  BY DEF Halves
<1> HIDE DEF N, t, bit, u
<1>7. c = Correction(cur, bit, leaf)
  BY DEF bit
<1>8. Fits(next[0], next[1], 2 * N, 2 * t + bit, leaf)
  BY <1>2, <1>3, <1>4, <1>5, <1>6, <1>7, LayersFit
<1>9. c.cfbit \in BOOLEAN /\ c.cw \in Leaves(leaf)
  BY <1>2, <1>3, <1>5, <1>7, CorrectionType
<1>10. Fits(next[0], next[1], Shl[level + 1], u, leaf)
  BY <1>3, <1>4, <1>8
<1> QED BY <1>1, <1>9, <1>10 DEF u

LEMMA CreateLevelShape ==
    ASSUME IInv, CreateLevel
    PROVE  IInv'
<1> DEFINE bit == Bit(target, depth - level - 1)
           last == level = depth - 1
           c == Correction(cur, bit, FALSE)
           lc == Correction(cur, bit, TRUE)
           leaves == [p \in Halves |-> Finalized(cur[p], lc, TRUE)]
           next == [p \in Halves |-> Finalized(cur[p], c, FALSE)]
           words == IF level < depth THEN level ELSE depth - 1
<1>1. /\ phase = "levels" /\ level' = level + 1
      /\ phase' = IF last THEN "made" ELSE "levels"
      /\ cur' = IF last THEN cur
                ELSE [p \in Halves |-> [i \in DOMAIN next[p] |-> next[p][i][1]]]
      /\ key' = [p \in Halves |->
           [key[p] EXCEPT
              !.cw = IF last THEN @ ELSE Append(@, c.cw[1]),
              !.cfbits = IF last THEN @ ELSE Append(@, c.cfbit),
              !.li = IF incremental \/ last
                     THEN <<LeafInfo(p, leaves, lc)>> \o @ ELSE @]]
      /\ UNCHANGED <<gen, depth, incremental, save_expansion, target>>
  BY DEF CreateLevel
<1>2. /\ level \in Nat /\ level < depth
      /\ c.cfbit \in BOOLEAN /\ c.cw \in Leaves(FALSE)
      /\ Fits(next[0], next[1], Shl[level + 1], target \div Shl[depth - (level + 1)], FALSE)
  BY <1>1, LevelShape
<1> HIDE DEF c, lc, leaves, next, bit
<1>0. /\ phase = "levels" /\ level' = level + 1
      /\ phase' = IF last THEN "made" ELSE "levels"
      /\ UNCHANGED <<gen, depth, incremental, save_expansion, target>>
  BY <1>1
<1>3. depth \in Nat /\ depth >= 1 /\ incremental \in BOOLEAN
  BY Sizes DEF IInv, Choices
<1>4. Choices'
  BY <1>1 DEF IInv, Choices
<1>5. Progress'
  <2>1. level' \in 0 .. depth /\ (last <=> level' = depth)
    BY <1>0, <1>2, <1>3
  <2>2. CASE last
    BY <1>0, <1>3, <2>1, <2>2 DEF Progress
  <2>3. CASE ~ last
    BY <1>0, <1>3, <2>1, <2>3 DEF Progress
  <2> QED BY <2>2, <2>3
<1>6. KeysInv'
  <2>1. c.cw[1] \in Node
    BY <1>2, WideType DEF Leaves
  <2>2. words \in Nat /\ LeafLayers \in Nat /\ words = level
    BY <1>2, <1>3 DEF LeafLayers
  <2>3. ASSUME NEW p \in Halves
        PROVE  KeyShape(key[p], p, words, LeafLayers)'
    <3>1. KeyShape(key[p], p, words, LeafLayers)
      BY DEF IInv, KeysInv
    <3>2. key'[p] = [key[p] EXCEPT
                       !.cw = IF last THEN @ ELSE Append(@, c.cw[1]),
                       !.cfbits = IF last THEN @ ELSE Append(@, c.cfbit),
                       !.li = IF incremental \/ last
                              THEN <<LeafInfo(p, leaves, lc)>> \o @ ELSE @]
      BY <1>1
    <3> DEFINE w == IF last THEN words ELSE words + 1
               n == IF incremental \/ last THEN LeafLayers + 1 ELSE LeafLayers
    <3> HIDE DEF words
    <3>3. KeyShape(key'[p], p, w, n)
      <4> DEFINE k == key[p]
                 cw == c.cw[1]
                 cfbit == c.cfbit
                 more == incremental \/ last
                 info == LeafInfo(p, leaves, lc)
      <4>1. KeyShape(k, p, words, LeafLayers) /\ cw \in Node /\ cfbit \in BOOLEAN
        BY <1>2, <2>1, <3>1
      <4>2. key'[p] = [k EXCEPT
                         !.cw = IF last THEN @ ELSE Append(@, cw),
                         !.cfbits = IF last THEN @ ELSE Append(@, cfbit),
                         !.li = IF more THEN <<info>> \o @ ELSE @]
        BY <3>2
      <4> HIDE DEF k, cw, cfbit, info, last, more
      <4>3. KeyShape([k EXCEPT
                        !.cw = IF last THEN @ ELSE Append(@, cw),
                        !.cfbits = IF last THEN @ ELSE Append(@, cfbit),
                        !.li = IF more THEN <<info>> \o @ ELSE @],
                     p, IF last THEN words ELSE words + 1,
                     IF more THEN LeafLayers + 1 ELSE LeafLayers)
        BY <2>2, <4>1, KeyGrows
      <4> QED BY <4>2, <4>3 DEF more
    <3>4. w = words' /\ n = LeafLayers'
      <4>1. CASE last
        BY <1>0, <1>2, <1>3, <2>2, <4>1 DEF words, LeafLayers
      <4>2. CASE ~ last
        BY <1>0, <1>2, <1>3, <2>2, <4>2 DEF words, LeafLayers
      <4> QED BY <4>1, <4>2
    <3>5. KeyShape(key[p], p, words, LeafLayers)' <=> KeyShape(key'[p], p, words', LeafLayers')
      BY <1>1 DEF KeyShape, KeyWith
    <3> HIDE DEF w, n
    <3> QED BY <3>3, <3>4, <3>5
  <2> QED BY <1>1, <2>3 DEF KeysInv
<1>7. LayersInv'
  <2>1. CASE last
    <3>1. Internal' = Internal
      BY <1>1, <1>2, <1>3, <2>1 DEF Internal
    <3>2. cur' = cur /\ target' = target /\ depth' = depth
      BY <1>1, <2>1
    <3> QED BY <3>1, <3>2 DEF IInv, LayersInv, OffAt
  <2>2. CASE ~ last
    <3> DEFINE D == 0 .. Shl[level + 1] - 1
               u == target \div Shl[depth - (level + 1)]
    <3>1. Internal' = level + 1
      BY <1>1, <2>2 DEF Internal
    <3> HIDE DEF D, u
    <3>0. Fits(next[0], next[1], Shl[level + 1], u, FALSE)
      BY <1>2 DEF u
    <3>11. /\ \A p \in Halves : next[p] \in [D -> Leaves(FALSE)]
           /\ u \in D /\ leaf_lsb(next[0][u]) # leaf_lsb(next[1][u])
           /\ \A i \in D : i # u => next[0][i] = next[1][i]
      BY <3>0 DEF Fits, D, Halves
    <3>2. cur' = [p \in Halves |-> [i \in DOMAIN next[p] |-> next[p][i][1]]]
      BY <1>1, <2>2
    <3>3. \A p \in Halves : cur'[p] = [i \in D |-> next[p][i][1]]
      BY <3>2, <3>11
    <3>4. \A p \in Halves, i \in D : next[p][i][1] \in Node
      BY <3>11, WideType DEF Leaves
    <3>12. ASSUME NEW p \in Halves
           PROVE  cur'[p] \in [D -> Node] /\ \A i \in D : cur'[p][i] = next[p][i][1]
      <4>1. cur'[p] = [i \in D |-> next[p][i][1]] /\ \A i \in D : next[p][i][1] \in Node
        BY <3>3, <3>4
      <4> QED BY <4>1
    <3>5. \A p \in Halves : cur'[p] \in [D -> Node]
      BY <3>12
    <3>6. \A p \in Halves, i \in D : cur'[p][i] = next[p][i][1]
      BY <3>12
    <3>7. 0 \in Halves /\ 1 \in Halves /\ u \in D
      BY <3>11 DEF Halves
    <3>8. get_lsb(cur'[0][u]) # get_lsb(cur'[1][u])
      BY <3>11, <3>6, <3>7 DEF leaf_lsb
    <3>9. \A i \in D : i # u => cur'[0][i] = cur'[1][i]
      BY <3>11, <3>6, <3>7
    <3>10. OffAt(cur'[0], cur'[1], Shl[level + 1], u)
      BY <3>5, <3>7, <3>8, <3>9 DEF OffAt, D
    <3> QED BY <1>1, <3>1, <3>2, <3>10 DEF LayersInv, OffAt, u
  <2> QED BY <2>1, <2>2
<1> QED BY <1>4, <1>5, <1>6, <1>7 DEF IInv

\* Steps that leave the layers and the shape of the keys as they are.
LEMMA SameLayers ==
    ASSUME IInv, UNCHANGED <<gen, depth, incremental, save_expansion, target, level, cur>>,
           phase # "levels", phase' \in {"made", "eval", "done"},
           DOMAIN key' = Halves,
           \A p \in Halves : KeyShape(key'[p], p, depth - 1, LeafLayers)
    PROVE  IInv'
<1>1. Choices'
  BY DEF IInv, Choices
<1>2. Progress'
  BY DEF IInv, Progress
<1>3. level = depth /\ depth \in Nat
  BY Sizes DEF IInv, Progress, Choices
<1>4. (IF level < depth THEN level ELSE depth - 1) = depth - 1
  BY <1>3
<1>5. LeafLayers' = LeafLayers /\ Internal' = Internal
  BY DEF LeafLayers, Internal
<1>6. KeysInv'
  <2>1. \A p \in Halves : KeyShape(key[p], p, depth - 1, LeafLayers)'
    BY <1>5 DEF KeyShape, KeyWith
  <2> QED BY <1>3, <1>4, <2>1 DEF KeysInv
<1>7. LayersInv'
  BY <1>5 DEF IInv, LayersInv, OffAt
<1> QED BY <1>1, <1>2, <1>6, <1>7 DEF IInv

\* When the levels are made there is one leaf level or as many as the depth.
LEMMA MadeShape ==
    ASSUME IInv, phase # "levels"
    PROVE  /\ depth \in 1 .. 63 /\ depth \in Nat /\ level = depth
           /\ LeafLayers \in Nat /\ (LeafLayers = 1 \/ LeafLayers = depth)
           /\ LeafLayers = Cardinality(Leaflevels)
           /\ \A p \in Halves : KeyShape(key[p], p, depth - 1, LeafLayers)
<1>1. depth \in 1 .. 63 /\ depth \in Nat /\ depth >= 1 /\ level = depth /\ incremental \in BOOLEAN
  BY Sizes DEF IInv, Choices, Progress
<1>2. LeafLayers = IF incremental THEN depth ELSE 1
  BY <1>1 DEF LeafLayers
<1>3. Cardinality(Leaflevels) = IF incremental THEN depth ELSE 1
  <2>1. Cardinality(1 .. depth) = depth
    BY <1>1, FS_Interval
  <2>2. Cardinality({depth}) = 1
    BY FS_Singleton
  <2> QED BY <2>1, <2>2 DEF Leaflevels
<1>4. \A p \in Halves : KeyShape(key[p], p, depth - 1, LeafLayers)
  BY <1>1 DEF IInv, KeysInv
<1> QED BY <1>1, <1>2, <1>3, <1>4

LEMMA WriteAndReadShape ==
    ASSUME IInv, WriteAndRead
    PROVE  IInv'
<1>1. /\ phase = "made"
      /\ UNCHANGED <<phase, gen, depth, incremental, save_expansion, target, level, cur>>
  BY DEF WriteAndRead
<1>2. PICK expand \in BOOLEAN :
        /\ wrote' = [p \in Halves |-> IF expand THEN Expanded(key[p]) ELSE key[p]]
        /\ key' = [p \in Halves |-> ReadBack(Written(wrote'[p]))]
  BY DEF WriteAndRead
<1>3. /\ depth \in 1 .. 63 /\ LeafLayers \in Nat /\ depth - 1 \in Nat
      /\ (LeafLayers = 1 \/ LeafLayers = depth)
      /\ \A p \in Halves : KeyShape(key[p], p, depth - 1, LeafLayers)
  BY <1>1, MadeShape
<1>4. ASSUME NEW p \in Halves PROVE KeyShape(key'[p], p, depth - 1, LeafLayers)
  <2>1. KeyShape(wrote'[p], p, depth - 1, LeafLayers)
    <3>1. KeyShape(Expanded(key[p]), p, depth - 1, LeafLayers)
      BY <1>3, ExpandedShape
    <3>2. wrote'[p] = IF expand THEN Expanded(key[p]) ELSE key[p]
      BY <1>2
    <3> QED BY <1>3, <3>1, <3>2
  <2>2. key'[p] = ReadBack(Written(wrote'[p]))
    BY <1>2
  <2> DEFINE w == wrote'[p]
  <2> HIDE DEF w
  <2>3. KeyShape(w, p, depth - 1, LeafLayers) /\ key'[p] = ReadBack(Written(w))
    BY <2>1, <2>2 DEF w
  <2>4. KeyShape(ReadBack(Written(w)), p, depth - 1, LeafLayers)
    BY <1>3, <2>3, ReadBackShape
  <2> QED BY <2>3, <2>4
<1>5. DOMAIN key' = Halves
  BY <1>2
<1> QED BY <1>1, <1>4, <1>5, SameLayers

LEMMA StartEvalShape ==
    ASSUME IInv, StartEval
    PROVE  IInv'
<1>1. /\ phase = "made" /\ phase' = "eval"
      /\ UNCHANGED <<gen, depth, incremental, save_expansion, target, level, cur>>
  BY DEF StartEval
<1>2. PICK p \in Halves, d \in (IF incremental THEN 1 .. depth ELSE {depth}) :
        key' = [key EXCEPT ![p] = [key[p] EXCEPT !.curdepth = d]]
  BY DEF StartEval
<1>3. /\ depth \in Nat /\ \A q \in Halves : KeyShape(key[q], q, depth - 1, LeafLayers)
  BY <1>1, MadeShape
<1>4. d \in Nat
  BY <1>3
<1>5. DOMAIN key = Halves
  BY DEF IInv, KeysInv
<1> DEFINE k == [key[p] EXCEPT !.curdepth = d]
<1>6. KeyShape(k, p, depth - 1, LeafLayers)
  <2>1. PICK S : key[p] \in KeyWith(S)
    BY <1>3 DEF KeyShape
  <2>2. k \in KeyWith(S)
    BY <1>4, <2>1 DEF KeyWith
  <2>3. /\ k.seed = key[p].seed /\ k.whichhalf = key[p].whichhalf /\ k.maxdepth = key[p].maxdepth
        /\ k.cw = key[p].cw /\ k.cfbits = key[p].cfbits /\ k.li = key[p].li
    BY <2>1 DEF KeyWith
  <2> HIDE DEF k
  <2>4. KeyShape(key[p], p, depth - 1, LeafLayers)
    BY <1>3
  <2> QED BY <2>2, <2>3, <2>4 DEF KeyShape
<1> HIDE DEF k
<1>7. key' = [key EXCEPT ![p] = k]
  BY <1>2 DEF k
<1>8. \A q \in Halves : KeyShape(key'[q], q, depth - 1, LeafLayers)
  <2> SUFFICES ASSUME NEW q \in Halves PROVE KeyShape(key'[q], q, depth - 1, LeafLayers)
    OBVIOUS
  <2>1. key'[q] = IF q = p THEN k ELSE key[q]
    BY <1>5, <1>7
  <2> QED BY <1>3, <1>6, <2>1
<1>9. DOMAIN key' = Halves
  BY <1>5, <1>7
<1> QED BY <1>1, <1>8, <1>9, SameLayers

LEMMA NextShape ==
    ASSUME IInv, [Next]_vars
    PROVE  IInv'
<1>1. CASE CreateLevel
  BY <1>1, CreateLevelShape
<1>2. CASE WriteAndRead
  BY <1>2, WriteAndReadShape
<1>3. CASE StartEval
  BY <1>3, StartEvalShape
<1>4. ASSUME UNCHANGED <<gen, depth, incremental, save_expansion, target, level, cur, key>>,
             phase = "eval", phase' \in {"eval", "done"}
      PROVE  IInv'
  <2>1. phase # "levels" /\ phase' \in {"made", "eval", "done"}
    BY <1>4
  <2>2. DOMAIN key' = Halves
    BY <1>4 DEF IInv, KeysInv
  <2>3. \A p \in Halves : KeyShape(key'[p], p, depth - 1, LeafLayers)
    BY <1>4, <2>1, MadeShape
  <2> QED BY <1>4, <2>1, <2>2, <2>3, SameLayers
<1>5. CASE \E t \in 0 .. MaxThreads - 1 : Process(t)
  BY <1>4, <1>5 DEF Process
<1>6. CASE Join
  BY <1>4, <1>6 DEF Join
<1>7. CASE UNCHANGED vars
  BY <1>7 DEF vars, IInv, Choices, Progress, KeysInv, KeyShape, KeyWith, LayersInv, OffAt,
              Internal, LeafLayers
<1> QED BY <1>1, <1>2, <1>3, <1>5, <1>6, <1>7 DEF Next

\* IInv is an inductive invariant.
THEOREM Invariance == Spec => []IInv
<1>1. Init => IInv
  BY InitShape
<1>2. IInv /\ [Next]_vars => IInv'
  BY NextShape
<1> QED BY <1>1, <1>2, PTL DEF Spec

LEMMA OffByTarget ==
    ASSUME IInv
    PROVE  KeysOffByTarget
<1> DEFINE N == Shl[Internal]
           t == target \div Shl[depth - Internal]
<1>1. OffAt(cur[0], cur[1], N, t)
  BY DEF IInv, LayersInv
<1>2. /\ cur[0] \in [0 .. N - 1 -> Node] /\ cur[1] \in [0 .. N - 1 -> Node]
      /\ get_lsb(cur[0][t]) # get_lsb(cur[1][t])
      /\ \A i \in 0 .. N - 1 : i # t => cur[0][i] = cur[1][i]
  BY <1>1 DEF OffAt
<1>3. TypeOK
  <2>1. phase \in {"levels", "made", "eval", "done"} /\ level \in 0 .. depth
    BY DEF IInv, Progress
  <2>2. ASSUME NEW p \in Halves
        PROVE  cur[p] \in [0 .. Shl[IF phase = "levels" THEN level ELSE depth - 1] - 1 -> Node]
    BY <1>2 DEF Internal, Halves
  <2>3. ASSUME NEW p \in Halves
        PROVE  key[p].whichhalf = p /\ Len(key[p].cw) = Len(key[p].cfbits)
    BY DEF IInv, KeysInv, KeyShape
  <2>4. ASSUME NEW p \in Halves, phase # "levels"
        PROVE  Len(key[p].cw) = depth - 1 /\ Len(key[p].li) = Cardinality(Leaflevels)
    <3>1. KeyShape(key[p], p, depth - 1, LeafLayers) /\ LeafLayers = Cardinality(Leaflevels)
      BY <2>4, MadeShape
    <3> QED BY <3>1 DEF KeyShape
  <2> QED BY <2>1, <2>2, <2>3, <2>4 DEF TypeOK
<1>4. OnlyTargetDiffers
  <2>1. ASSUME NEW i \in DOMAIN cur[0]
        PROVE  IF i = t THEN get_lsb(cur[0][i]) # get_lsb(cur[1][i]) ELSE cur[0][i] = cur[1][i]
    BY <1>2
  <2> QED BY <2>1 DEF OnlyTargetDiffers, Internal
<1> QED BY <1>3, <1>4 DEF KeysOffByTarget

\* At every level of the creation and after it, the two parties' nodes are the
\* same off the way to the target and differ in their flags on it, and their
\* keys have the words and the leaf levels of their phase, also when they were
\* written, expanded or not, and read back (RDPF::RDPF, create_level and the
\* stream operators of rdpf.tcc).
THEOREM OffTheWayTheSame == Spec => []KeysOffByTarget
<1>1. IInv => KeysOffByTarget
  BY OffByTarget
<1> QED BY <1>1, Invariance, PTL

-----------------------------------------------------------------------------
(* Words, and their sums.                                                  *)

\* The recursive functions of DPF and RDPF that go through numbers.
NumberRec(n, k, c) ==
    c = [i \in 0 .. k |->
            IF i = 0 THEN 0 ELSE c[i - 1] + (IF i - 1 \in n THEN Shl[i - 1] ELSE 0)]
SumRec(f, n, c) ==
    c = [i \in 0 .. n |-> IF i = 0 THEN 0 ELSE (c[i - 1] + f[i - 1]) % Modulus]
XorRec(f, n, c) ==
    c = [i \in 0 .. n |-> IF i = 0 THEN 0 ELSE xor(c[i - 1], f[i - 1])]

\* One step of each.
NumberSteps(n, k, c) ==
    c[0] = 0 /\ \A i \in Nat : i < k => c[i + 1] = c[i] + (IF i \in n THEN Shl[i] ELSE 0)
SumSteps(f, n, c) ==
    c[0] = 0 /\ \A i \in Nat : i < n => c[i + 1] = (c[i] + f[i]) % Modulus
XorSteps(f, n, c) ==
    c[0] = 0 /\ \A i \in Nat : i < n => c[i + 1] = xor(c[i], f[i])

LEMMA NumberStepsOf ==
    ASSUME NEW n, NEW k \in Nat
    PROVE  \E c : Number(n, k) = c[k] /\ NumberSteps(n, k, c)
<1> DEFINE G == [p \in Nat \X Nat |-> p[2] + (IF p[1] \in n THEN Shl[p[1]] ELSE 0)]
<1>1. PICK g \in [Nat -> Nat] : g[0] = 0 /\ \A i \in Nat : g[i + 1] = G[<<i, g[i]>>]
  <2>1. G \in [Nat \X Nat -> Nat]
    BY ShlFacts
  <2> HIDE DEF G
  <2>2. HasFold(Nat, 0, G)
    BY <2>1, FoldExists
  <2> QED BY <2>2 DEF HasFold
<1>2. \A i \in Nat : g[i + 1] = g[i] + (IF i \in n THEN Shl[i] ELSE 0)
  BY <1>1
<1> DEFINE h == [i \in 0 .. k |-> g[i]]
           c == CHOOSE r : NumberRec(n, k, r)
<1>3. NumberRec(n, k, h)
  <2>1. ASSUME NEW i \in 0 .. k
        PROVE  h[i] = IF i = 0 THEN 0 ELSE h[i - 1] + (IF i - 1 \in n THEN Shl[i - 1] ELSE 0)
    <3>1. CASE i = 0
      BY <1>1, <3>1
    <3>2. CASE i # 0
      <4>1. i - 1 \in Nat /\ (i - 1) + 1 = i /\ i - 1 \in 0 .. k
        BY <3>2
      <4>2. g[(i - 1) + 1] = g[i - 1] + (IF i - 1 \in n THEN Shl[i - 1] ELSE 0)
        BY <1>2, <4>1
      <4> QED BY <3>2, <4>1, <4>2
    <3> QED BY <3>1, <3>2
  <2>2. h = [i \in 0 .. k |-> h[i]]
    OBVIOUS
  <2> HIDE DEF h
  <2> QED BY <2>1, <2>2 DEF NumberRec
<1> HIDE DEF h, G
<1>4. NumberRec(n, k, c)
  BY <1>3
<1>5. Number(n, k) = c[k]
  BY DEF Number, NumberRec
<1> HIDE DEF c
<1>6. NumberSteps(n, k, c)
  <2>1. c[0] = 0
    BY <1>4 DEF NumberRec
  <2>2. ASSUME NEW i \in Nat, i < k
        PROVE  c[i + 1] = c[i] + (IF i \in n THEN Shl[i] ELSE 0)
    <3>1. i + 1 \in 0 .. k /\ i + 1 # 0 /\ (i + 1) - 1 = i
      BY <2>2
    <3>2. c[i + 1] = c[(i + 1) - 1] + (IF (i + 1) - 1 \in n THEN Shl[(i + 1) - 1] ELSE 0)
      BY <1>4, <3>1 DEF NumberRec
    <3> QED BY <3>1, <3>2
  <2> QED BY <2>1, <2>2 DEF NumberSteps
<1> QED BY <1>5, <1>6

LEMMA ModulusType ==
    Modulus \in Nat /\ Modulus > 1 /\ \E h \in Nat : Modulus = 2 * h
<1>1. PICK b \in Nat : WordBits = b + 1
  <2>1. WordBits - 1 \in Nat /\ WordBits = (WordBits - 1) + 1
    BY Sizes
  <2> QED BY <2>1
<1>2. PICK h \in Nat : h = Shl[b] /\ h > 0 /\ Shl[b + 1] = 2 * h
  BY ShlFacts
<1> QED BY <1>1, <1>2 DEF Modulus

\* Words are less than the modulus.
Words == 0 .. Modulus - 1

LEMMA SumStepsOf ==
    ASSUME NEW n \in Nat, NEW f, \A i \in Nat : i < n => f[i] \in Nat
    PROVE  \E c : SumOf(f, n) = c[n] /\ SumSteps(f, n, c) /\ \A i \in 0 .. n : c[i] \in Nat
<1> DEFINE G == [p \in Nat \X Nat |-> IF p[1] < n THEN (p[2] + f[p[1]]) % Modulus ELSE 0]
<1>1. PICK g \in [Nat -> Nat] : g[0] = 0 /\ \A i \in Nat : g[i + 1] = G[<<i, g[i]>>]
  <2>1. G \in [Nat \X Nat -> Nat]
    <3>1. ASSUME NEW p \in Nat \X Nat
          PROVE  (IF p[1] < n THEN (p[2] + f[p[1]]) % Modulus ELSE 0) \in Nat
      <4>1. CASE p[1] < n
        <5>1. PICK x \in Nat : x = p[2] + f[p[1]]
          BY <4>1
        <5>2. x % Modulus \in Nat
          BY <5>1, ModulusType, QuotientOf
        <5> QED BY <4>1, <5>1, <5>2
      <4> QED BY <4>1
    <3> QED BY <3>1
  <2> HIDE DEF G
  <2>2. HasFold(Nat, 0, G)
    BY <2>1, FoldExists
  <2> QED BY <2>2 DEF HasFold
<1>2. \A i \in Nat : i < n => g[i + 1] = (g[i] + f[i]) % Modulus
  BY <1>1
<1> DEFINE h == [i \in 0 .. n |-> g[i]]
           c == CHOOSE r : SumRec(f, n, r)
<1>3. SumRec(f, n, h)
  <2>1. ASSUME NEW i \in 0 .. n
        PROVE  h[i] = IF i = 0 THEN 0 ELSE (h[i - 1] + f[i - 1]) % Modulus
    <3>1. CASE i = 0
      BY <1>1, <3>1
    <3>2. CASE i # 0
      <4>1. i - 1 \in Nat /\ (i - 1) + 1 = i /\ i - 1 \in 0 .. n /\ i - 1 < n
        BY <3>2
      <4>2. g[(i - 1) + 1] = (g[i - 1] + f[i - 1]) % Modulus
        BY <1>2, <4>1
      <4> QED BY <3>2, <4>1, <4>2
    <3> QED BY <3>1, <3>2
  <2>2. h = [i \in 0 .. n |-> h[i]]
    OBVIOUS
  <2> HIDE DEF h
  <2> QED BY <2>1, <2>2 DEF SumRec
<1> HIDE DEF h, G
<1>4. SumRec(f, n, c)
  BY <1>3
<1>5. SumOf(f, n) = c[n]
  BY DEF SumOf, SumRec
<1> HIDE DEF c
<1>6. SumSteps(f, n, c)
  <2>1. c[0] = 0
    BY <1>4 DEF SumRec
  <2>2. ASSUME NEW i \in Nat, i < n
        PROVE  c[i + 1] = (c[i] + f[i]) % Modulus
    <3>1. i + 1 \in 0 .. n /\ i + 1 # 0 /\ (i + 1) - 1 = i
      BY <2>2
    <3>2. c[i + 1] = (c[(i + 1) - 1] + f[(i + 1) - 1]) % Modulus
      BY <1>4, <3>1 DEF SumRec
    <3> QED BY <3>1, <3>2
  <2> QED BY <2>1, <2>2 DEF SumSteps
<1>7. \A i \in 0 .. n : c[i] \in Nat
  <2> DEFINE T == {i \in Nat : i <= n => c[i] \in Nat}
  <2>1. 0 \in T
    BY <1>6 DEF SumSteps
  <2>2. ASSUME NEW i \in Nat, i \in T PROVE i + 1 \in T
    <3>1. SUFFICES ASSUME i + 1 <= n PROVE c[i + 1] \in Nat
      OBVIOUS
    <3>2. i < n /\ c[i] \in Nat
      BY <2>2, <3>1
    <3>3. PICK x \in Nat : x = c[i] + f[i]
      BY <3>2
    <3>4. x % Modulus \in Nat
      BY ModulusType, QuotientOf
    <3> QED BY <1>6, <3>2, <3>3, <3>4 DEF SumSteps
  <2> HIDE DEF T
  <2>3. \A i \in Nat : i \in T
    BY <2>1, <2>2, SetInduction
  <2> QED BY <2>3 DEF T
<1> QED BY <1>5, <1>6, <1>7

LEMMA XorStepsOf ==
    ASSUME NEW n \in Nat, NEW f, \A i \in Nat : i < n => f[i] \in Nat
    PROVE  \E c : XorOf(f, n) = c[n] /\ XorSteps(f, n, c)
<1> DEFINE G == [p \in Nat \X Nat |-> IF p[1] < n THEN xor(p[2], f[p[1]]) ELSE 0]
<1>1. PICK g \in [Nat -> Nat] : g[0] = 0 /\ \A i \in Nat : g[i + 1] = G[<<i, g[i]>>]
  <2>1. G \in [Nat \X Nat -> Nat]
    <3>1. \A a, b \in Nat : xor(a, b) \in Nat
      BY Binary, Sizes, XorRange DEF xor, Xor
    <3> QED BY <3>1
  <2> HIDE DEF G
  <2>2. HasFold(Nat, 0, G)
    BY <2>1, FoldExists
  <2> QED BY <2>2 DEF HasFold
<1>2. \A i \in Nat : i < n => g[i + 1] = xor(g[i], f[i])
  BY <1>1
<1> DEFINE h == [i \in 0 .. n |-> g[i]]
           c == CHOOSE r : XorRec(f, n, r)
<1>3. XorRec(f, n, h)
  <2>1. ASSUME NEW i \in 0 .. n
        PROVE  h[i] = IF i = 0 THEN 0 ELSE xor(h[i - 1], f[i - 1])
    <3>1. CASE i = 0
      BY <1>1, <3>1
    <3>2. CASE i # 0
      <4>1. i - 1 \in Nat /\ (i - 1) + 1 = i /\ i - 1 \in 0 .. n /\ i - 1 < n
        BY <3>2
      <4>2. g[(i - 1) + 1] = xor(g[i - 1], f[i - 1])
        BY <1>2, <4>1
      <4> QED BY <3>2, <4>1, <4>2
    <3> QED BY <3>1, <3>2
  <2>2. h = [i \in 0 .. n |-> h[i]]
    OBVIOUS
  <2> HIDE DEF h
  <2> QED BY <2>1, <2>2 DEF XorRec
<1> HIDE DEF h, G
<1>4. XorRec(f, n, c)
  BY <1>3
<1>5. XorOf(f, n) = c[n]
  BY DEF XorOf, XorRec
<1> HIDE DEF c
<1>6. XorSteps(f, n, c)
  <2>1. c[0] = 0
    BY <1>4 DEF XorRec
  <2>2. ASSUME NEW i \in Nat, i < n
        PROVE  c[i + 1] = xor(c[i], f[i])
    <3>1. i + 1 \in 0 .. n /\ i + 1 # 0 /\ (i + 1) - 1 = i
      BY <2>2
    <3>2. c[i + 1] = xor(c[(i + 1) - 1], f[(i + 1) - 1])
      BY <1>4, <3>1 DEF XorRec
    <3> QED BY <3>1, <3>2
  <2> QED BY <2>1, <2>2 DEF XorSteps
<1> QED BY <1>5, <1>6

\* A number of k digits, and its last digit.
LEMMA NumberType ==
    ASSUME NEW n, NEW k \in Nat
    PROVE  /\ Number(n, k) \in Nat /\ Number(n, k) < Shl[k]
           /\ k > 0 => (Number(n, k) % 2 = 1 <=> 0 \in n)
<1>1. PICK c : Number(n, k) = c[k] /\ NumberSteps(n, k, c)
  BY NumberStepsOf
<1> DEFINE Fine(i) == /\ c[i] \in Nat /\ c[i] < Shl[i]
                      /\ i > 0 => (c[i] % 2 = 1 <=> 0 \in n)
           T == {i \in Nat : i <= k => Fine(i)}
<1>2. 0 \in T
  BY <1>1, ShlFacts DEF NumberSteps
<1>3. ASSUME NEW i \in Nat, i \in T PROVE i + 1 \in T
  <2>1. SUFFICES ASSUME i + 1 <= k PROVE Fine(i + 1)
    OBVIOUS
  <2>2. PICK x : x = c[i] /\ x \in Nat /\ x < Shl[i] /\ (i > 0 => (x % 2 = 1 <=> 0 \in n))
    BY <1>3, <2>1
  <2>3. PICK s \in Nat : s = Shl[i] /\ Shl[i + 1] = 2 * s
    BY ShlFacts
  <2>4. c[i + 1] = x + (IF i \in n THEN s ELSE 0)
    BY <1>1, <2>1, <2>2, <2>3 DEF NumberSteps
  <2>5. c[i + 1] \in Nat /\ c[i + 1] < Shl[i + 1]
    BY <2>2, <2>3, <2>4
  <2>6. CASE i = 0
    <3>1. s = 1 /\ x = 0
      BY <2>2, <2>3, <2>6, ShlFacts
    <3> QED BY <2>4, <2>5, <2>6, <3>1
  <2>7. CASE i # 0
    <3>1. PICK h \in Nat : s = 2 * h
      <4>1. i - 1 \in Nat /\ (i - 1) + 1 = i
        BY <2>7
      <4>2. Shl[i - 1] \in Nat /\ Shl[(i - 1) + 1] = 2 * Shl[i - 1]
        BY <4>1, ShlFacts
      <4> QED BY <2>3, <4>1, <4>2
    <3>2. (x + s) % 2 = x % 2
      BY <2>2, <3>1
    <3> QED BY <2>2, <2>4, <2>5, <2>7, <3>2
  <2> QED BY <2>6, <2>7
<1> HIDE DEF T
<1>4. \A i \in Nat : i \in T
  BY <1>2, <1>3, SetInduction
<1>5. Fine(k)
  BY <1>4 DEF T
<1> QED BY <1>1, <1>5

LEMMA WordType ==
    /\ \A n : LowWord(n) \in Words /\ (LowWord(n) % 2 = 1 <=> get_lsb(n))
    /\ \A n : HighWord(n) \in Words
    /\ \A leaf, j : ScaledWord(leaf, j) \in Words
<1>1. \A n : Number(n, WordBits) \in Words /\ (Number(n, WordBits) % 2 = 1 <=> 0 \in n)
  <2>1. ASSUME NEW n
        PROVE  Number(n, WordBits) \in Words /\ (Number(n, WordBits) % 2 = 1 <=> 0 \in n)
    <3>1. WordBits \in Nat /\ WordBits > 0
      BY Sizes
    <3>2. PICK x : x = Number(n, WordBits)
      OBVIOUS
    <3>3. x \in Nat /\ x < Modulus /\ (x % 2 = 1 <=> 0 \in n)
      BY <3>1, <3>2, NumberType DEF Modulus
    <3>4. x \in Words
      BY <3>3, ModulusType DEF Words
    <3> QED BY <3>2, <3>3, <3>4
  <2> QED BY <2>1
<1>2. \A n : LowWord(n) \in Words /\ (LowWord(n) % 2 = 1 <=> get_lsb(n))
  BY <1>1 DEF LowWord, get_lsb
<1>3. \A n : HighWord(n) \in Words
  BY <1>1 DEF HighWord
<1> QED BY <1>2, <1>3 DEF ScaledWord

\* Differences of residues.
LEMMA ResidueMinus ==
    ASSUME NEW x \in Int, NEW y \in Int
    PROVE  /\ Residue(Residue(x, Modulus) - Residue(y, Modulus), Modulus) = Residue(x - y, Modulus)
           /\ Residue(x, Modulus) \in Words
<1>1. PICK m : m = Modulus /\ m \in Nat /\ m > 0
  BY ModulusType
<1>2. PICK u, v : u = Residue(x, m) /\ v = Residue(y, m) /\ u \in Int /\ v \in Int /\ u \in 0 .. m - 1
  <2>1. Residue(x, m) \in 0 .. m - 1
    BY <1>1, Residues
  <2>2. Residue(y, m) \in 0 .. m - 1
    BY <1>1, Residues
  <2> QED BY <1>1, <2>1, <2>2
<1>3. Residue(u + m - v, m) = Residue(x - y, m)
  BY <1>1, <1>2, ResidueOps
<1>4. Apart(u + m - v, u - v, 1, m) /\ u - v \in Int
  BY <1>1, <1>2 DEF Apart
<1>5. Residue(u + m - v, m) = Residue(u - v, m)
  BY <1>1, <1>4, ResidueShift
<1> QED BY <1>1, <1>2, <1>3, <1>5 DEF Words

\* The sums of words that are the same but at t differ by those at t.
LEMMA SumsDiffer ==
    ASSUME NEW N \in Nat, NEW t \in 0 .. N - 1, NEW f, NEW g,
           \A i \in Nat : i < N => f[i] \in Words /\ g[i] \in Words,
           \A i \in Nat : i < N /\ i # t => f[i] = g[i]
    PROVE  /\ SumOf(f, N) \in Nat /\ SumOf(g, N) \in Nat
           /\ Residue(SumOf(f, N) - SumOf(g, N), Modulus) = Residue(f[t] - g[t], Modulus)
<1>1. \A i \in Nat : i < N => f[i] \in Nat /\ g[i] \in Nat
  BY ModulusType DEF Words
<1>2. PICK c : SumOf(f, N) = c[N] /\ SumSteps(f, N, c) /\ \A i \in 0 .. N : c[i] \in Nat
  BY <1>1, SumStepsOf
<1>3. PICK d : SumOf(g, N) = d[N] /\ SumSteps(g, N, d) /\ \A i \in 0 .. N : d[i] \in Nat
  BY <1>1, SumStepsOf
<1> DEFINE D(i) == Residue(c[i] - d[i], Modulus)
           At0 == Residue(0, Modulus)
           Att == Residue(f[t] - g[t], Modulus)
           T == {i \in Nat : i <= N => D(i) = IF i <= t THEN At0 ELSE Att}
<1>4. 0 \in T
  <2>1. c[0] = 0 /\ d[0] = 0 /\ 0 - 0 = 0 /\ 0 <= t
    BY <1>2, <1>3 DEF SumSteps
  <2> QED BY <2>1
<1>5. ASSUME NEW i \in Nat, i \in T PROVE i + 1 \in T
  <2>1. SUFFICES ASSUME i + 1 <= N PROVE D(i + 1) = IF i + 1 <= t THEN At0 ELSE Att
    OBVIOUS
  <2>2. i < N /\ i \in 0 .. N
    BY <2>1
  <2>3. PICK x, y, u, v : x = c[i] /\ y = d[i] /\ u = f[i] /\ v = g[i]
    OBVIOUS
  <2>4. x \in Nat /\ y \in Nat /\ u \in Nat /\ v \in Nat
    BY <1>1, <1>2, <1>3, <2>2, <2>3
  <2>5. c[i + 1] = Residue(x + u, Modulus) /\ d[i + 1] = Residue(y + v, Modulus)
    BY <1>2, <1>3, <2>2, <2>3 DEF SumSteps, Residue
  <2>6. D(i + 1) = Residue((x + u) - (y + v), Modulus)
    BY <2>4, <2>5, ResidueMinus
  <2>7. (x + u) - (y + v) = (x - y) + (u - v) /\ x - y \in Int /\ u - v \in Int
    BY <2>4
  <2>8. PICK m : m = Modulus /\ m \in Nat /\ m > 0
    BY ModulusType
  <2>9. Residue((x - y) + (u - v), m) = Residue(Residue(x - y, m) + Residue(u - v, m), m)
    BY <2>7, <2>8, ResidueOps
  <2>10. Residue(x - y, m) = IF i <= t THEN At0 ELSE Att
    BY <1>5, <2>1, <2>3, <2>8
  <2>11. Residue(0 + (u - v), m) = Residue(Residue(0, m) + Residue(u - v, m), m)
    <3>1. PICK z \in Int : z = 0
      OBVIOUS
    <3>2. Residue(z + (u - v), m) = Residue(Residue(z, m) + Residue(u - v, m), m)
      BY <2>7, <2>8, ResidueOps
    <3> QED BY <3>1, <3>2
  <2>12. CASE i < t
    <3>1. u - v = 0
      BY <2>2, <2>3, <2>4, <2>12
    <3>2. D(i + 1) = Residue(Residue(0, m) + Residue(0, m), m)
      BY <2>6, <2>7, <2>8, <2>9, <2>10, <2>12, <3>1
    <3>3. Residue(0 + 0, m) = Residue(Residue(0, m) + Residue(0, m), m)
      BY <2>11, <3>1
    <3>4. i + 1 <= t /\ 0 + 0 = 0
      BY <2>12
    <3> QED BY <3>2, <3>3, <3>4, <2>8
  <2>13. CASE i = t
    <3>1. D(i + 1) = Residue(u - v, m) /\ ~ (i + 1 <= t)
      BY <2>6, <2>7, <2>8, <2>9, <2>10, <2>11, <2>13
    <3> QED BY <3>1, <2>3, <2>8, <2>13
  <2>14. CASE i > t
    <3>1. u - v = 0
      BY <2>2, <2>3, <2>4, <2>14
    <3>2. (x + u) - (y + v) = x - y
      BY <2>4, <3>1
    <3>3. D(i + 1) = Residue(x - y, m)
      BY <2>6, <2>8, <3>2
    <3>4. ~ (i + 1 <= t) /\ ~ (i <= t)
      BY <2>14
    <3> QED BY <2>10, <3>3, <3>4
  <2> QED BY <2>12, <2>13, <2>14
<1> HIDE DEF T
<1>6. \A i \in Nat : i \in T
  BY <1>4, <1>5, SetInduction
<1>7. D(N) = Att
  <2>1. N \in T /\ ~ (N <= t)
    BY <1>6
  <2> QED BY <2>1 DEF T
<1> QED BY <1>2, <1>3, <1>7

\* The XOR of words.
LEMMA XorWords ==
    /\ \A a, b \in Words : xor(a, b) \in Words
    /\ \A a \in Words : xor(a, 0) = a /\ xor(0, a) = a /\ xor(a, a) = 0
    /\ \A a, b, c, d \in Words : xor(xor(a, b), xor(c, d)) = xor(xor(a, c), xor(b, d))
<1>1. \A a, b : xor(a, b) = Xor(WordBits, a, b)
  BY Binary DEF xor, Xor
<1>2. WordBits \in Nat /\ \A a : a \in Words <=> a \in Nat /\ a < Pow2[WordBits]
  <2>1. Modulus = Pow2[WordBits]
    BY Binary DEF Modulus
  <2> QED BY <2>1, Sizes, ModulusType DEF Words
<1>3. ASSUME NEW a \in Words, NEW b \in Words PROVE xor(a, b) \in Words
  <2>1. Xor(WordBits, a, b) \in Nat /\ Xor(WordBits, a, b) < Pow2[WordBits]
    BY <1>2, XorRange
  <2> QED BY <1>1, <1>2, <2>1
<1>4. ASSUME NEW a \in Words PROVE xor(a, 0) = a /\ xor(0, a) = a /\ xor(a, a) = 0
  BY <1>1, <1>2, XorSelf
<1>5. ASSUME NEW a \in Words, NEW b \in Words, NEW c \in Words, NEW d \in Words
      PROVE  xor(xor(a, b), xor(c, d)) = xor(xor(a, c), xor(b, d))
  <2>1. Crossed(WordBits, a, b, c, d)
    BY <1>2, XorCrossed
  <2> QED BY <1>1, <2>1 DEF Crossed
<1> QED BY <1>3, <1>4, <1>5

LEMMA XorsDiffer ==
    ASSUME NEW N \in Nat, NEW t \in 0 .. N - 1, NEW f, NEW g,
           \A i \in Nat : i < N => f[i] \in Words /\ g[i] \in Words,
           \A i \in Nat : i < N /\ i # t => f[i] = g[i]
    PROVE  xor(XorOf(f, N), XorOf(g, N)) = xor(f[t], g[t])
<1>1. \A i \in Nat : i < N => f[i] \in Nat /\ g[i] \in Nat
  BY ModulusType DEF Words
<1>2. PICK c : XorOf(f, N) = c[N] /\ XorSteps(f, N, c)
  BY <1>1, XorStepsOf
<1>3. PICK d : XorOf(g, N) = d[N] /\ XorSteps(g, N, d)
  BY <1>1, XorStepsOf
<1> DEFINE T == {i \in Nat : i <= N => /\ c[i] \in Words /\ d[i] \in Words
                                       /\ xor(c[i], d[i]) = IF i <= t THEN 0 ELSE xor(f[t], g[t])}
<1>4. 0 \in T
  <2>1. c[0] = 0 /\ d[0] = 0 /\ 0 <= t /\ 0 \in Words
    BY <1>2, <1>3, ModulusType DEF XorSteps, Words
  <2> QED BY <2>1, XorWords
<1>5. ASSUME NEW i \in Nat, i \in T PROVE i + 1 \in T
  <2>1. SUFFICES ASSUME i + 1 <= N
                 PROVE  /\ c[i + 1] \in Words /\ d[i + 1] \in Words
                        /\ xor(c[i + 1], d[i + 1]) = IF i + 1 <= t THEN 0 ELSE xor(f[t], g[t])
    OBVIOUS
  <2>2. i < N
    BY <2>1
  <2>3. PICK x, y, u, v : x = c[i] /\ y = d[i] /\ u = f[i] /\ v = g[i]
    OBVIOUS
  <2>4. x \in Words /\ y \in Words /\ u \in Words /\ v \in Words
    BY <1>5, <2>2, <2>3
  <2>5. c[i + 1] = xor(x, u) /\ d[i + 1] = xor(y, v)
    BY <1>2, <1>3, <2>2, <2>3 DEF XorSteps
  <2>6. c[i + 1] \in Words /\ d[i + 1] \in Words
    BY <2>4, <2>5, XorWords
  <2>7. xor(c[i + 1], d[i + 1]) = xor(xor(x, y), xor(u, v))
    BY <2>4, <2>5, XorWords
  <2>8. xor(x, y) = IF i <= t THEN 0 ELSE xor(f[t], g[t])
    BY <1>5, <2>2, <2>3
  <2>9. xor(u, v) \in Words /\ xor(x, y) \in Words
    BY <2>4, XorWords
  <2>10. CASE i < t
    <3>1. u = v /\ i + 1 <= t /\ i <= t
      BY <2>2, <2>3, <2>10
    <3>2. xor(u, v) = 0 /\ xor(x, y) = 0 /\ 0 \in Words
      BY <2>4, <2>8, <2>9, <3>1, XorWords
    <3> QED BY <2>6, <2>7, <3>1, <3>2, XorWords
  <2>11. CASE i = t
    <3>1. xor(x, y) = 0 /\ ~ (i + 1 <= t)
      BY <2>8, <2>11
    <3> QED BY <2>3, <2>6, <2>7, <2>9, <2>11, <3>1, XorWords
  <2>12. CASE i > t
    <3>1. u = v /\ ~ (i + 1 <= t) /\ ~ (i <= t)
      BY <2>2, <2>3, <2>12
    <3>2. xor(u, v) = 0
      BY <2>4, <3>1, XorWords
    <3> QED BY <2>6, <2>7, <2>8, <2>9, <3>1, <3>2, XorWords
  <2> QED BY <2>10, <2>11, <2>12
<1> HIDE DEF T
<1>6. \A i \in Nat : i \in T
  BY <1>4, <1>5, SetInduction
<1>7. xor(c[N], d[N]) = xor(f[t], g[t])
  <2>1. N \in T /\ ~ (N <= t)
    BY <1>6
  <2> QED BY <2>1 DEF T
<1> QED BY <1>2, <1>3, <1>7

-----------------------------------------------------------------------------
(* The inverse of an odd word.                                             *)

\* A factor of x that is its inverse for a power of 2 gives one for the next.
LEMMA NextInverse ==
    ASSUME NEW x \in Int, NEW y \in Int, NEW s \in Int, NEW k \in Int, NEW S, S = 2 * s,
           Apart(x * y, 1, k, S),
           NEW u \in Int, NEW q \in Int, NEW z \in Int, Apart(y * y * x, z, q, u * (2 * S))
    PROVE  \E j \in Int : Apart(x * z, 1, j, 2 * S)
<1>1. PICK p \in Int : p = x * y
  OBVIOUS
<1>2. p = k * S + 1
  BY <1>1 DEF Apart
<1>3. PICK w \in Int : w = y * y * x
  OBVIOUS
<1>4. x * w = p * p
  <2>1. x * (y * y * x) = (x * y) * (x * y)
    OBVIOUS
  <2> QED BY <1>1, <1>3, <2>1
<1>5. PICK D \in Int : D = 2 * S
  OBVIOUS
<1>6. PICK a \in Int : a = k * k * s + k
  OBVIOUS
<1>7. p * p = a * D + 1
  <2>1. (k * (2 * s) + 1) * (k * (2 * s) + 1) = (k * k * s + k) * (2 * (2 * s)) + 1
    OBVIOUS
  <2> QED BY <1>2, <1>5, <1>6, <2>1
<1>8. w = q * (u * D) + z
  BY <1>3, <1>5 DEF Apart
<1>9. PICK b \in Int : b = x * q * u
  OBVIOUS
<1>10. x * w = b * D + x * z
  <2>1. x * (q * (u * D) + z) = (x * q * u) * D + x * z
    OBVIOUS
  <2> QED BY <1>8, <1>9, <2>1
<1>11. x * z = (a - b) * D + 1
  <2>1. PICK v \in Int : v = x * z
    OBVIOUS
  <2>2. v = a * D + 1 - b * D
    BY <1>4, <1>7, <1>10, <2>1
  <2>3. a * D + 1 - b * D = (a - b) * D + 1
    OBVIOUS
  <2> QED BY <2>1, <2>2, <2>3
<1>12. Apart(x * z, 1, a - b, D) /\ a - b \in Int
  BY <1>11 DEF Apart
<1> QED BY <1>5, <1>12

InverseRec(x, c) ==
    c = [expon \in 1 .. WordBits |->
            IF expon = 1 THEN x % Modulus
            ELSE LET y == c[expon - 1] IN (y * y * x) % Modulus]
InverseSteps(x, c) ==
    /\ c[1] = x
    /\ \A e \in Nat : e >= 1 /\ e < WordBits =>
          /\ c[e] \in Nat
          /\ c[e + 1] = (c[e] * c[e] * x) % Modulus

LEMMA InverseStepsOf ==
    ASSUME NEW x \in Words
    PROVE  \E c : /\ inverse_value_t(x) = c[IF WordBits > 1 THEN WordBits - 1 ELSE 1]
                  /\ InverseSteps(x, c)
<1>1. PICK m \in Nat : m = Modulus /\ m > 0 /\ x \in Nat /\ x < m /\ x % m = x
  <2>1. PICK m \in Nat : m = Modulus /\ m > 0
    BY ModulusType
  <2>2. x \in Nat /\ x < m
    BY <2>1 DEF Words
  <2>3. x \in 0 .. m - 1 /\ Apart(x, x, 0, m)
    BY <2>1, <2>2 DEF Apart
  <2>4. Residue(x, m) = x
    BY <2>1, <2>3, ResidueUnique
  <2> QED BY <2>1, <2>2, <2>4 DEF Residue
<1> DEFINE G == [p \in Nat \X Nat |-> (p[2] * p[2] * x) % Modulus]
<1>2. PICK g \in [Nat -> Nat] : g[0] = x /\ \A i \in Nat : g[i + 1] = G[<<i, g[i]>>]
  <2>1. G \in [Nat \X Nat -> Nat]
    <3>1. ASSUME NEW p \in Nat \X Nat PROVE (p[2] * p[2] * x) % Modulus \in Nat
      <4>1. PICK w \in Nat : w = p[2] * p[2] * x
        <5>1. \A a, b \in Nat : a * b \in Nat
          OBVIOUS
        <5>2. p[2] \in Nat
          OBVIOUS
        <5>3. p[2] * p[2] \in Nat
          BY <5>1, <5>2
        <5> QED BY <1>1, <5>1, <5>3
      <4> QED BY <1>1, <4>1, QuotientOf
    <3> QED BY <3>1
  <2> HIDE DEF G
  <2>2. HasFold(Nat, x, G)
    BY <1>1, <2>1, FoldExists
  <2> QED BY <2>2 DEF HasFold
<1>3. \A i \in Nat : g[i + 1] = (g[i] * g[i] * x) % Modulus
  <2>1. ASSUME NEW i \in Nat PROVE g[i + 1] = (g[i] * g[i] * x) % Modulus
    <3>1. <<i, g[i]>> \in Nat \X Nat /\ g[i + 1] = G[<<i, g[i]>>]
      BY <1>2
    <3> QED BY <3>1
  <2> QED BY <2>1
<1> DEFINE h == [e \in 1 .. WordBits |-> g[e - 1]]
           c == CHOOSE r : InverseRec(x, r)
<1>4. InverseRec(x, h)
  <2>1. ASSUME NEW e \in 1 .. WordBits
        PROVE  h[e] = IF e = 1 THEN x % Modulus ELSE (h[e - 1] * h[e - 1] * x) % Modulus
    <3>1. CASE e = 1
      BY <1>1, <1>2, <3>1
    <3>2. CASE e # 1
      <4>1. e - 2 \in Nat /\ (e - 2) + 1 = e - 1 /\ e - 1 \in 1 .. WordBits /\ (e - 1) - 1 = e - 2
        BY <3>2, Sizes
      <4>2. g[(e - 2) + 1] = (g[e - 2] * g[e - 2] * x) % Modulus
        BY <1>3, <4>1
      <4>3. h[e] = g[e - 1] /\ h[e - 1] = g[e - 2]
        BY <4>1
      <4> HIDE DEF h
      <4>4. h[e] = (h[e - 1] * h[e - 1] * x) % Modulus
        BY <4>1, <4>2, <4>3
      <4> QED BY <3>2, <4>4
    <3> QED BY <3>1, <3>2
  <2>2. h = [e \in 1 .. WordBits |-> h[e]]
    OBVIOUS
  <2> HIDE DEF h
  <2>3. h = [e \in 1 .. WordBits |->
               IF e = 1 THEN x % Modulus ELSE (h[e - 1] * h[e - 1] * x) % Modulus]
    BY <2>1, <2>2
  <2> QED BY <2>3 DEF InverseRec
<1>5. InverseRec(x, c)
  <2> HIDE DEF h
  <2> QED BY <1>4
<1>6. inverse_value_t(x) = c[IF WordBits > 1 THEN WordBits - 1 ELSE 1]
  BY DEF inverse_value_t, InverseRec
<1> HIDE DEF c, h, G
<1>7. c[1] = x
  <2>1. 1 \in 1 .. WordBits
    BY Sizes
  <2> QED BY <1>1, <1>5, <2>1 DEF InverseRec
<1>8. ASSUME NEW e \in Nat, e >= 1, e < WordBits
      PROVE  c[e + 1] = (c[e] * c[e] * x) % Modulus
  <2>1. e + 1 \in 1 .. WordBits /\ e + 1 # 1 /\ (e + 1) - 1 = e
    BY <1>8, Sizes
  <2>2. c[e + 1] = (c[(e + 1) - 1] * c[(e + 1) - 1] * x) % Modulus
    BY <1>5, <2>1 DEF InverseRec
  <2> QED BY <2>1, <2>2
<1> DEFINE T == {i \in Nat : i < WordBits => c[i + 1] = g[i]}
<1>9. 0 \in T
  BY <1>2, <1>7
<1>10. ASSUME NEW i \in Nat, i \in T PROVE i + 1 \in T
  <2>1. SUFFICES ASSUME i + 1 < WordBits PROVE c[(i + 1) + 1] = g[i + 1]
    OBVIOUS
  <2>2. i + 1 \in Nat /\ i + 1 >= 1 /\ i < WordBits
    BY <2>1, Sizes
  <2>3. c[(i + 1) + 1] = (c[i + 1] * c[i + 1] * x) % Modulus
    BY <1>8, <2>1, <2>2
  <2>4. c[i + 1] = g[i]
    BY <1>10, <2>2
  <2> QED BY <1>3, <2>3, <2>4
<1> HIDE DEF T
<1>11. \A i \in Nat : i \in T
  BY <1>9, <1>10, SetInduction
<1>12. ASSUME NEW e \in Nat, e >= 1, e < WordBits PROVE c[e] \in Nat
  <2>1. e - 1 \in Nat /\ (e - 1) + 1 = e /\ e - 1 < WordBits
    BY <1>12, Sizes
  <2>2. c[(e - 1) + 1] = g[e - 1] /\ g[e - 1] \in Nat
    BY <1>2, <1>11, <2>1 DEF T
  <2> QED BY <2>1, <2>2
<1>13. InverseSteps(x, c)
  BY <1>7, <1>8, <1>12 DEF InverseSteps
<1> QED BY <1>6, <1>13

LEMMA InverseIs ==
    ASSUME NEW x \in Words, x % 2 = 1
    PROVE  Residue(x * inverse_value_t(x), Modulus) = 1
<1>1. PICK c : /\ inverse_value_t(x) = c[IF WordBits > 1 THEN WordBits - 1 ELSE 1]
               /\ InverseSteps(x, c)
  BY InverseStepsOf
<1>2. x \in Nat /\ WordBits \in Nat /\ WordBits >= 1
  BY ModulusType, Sizes DEF Words
<1>3. PICK i \in Nat : x = 2 * i + 1
  BY <1>2
<1>4. CASE WordBits = 1
  <2>1. Modulus = 2
    <3>1. Shl[0] = 1 /\ Shl[0 + 1] = 2 * Shl[0] /\ 0 + 1 = 1
      BY ShlFacts
    <3> QED BY <1>4, <3>1 DEF Modulus
  <2>2. x = 1
    BY <2>1, <1>2, <1>3 DEF Words
  <2>3. inverse_value_t(x) = 1
    BY <1>1, <1>4, <2>2 DEF InverseSteps
  <2>4. Residue(1, 2) = 1
    BY DEF Residue
  <2> QED BY <2>1, <2>2, <2>3, <2>4
<1>5. CASE WordBits > 1
  <2> DEFINE Inverted(e) == \E k \in Int : Apart(x * c[e + 1], 1, k, Shl[e + 2])
             T == {e \in Nat : e + 2 <= WordBits => Inverted(e)}
  <2>1. 0 \in T
    <3>1. Shl[0] = 1 /\ Shl[0 + 1] = 2 * Shl[0] /\ Shl[1 + 1] = 2 * Shl[1] /\ 0 + 1 = 1 /\ 1 + 1 = 2
      BY ShlFacts
    <3>2. Shl[0 + 2] = 4 /\ c[0 + 1] = x
      BY <1>1, <3>1 DEF InverseSteps
    <3>3. (2 * i + 1) * (2 * i + 1) = (i * i + i) * 4 + 1
      OBVIOUS
    <3>4. Apart(x * x, 1, i * i + i, 4) /\ i * i + i \in Int
      BY <1>3, <3>3 DEF Apart
    <3> QED BY <3>2, <3>4
  <2>2. ASSUME NEW e \in Nat, e \in T PROVE e + 1 \in T
    <3>1. SUFFICES ASSUME (e + 1) + 2 <= WordBits PROVE Inverted(e + 1)
      OBVIOUS
    <3>2. PICK k \in Int : Apart(x * c[e + 1], 1, k, Shl[e + 2])
      BY <2>2, <3>1, <1>2
    <3>3. e + 1 \in Nat /\ e + 2 \in Nat /\ (e + 1) + 1 = e + 2 /\ (e + 2) + 1 = (e + 1) + 2
          /\ e + 1 >= 1 /\ e + 1 < WordBits
      BY <3>1, <1>2
    <3>4. PICK y \in Nat : y = c[e + 1]
      BY <1>1, <3>3 DEF InverseSteps
    <3>5. PICK s \in Nat : Shl[e + 2] = 2 * s
      <4>1. Shl[e + 1] \in Nat /\ Shl[(e + 1) + 1] = 2 * Shl[e + 1]
        BY <3>3, ShlFacts
      <4> QED BY <3>3, <4>1
    <3>6. PICK S \in Nat : S = Shl[e + 2] /\ S = 2 * s /\ Shl[(e + 1) + 2] = 2 * S
      <4>1. Shl[e + 2] \in Nat /\ Shl[(e + 2) + 1] = 2 * Shl[e + 2]
        BY <3>3, ShlFacts
      <4> QED BY <3>3, <3>5, <4>1
    <3>7. PICK u \in Nat : Modulus = u * (2 * S)
      <4>1. PICK r \in Nat : WordBits = r + ((e + 1) + 2)
        <5>1. WordBits - ((e + 1) + 2) \in Nat /\ WordBits = (WordBits - ((e + 1) + 2)) + ((e + 1) + 2)
          BY <3>1, <1>2
        <5> QED BY <5>1
      <4>2. Shl[r + ((e + 1) + 2)] = Shl[r] * Shl[(e + 1) + 2] /\ Shl[r] \in Nat
        <5>1. (e + 1) + 2 \in Nat
          OBVIOUS
        <5> QED BY <5>1, ShlSum, ShlFacts
      <4> QED BY <3>6, <4>1, <4>2 DEF Modulus
    <3>8. PICK z : z = c[(e + 1) + 1]
      OBVIOUS
    <3>9. z = (y * y * x) % Modulus
      BY <1>1, <3>3, <3>4, <3>8 DEF InverseSteps
    <3>10. PICK m \in Nat : m = Modulus /\ m > 0
      BY ModulusType
    <3>11. PICK w \in Nat : w = y * y * x
      <4>1. \A a, b \in Nat : a * b \in Nat
        OBVIOUS
      <4>2. y * y \in Nat
        BY <4>1
      <4> QED BY <1>2, <4>1, <4>2
    <3>12. z \in Nat /\ w \div m \in Nat /\ w = (w \div m) * m + z
      BY <3>9, <3>10, <3>11, QuotientOf
    <3>13. PICK q \in Nat : w = q * m + z
      BY <3>12
    <3>14. Apart(y * y * x, z, q, u * (2 * S))
      BY <3>7, <3>10, <3>11, <3>13 DEF Apart
    <3>15. Apart(x * y, 1, k, S)
      BY <3>2, <3>4, <3>6
    <3>16. \E j \in Int : Apart(x * z, 1, j, 2 * S)
      <4>1. x \in Int /\ y \in Int /\ s \in Int /\ u \in Int /\ q \in Int /\ z \in Int /\ S = 2 * s
        BY <1>2, <3>6, <3>12
      <4> QED BY <3>14, <3>15, <4>1, NextInverse
    <3> QED BY <3>6, <3>8, <3>16
  <2> HIDE DEF T
  <2>3. \A e \in Nat : e \in T
    BY <2>1, <2>2, SetInduction
  <2>4. PICK b \in Nat : WordBits = b + 2
    <3>1. WordBits - 2 \in Nat /\ WordBits = (WordBits - 2) + 2
      BY <1>2, <1>5
    <3> QED BY <3>1
  <2>5. b \in T /\ b + 2 <= WordBits /\ WordBits - 1 = b + 1
    BY <2>3, <2>4
  <2>6. Inverted(b)
    BY <2>5 DEF T
  <2>7. PICK k \in Int : Apart(x * c[b + 1], 1, k, Modulus)
    BY <2>4, <2>6 DEF Modulus
  <2>8. inverse_value_t(x) = c[b + 1]
    BY <1>1, <1>5, <2>5
  <2>9. PICK m \in Nat : m = Modulus /\ m > 1
    BY ModulusType
  <2>10. 1 \in 0 .. m - 1
    BY <2>9
  <2>11. Residue(x * c[b + 1], m) = 1
    BY <2>7, <2>9, <2>10, ResidueUnique
  <2> QED BY <2>8, <2>9, <2>11
<1> QED BY <1>2, <1>4, <1>5

-----------------------------------------------------------------------------
(* What a leaf layer shares.                                               *)

LEMMA SignedIs ==
    ASSUME NEW v \in Words
    PROVE  Signed(0, v) = Residue(v, Modulus) /\ Signed(1, v) = Residue(0 - v, Modulus)
<1>1. v \in Int /\ -v = 0 - v
  BY ModulusType DEF Words
<1> QED BY <1>1 DEF Signed, Residue

\* Two shares, one of them negated.
LEMMA SharesOf ==
    ASSUME NEW a \in Int, NEW b \in Int
    PROVE  /\ Residue(Residue(a, Modulus) + Residue(0 - b, Modulus), Modulus) = Residue(a - b, Modulus)
           /\ \A v \in Int :
                Residue(Residue(Residue(a, Modulus) * v, Modulus)
                          + Residue(Residue(0 - b, Modulus) * v, Modulus), Modulus)
                  = Residue(Residue(a - b, Modulus) * v, Modulus)
<1>1. PICK m : m = Modulus /\ m \in Nat /\ m > 0
  BY ModulusType
<1>2. PICK c \in Int : c = 0 - b
  OBVIOUS
<1>3. a + c = a - b
  BY <1>2
<1>4. \A x, y \in Int : /\ Residue(Residue(x, m) + Residue(y, m), m) = Residue(x + y, m)
                        /\ Residue(x, m) \in Int
  <2>1. ASSUME NEW x \in Int, NEW y \in Int
        PROVE  /\ Residue(Residue(x, m) + Residue(y, m), m) = Residue(x + y, m)
               /\ Residue(x, m) \in Int
    <3>1. Residue(x, m) \in 0 .. m - 1
      BY <1>1, Residues
    <3>2. Residue(Residue(x, m) + Residue(y, m), m) = Residue(x + y, m)
      BY <1>1, ResidueOps
    <3> QED BY <1>1, <3>1, <3>2
  <2> QED BY <2>1
<1>5. Residue(Residue(a, m) + Residue(c, m), m) = Residue(a - b, m)
  BY <1>3, <1>4
<1>6. ASSUME NEW v \in Int
      PROVE  Residue(Residue(Residue(a, m) * v, m) + Residue(Residue(c, m) * v, m), m)
               = Residue(Residue(a - b, m) * v, m)
  <2>1. PICK r, s, q \in Int : r = Residue(a, m) /\ s = Residue(c, m) /\ q = Residue(a - b, m)
    <3>1. a - b \in Int
      OBVIOUS
    <3> QED BY <1>4, <3>1
  <2>2. Residue(r + s, m) = q
    BY <1>5, <2>1
  <2>3. Residue(Residue(r * v, m) + Residue(s * v, m), m) = Residue(r * v + s * v, m)
    <3>1. r * v \in Int /\ s * v \in Int
      BY <2>1
    <3> QED BY <1>4, <3>1
  <2>4. r * v + s * v = (r + s) * v
    BY <2>1
  <2>5. PICK k \in Int : r + s = k * m + q
    <3>1. r + s \in Int
      BY <2>1
    <3> QED BY <1>1, <2>2, <3>1, Residues
  <2>6. Apart((r + s) * v, q * v, k * v, m) /\ q * v \in Int /\ k * v \in Int
    <3>1. (k * m + q) * v = (k * v) * m + q * v
      BY <1>1, <2>1
    <3> QED BY <2>1, <2>5, <3>1 DEF Apart
  <2>7. Residue((r + s) * v, m) = Residue(q * v, m)
    BY <1>1, <2>6, ResidueShift
  <2> QED BY <2>1, <2>3, <2>4, <2>7
<1> QED BY <1>1, <1>2, <1>5, <1>6

\* The words of a value in layers that are the same but at u.
WordsOff(f, g, N, u) ==
    /\ u \in 0 .. N - 1
    /\ \A i \in Nat : i < N => f[i] \in Words /\ g[i] \in Words
    /\ \A i \in Nat : i < N /\ i # u => f[i] = g[i]

LEMMA SumShares ==
    ASSUME NEW N \in Nat, NEW f, NEW g, NEW u, WordsOff(f, g, N, u), NEW i \in 0 .. N - 1
    PROVE  /\ (f[i] + Signed(1, g[i])) % Modulus =
                IF i = u THEN (Signed(0, SumOf(f, N)) + Signed(1, SumOf(g, N))) % Modulus ELSE 0
           /\ xor(f[i], g[i]) = IF i = u THEN xor(XorOf(f, N), XorOf(g, N)) ELSE 0
<1>1. PICK a, b : a = f[i] /\ b = g[i] /\ a \in Words /\ b \in Words
  BY DEF WordsOff
<1>2. a \in Int /\ b \in Int
  BY <1>1, ModulusType DEF Words
<1>3. PICK m : m = Modulus /\ m \in Nat /\ m > 0
  BY ModulusType
<1>4. Residue(a, m) = a /\ Residue(0, m) = 0
  <2>1. a \in 0 .. m - 1 /\ 0 \in 0 .. m - 1 /\ Apart(a, a, 0, m) /\ Apart(0, 0, 0, m)
    BY <1>1, <1>3 DEF Words, Apart
  <2>2. Residue(a, m) = a
    BY <1>3, <2>1, ResidueUnique
  <2>3. Residue(0, m) = 0
    BY <1>3, <2>1, ResidueUnique
  <2> QED BY <2>2, <2>3
<1>5. (a + Signed(1, b)) % m = Residue(a - b, m)
  <2>1. Signed(1, b) = Residue(0 - b, m)
    BY <1>1, <1>3, SignedIs
  <2>2. Residue(Residue(a, m) + Residue(0 - b, m), m) = Residue(a - b, m)
    BY <1>2, <1>3, SharesOf
  <2> QED BY <1>4, <2>1, <2>2 DEF Residue
<1>6. CASE i # u
  <2>1. a = b
    BY <1>1, <1>6 DEF WordsOff
  <2>2. a - b = 0
    BY <1>2, <2>1
  <2> QED BY <1>1, <1>3, <1>4, <1>5, <1>6, <2>1, <2>2, XorWords
<1>7. CASE i = u
  <2>1. /\ SumOf(f, N) \in Nat /\ SumOf(g, N) \in Nat
        /\ Residue(SumOf(f, N) - SumOf(g, N), Modulus) = Residue(f[u] - g[u], Modulus)
    BY SumsDiffer DEF WordsOff
  <2>2. xor(XorOf(f, N), XorOf(g, N)) = xor(f[u], g[u])
    BY XorsDiffer DEF WordsOff
  <2>3. PICK s, t : s = SumOf(f, N) /\ t = SumOf(g, N) /\ s \in Int /\ t \in Int
    BY <2>1
  <2>4. Residue(Residue(s, m) + Residue(0 - t, m), m) = Residue(s - t, m)
    BY <1>3, <2>3, SharesOf
  <2>5. Signed(0, s) = Residue(s, m) /\ Signed(1, t) = Residue(0 - t, m)
    <3>1. -t = 0 - t
      BY <2>3
    <3> QED BY <1>3, <3>1 DEF Signed, Residue
  <2>6. (Signed(0, s) + Signed(1, t)) % m = Residue(s - t, m)
    BY <2>4, <2>5 DEF Residue
  <2> QED BY <1>1, <1>3, <1>5, <1>7, <2>1, <2>2, <2>3, <2>6
<1> QED BY <1>6, <1>7

\* The words by which an RDPF shares a unit vector.
LEMMA UnitShares ==
    ASSUME NEW N \in Nat, NEW f, NEW g, NEW u, WordsOff(f, g, N, u), NEW i \in 0 .. N - 1,
           (f[u] % 2 = 1) # (g[u] % 2 = 1),
           NEW v, v = inverse_value_t((Signed(0, SumOf(f, N)) + Signed(1, SumOf(g, N))) % Modulus)
    PROVE  (((Signed(0, f[i]) * v) % Modulus) + ((Signed(1, g[i]) * v) % Modulus)) % Modulus
             = IF i = u THEN 1 ELSE 0
<1>1. PICK a, b : a = f[i] /\ b = g[i] /\ a \in Words /\ b \in Words
  BY DEF WordsOff
<1>2. a \in Int /\ b \in Int
  BY <1>1, ModulusType DEF Words
<1>3. PICK m : m = Modulus /\ m \in Nat /\ m > 0
  BY ModulusType
<1>4. PICK au, bu : au = f[u] /\ bu = g[u] /\ au \in Words /\ bu \in Words
  BY DEF WordsOff
<1>5. au \in Int /\ bu \in Int
  BY <1>4, ModulusType DEF Words
<1>6. PICK x : x = Residue(au - bu, m)
  OBVIOUS
<1>7. x \in Words /\ x % 2 = 1
  <2>1. au - bu \in Int
    BY <1>5
  <2>2. PICK k \in Int : au - bu = k * m + x
    BY <1>3, <1>6, <2>1, Residues
  <2>3. x \in Words
    BY <1>3, <1>5, <1>6, ResidueMinus
  <2>4. PICK h \in Nat : m = 2 * h
    BY <1>3, ModulusType
  <2>5. PICK p \in Int : p = k * h
    BY <2>2, <2>4
  <2>6. k * m = 2 * p
    <3>1. k * (2 * h) = 2 * (k * h)
      OBVIOUS
    <3> QED BY <2>4, <2>5, <3>1
  <2>7. (au - bu) % 2 = 1
    <3>1. (au % 2 = 1) # (bu % 2 = 1)
      BY <1>4
    <3> QED BY <1>5, <3>1
  <2>8. x \in Int
    BY <2>3, ModulusType DEF Words
  <2>9. PICK d \in Int : d = au - bu
    BY <1>5
  <2>10. d = 2 * p + x /\ d % 2 = 1
    BY <2>2, <2>6, <2>7, <2>9
  <2> QED BY <2>3, <2>8, <2>10
<1>8. v = inverse_value_t(x)
  <2>1. 0 <= u /\ u <= N - 1 /\ u \in 0 .. N - 1
    BY DEF WordsOff
  <2>2. (f[u] + Signed(1, g[u])) % Modulus = (Signed(0, SumOf(f, N)) + Signed(1, SumOf(g, N))) % Modulus
    BY <2>1, SumShares
  <2>3. Signed(1, bu) = Residue(0 - bu, m)
    BY <1>3, <1>4, SignedIs
  <2>4. Residue(Residue(au, m) + Residue(0 - bu, m), m) = Residue(au - bu, m)
    BY <1>3, <1>5, SharesOf
  <2>5. Residue(au, m) = au
    <3>1. au \in 0 .. m - 1 /\ Apart(au, au, 0, m)
      BY <1>3, <1>4 DEF Words, Apart
    <3> QED BY <1>3, <3>1, ResidueUnique
  <2>6. (au + Signed(1, bu)) % m = x
    BY <1>6, <2>3, <2>4, <2>5 DEF Residue
  <2> QED BY <1>3, <1>4, <2>2, <2>6
<1>9. PICK w \in Int : w = v
  <2>1. PICK c : /\ v = c[IF WordBits > 1 THEN WordBits - 1 ELSE 1]
                 /\ InverseSteps(x, c)
    BY <1>7, <1>8, InverseStepsOf
  <2>2. CASE WordBits > 1
    <3>1. WordBits - 1 \in Nat /\ WordBits - 1 >= 1 /\ WordBits - 1 < WordBits
      BY <2>2, Sizes
    <3> QED BY <2>1, <2>2, <3>1 DEF InverseSteps
  <2>3. CASE ~ (WordBits > 1)
    BY <1>7, <2>1, <2>3, ModulusType DEF InverseSteps, Words
  <2> QED BY <2>2, <2>3
<1>10. (((Signed(0, a) * w) % m) + ((Signed(1, b) * w) % m)) % m = Residue(Residue(a - b, m) * w, m)
  <2>1. Signed(0, a) = Residue(a, m) /\ Signed(1, b) = Residue(0 - b, m)
    BY <1>1, <1>3, SignedIs
  <2>2. Residue(Residue(Residue(a, m) * w, m) + Residue(Residue(0 - b, m) * w, m), m)
          = Residue(Residue(a - b, m) * w, m)
    BY <1>2, <1>3, <1>9, SharesOf
  <2>3. PICK r, s : r = Residue(a, m) /\ s = Residue(0 - b, m)
    OBVIOUS
  <2>4. Residue(Residue(r * w, m) + Residue(s * w, m), m) = Residue(Residue(a - b, m) * w, m)
    BY <2>2, <2>3
  <2>5. (((r * w) % m) + ((s * w) % m)) % m = Residue(Residue(r * w, m) + Residue(s * w, m), m)
    BY DEF Residue
  <2> QED BY <2>1, <2>3, <2>4, <2>5
<1>11. CASE i = u
  <2>1. Residue(x * w, m) = 1
    BY <1>3, <1>7, <1>8, <1>9, InverseIs
  <2> QED BY <1>1, <1>3, <1>4, <1>6, <1>9, <1>10, <1>11, <2>1
<1>12. CASE i # u
  <2>1. a = b
    BY <1>1, <1>12 DEF WordsOff
  <2>2. a - b = 0
    BY <1>2, <2>1
  <2>3. Residue(0, m) = 0
    <3>1. 0 \in 0 .. m - 1 /\ Apart(0, 0, 0, m)
      BY <1>3 DEF Apart
    <3> QED BY <1>3, <3>1, ResidueUnique
  <2>4. 0 * w = 0
    BY <1>9
  <2> QED BY <1>1, <1>3, <1>9, <1>10, <1>12, <2>2, <2>3, <2>4
<1> QED BY <1>11, <1>12

-----------------------------------------------------------------------------
(* The tree of a key, and the ways through it.                             *)

\* f has the nodes of the tree of k up to level n, level by level.
TreeOf(k, f, n) ==
    /\ f[0][0] = k.seed
    /\ \A d \in Nat : d <= n => f[d] \in [0 .. Shl[d] - 1 -> Node]
    /\ \A d \in Nat : d < n => \A i \in 0 .. Shl[d + 1] - 1 :
          f[d + 1][i] = Descend(k, f[d][i \div 2], d, i % 2)

\* The nodes above leaf v at level d.
Way(f, d, v) == [i \in 0 .. d - 1 |-> f[i][v \div Shl[d - i]]]

LEMMA Halving ==
    ASSUME NEW v \in Nat, NEW k \in Nat
    PROVE  /\ v \div Shl[0] = v /\ v \div Shl[1] = v \div 2
           /\ v \div Shl[k] \in Nat
           /\ v \div Shl[k + 1] = (v \div Shl[k]) \div 2
           /\ Bit(v, k) = (v \div Shl[k]) % 2
<1>1. 0 + 1 = 1 /\ (v \div Pow2[0] = v) /\ (v \div Pow2[0 + 1] = (v \div Pow2[0]) \div 2)
  BY QuotientHalf
<1> QED BY <1>1, Binary, QuotientHalf

LEMMA QuotientBelow ==
    ASSUME NEW d \in Nat, NEW v \in Nat, v < Shl[d], NEW s \in Nat, s <= d
    PROVE  v \div Shl[s] \in 0 .. Shl[d - s] - 1
<1>1. d - s \in Nat /\ s + (d - s) = d
  OBVIOUS
<1>2. v \div Pow2[d] = 0
  BY Binary, BelowPower
<1>3. (v \div Pow2[s]) \div Pow2[d - s] = v \div Pow2[s + (d - s)]
  BY <1>1, QuotientTwice
<1>4. PICK q : q = v \div Pow2[s] /\ q \in Nat
  BY QuotientHalf
<1>5. q < Pow2[d - s]
  BY <1>1, <1>2, <1>3, <1>4, BelowPower
<1>6. Shl[d - s] \in Nat
  BY <1>1, ShlFacts
<1> QED BY <1>4, <1>5, <1>6, Binary

\* A node of a way is the child of the one before.
LEMMA WayGoesOn ==
    ASSUME NEW k, NEW f, NEW n \in Nat, TreeOf(k, f, n), NEW d \in Nat, d >= 1, d <= n + 1,
           NEW v \in Nat, v < Shl[d], NEW i \in Nat, i >= 1, i <= d - 1
    PROVE  f[i][v \div Shl[d - i]]
             = Descend(k, f[i - 1][v \div Shl[d - (i - 1)]], i - 1, Bit(v, d - i))
<1>1. PICK j \in Nat : i = j + 1 /\ j < n /\ i - 1 = j
  <2>1. i - 1 \in Nat /\ i = (i - 1) + 1 /\ i - 1 < n
    OBVIOUS
  <2> QED BY <2>1
<1>2. PICK s \in Nat : s = d - i /\ s <= d /\ d - s = i /\ d - (i - 1) = s + 1
  <2>1. d - i \in Nat /\ d - i <= d /\ d - (d - i) = i /\ d - (i - 1) = (d - i) + 1
    OBVIOUS
  <2> QED BY <2>1
<1>3. PICK q : q = v \div Shl[s] /\ q \in 0 .. Shl[j + 1] - 1
  BY <1>1, <1>2, QuotientBelow
<1>4. f[j + 1][q] = Descend(k, f[j][q \div 2], j, q % 2)
  BY <1>1, <1>3 DEF TreeOf
<1>5. v \div Shl[s + 1] = q \div 2 /\ Bit(v, s) = q % 2
  BY <1>3, Halving
<1> QED BY <1>1, <1>2, <1>3, <1>4, <1>5

LEMMA WayStarts ==
    ASSUME NEW k, NEW f, NEW n, TreeOf(k, f, n), NEW d \in Nat,
           NEW v \in Nat, v < Shl[d]
    PROVE  f[0][v \div Shl[d - 0]] = k.seed
<1>1. v \div Shl[d] = 0
  BY Binary, BelowPower
<1>2. d - 0 = d
  OBVIOUS
<1> QED BY <1>1, <1>2 DEF TreeOf

PathRec(k, d, input, c) ==
    c = [i \in 0 .. d - 1 |->
            IF i = 0 THEN k.seed
            ELSE LET above == c[i - 1] IN Descend(k, above, i - 1, Bit(input, d - i))]

LEMMA PathIs ==
    ASSUME NEW k, NEW f, NEW n \in Nat, TreeOf(k, f, n), NEW d \in Nat, d >= 1, d <= n + 1,
           NEW v \in Nat, v < Shl[d]
    PROVE  PathTo(k, d, v) = Way(f, d, v)
<1> DEFINE w == Way(f, d, v)
           c == CHOOSE r : PathRec(k, d, v, r)
<1>1. \A i \in 0 .. d - 1 : w[i] = f[i][v \div Shl[d - i]]
  BY DEF Way
<1>2. w = [i \in 0 .. d - 1 |-> w[i]]
  BY DEF Way
<1>3. w[0] = k.seed
  <2>1. 0 \in 0 .. d - 1
    OBVIOUS
  <2> HIDE DEF w
  <2> QED BY <1>1, <2>1, WayStarts
<1>4. ASSUME NEW i \in 1 .. d - 1 PROVE w[i] = Descend(k, w[i - 1], i - 1, Bit(v, d - i))
  <2>1. i \in 0 .. d - 1 /\ i - 1 \in 0 .. d - 1 /\ i \in Nat /\ i >= 1 /\ i <= d - 1
    OBVIOUS
  <2> HIDE DEF w
  <2> QED BY <1>1, <2>1, WayGoesOn
<1> HIDE DEF w
<1>5. PathRec(k, d, v, w)
  <2>1. ASSUME NEW i \in 0 .. d - 1
        PROVE  w[i] = IF i = 0 THEN k.seed ELSE Descend(k, w[i - 1], i - 1, Bit(v, d - i))
    <3>1. CASE i = 0
      BY <1>3, <3>1
    <3>2. CASE i # 0
      <4>1. i \in 1 .. d - 1
        BY <3>2
      <4> QED BY <1>4, <3>2, <4>1
    <3> QED BY <3>1, <3>2
  <2>2. w = [i \in 0 .. d - 1 |->
               IF i = 0 THEN k.seed ELSE Descend(k, w[i - 1], i - 1, Bit(v, d - i))]
    BY <1>2, <2>1
  <2> QED BY <2>2 DEF PathRec
<1>6. PathRec(k, d, v, c)
  BY <1>5
<1>7. PathTo(k, d, v) = c
  BY DEF PathTo, PathRec
<1> HIDE DEF c
<1> DEFINE T == {i \in Nat : i <= d - 1 => c[i] = w[i]}
<1>8. 0 \in T
  <2>1. 0 \in 0 .. d - 1
    OBVIOUS
  <2>2. c[0] = k.seed
    BY <1>6, <2>1 DEF PathRec
  <2> QED BY <1>3, <2>2
<1>9. ASSUME NEW i \in Nat, i \in T PROVE i + 1 \in T
  <2>1. SUFFICES ASSUME i + 1 <= d - 1 PROVE c[i + 1] = w[i + 1]
    OBVIOUS
  <2>2. i + 1 \in 0 .. d - 1 /\ i + 1 # 0 /\ (i + 1) - 1 = i /\ i <= d - 1 /\ i + 1 \in 1 .. d - 1
    BY <2>1
  <2>3. c[i + 1] = Descend(k, c[(i + 1) - 1], (i + 1) - 1, Bit(v, d - (i + 1)))
    BY <1>6, <2>2 DEF PathRec
  <2>4. w[i + 1] = Descend(k, w[(i + 1) - 1], (i + 1) - 1, Bit(v, d - (i + 1)))
    BY <1>4, <2>2
  <2>5. c[i] = w[i]
    BY <1>9, <2>2
  <2> QED BY <2>2, <2>3, <2>4, <2>5
<1> HIDE DEF T
<1>10. \A i \in Nat : i \in T
  BY <1>8, <1>9, SetInduction
<1>11. \A i \in 0 .. d - 1 : c[i] = w[i]
  BY <1>10 DEF T
<1>12. c = [i \in 0 .. d - 1 |-> c[i]]
  BY <1>6 DEF PathRec
<1> QED BY <1>2, <1>7, <1>11, <1>12 DEF w

\* A leaf from which a way can be moved to that of b by a new node at place
\* ones and, below it, the digits of offset.
Near(a, b, d, ones, dir, offset) ==
    /\ ones \in Nat /\ ones <= d - 1
    /\ \A s \in Nat : s > ones /\ s <= d => a \div Shl[s] = b \div Shl[s]
    /\ ones >= 1 => dir = Bit(b, ones)
    /\ \A s \in Nat : s >= 1 /\ s < ones => Bit(offset, s) = Bit(b, s)

MovedRec(k, d, path, ones, dir, offset, c) ==
    c = [i \in 0 .. d - 1 |->
            IF i < d - ones THEN path[i]
            ELSE LET above == c[i - 1]
                 IN  Descend(k, above, i - 1, IF i = d - ones THEN dir ELSE Bit(offset, d - i))]

LEMMA MovedIs ==
    ASSUME NEW k, NEW f, NEW n \in Nat, TreeOf(k, f, n), NEW d \in Nat, d >= 1, d <= n + 1,
           NEW a \in Nat, a < Shl[d], NEW b \in Nat, b < Shl[d],
           NEW ones, NEW dir, NEW offset, Near(a, b, d, ones, dir, offset)
    PROVE  Moved(k, d, Way(f, d, a), ones, dir, offset) = Way(f, d, b)
<1> DEFINE w == Way(f, d, b)
           p == Way(f, d, a)
           c == CHOOSE r : MovedRec(k, d, p, ones, dir, offset, r)
           Dir(i) == IF i = d - ones THEN dir ELSE Bit(offset, d - i)
<1>1. ones \in Nat /\ ones <= d - 1
  BY DEF Near
<1>2. /\ \A i \in 0 .. d - 1 : w[i] = f[i][b \div Shl[d - i]]
      /\ w = [i \in 0 .. d - 1 |-> w[i]]
      /\ \A i \in 0 .. d - 1 : p[i] = f[i][a \div Shl[d - i]]
      /\ p = [i \in 0 .. d - 1 |-> p[i]]
  BY DEF Way
<1> HIDE DEF w, p
<1>3. ASSUME NEW i \in 0 .. d - 1, i < d - ones PROVE w[i] = p[i]
  <2>1. d - i \in Nat /\ d - i > ones /\ d - i <= d
    BY <1>1, <1>3
  <2>2. a \div Shl[d - i] = b \div Shl[d - i]
    BY <2>1 DEF Near
  <2> QED BY <1>2, <2>2
<1>4. CASE ones = 0
  <2>1. \A i \in 0 .. d - 1 : w[i] = p[i]
    <3>1. \A i \in 0 .. d - 1 : i < d - ones
      BY <1>4
    <3> QED BY <1>3, <3>1
  <2>2. w = p
    BY <1>2, <2>1
  <2> QED BY <1>4, <2>2 DEF Moved, w, p
<1>5. CASE ones # 0
  <2>1. ASSUME NEW i \in 1 .. d - 1, ~ (i < d - ones)
        PROVE  w[i] = Descend(k, w[i - 1], i - 1, Dir(i))
    <3>1. i \in 0 .. d - 1 /\ i - 1 \in 0 .. d - 1 /\ i \in Nat /\ i >= 1 /\ i <= d - 1
      OBVIOUS
    <3>2. f[i][b \div Shl[d - i]]
            = Descend(k, f[i - 1][b \div Shl[d - (i - 1)]], i - 1, Bit(b, d - i))
      BY <3>1, WayGoesOn
    <3>3. Bit(b, d - i) = Dir(i)
      <4>1. CASE i = d - ones
        <5>1. d - i = ones /\ ones >= 1
          BY <1>1, <1>5, <4>1
        <5> QED BY <4>1, <5>1 DEF Near
      <4>2. CASE i # d - ones
        <5>1. d - i \in Nat /\ d - i >= 1 /\ d - i < ones
          BY <1>1, <2>1, <4>2
        <5> QED BY <4>2, <5>1 DEF Near
      <4> QED BY <4>1, <4>2
    <3> HIDE DEF Dir
    <3> QED BY <1>2, <3>1, <3>2, <3>3
  <2>2. MovedRec(k, d, p, ones, dir, offset, w)
    <3>1. ASSUME NEW i \in 0 .. d - 1
          PROVE  w[i] = IF i < d - ones THEN p[i] ELSE Descend(k, w[i - 1], i - 1, Dir(i))
      <4>1. CASE i < d - ones
        BY <1>3, <4>1
      <4>2. CASE ~ (i < d - ones)
        <5>1. i \in 1 .. d - 1
          BY <1>1, <4>2
        <5> HIDE DEF Dir
        <5> QED BY <2>1, <4>2, <5>1
      <4> QED BY <4>1, <4>2
    <3>2. w = [i \in 0 .. d - 1 |->
                 IF i < d - ones THEN p[i] ELSE Descend(k, w[i - 1], i - 1, Dir(i))]
      <4> HIDE DEF Dir
      <4> QED BY <1>2, <3>1
    <3> QED BY <3>2 DEF MovedRec
  <2>3. MovedRec(k, d, p, ones, dir, offset, c)
    BY <2>2
  <2>4. Moved(k, d, p, ones, dir, offset) = c
    BY <1>5 DEF Moved, MovedRec
  <2> HIDE DEF c
  <2>5. ASSUME NEW i \in 0 .. d - 1
        PROVE  c[i] = IF i < d - ones THEN p[i] ELSE Descend(k, c[i - 1], i - 1, Dir(i))
    BY <2>3 DEF MovedRec
  <2> HIDE DEF Dir
  <2> DEFINE T == {i \in Nat : i <= d - 1 => c[i] = w[i]}
  <2>6. 0 \in T
    <3>1. 0 \in 0 .. d - 1 /\ 0 < d - ones
      BY <1>1
    <3> QED BY <1>3, <2>5, <3>1
  <2>7. ASSUME NEW i \in Nat, i \in T PROVE i + 1 \in T
    <3>1. SUFFICES ASSUME i + 1 <= d - 1 PROVE c[i + 1] = w[i + 1]
      OBVIOUS
    <3>2. i + 1 \in 0 .. d - 1 /\ (i + 1) - 1 = i /\ i <= d - 1 /\ i + 1 \in 1 .. d - 1
      BY <3>1
    <3>3. CASE i + 1 < d - ones
      BY <1>3, <2>5, <3>2, <3>3
    <3>4. CASE ~ (i + 1 < d - ones)
      <4>1. c[i + 1] = Descend(k, c[(i + 1) - 1], (i + 1) - 1, Dir(i + 1))
        BY <2>5, <3>2, <3>4
      <4>2. w[i + 1] = Descend(k, w[(i + 1) - 1], (i + 1) - 1, Dir(i + 1))
        BY <2>1, <3>2, <3>4
      <4>3. c[i] = w[i]
        BY <2>7, <3>2
      <4> QED BY <3>2, <4>1, <4>2, <4>3
    <3> QED BY <3>3, <3>4
  <2> HIDE DEF T
  <2>8. \A i \in Nat : i \in T
    BY <2>6, <2>7, SetInduction
  <2>9. \A i \in 0 .. d - 1 : c[i] = w[i]
    BY <2>8 DEF T
  <2>10. c = [i \in 0 .. d - 1 |-> c[i]]
    BY <2>3 DEF MovedRec
  <2> QED BY <1>2, <2>4, <2>9, <2>10 DEF w, p
<1> QED BY <1>4, <1>5
-----------------------------------------------------------------------------
(* The expansion of a level.                                               *)

\* The ones of the XOR of two numbers without its lowest digit tell where they
\* part.
LEMMA PartsAt ==
    ASSUME NEW d \in Nat, d >= 1, d <= MaxDepth,
           NEW n \in Nat, n < Shl[d], NEW p \in Nat, p < Shl[d],
           NEW z \in Nat, z < d, Carry(n, p, z),
           NEW y \in Nat, y % 2 = 0, y \div 2 = xor(n, p) \div 2
    PROVE  popcountl(y) = z
<1>1. WordBits \in Nat /\ d <= WordBits /\ MaxDepth \in Nat /\ z < WordBits /\ z <= MaxDepth
  BY Sizes
<1>2. n < Pow2[WordBits] /\ p < Pow2[WordBits]
  BY <1>1, Binary, BelowNext
<1>3. y \div 2 = Xor(WordBits, n, p) \div 2
  BY Binary DEF xor, Xor
<1>4. Ones(y, MaxDepth) = 1 .. z
  <2>1. PICK m \in Nat : m = WordBits
    BY <1>1
  <2>2. PICK b \in Nat : b = MaxDepth
    BY <1>1
  <2>3. PartsOff(m, n, p, z, y) /\ z <= b
    BY <1>1, <1>2, <1>3, <2>1, <2>2 DEF PartsOff
  <2>4. Ones(y, b) = 1 .. z
    BY <2>3, CarryOnes
  <2> QED BY <2>2, <2>4
<1>5. popcountl(y) = Cardinality(Ones(y, MaxDepth))
  BY Binary DEF popcountl, Ones
<1>6. Cardinality(1 .. z) = z
  BY FS_Interval
<1> QED BY <1>4, <1>5, <1>6

\* The next even leaf is near the one before.
LEMMA NextPair ==
    ASSUME NEW d \in Nat, d >= 1, d <= MaxDepth,
           NEW i \in Nat, i >= 1, 2 * i < Shl[d]
    PROVE  Near(2 * (i - 1), 2 * i, d, popcountl(xor(2 * i, 2 * (i - 1))), 1, 0)
<1> DEFINE b == 2 * i
           a == 2 * (i - 1)
           q == 2 * i - 1
           y == xor(b, a)
<1>1. /\ b \in Nat /\ a \in Nat /\ q \in Nat /\ 0 < b /\ q = b - 1 /\ q < b /\ a < b
      /\ b \div 2 = i /\ a \div 2 = i - 1 /\ q \div 2 = i - 1 /\ (b + a) % 2 = 0 /\ b % 2 = 0
      /\ i - 1 \in Nat /\ b < Shl[d]
  OBVIOUS
<1> HIDE DEF b, a, q
<1>2. WordBits \in Nat /\ WordBits - 1 \in Nat /\ (WordBits - 1) + 1 = WordBits
  BY Sizes
<1>3. PICK z : CarriesAt(b, q, z, d)
  <2>1. b < Pow2[d]
    BY <1>1, Binary
  <2> QED BY <1>1, <2>1, CarryExists
<1>4. z \in Nat /\ z < d /\ Digit(b, z) = 1 /\ Carry(b, q, z)
  BY <1>3 DEF CarriesAt
<1>5. z >= 1
  <2>1. Digit(b, 0) = 0
    BY <1>1, DigitOfHalf
  <2> QED BY <1>4, <2>1
<1>6. y \in Nat /\ y % 2 = 0 /\ y \div 2 = Xor(WordBits - 1, i, i - 1)
  <2>1. XorParts(WordBits - 1, b, a)
    BY <1>1, <1>2, XorHalf
  <2>2. y = Xor((WordBits - 1) + 1, b, a)
    BY <1>2, Binary DEF xor, Xor
  <2> HIDE DEF y
  <2> QED BY <1>1, <2>1, <2>2 DEF XorParts
<1>7. xor(b, q) \div 2 = Xor(WordBits - 1, i, i - 1)
  <2>1. XorParts(WordBits - 1, b, q)
    BY <1>1, <1>2, XorHalf
  <2>2. xor(b, q) = Xor((WordBits - 1) + 1, b, q)
    BY <1>2, Binary DEF xor, Xor
  <2> QED BY <1>1, <2>1, <2>2 DEF XorParts
<1>8. popcountl(y) = z
  <2>1. q < Shl[d]
    <3> SUFFICES ASSUME Shl[d] \in Nat PROVE q < Shl[d]
      BY ShlFacts
    <3> QED BY <1>1
  <2> HIDE DEF y
  <2> QED BY <1>1, <1>4, <1>6, <1>7, <2>1, PartsAt
<1>9. ASSUME NEW s \in Nat, s > z, s <= d PROVE a \div Shl[s] = b \div Shl[s]
  <2>1. z + 1 \in Nat /\ 1 <= z + 1 /\ z + 1 <= s /\ 1 <= s
    BY <1>4, <1>9
  <2>2. b \div Pow2[s] = q \div Pow2[s]
    BY <1>1, <1>4, <2>1, SameAbove DEF Carry
  <2>3. a \div Pow2[1] = q \div Pow2[1]
    BY <1>1, DigitOfHalf
  <2>4. a \div Pow2[s] = q \div Pow2[s]
    BY <1>1, <2>1, <2>3, SameAbove
  <2> QED BY <2>2, <2>4, Binary
<1>10. 1 = Bit(b, z)
  BY <1>4, Binary
<1>11. ASSUME NEW s \in Nat, s >= 1, s < z PROVE Bit(0, s) = Bit(b, s)
  <2>1. Digit(b, s) = 0
    BY <1>4, <1>11 DEF Carry
  <2>2. \A k \in Nat : Digit(0, k) = 0
    <3>1. Pow2[0] = 1
      BY Pow2Facts
    <3> QED BY <3>1, BelowNext
  <2> QED BY <2>1, <2>2, Binary
<1>12. z <= d - 1
  BY <1>4
<1>13. Near(a, b, d, z, 1, 0)
  <2> HIDE DEF y
  <2> QED BY <1>4, <1>9, <1>10, <1>11, <1>12 DEF Near
<1> QED BY <1>8, <1>13 DEF a, b

ExpandRec(k, d, c) ==
    c = [index \in 0 .. Shl[d - 1] - 1 |->
            IF index = 0 THEN PathTo(k, d, 0)
            ELSE LET last == c[index - 1]
                 IN  Moved(k, d, last, popcountl(xor(2 * index, 2 * (index - 1))), 1, 0)]

LEMMA ExpandedIs ==
    ASSUME NEW k, NEW f, NEW n \in Nat, TreeOf(k, f, n), NEW d \in Nat, d >= 1, d <= n + 1,
           d <= MaxDepth
    PROVE  ExpandedLayer(k, d)
             = [i \in 0 .. Shl[d] - 1 |-> DescendToLeaf(k, f[d - 1][i \div 2], d - 1, i % 2)]
<1> DEFINE w == [index \in 0 .. Shl[d - 1] - 1 |-> Way(f, d, 2 * index)]
           c == CHOOSE r : ExpandRec(k, d, r)
           Ones2(index) == popcountl(xor(2 * index, 2 * (index - 1)))
<1>1. Shl[d] = 2 * Shl[d - 1] /\ Shl[d - 1] \in Nat /\ Shl[d - 1] > 0 /\ Shl[d] \in Nat
  BY ShlFacts
<1>2. \A index \in 0 .. Shl[d - 1] - 1 : w[index] = Way(f, d, 2 * index)
  OBVIOUS
<1>3. w = [index \in 0 .. Shl[d - 1] - 1 |-> w[index]]
  OBVIOUS
<1> HIDE DEF w
<1>4. w[0] = PathTo(k, d, 0)
  <2>1. 0 \in 0 .. Shl[d - 1] - 1 /\ 2 * 0 = 0 /\ 0 < Shl[d]
    BY <1>1
  <2> QED BY <1>2, <2>1, PathIs
<1>5. ASSUME NEW index \in 1 .. Shl[d - 1] - 1
      PROVE  w[index] = Moved(k, d, w[index - 1], Ones2(index), 1, 0)
  <2>1. /\ index \in 0 .. Shl[d - 1] - 1 /\ index - 1 \in 0 .. Shl[d - 1] - 1
        /\ index \in Nat /\ index >= 1 /\ 2 * index < Shl[d]
        /\ 2 * index \in Nat /\ 2 * (index - 1) \in Nat /\ 2 * (index - 1) < Shl[d]
    BY <1>1
  <2>2. Near(2 * (index - 1), 2 * index, d, Ones2(index), 1, 0)
    BY <2>1, NextPair
  <2> HIDE DEF Ones2
  <2>3. Moved(k, d, Way(f, d, 2 * (index - 1)), Ones2(index), 1, 0) = Way(f, d, 2 * index)
    BY <2>1, <2>2, MovedIs
  <2> QED BY <1>2, <2>1, <2>3
<1>6. ExpandRec(k, d, w)
  <2>1. ASSUME NEW index \in 0 .. Shl[d - 1] - 1
        PROVE  w[index] = IF index = 0 THEN PathTo(k, d, 0)
                          ELSE Moved(k, d, w[index - 1], Ones2(index), 1, 0)
    <3>1. CASE index = 0
      BY <1>4, <3>1
    <3>2. CASE index # 0
      <4>1. index \in 1 .. Shl[d - 1] - 1
        BY <3>2
      <4> HIDE DEF Ones2
      <4> QED BY <1>5, <3>2, <4>1
    <3> QED BY <3>1, <3>2
  <2>2. w = [index \in 0 .. Shl[d - 1] - 1 |->
               IF index = 0 THEN PathTo(k, d, 0)
               ELSE Moved(k, d, w[index - 1], Ones2(index), 1, 0)]
    <3> HIDE DEF Ones2
    <3> QED BY <1>3, <2>1
  <2> QED BY <2>2 DEF ExpandRec
<1>7. ExpandRec(k, d, c)
  BY <1>6
<1>8. ExpandedLayer(k, d)
        = [i \in 0 .. Shl[d] - 1 |-> DescendToLeaf(k, c[i \div 2][d - 1], d - 1, i % 2)]
  BY DEF ExpandedLayer, ExpandRec
<1> HIDE DEF c
<1>9. ASSUME NEW index \in 0 .. Shl[d - 1] - 1
      PROVE  c[index] = IF index = 0 THEN PathTo(k, d, 0)
                        ELSE Moved(k, d, c[index - 1], Ones2(index), 1, 0)
  BY <1>7 DEF ExpandRec
<1> HIDE DEF Ones2
<1> DEFINE T == {i \in Nat : i <= Shl[d - 1] - 1 => c[i] = w[i]}
<1>10. 0 \in T
  <2>1. 0 \in 0 .. Shl[d - 1] - 1
    BY <1>1
  <2> QED BY <1>4, <1>9, <2>1
<1>11. ASSUME NEW i \in Nat, i \in T PROVE i + 1 \in T
  <2>1. SUFFICES ASSUME i + 1 <= Shl[d - 1] - 1 PROVE c[i + 1] = w[i + 1]
    OBVIOUS
  <2>2. /\ i + 1 \in 0 .. Shl[d - 1] - 1 /\ i + 1 # 0 /\ (i + 1) - 1 = i /\ i <= Shl[d - 1] - 1
        /\ i + 1 \in 1 .. Shl[d - 1] - 1
    BY <1>1, <2>1
  <2>3. c[i + 1] = Moved(k, d, c[(i + 1) - 1], Ones2(i + 1), 1, 0)
    BY <1>9, <2>2
  <2>4. w[i + 1] = Moved(k, d, w[(i + 1) - 1], Ones2(i + 1), 1, 0)
    BY <1>5, <2>2
  <2>5. c[i] = w[i]
    BY <1>11, <2>2
  <2> QED BY <2>2, <2>3, <2>4, <2>5
<1> HIDE DEF T
<1>12. \A i \in Nat : i \in T
  BY <1>10, <1>11, SetInduction
<1>13. ASSUME NEW i \in 0 .. Shl[d] - 1
       PROVE  c[i \div 2][d - 1] = f[d - 1][i \div 2]
  <2>1. i \div 2 \in 0 .. Shl[d - 1] - 1 /\ i \div 2 \in Nat /\ i \div 2 <= Shl[d - 1] - 1
    BY <1>1
  <2>2. c[i \div 2] = w[i \div 2]
    BY <1>12, <2>1 DEF T
  <2>3. w[i \div 2] = Way(f, d, 2 * (i \div 2))
    BY <1>2, <2>1
  <2> DEFINE j == i \div 2
  <2> HIDE DEF j
  <2>4. j \in Nat
    BY <2>1 DEF j
  <2>5. 2 * j \in Nat /\ (2 * j) \div 2 = j /\ d - (d - 1) = 1 /\ d - 1 \in 0 .. d - 1
    BY <2>4
  <2>6. (2 * j) \div Shl[d - (d - 1)] = j
    BY <2>5, Halving
  <2>7. Way(f, d, 2 * j)[d - 1] = f[d - 1][j]
    BY <2>5, <2>6 DEF Way
  <2> QED BY <2>2, <2>3, <2>7 DEF j
<1> QED BY <1>8, <1>13
-----------------------------------------------------------------------------
(* The leaves of a key.                                                    *)

\* The words of a key that its first n levels need are the same.
SameWords(k, m, n) ==
    /\ m.seed = k.seed
    /\ \A d \in Nat : d < n => m.cw[d + 1] = k.cw[d + 1] /\ m.cfbits[d + 1] = k.cfbits[d + 1]

LEMMA SameTree ==
    ASSUME NEW k, NEW m, NEW f, NEW n \in Nat, TreeOf(k, f, n), SameWords(k, m, n),
           NEW g, \A d \in Nat : d <= n => g[d] = f[d]
    PROVE  TreeOf(m, g, n)
<1>1. g[0][0] = m.seed /\ \A d \in Nat : d <= n => g[d] \in [0 .. Shl[d] - 1 -> Node]
  BY DEF TreeOf, SameWords
<1>2. ASSUME NEW d \in Nat, d < n, NEW i \in 0 .. Shl[d + 1] - 1
      PROVE  g[d + 1][i] = Descend(m, g[d][i \div 2], d, i % 2)
  <2>1. f[d + 1][i] = Descend(k, f[d][i \div 2], d, i % 2)
    BY <1>2 DEF TreeOf
  <2>2. m.cw[d + 1] = k.cw[d + 1] /\ m.cfbits[d + 1] = k.cfbits[d + 1]
    BY <1>2 DEF SameWords
  <2>3. g[d] = f[d] /\ g[d + 1] = f[d + 1]
    <3>1. d <= n /\ d + 1 <= n /\ d + 1 \in Nat
      BY <1>2
    <3> QED BY <3>1
  <2> QED BY <2>1, <2>2, <2>3 DEF Descend
<1> QED BY <1>1, <1>2 DEF TreeOf

\* A corrected child of one node is what descending finds.
LEMMA ChildIs ==
    ASSUME Gens[gen] \in Generators, NEW c, c.cw \in Leaves(FALSE), NEW parent \in Node,
           NEW side, NEW k, NEW d \in Nat, k.cw[d + 1] = c.cw[1], k.cfbits[d + 1] = c.cfbit
    PROVE  Corrected(Child(parent, side, FALSE), side, parent, c)[1] = Descend(k, parent, d, side)
<1> DEFINE a == Child(parent, side, FALSE)
           w == IF side = 1 THEN xor_leaf_lsb(c.cw, c.cfbit) ELSE c.cw
<1>1. a[1] = prg(Gens[gen], parent, side, 0) /\ DOMAIN a = {1}
  BY DEF Child
<1>2. w[1] = IF side = 1 THEN xor_lsb(c.cw[1], c.cfbit) ELSE c.cw[1]
  <2>1. 1 \in DOMAIN c.cw
    BY DEF Leaves, Wide
  <2> QED BY <2>1 DEF xor_leaf_lsb
<1> HIDE DEF a, w
<1>3. \A flag : xor_leaf_if(a, w, flag)[1] = xor_if(a[1], w[1], flag)
  BY <1>1 DEF xor_leaf_if, xor_if, XorLeaf
<1>4. Corrected(Child(parent, side, FALSE), side, parent, c) = xor_leaf_if(a, w, get_lsb(parent))
  BY DEF Corrected, a, w
<1> QED BY <1>1, <1>2, <1>3, <1>4 DEF Descend

LEMMA TreeGrows ==
    ASSUME Gens[gen] \in Generators, NEW n \in Nat, NEW k, NEW m, NEW f, NEW g,
           TreeOf(k, f, n), SameWords(k, m, n), \A d \in Nat : d <= n => g[d] = f[d],
           NEW c, c.cw \in Leaves(FALSE), m.cw[n + 1] = c.cw[1], m.cfbits[n + 1] = c.cfbit,
           NEW L, Below(L, f[n], Shl[n], c, FALSE), g[n + 1] = [i \in DOMAIN L |-> L[i][1]]
    PROVE  TreeOf(m, g, n + 1)
<1>1. TreeOf(m, f, n)
  BY SameTree
<1>2. Shl[n + 1] = 2 * Shl[n] /\ Shl[n] \in Nat /\ Shl[n] > 0 /\ f[n] \in [0 .. Shl[n] - 1 -> Node]
  BY <1>1, ShlFacts DEF TreeOf
<1>3. /\ L \in [0 .. Shl[n + 1] - 1 -> Leaves(FALSE)]
      /\ \A i \in 0 .. Shl[n + 1] - 1 :
           L[i] = Corrected(Child(f[n][i \div 2], i % 2, FALSE), i % 2, f[n][i \div 2], c)
  BY <1>2 DEF Below
<1>4. \A i \in 0 .. Shl[n + 1] - 1 : L[i][1] \in Node
  BY <1>3, WideType DEF Leaves
<1>5. g[n + 1] = [i \in 0 .. Shl[n + 1] - 1 |-> L[i][1]]
  BY <1>3
<1>6. g[n + 1] \in [0 .. Shl[n + 1] - 1 -> Node]
  BY <1>4, <1>5
<1>7. ASSUME NEW i \in 0 .. Shl[n + 1] - 1
      PROVE  g[n + 1][i] = Descend(m, f[n][i \div 2], n, i % 2)
  <2>1. i \div 2 \in 0 .. Shl[n] - 1
    BY <1>2
  <2> DEFINE parent == f[n][i \div 2]
             side == i % 2
  <2>2. parent \in Node
    BY <1>2, <2>1
  <2> HIDE DEF parent, side
  <2>3. /\ c.cw \in Leaves(FALSE) /\ m.cw[n + 1] = c.cw[1] /\ m.cfbits[n + 1] = c.cfbit
        /\ Gens[gen] \in Generators
    OBVIOUS
  <2>4. Corrected(Child(parent, side, FALSE), side, parent, c)[1] = Descend(m, parent, n, side)
    BY ONLY <2>2, <2>3, n \in Nat, ChildIs
  <2> USE DEF parent, side
  <2> QED BY <1>3, <1>5, <2>4
<1>8. g[0][0] = m.seed
  BY <1>1 DEF TreeOf
<1>9. ASSUME NEW d \in Nat, d <= n + 1 PROVE g[d] \in [0 .. Shl[d] - 1 -> Node]
  <2>1. CASE d <= n
    BY <1>1, <2>1 DEF TreeOf
  <2>2. CASE ~ (d <= n)
    <3>1. d = n + 1
      BY <1>9, <2>2
    <3> QED BY <1>6, <3>1
  <2> QED BY <2>1, <2>2
<1>10. ASSUME NEW d \in Nat, d < n + 1, NEW i \in 0 .. Shl[d + 1] - 1
       PROVE  g[d + 1][i] = Descend(m, g[d][i \div 2], d, i % 2)
  <2>1. CASE d < n
    <3>1. d \in Nat /\ d <= n /\ d + 1 \in Nat /\ d + 1 <= n
      BY <2>1
    <3> QED BY <1>1, <1>10, <2>1, <3>1 DEF TreeOf
  <2>2. CASE ~ (d < n)
    <3>1. d = n
      BY <1>10, <2>2
    <3> QED BY <1>7, <1>10, <3>1
  <2> QED BY <2>1, <2>2
<1> QED BY <1>8, <1>9, <1>10 DEF TreeOf

\* What p keeps of the parties' layers g of leaves, with or without its own.
KeptOf(li, p, g, e) ==
    [leaf_cw |-> li.leaf_cw, leaf_cfbit |-> li.leaf_cfbit,
     unit_sum_inverse |-> inverse_value_t((LowSum(0, g[0]) + LowSum(1, g[1])) % Modulus),
     scaled_sum |-> [j \in 1 .. Width |-> ScaledSum(p, g[p], j)],
     scaled_xor |-> [j \in 1 .. Width |-> ScaledXor(g[p], j)],
     expansion |-> IF e THEN g[p] ELSE <<>>]

\* li is the leaf level d of p, below an internal layer.
Keeps(li, p, layer, g, d, e) ==
    /\ li = KeptOf(li, p, g, e)
    /\ Below(g[p], layer, Shl[d - 1], [cw |-> li.leaf_cw, cfbit |-> li.leaf_cfbit], TRUE)

KeptThere(li, p, g, d, e) ==
    /\ g[p] \in [0 .. Shl[d] - 1 -> Leaves(TRUE)]
    /\ (li.expansion # <<>>) <=> e
    /\ e => li.expansion = g[p]

LEMMA LeavesThere ==
    ASSUME NEW li, NEW p, NEW layer, NEW g, NEW d \in Nat, d >= 1, NEW e \in BOOLEAN,
           Keeps(li, p, layer, g, d, e)
    PROVE  KeptThere(li, p, g, d, e)
<1>1. Shl[d] = 2 * Shl[d - 1] /\ Shl[d] \in Nat /\ Shl[d] > 0
  BY ShlFacts
<1>2. g[p] \in [0 .. Shl[d] - 1 -> Leaves(TRUE)]
  BY <1>1 DEF Keeps, Below
<1>3. g[p] # <<>>
  <2>1. 0 \in DOMAIN g[p]
    <3>1. DOMAIN g[p] = 0 .. Shl[d] - 1
      BY <1>2
    <3> QED BY <1>1, <3>1
  <2>2. DOMAIN <<>> = {}
    OBVIOUS
  <2> QED BY <2>1, <2>2
<1>4. li.expansion = IF e THEN g[p] ELSE <<>>
  BY DEF Keeps, KeptOf
<1> QED BY <1>2, <1>3, <1>4 DEF KeptThere

\* The leaf level d of a complete key, and the layer of leaves below its nodes.
LevelOf(k, d) == k.li[k.maxdepth - d + 1]
KeepsAt(k, f, d, p, g, e) == k.maxdepth \in Nat /\ Keeps(LevelOf(k, d), p, f[d - 1], g, d, e)
LayerOf(k, f, d, p, g, e) ==
    /\ KeptThere(LevelOf(k, d), p, g, d, e)
    /\ \A i \in 0 .. Shl[d] - 1 : DescendToLeaf(k, f[d - 1][i \div 2], d - 1, i % 2) = g[p][i]
    /\ d <= MaxDepth => ExpandedLayer(k, d) = g[p]

LEMMA LayerIs ==
    ASSUME NEW k, NEW f, NEW n \in Nat, TreeOf(k, f, n), NEW d \in Nat, d >= 1, d <= n + 1,
           NEW p, NEW g, NEW e \in BOOLEAN, KeepsAt(k, f, d, p, g, e)
    PROVE  LayerOf(k, f, d, p, g, e)
<1> DEFINE li == LevelOf(k, d)
<1>0. k.maxdepth \in Nat /\ Keeps(li, p, f[d - 1], g, d, e) /\ li = k.li[k.maxdepth - d + 1]
  BY DEF KeepsAt, LevelOf
<1> HIDE DEF li
<1>1. KeptThere(li, p, g, d, e)
  <2> DEFINE layer == f[d - 1]
  <2>1. Keeps(li, p, layer, g, d, e)
    BY <1>0
  <2> HIDE DEF layer
  <2> QED BY <2>1, LeavesThere
<1>2. Shl[d] = 2 * Shl[d - 1] /\ Shl[d] \in Nat /\ Shl[d - 1] \in Nat
  BY ShlFacts
<1>3. k.maxdepth - (d - 1) = k.maxdepth - d + 1
  BY <1>0
<1>4. ASSUME NEW i \in 0 .. Shl[d] - 1
      PROVE  DescendToLeaf(k, f[d - 1][i \div 2], d - 1, i % 2) = g[p][i]
  <2>1. k.li[k.maxdepth - (d - 1)] = li
    BY <1>0, <1>3
  <2>2. g[p][i] = Corrected(Child(f[d - 1][i \div 2], i % 2, TRUE), i % 2, f[d - 1][i \div 2],
                            [cw |-> li.leaf_cw, cfbit |-> li.leaf_cfbit])
    BY <1>0, <1>2 DEF Keeps, Below
  <2> QED BY <2>1, <2>2 DEF DescendToLeaf
<1>5. ASSUME d <= MaxDepth PROVE ExpandedLayer(k, d) = g[p]
  <2>1. ExpandedLayer(k, d)
          = [i \in 0 .. Shl[d] - 1 |-> DescendToLeaf(k, f[d - 1][i \div 2], d - 1, i % 2)]
    BY <1>5, ExpandedIs
  <2>2. ExpandedLayer(k, d) = [i \in 0 .. Shl[d] - 1 |-> g[p][i]]
    BY <1>4, <2>1
  <2> QED BY <1>1, <2>2 DEF KeptThere
<1> QED BY <1>1, <1>4, <1>5 DEF LayerOf, li

\* A leaf of a key at depth d, kept or not.
LEMMA LeafIs ==
    ASSUME NEW k, NEW f, NEW n \in Nat, TreeOf(k, f, n), NEW d \in Nat, d >= 1, d <= n + 1,
           k.curdepth = d, NEW p, NEW g, NEW e \in BOOLEAN, KeepsAt(k, f, d, p, g, e),
           NEW i \in 0 .. Shl[d] - 1
    PROVE  Leaf(k, i) = g[p][i]
<1> DEFINE li == LevelOf(k, d)
<1>1. /\ (li.expansion # <<>>) <=> e
      /\ e => li.expansion = g[p]
      /\ DescendToLeaf(k, f[d - 1][i \div 2], d - 1, i % 2) = g[p][i]
  <2>1. LayerOf(k, f, d, p, g, e)
    BY LayerIs
  <2> QED BY <2>1 DEF LayerOf, KeptThere
<1>2. Shl[d] \in Nat
  BY ShlFacts
<1>3. LI(k) = li
  BY DEF LI, LevelOf
<1> HIDE DEF li
<1>4. CASE e
  BY <1>1, <1>3, <1>4 DEF Leaf
<1>5. CASE ~ e
  <2>1. i \in Nat /\ i < Shl[d]
    BY <1>2
  <2>2. PathTo(k, d, i) = Way(f, d, i)
    BY <2>1, PathIs
  <2>3. d - 1 \in 0 .. d - 1 /\ d - (d - 1) = 1
    OBVIOUS
  <2>4. i \div Shl[d - (d - 1)] = i \div 2
    BY <2>1, <2>3, Halving
  <2>5. Way(f, d, i)[d - 1] = f[d - 1][i \div 2]
    BY <2>3, <2>4 DEF Way
  <2>6. Leaf(k, i) = DescendToLeaf(k, PathTo(k, d, i)[d - 1], d - 1, i % 2)
    BY <1>1, <1>3, <1>5 DEF Leaf
  <2> QED BY <1>1, <2>2, <2>5, <2>6
<1> QED BY <1>4, <1>5
-----------------------------------------------------------------------------
(* What the keys have of the parties' trees.                               *)

\* The leaf levels there are after l levels.
LeavesDone(l) == IF incremental THEN 1 .. l ELSE IF l = depth THEN {depth} ELSE {}

\* Keys K have the trees F to level n, and after l levels the leaves G.
Trees(K, n, l, F, G, e) ==
    /\ \A p \in Halves : TreeOf(K[p], F[p], n)
    /\ \A d \in LeavesDone(l) :
        /\ Fits(G[d][0], G[d][1], Shl[d], TargetAt(d), TRUE)
        /\ \A p \in Halves : Keeps(K[p].li[l - d + 1], p, F[p][d - 1], G[d], d, e)

\* Keys are as deep as they can be until they are used, and as written.
KeyState ==
    /\ phase \in {"levels", "made"} => \A p \in Halves : key[p].curdepth = depth
    /\ phase = "levels" => wrote = <<>>
    /\ phase = "made" /\ wrote # <<>> => key = wrote

TreesInv ==
    \E F, G, e :
        /\ e \in BOOLEAN /\ (phase = "levels" => e = save_expansion)
        /\ \A p \in Halves : cur[p] = F[p][Internal]
        /\ Trees(key, Internal, level, F, G, e)

LEMMA SameTrees ==
    ASSUME NEW K, NEW M, NEW n \in Nat, NEW l, NEW F, NEW G, NEW e, Trees(K, n, l, F, G, e),
           \A p \in Halves : SameWords(K[p], M[p], n),
           \A p \in Halves : \A d \in LeavesDone(l) : M[p].li[l - d + 1] = K[p].li[l - d + 1]
    PROVE  Trees(M, n, l, F, G, e)
<1>1. ASSUME NEW p \in Halves PROVE TreeOf(M[p], F[p], n)
  <2> DEFINE k == K[p]
             m == M[p]
             f == F[p]
  <2>1. TreeOf(k, f, n) /\ SameWords(k, m, n)
    BY DEF Trees
  <2> HIDE DEF k, m, f
  <2>2. TreeOf(m, f, n)
    BY <2>1, SameTree
  <2> QED BY <2>2 DEF m, f
<1>2. ASSUME NEW d \in LeavesDone(l), NEW p \in Halves
      PROVE  Keeps(M[p].li[l - d + 1], p, F[p][d - 1], G[d], d, e)
  <2>1. Keeps(K[p].li[l - d + 1], p, F[p][d - 1], G[d], d, e)
    BY DEF Trees
  <2>2. M[p].li[l - d + 1] = K[p].li[l - d + 1]
    OBVIOUS
  <2> QED BY <2>1, <2>2
<1> QED BY <1>1, <1>2 DEF Trees

LEMMA TreesPrimed ==
    ASSUME UNCHANGED <<gen, depth, target, incremental>>, NEW F, NEW G, NEW e,
           Trees(key', Internal', level', F, G, e)
    PROVE  Trees(key, Internal, level, F, G, e)'
<1>1. ASSUME NEW p \in Halves PROVE TreeOf(key[p], F[p], Internal)'
  <2>1. TreeOf(key'[p], F[p], Internal')
    BY DEF Trees
  <2> QED BY <2>1 DEF TreeOf, Descend
<1>2. LeavesDone(level)' = LeavesDone(level')
  BY DEF LeavesDone
<1>3. ASSUME NEW d \in LeavesDone(level')
      PROVE  /\ Fits(G[d][0], G[d][1], Shl[d], TargetAt(d), TRUE)'
             /\ \A p \in Halves : Keeps(key[p].li[level - d + 1], p, F[p][d - 1], G[d], d, e)'
  <2>1. Fits(G[d][0], G[d][1], Shl[d], TargetAt(d)', TRUE)
    BY DEF Trees, TargetAt
  <2>2. ASSUME NEW p \in Halves
        PROVE  Keeps(key[p].li[level - d + 1], p, F[p][d - 1], G[d], d, e)'
    <3>1. Keeps(key'[p].li[level' - d + 1], p, F[p][d - 1], G[d], d, e)
      BY DEF Trees
    <3> QED BY <3>1 DEF Keeps, Below, Corrected, Child
  <2> QED BY <2>1, <2>2
<1> QED BY <1>1, <1>2, <1>3 DEF Trees

\* The leaf levels of a complete key, and their places.
LEMMA PlacesOf ==
    ASSUME IInv, phase # "levels"
    PROVE  /\ level = depth /\ Internal = depth - 1 /\ LeavesDone(level) = Leaflevels
           /\ \A d \in Leaflevels : /\ d \in Nat /\ d >= 1 /\ d <= depth /\ d <= MaxDepth
                                    /\ depth - d + 1 \in 1 .. LeafLayers
           /\ \A i \in 1 .. LeafLayers : /\ depth - i + 1 \in Leaflevels
                                         /\ depth - (depth - i + 1) + 1 = i
<1>1. depth \in Nat /\ depth >= 1 /\ level = depth /\ depth <= MaxDepth /\ MaxDepth \in Nat
  BY MadeShape, Sizes DEF IInv, Choices
<1>2. Internal = depth - 1 /\ LeavesDone(level) = Leaflevels
  BY <1>1 DEF Internal, LeavesDone, Leaflevels
<1>3. CASE incremental
  <2>1. Leaflevels = 1 .. depth /\ LeafLayers = depth
    BY <1>1, <1>3 DEF Leaflevels, LeafLayers
  <2>2. \A d \in 1 .. depth : d \in Nat /\ d >= 1 /\ d <= depth /\ d <= MaxDepth
                              /\ depth - d + 1 \in 1 .. depth
    BY <1>1
  <2>3. \A i \in 1 .. depth : depth - i + 1 \in 1 .. depth /\ depth - (depth - i + 1) + 1 = i
    BY <1>1
  <2> QED BY <1>1, <1>2, <2>1, <2>2, <2>3
<1>4. CASE ~ incremental
  <2>1. Leaflevels = {depth} /\ LeafLayers = 1
    BY <1>1, <1>4 DEF Leaflevels, LeafLayers
  <2>2. depth - depth + 1 \in 1 .. 1
    BY <1>1
  <2>3. \A i \in 1 .. 1 : depth - i + 1 = depth /\ depth - (depth - i + 1) + 1 = i
    BY <1>1
  <2> QED BY <1>1, <1>2, <2>1, <2>2, <2>3
<1> QED BY <1>3, <1>4 DEF IInv, Choices

LEMMA InitTrees ==
    ASSUME Init
    PROVE  KeyState /\ TreesInv
<1>1. IInv
  BY InitShape
<1>2. phase = "levels" /\ level = 0 /\ wrote = <<>> /\ depth \in Nat /\ depth >= 1
  BY <1>1, Sizes DEF Init, IInv, Choices
<1>3. Internal = 0 /\ LeavesDone(level) = {}
  BY <1>1, <1>2 DEF Internal, LeavesDone, IInv, Choices
<1>4. \A p \in Halves : key[p].curdepth = depth /\ key[p].seed = cur[p][0]
  <2>1. \E seed :
          /\ cur = [p \in Halves |-> [i \in {0} |-> seed[p]]]
          /\ key = [p \in Halves |->
                      [seed |-> seed[p], whichhalf |-> p, maxdepth |-> depth,
                       curdepth |-> depth, cw |-> <<>>, cfbits |-> <<>>, li |-> <<>>]]
    BY DEF Init
  <2> QED BY <2>1
<1>5. \A p \in Halves : cur[p] \in [0 .. Shl[0] - 1 -> Node]
  BY <1>1, <1>3 DEF IInv, LayersInv, OffAt, Halves
<1> DEFINE F == [p \in Halves |-> [d \in Nat |-> cur[p]]]
<1>6. ASSUME NEW p \in Halves PROVE cur[p] = F[p][0] /\ TreeOf(key[p], F[p], 0)
  <2>1. \A d \in Nat : F[p][d] = cur[p]
    OBVIOUS
  <2> HIDE DEF F
  <2>2. \A d \in Nat : d <= 0 => d = 0
    OBVIOUS
  <2>3. ~ \E d \in Nat : d < 0
    OBVIOUS
  <2> QED BY <1>4, <1>5, <2>1, <2>2, <2>3 DEF TreeOf
<1> HIDE DEF F
<1>7. \A G : Trees(key, Internal, level, F, G, save_expansion)
  BY <1>3, <1>6 DEF Trees
<1>8. save_expansion \in BOOLEAN
  BY <1>1 DEF IInv, Choices
<1> QED BY <1>2, <1>3, <1>4, <1>6, <1>7, <1>8 DEF KeyState, TreesInv

\* A key has the words of the one before, and one more unless it was the last.
Larger(k, last, w, b, more, info) ==
    [k EXCEPT !.cw = IF last THEN @ ELSE Append(@, w),
              !.cfbits = IF last THEN @ ELSE Append(@, b),
              !.li = IF more THEN <<info>> \o @ ELSE @]
GrownFrom(k, m, words, leaves, last, w, b, more, info) ==
    /\ SameWords(k, m, words)
    /\ ~ last => m.cw[words + 1] = w /\ m.cfbits[words + 1] = b
    /\ m.curdepth = k.curdepth
    /\ more => m.li[1] = info /\ \A i \in 1 .. leaves : m.li[i + 1] = k.li[i]

LEMMA WordsGrow ==
    ASSUME NEW k, NEW p, NEW words \in Nat, NEW leaves \in Nat, KeyShape(k, p, words, leaves),
           NEW last, NEW more, NEW w, NEW b, NEW info,
           NEW m, m = Larger(k, last, w, b, more, info)
    PROVE  GrownFrom(k, m, words, leaves, last, w, b, more, info)
<1>1. PICK S : k \in KeyWith(S)
  BY DEF KeyShape
<1>2. /\ m.seed = k.seed /\ m.curdepth = k.curdepth
      /\ m.cw = IF last THEN k.cw ELSE Append(k.cw, w)
      /\ m.cfbits = IF last THEN k.cfbits ELSE Append(k.cfbits, b)
      /\ m.li = IF more THEN <<info>> \o k.li ELSE k.li
  BY <1>1 DEF KeyWith, Larger
<1>3. /\ k.cw \in Seq(Node) /\ k.cfbits \in Seq(BOOLEAN) /\ k.li \in Seq(S)
      /\ Len(k.cw) = words /\ Len(k.cfbits) = words /\ Len(k.li) = leaves
  BY <1>1 DEF KeyShape, KeyWith
<1>4. \A T : \A s \in Seq(T) : \A x :
        /\ Append(s, x)[Len(s) + 1] = x
        /\ \A i \in 1 .. Len(s) : Append(s, x)[i] = s[i]
  OBVIOUS
<1>5. \A d \in Nat : d < words => d + 1 \in 1 .. words
  OBVIOUS
<1>6. SameWords(k, m, words)
  BY <1>2, <1>3, <1>4, <1>5 DEF SameWords
<1>7. ~ last => m.cw[words + 1] = w /\ m.cfbits[words + 1] = b
  BY <1>2, <1>3, <1>4
<1>8. ASSUME more PROVE m.li[1] = info /\ \A i \in 1 .. leaves : m.li[i + 1] = k.li[i]
  <2>1. m.li = <<info>> \o k.li
    BY <1>2, <1>8
  <2> DEFINE s == k.li
  <2>2. s \in Seq(S) /\ Len(s) = leaves /\ m.li = <<info>> \o s
    BY <1>3, <2>1
  <2> HIDE DEF s
  <2>3. (<<info>> \o s)[1] = info /\ \A i \in 1 .. leaves : (<<info>> \o s)[i + 1] = s[i]
    BY <2>2
  <2> QED BY <2>2, <2>3 DEF s
<1> QED BY <1>2, <1>6, <1>7, <1>8 DEF GrownFrom

\* What is kept of a leaf layer just made.
LEMMA KeptNow ==
    ASSUME NEW p, NEW g, NEW c, NEW layer, NEW l \in Nat,
           Below(g[p], layer, Shl[l], c, TRUE)
    PROVE  Keeps(LeafInfo(p, g, c), p, layer, g, l + 1, save_expansion)
<1> DEFINE li == LeafInfo(p, g, c)
<1>1. li = KeptOf(li, p, g, save_expansion)
  BY DEF LeafInfo, KeptOf
<1>2. li.leaf_cw = c.cw /\ li.leaf_cfbit = c.cfbit
  BY DEF LeafInfo
<1> HIDE DEF li
<1>3. Below(g[p], layer, Shl[l], [cw |-> li.leaf_cw, cfbit |-> li.leaf_cfbit], TRUE)
  BY <1>2 DEF Below, Corrected
<1>4. (l + 1) - 1 = l
  OBVIOUS
<1> QED BY <1>1, <1>3, <1>4 DEF Keeps, li

LEMMA CreateLevelTrees ==
    ASSUME IInv, KeyState, TreesInv, CreateLevel
    PROVE  KeyState' /\ TreesInv'
<1> DEFINE bit == Bit(target, depth - level - 1)
           last == level = depth - 1
           c == Correction(cur, bit, FALSE)
           lc == Correction(cur, bit, TRUE)
           leaves == [p \in Halves |-> Finalized(cur[p], lc, TRUE)]
           next == [p \in Halves |-> Finalized(cur[p], c, FALSE)]
           more == incremental \/ last
           under(p) == [i \in DOMAIN next[p] |-> next[p][i][1]]
<1>1. /\ phase = "levels" /\ level' = level + 1
      /\ phase' = IF last THEN "made" ELSE "levels"
      /\ cur' = IF last THEN cur ELSE [p \in Halves |-> under(p)]
      /\ key' = [p \in Halves |->
           [key[p] EXCEPT
              !.cw = IF last THEN @ ELSE Append(@, c.cw[1]),
              !.cfbits = IF last THEN @ ELSE Append(@, c.cfbit),
              !.li = IF more THEN <<LeafInfo(p, leaves, lc)>> \o @ ELSE @]]
      /\ UNCHANGED <<gen, depth, incremental, save_expansion, target, wrote>>
  BY DEF CreateLevel
<1>2. /\ level \in Nat /\ level < depth
      /\ Fits(leaves[0], leaves[1], Shl[level + 1], target \div Shl[depth - (level + 1)], TRUE)
  BY <1>1, LevelShape
<1>3. c.cfbit \in BOOLEAN /\ c.cw \in Leaves(FALSE) /\ lc.cfbit \in BOOLEAN /\ lc.cw \in Leaves(TRUE)
  BY <1>1, LevelShape
<1>4. Gens[gen] \in Generators
  BY GensType DEF IInv
<1>5. depth \in Nat /\ depth >= 1 /\ incremental \in BOOLEAN /\ save_expansion \in BOOLEAN
  BY Sizes DEF IInv, Choices
<1>6. Internal = level
  BY <1>1 DEF Internal
<1>7. ASSUME NEW p \in Halves
      PROVE  /\ Below(next[p], cur[p], Shl[level], c, FALSE)
             /\ Below(leaves[p], cur[p], Shl[level], lc, TRUE)
  <2>1. cur[p] \in [0 .. Shl[level] - 1 -> Node] /\ Shl[level] \in Nat
    BY <1>2, <1>6, ShlFacts DEF IInv, LayersInv, OffAt, Halves
  <2>2. /\ xor_leaf_lsb(c.cw, c.cfbit) \in Leaves(FALSE)
        /\ xor_leaf_lsb(lc.cw, lc.cfbit) \in Leaves(TRUE)
    <3> HIDE DEF c, lc
    <3>1. \A leaf : \A a \in Leaves(leaf) : \A f : xor_leaf_lsb(a, f) \in Leaves(leaf)
      BY WideType, LeafOps DEF Leaves
    <3> QED BY <1>3, <3>1
  <2>3. next[p] = Finalized(cur[p], c, FALSE) /\ leaves[p] = Finalized(cur[p], lc, TRUE)
    OBVIOUS
  <2> HIDE DEF next, leaves, c, lc
  <2>4. Below(Finalized(cur[p], c, FALSE), cur[p], Shl[level], c, FALSE)
    BY <1>3, <1>4, <2>1, <2>2, FinalizedIs
  <2>5. Below(Finalized(cur[p], lc, TRUE), cur[p], Shl[level], lc, TRUE)
    BY <1>3, <1>4, <2>1, <2>2, FinalizedIs
  <2> QED BY <2>3, <2>4, <2>5
<1> HIDE DEF bit, c, lc, leaves, next
<1>8. PICK F, G, e :
        /\ e \in BOOLEAN /\ (phase = "levels" => e = save_expansion)
        /\ \A p \in Halves : cur[p] = F[p][Internal]
        /\ Trees(key, Internal, level, F, G, e)
  BY DEF TreesInv
<1>9. e = save_expansion /\ Trees(key, level, level, F, G, e) /\ \A p \in Halves : cur[p] = F[p][level]
  BY <1>1, <1>6, <1>8
<1> DEFINE FF == [p \in Halves |-> [d \in Nat |-> IF d = level + 1 THEN under(p) ELSE F[p][d]]]
           GG == [d \in Nat |-> IF d = level + 1 THEN leaves ELSE G[d]]
<1>10. ASSUME NEW p \in Halves
       PROVE  FF[p][level + 1] = under(p) /\ \A d \in Nat : d # level + 1 => FF[p][d] = F[p][d]
  BY <1>2
<1>11. GG[level + 1] = leaves /\ \A d \in Nat : d # level + 1 => GG[d] = G[d]
  BY <1>2
<1> HIDE DEF FF, GG
<1>12. ASSUME NEW p \in Halves
       PROVE  /\ SameWords(key[p], key'[p], level)
              /\ ~ last => key'[p].cw[level + 1] = c.cw[1] /\ key'[p].cfbits[level + 1] = c.cfbit
              /\ key'[p].curdepth = key[p].curdepth
              /\ more => /\ key'[p].li[1] = LeafInfo(p, leaves, lc)
                         /\ \A i \in 1 .. LeafLayers : key'[p].li[i + 1] = key[p].li[i]
  <2> DEFINE k == key[p]
             info == LeafInfo(p, leaves, lc)
             w == c.cw[1]
             b == c.cfbit
             m == Larger(k, last, w, b, more, info)
  <2>1. key'[p] = m
    BY <1>1 DEF Larger
  <2>2. KeyShape(k, p, level, LeafLayers) /\ LeafLayers \in Nat
    BY <1>2 DEF IInv, KeysInv, LeafLayers
  <2> HIDE DEF k, info, last, more, w, b
  <2>4. m = Larger(k, last, w, b, more, info)
    OBVIOUS
  <2>5. level \in Nat
    BY <1>2
  <2> HIDE DEF m
  <2>3. GrownFrom(k, m, level, LeafLayers, last, w, b, more, info)
    BY ONLY <2>2, <2>4, <2>5, WordsGrow
  <2> QED BY <2>1, <2>3 DEF k, info, w, b, GrownFrom
<1>13. Internal' = (IF last THEN level ELSE level + 1)
  BY <1>1, <1>2, <1>5 DEF Internal
<1>14. \A p \in Halves : cur'[p] = FF[p][Internal']
  <2> SUFFICES ASSUME NEW p \in Halves PROVE cur'[p] = FF[p][Internal']
    OBVIOUS
  <2> HIDE DEF under
  <2>1. CASE last
    <3>1. cur'[p] = cur[p]
      BY <1>1, <2>1
    <3>2. level # level + 1
      BY <1>2
    <3> HIDE DEF last
    <3> QED BY <1>2, <1>9, <1>10, <1>13, <2>1, <3>1, <3>2
  <2>2. CASE ~ last
    <3>1. cur'[p] = under(p)
      BY <1>1, <2>2
    <3> HIDE DEF last
    <3> QED BY <1>10, <1>13, <2>2, <3>1
  <2> QED BY <2>1, <2>2
<1>15. ASSUME NEW p \in Halves PROVE TreeOf(key'[p], FF[p], Internal')
  <2> DEFINE k == key[p]
             m == key'[p]
             f == F[p]
             g == FF[p]
             L == next[p]
  <2>1. TreeOf(k, f, level) /\ SameWords(k, m, level)
    BY <1>9, <1>12 DEF Trees
  <2>2. \A d \in Nat : d <= level => g[d] = f[d]
    <3>1. \A d \in Nat : d <= level => d # level + 1
      BY <1>2
    <3> QED BY <1>10, <3>1
  <2>3. CASE last
    <3> HIDE DEF k, m, f, g, last
    <3>1. TreeOf(m, g, level)
      BY <1>2, <2>1, <2>2, SameTree
    <3> QED BY <1>13, <2>3, <3>1 DEF m, g
  <2>4. CASE ~ last
    <3>1. m.cw[level + 1] = c.cw[1] /\ m.cfbits[level + 1] = c.cfbit
      BY <1>12, <2>4
    <3>2. Below(L, f[level], Shl[level], c, FALSE)
      BY <1>7, <1>9
    <3>3. g[level + 1] = [i \in DOMAIN L |-> L[i][1]]
      BY <1>10
    <3>0. level \in Nat /\ Gens[gen] \in Generators /\ c.cw \in Leaves(FALSE)
      BY <1>2, <1>3, <1>4
    <3> HIDE DEF k, m, f, g, L, last
    <3>4. TreeOf(m, g, level + 1)
      BY ONLY <2>1, <2>2, <3>0, <3>1, <3>2, <3>3, TreeGrows
    <3> QED BY <1>13, <2>4, <3>4 DEF m, g
  <2> QED BY <2>3, <2>4
<1>16. KeyState'
  <2>1. \A p \in Halves : key'[p].curdepth = depth
    BY <1>1, <1>12 DEF KeyState
  <2>2. wrote' = <<>>
    BY <1>1 DEF KeyState
  <2> QED BY <1>1, <2>1, <2>2 DEF KeyState
<1>17. ASSUME NEW d \in LeavesDone(level + 1)
       PROVE  /\ Fits(GG[d][0], GG[d][1], Shl[d], TargetAt(d), TRUE)
              /\ \A p \in Halves :
                   Keeps(key'[p].li[(level + 1) - d + 1], p, FF[p][d - 1], GG[d], d, e)
  <2>1. /\ more /\ d \in Nat /\ d >= 1
        /\ d # level + 1 => incremental /\ d \in 1 .. level
    BY <1>2, <1>5 DEF LeavesDone
  <2>2. CASE d = level + 1
    <3>1. Fits(GG[d][0], GG[d][1], Shl[d], TargetAt(d), TRUE)
      BY <1>2, <1>11, <2>2 DEF TargetAt
    <3>2. ASSUME NEW p \in Halves
          PROVE  Keeps(key'[p].li[(level + 1) - d + 1], p, FF[p][d - 1], GG[d], d, e)
      <4>1. (level + 1) - d + 1 = 1 /\ d - 1 = level /\ level # level + 1
        BY <1>2, <2>2
      <4>2. key'[p].li[1] = LeafInfo(p, leaves, lc)
        BY <1>12, <2>1
      <4>3. FF[p][level] = cur[p]
        BY <1>2, <1>9, <1>10, <4>1
      <4>4. Keeps(LeafInfo(p, leaves, lc), p, cur[p], leaves, level + 1, save_expansion)
        BY <1>2, <1>7, KeptNow
      <4> QED BY <1>9, <1>11, <2>2, <4>1, <4>2, <4>3, <4>4
    <3> QED BY <3>1, <3>2
  <2>3. CASE d # level + 1
    <3>1. incremental /\ d \in 1 .. level /\ d \in LeavesDone(level) /\ LeafLayers = level
      BY <2>1, <2>3 DEF LeavesDone, LeafLayers
    <3>2. GG[d] = G[d]
      BY <1>11, <2>1, <2>3
    <3>3. Fits(GG[d][0], GG[d][1], Shl[d], TargetAt(d), TRUE)
      BY <1>9, <3>1, <3>2 DEF Trees
    <3>4. /\ level - d + 1 \in 1 .. level /\ (level - d + 1) + 1 = (level + 1) - d + 1
          /\ d - 1 \in Nat /\ d - 1 # level + 1
      BY <1>2, <3>1
    <3>5. ASSUME NEW p \in Halves
          PROVE  Keeps(key'[p].li[(level + 1) - d + 1], p, FF[p][d - 1], GG[d], d, e)
      <4>1. Keeps(key[p].li[level - d + 1], p, F[p][d - 1], G[d], d, e)
        BY <1>9, <3>1 DEF Trees
      <4>2. key'[p].li[(level + 1) - d + 1] = key[p].li[level - d + 1]
        BY <1>12, <2>1, <3>1, <3>4
      <4>3. FF[p][d - 1] = F[p][d - 1]
        BY <1>10, <3>4
      <4> QED BY <3>2, <4>1, <4>2, <4>3
    <3> QED BY <3>3, <3>5
  <2> QED BY <2>2, <2>3
<1>18. PICK F2, G2 : F2 = FF /\ G2 = GG
  OBVIOUS
<1>19. TreesInv'
  <2>1. Trees(key', Internal', level', F2, G2, e)
    BY <1>1, <1>15, <1>17, <1>18 DEF Trees
  <2>2. Trees(key, Internal, level, F2, G2, e)'
    BY <1>1, <2>1, TreesPrimed
  <2>3. (phase = "levels")' => e = save_expansion'
    BY <1>1, <1>9
  <2>4. \A p \in Halves : cur'[p] = F2[p][Internal']
    BY <1>14, <1>18
  <2> QED BY <1>8, <2>2, <2>3, <2>4 DEF TreesInv
<1> QED BY <1>16, <1>19

\* Steps after which the trees of a complete key are the ones before.
LEMMA TreesStay ==
    ASSUME IInv, phase # "levels", phase' # "levels",
           UNCHANGED <<gen, depth, incremental, target, level, cur>>,
           NEW F, NEW G, NEW e \in BOOLEAN, \A p \in Halves : cur[p] = F[p][Internal],
           Trees(key', Internal, level, F, G, e)
    PROVE  TreesInv'
<1>1. Internal' = Internal
  BY DEF Internal
<1>2. Trees(key, Internal, level, F, G, e)'
  BY <1>1, TreesPrimed
<1>3. \A p \in Halves : cur'[p] = F[p][Internal']
  BY <1>1
<1> QED BY <1>2, <1>3 DEF TreesInv

LEMMA StartEvalTrees ==
    ASSUME IInv, TreesInv, StartEval
    PROVE  KeyState' /\ TreesInv'
<1>1. /\ phase = "made" /\ phase' = "eval"
      /\ UNCHANGED <<gen, depth, incremental, target, level, cur>>
  BY DEF StartEval
<1>2. PICK p \in Halves, d \in (IF incremental THEN 1 .. depth ELSE {depth}) :
        key' = [key EXCEPT ![p] = [key[p] EXCEPT !.curdepth = d]]
  BY DEF StartEval
<1>3. KeyState'
  BY <1>1 DEF KeyState
<1>4. PICK F, G, e :
        /\ e \in BOOLEAN /\ \A q \in Halves : cur[q] = F[q][Internal]
        /\ Trees(key, Internal, level, F, G, e)
  BY DEF TreesInv
<1>5. DOMAIN key = Halves
  BY DEF IInv, KeysInv
<1>6. ASSUME NEW q \in Halves
      PROVE  /\ key'[q].seed = key[q].seed /\ key'[q].cw = key[q].cw
             /\ key'[q].cfbits = key[q].cfbits /\ key'[q].li = key[q].li
  <2>1. PICK S : key[q] \in KeyWith(S)
    BY DEF IInv, KeysInv, KeyShape
  <2>2. key'[q] = IF q = p THEN [key[q] EXCEPT !.curdepth = d] ELSE key[q]
    BY <1>2, <1>5
  <2> QED BY <2>1, <2>2 DEF KeyWith
<1>7. Internal \in Nat
  BY <1>1, MadeShape DEF Internal
<1> DEFINE M == key'
<1>8. \A q \in Halves : /\ SameWords(key[q], M[q], Internal)
                        /\ \A i : M[q].li[i] = key[q].li[i]
  BY <1>6 DEF SameWords
<1> HIDE DEF M
<1>9. Trees(M, Internal, level, F, G, e)
  BY ONLY <1>4, <1>7, <1>8, SameTrees
<1> QED BY <1>1, <1>3, <1>4, <1>9, TreesStay DEF M

\* An expanded key holds the layers of its tree.
LEMMA ExpandedKeeps ==
    ASSUME NEW k, NEW f, NEW n \in Nat, TreeOf(k, f, n), NEW d \in Nat, d >= 1, d <= n + 1,
           d <= MaxDepth, NEW S, k \in KeyWith(S), k.maxdepth - d + 1 \in 1 .. Len(k.li),
           NEW p, NEW g, NEW e \in BOOLEAN, KeepsAt(k, f, d, p, g, e)
    PROVE  KeepsAt(Expanded(k), f, d, p, g, TRUE)
<1> DEFINE j == k.maxdepth - d + 1
           li == k.li[j]
           layer == f[d - 1]
           new == Expanded(k).li[j]
<1>0. k.maxdepth \in Nat
  BY DEF KeepsAt
<1>1. k.maxdepth - j + 1 = d
  BY <1>0
<1>2. new = IF li.expansion # <<>> THEN li ELSE [li EXCEPT !.expansion = ExpandedLayer(k, d)]
  <2>1. j \in DOMAIN k.li
    BY DEF KeyWith
  <2>2. Expanded(k).li = [i \in DOMAIN k.li |->
          IF k.li[i].expansion # <<>> THEN k.li[i]
          ELSE [k.li[i] EXCEPT !.expansion = ExpandedLayer(k, k.maxdepth - i + 1)]]
    BY DEF Expanded, KeyWith
  <2> QED BY <1>1, <2>1, <2>2
<1>3. Keeps(li, p, layer, g, d, e)
  BY DEF KeepsAt, LevelOf
<1>4. KeptThere(li, p, g, d, e) /\ ExpandedLayer(k, d) = g[p]
  <2>1. LayerOf(k, f, d, p, g, e)
    BY LayerIs
  <2> QED BY <2>1 DEF LayerOf, LevelOf
<1> HIDE DEF layer
<1>6. new = KeptOf(new, p, g, TRUE)
  <2> DEFINE inverse == inverse_value_t((LowSum(0, g[0]) + LowSum(1, g[1])) % Modulus)
             sums == [m \in 1 .. Width |-> ScaledSum(p, g[p], m)]
             xors == [m \in 1 .. Width |-> ScaledXor(g[p], m)]
             With(x) == [leaf_cw |-> li.leaf_cw, leaf_cfbit |-> li.leaf_cfbit,
                         unit_sum_inverse |-> inverse, scaled_sum |-> sums, scaled_xor |-> xors,
                         expansion |-> x]
  <2>1. li = With(IF e THEN g[p] ELSE <<>>)
    BY <1>3 DEF Keeps, KeptOf
  <2>2. KeptOf(new, p, g, TRUE) = [leaf_cw |-> new.leaf_cw, leaf_cfbit |-> new.leaf_cfbit,
                         unit_sum_inverse |-> inverse, scaled_sum |-> sums, scaled_xor |-> xors,
                         expansion |-> g[p]]
    BY DEF KeptOf
  <2> HIDE DEF inverse, sums, xors
  <2>3. new = With(g[p])
    <3>1. CASE e
      BY <1>2, <1>4, <2>1, <3>1 DEF KeptThere
    <3>2. CASE ~ e
      <4>1. new = [li EXCEPT !.expansion = g[p]] /\ li = With(<<>>)
        BY <1>2, <1>4, <2>1, <3>2 DEF KeptThere
      <4> HIDE DEF li, new
      <4> DEFINE a == li.leaf_cw
                 b == li.leaf_cfbit
      <4>2. li = [leaf_cw |-> a, leaf_cfbit |-> b,
                  unit_sum_inverse |-> inverse, scaled_sum |-> sums, scaled_xor |-> xors,
                  expansion |-> <<>>]
        BY <4>1
      <4> HIDE DEF a, b
      <4>3. new = [leaf_cw |-> a, leaf_cfbit |-> b,
                   unit_sum_inverse |-> inverse, scaled_sum |-> sums, scaled_xor |-> xors,
                   expansion |-> g[p]]
        BY <4>1, <4>2
      <4> QED BY <4>3 DEF a, b
    <3> QED BY <3>1, <3>2
  <2> HIDE DEF li, new
  <2>4. new.leaf_cw = li.leaf_cw /\ new.leaf_cfbit = li.leaf_cfbit
    BY <2>3
  <2> QED BY <2>2, <2>3, <2>4
<1>7. new.leaf_cw = li.leaf_cw /\ new.leaf_cfbit = li.leaf_cfbit
  BY <1>2, <1>3 DEF Keeps, KeptOf
<1> HIDE DEF li, new
<1>8. Keeps(new, p, layer, g, d, TRUE)
  BY <1>3, <1>6, <1>7 DEF Keeps
<1>9. Expanded(k).maxdepth = k.maxdepth
  BY DEF Expanded, KeyWith
<1> QED BY <1>0, <1>8, <1>9 DEF new, layer, KeepsAt, LevelOf

\* What is kept of a level is a record whose expansion is there or not.
KeepsSome(li, p, e) == \E layer, g : \E d \in Nat : d >= 1 /\ Keeps(li, p, layer, g, d, e)

LEMMA RereadIs ==
    ASSUME NEW k, NEW p \in Halves, NEW words \in Nat, NEW leaves \in Nat,
           KeyShape(k, p, words, leaves), depth \in 1 .. 63, leaves = 1 \/ leaves = depth,
           k.curdepth = depth, NEW e \in BOOLEAN, \A i \in 1 .. leaves : KeepsSome(k.li[i], p, e)
    PROVE  ReadBack(Written(k)) = k
<1>1. PICK S : k \in KeyWith(S)
  BY DEF KeyShape
<1>2. /\ k.whichhalf = p /\ (get_lsb(k.seed) <=> p = 1) /\ k.maxdepth = depth /\ k.curdepth = depth
      /\ Len(k.li) = leaves /\ k.li \in Seq(S)
  BY <1>1 DEF KeyShape, KeyWith
<1> DEFINE n == IF Len(k.li) > 1 THEN k.maxdepth ELSE 1
<1>3. n = leaves /\ leaves >= 1
  BY <1>2
<1>4. ASSUME NEW i \in 1 .. leaves
      PROVE  /\ (k.li[i].expansion # <<>>) <=> e
             /\ ~ e => [k.li[i] EXCEPT !.expansion = <<>>] = k.li[i]
  <2> DEFINE li == k.li[i]
  <2>1. PICK layer, g : \E d \in Nat : d >= 1 /\ Keeps(li, p, layer, g, d, e)
    BY DEF KeepsSome
  <2>2. PICK d \in Nat : d >= 1 /\ Keeps(li, p, layer, g, d, e)
    BY <2>1
  <2> HIDE DEF li
  <2>3. (li.expansion # <<>>) <=> e
    BY <2>2, LeavesThere DEF KeptThere
  <2>4. ASSUME ~ e PROVE [li EXCEPT !.expansion = <<>>] = li
    <3> DEFINE a == li.leaf_cw
               b == li.leaf_cfbit
               inverse == inverse_value_t((LowSum(0, g[0]) + LowSum(1, g[1])) % Modulus)
               sums == [m \in 1 .. Width |-> ScaledSum(p, g[p], m)]
               xors == [m \in 1 .. Width |-> ScaledXor(g[p], m)]
    <3>1. li = [leaf_cw |-> a, leaf_cfbit |-> b, unit_sum_inverse |-> inverse,
                scaled_sum |-> sums, scaled_xor |-> xors, expansion |-> <<>>]
      BY <2>2, <2>4 DEF Keeps, KeptOf
    <3> HIDE DEF a, b, inverse, sums, xors
    <3> QED BY <3>1
  <2> QED BY <2>3, <2>4 DEF li
<1>5. Reread(k, n) = k.li
  <2>1. ASSUME NEW i \in 1 .. leaves
        PROVE  (IF k.li[1].expansion # <<>> THEN k.li[i]
                ELSE [k.li[i] EXCEPT !.expansion = <<>>]) = k.li[i]
    <3>1. 1 \in 1 .. leaves
      BY <1>3
    <3>2. (k.li[1].expansion # <<>>) <=> e
      BY <1>4, <3>1
    <3> QED BY <1>4, <3>2
  <2>2. Reread(k, n) = [i \in 1 .. leaves |-> k.li[i]]
    <3> HIDE DEF n
    <3> QED BY <1>3, <2>1 DEF Reread
  <2>3. k.li = [i \in 1 .. leaves |-> k.li[i]]
    BY <1>2
  <2> QED BY <2>2, <2>3
<1>6. k.maxdepth \in 1 .. 63
  BY <1>2
<1>7. ReadBack(Written(k)) =
        [seed |-> k.seed, whichhalf |-> IF get_lsb(k.seed) THEN 1 ELSE 0,
         maxdepth |-> k.maxdepth, curdepth |-> k.maxdepth,
         cw |-> k.cw, cfbits |-> k.cfbits, li |-> Reread(k, n)]
  BY <1>6, DepthByte
<1>8. (IF get_lsb(k.seed) THEN 1 ELSE 0) = k.whichhalf
  BY <1>2 DEF Halves
<1>9. k = [seed |-> k.seed, whichhalf |-> k.whichhalf, maxdepth |-> k.maxdepth,
           curdepth |-> k.curdepth, cw |-> k.cw, cfbits |-> k.cfbits, li |-> k.li]
  BY <1>1 DEF KeyWith
<1> HIDE DEF n
<1> QED BY <1>2, <1>5, <1>7, <1>8, <1>9

LEMMA WriteAndReadTrees ==
    ASSUME IInv, KeyState, TreesInv, WriteAndRead
    PROVE  KeyState' /\ TreesInv'
<1>1. /\ phase = "made" /\ phase' = "made"
      /\ UNCHANGED <<gen, depth, incremental, target, level, cur>>
  BY DEF WriteAndRead
<1>2. PICK expand \in BOOLEAN :
        /\ wrote' = [p \in Halves |-> IF expand THEN Expanded(key[p]) ELSE key[p]]
        /\ key' = [p \in Halves |-> ReadBack(Written(wrote'[p]))]
  BY DEF WriteAndRead
<1>3. PICK F, G, e :
        /\ e \in BOOLEAN /\ \A p \in Halves : cur[p] = F[p][Internal]
        /\ Trees(key, Internal, level, F, G, e)
  BY DEF TreesInv
<1>4. /\ depth \in 1 .. 63 /\ LeafLayers \in Nat /\ depth - 1 \in Nat
      /\ (LeafLayers = 1 \/ LeafLayers = depth)
      /\ \A p \in Halves : KeyShape(key[p], p, depth - 1, LeafLayers)
  BY <1>1, MadeShape
<1>5. /\ level = depth /\ Internal = depth - 1 /\ LeavesDone(level) = Leaflevels
      /\ \A d \in Leaflevels : /\ d \in Nat /\ d >= 1 /\ d <= depth /\ d <= MaxDepth
                               /\ depth - d + 1 \in 1 .. LeafLayers
      /\ \A i \in 1 .. LeafLayers : /\ depth - i + 1 \in Leaflevels
                                    /\ depth - (depth - i + 1) + 1 = i
  BY <1>1, PlacesOf
<1> DEFINE n == depth - 1
           ee == e \/ expand
<1>6. ee \in BOOLEAN
  OBVIOUS
<1>7. ASSUME NEW p \in Halves
      PROVE  /\ TreeOf(wrote'[p], F[p], n)
             /\ \A d \in Leaflevels : KeepsAt(wrote'[p], F[p], d, p, G[d], ee)
             /\ wrote'[p].curdepth = depth /\ wrote'[p].maxdepth = depth
             /\ KeyShape(wrote'[p], p, n, LeafLayers)
  <2> DEFINE k == key[p]
             w == wrote'[p]
             f == F[p]
  <2>1. PICK S : k \in KeyWith(S)
    BY <1>4 DEF KeyShape
  <2>2. k.curdepth = depth /\ k.maxdepth = depth /\ Len(k.li) = LeafLayers
    BY <1>1, <1>4 DEF KeyState, KeyShape
  <2>3. TreeOf(k, f, n)
    BY <1>3, <1>5 DEF Trees
  <2>4. KeyShape(k, p, n, LeafLayers) /\ n \in Nat
    BY <1>4
  <2>5. ASSUME NEW d \in Leaflevels PROVE KeepsAt(k, f, d, p, G[d], e)
    <3>1. Keeps(k.li[level - d + 1], p, f[d - 1], G[d], d, e)
      BY <1>3, <1>5 DEF Trees
    <3> HIDE DEF k, f
    <3>2. k.maxdepth \in Nat /\ k.maxdepth = level
      <4>1. depth \in Nat /\ level = depth /\ k.maxdepth = depth
        BY <1>4, <1>5, <2>2
      <4> QED BY <4>1
    <3> QED BY <3>1, <3>2 DEF KeepsAt, LevelOf
  <2>6. CASE ~ expand
    <3>1. w = k /\ ee = e
      BY <1>2, <1>3, <2>6
    <3> QED BY <2>2, <2>3, <2>4, <2>5, <3>1
  <2>7. CASE expand
    <3> DEFINE x == Expanded(k)
    <3>1. w = x /\ ee = TRUE
      BY <1>2, <1>3, <2>7
    <3>2. /\ x.curdepth = k.curdepth /\ x.maxdepth = k.maxdepth /\ x.seed = k.seed
          /\ x.cw = k.cw /\ x.cfbits = k.cfbits
      BY <2>1 DEF KeyWith, Expanded
    <3>3. SameWords(k, x, n)
      BY <3>2 DEF SameWords
    <3> HIDE DEF k, f, n, w, ee
    <3>4. KeyShape(x, p, n, LeafLayers)
      BY <1>4, <2>4, ExpandedShape
    <3>7. ASSUME NEW d \in Leaflevels PROVE KeepsAt(x, f, d, p, G[d], TRUE)
      <4> DEFINE g == G[d]
      <4>1. d \in Nat /\ d >= 1 /\ d <= n + 1 /\ d <= MaxDepth /\ k.maxdepth - d + 1 \in 1 .. Len(k.li)
        BY <1>4, <1>5, <2>2 DEF n
      <4>2. KeepsAt(k, f, d, p, g, e) /\ e \in BOOLEAN
        BY <1>3, <2>5
      <4> HIDE DEF g, x
      <4>3. KeepsAt(Expanded(k), f, d, p, g, TRUE)
        BY ONLY <2>1, <2>3, <2>4, <4>1, <4>2, ExpandedKeeps
      <4> QED BY <4>3 DEF g, x
    <3> HIDE DEF x
    <3>8. TreeOf(x, f, n)
      BY <2>3, <2>4, <3>3, SameTree
    <3>9. \A d \in Leaflevels : KeepsAt(w, f, d, p, G[d], ee)
      BY <3>1, <3>7
    <3>10. TreeOf(w, f, n) /\ w.curdepth = depth /\ w.maxdepth = depth /\ KeyShape(w, p, n, LeafLayers)
      BY <2>2, <3>1, <3>2, <3>4, <3>8
    <3> QED BY <3>9, <3>10 DEF w, f
  <2> QED BY <2>6, <2>7
<1> HIDE DEF n, ee
<1>8. ASSUME NEW p \in Halves PROVE key'[p] = wrote'[p]
  <2> DEFINE w == wrote'[p]
  <2>1. ASSUME NEW i \in 1 .. LeafLayers PROVE KeepsSome(w.li[i], p, ee)
    <3> DEFINE d == depth - i + 1
    <3>1. d \in Leaflevels /\ depth - d + 1 = i
      BY <1>5
    <3> HIDE DEF d
    <3>2. KeepsAt(w, F[p], d, p, G[d], ee) /\ w.maxdepth = depth /\ d \in Nat /\ d >= 1
      BY <1>5, <1>7, <3>1
    <3> HIDE DEF w
    <3>3. Keeps(w.li[i], p, F[p][d - 1], G[d], d, ee)
      BY <3>1, <3>2 DEF KeepsAt, LevelOf
    <3> QED BY <3>2, <3>3 DEF KeepsSome
  <2>2. key'[p] = ReadBack(Written(w))
    BY <1>2
  <2>3. KeyShape(w, p, n, LeafLayers) /\ n \in Nat /\ w.curdepth = depth
    BY <1>4, <1>7 DEF n
  <2> HIDE DEF w
  <2>4. ReadBack(Written(w)) = w
    BY <1>4, <1>6, <2>1, <2>3, RereadIs
  <2> QED BY <2>2, <2>4 DEF w
<1>9. key' = wrote'
  BY <1>2, <1>8
<1>10. Trees(key', Internal, level, F, G, ee)
  <2>1. ASSUME NEW d \in Leaflevels, NEW p \in Halves
        PROVE  Keeps(key'[p].li[level - d + 1], p, F[p][d - 1], G[d], d, ee)
    BY <1>5, <1>7, <1>8 DEF KeepsAt, LevelOf
  <2>2. \A p \in Halves : TreeOf(key'[p], F[p], Internal)
    BY <1>5, <1>7, <1>8 DEF n
  <2>3. \A d \in Leaflevels : Fits(G[d][0], G[d][1], Shl[d], TargetAt(d), TRUE)
    BY <1>3, <1>5 DEF Trees
  <2> QED BY <1>5, <2>1, <2>2, <2>3 DEF Trees
<1>11. KeyState'
  BY <1>1, <1>7, <1>8, <1>9 DEF KeyState
<1>12. PICK b \in BOOLEAN : b = ee
  BY <1>6
<1> QED BY <1>1, <1>3, <1>10, <1>11, <1>12, TreesStay

LEMMA NextTrees ==
    ASSUME IInv, KeyState, TreesInv, [Next]_vars
    PROVE  KeyState' /\ TreesInv'
<1>1. CASE CreateLevel
  BY <1>1, CreateLevelTrees
<1>2. CASE WriteAndRead
  BY <1>2, WriteAndReadTrees
<1>3. CASE StartEval
  BY <1>3, StartEvalTrees
<1>4. ASSUME UNCHANGED <<gen, depth, incremental, save_expansion, target, level, cur, key, wrote>>,
             phase # "levels", phase' \in {"eval", "done"}
      PROVE  KeyState' /\ TreesInv'
  <2>1. PICK F, G, e :
          /\ e \in BOOLEAN /\ \A p \in Halves : cur[p] = F[p][Internal]
          /\ Trees(key, Internal, level, F, G, e)
    BY DEF TreesInv
  <2>2. Trees(key', Internal, level, F, G, e)
    BY <1>4, <2>1
  <2>3. KeyState'
    BY <1>4 DEF KeyState
  <2> QED BY <1>4, <2>1, <2>2, <2>3, TreesStay
<1>5. CASE \E t \in 0 .. MaxThreads - 1 : Process(t)
  BY <1>4, <1>5 DEF Process
<1>6. CASE Join
  BY <1>4, <1>6 DEF Join
<1>7. CASE UNCHANGED vars
  <2>1. PICK F, G, e :
          /\ e \in BOOLEAN /\ (phase = "levels" => e = save_expansion)
          /\ \A p \in Halves : cur[p] = F[p][Internal]
          /\ Trees(key, Internal, level, F, G, e)
    BY DEF TreesInv
  <2>2. Internal' = Internal
    BY <1>7 DEF vars, Internal
  <2>3. Trees(key', Internal', level', F, G, e)
    BY <1>7, <2>1, <2>2 DEF vars
  <2>4. Trees(key, Internal, level, F, G, e)'
    BY <1>7, <2>3, TreesPrimed DEF vars
  <2>5. TreesInv'
    BY <1>7, <2>1, <2>2, <2>4 DEF vars, TreesInv
  <2> QED BY <1>7, <2>5 DEF vars, KeyState
<1> QED BY <1>1, <1>2, <1>3, <1>5, <1>6, <1>7 DEF Next

\* TreesInv, with the state of the keys, is an inductive invariant next to IInv.
THEOREM TreesInvariance == Spec => [](KeyState /\ TreesInv)
<1>1. Init => KeyState /\ TreesInv
  BY InitTrees
<1>2. IInv /\ (KeyState /\ TreesInv) /\ [Next]_vars => (KeyState /\ TreesInv)'
  BY NextTrees
<1> QED BY <1>1, <1>2, Invariance, PTL DEF Spec

-----------------------------------------------------------------------------
(* The vectors.                                                            *)

\* Key p at depth d, with the trees f below which it has the leaves g.
KeyAt(k, p, d, f, g, e) ==
    /\ TreeOf(k, f, depth - 1)
    /\ k.curdepth = d /\ k.maxdepth = depth /\ k.whichhalf = p
    /\ KeepsAt(k, f, d, p, g, e)

\* Each leaf of the key is the one of the layer, and what it keeps is the layer's.
HasLeaves(k, p, d, g, e) ==
    /\ \A i \in 0 .. Shl[d] - 1 : Leaf(k, i) = g[p][i]
    /\ g[p] \in [0 .. Shl[d] - 1 -> Leaves(TRUE)]
    /\ LI(k) = KeptOf(LI(k), p, g, e)
    /\ d <= MaxDepth => ExpandedLayer(k, d) = g[p]

LEMMA KeyLeaf ==
    ASSUME NEW k, NEW p, NEW d \in Nat, d >= 1, d <= depth, depth \in Nat, NEW f, NEW g,
           NEW e \in BOOLEAN, KeyAt(k, p, d, f, g, e)
    PROVE  HasLeaves(k, p, d, g, e)
<1> DEFINE n == depth - 1
<1>1. n \in Nat /\ d <= n + 1
  OBVIOUS
<1>2. TreeOf(k, f, n) /\ k.curdepth = d /\ KeepsAt(k, f, d, p, g, e)
  BY DEF KeyAt
<1>3. LI(k) = LevelOf(k, d)
  BY <1>2 DEF LI, LevelOf
<1> HIDE DEF n
<1>4. ASSUME NEW i \in 0 .. Shl[d] - 1 PROVE Leaf(k, i) = g[p][i]
  BY <1>1, <1>2, LeafIs
<1>5. LayerOf(k, f, d, p, g, e)
  BY <1>1, <1>2, LayerIs
<1> QED BY <1>2, <1>3, <1>4, <1>5 DEF LayerOf, KeptThere, KeepsAt, Keeps, HasLeaves

\* The keys of both parties at a depth.
LEMMA KeysAt ==
    ASSUME IInv, TreesInv, phase # "levels", NEW d \in Leaflevels
    PROVE  /\ depth \in Nat /\ d \in Nat /\ d >= 1 /\ d <= depth /\ d <= MaxDepth
           /\ \E F, g : \E e \in BOOLEAN :
                /\ Fits(g[0], g[1], Shl[d], TargetAt(d), TRUE)
                /\ \A p \in Halves : KeyAt(At(p, d), p, d, F[p], g, e)
<1>1. PICK F, G, e :
        /\ e \in BOOLEAN /\ \A p \in Halves : cur[p] = F[p][Internal]
        /\ Trees(key, Internal, level, F, G, e)
  BY DEF TreesInv
<1>2. /\ depth \in Nat /\ depth - 1 \in Nat
      /\ \A p \in Halves : KeyShape(key[p], p, depth - 1, LeafLayers)
  BY MadeShape
<1>3. /\ level = depth /\ Internal = depth - 1 /\ LeavesDone(level) = Leaflevels
      /\ d \in Nat /\ d >= 1 /\ d <= depth /\ d <= MaxDepth
  BY PlacesOf
<1>4. Fits(G[d][0], G[d][1], Shl[d], TargetAt(d), TRUE)
  BY <1>1, <1>3 DEF Trees
<1>5. ASSUME NEW p \in Halves PROVE KeyAt(At(p, d), p, d, F[p], G[d], e)
  <2> DEFINE k == key[p]
             m == At(p, d)
             f == F[p]
  <2>1. PICK S : k \in KeyWith(S)
    BY <1>2 DEF KeyShape
  <2>2. /\ m.seed = k.seed /\ m.cw = k.cw /\ m.cfbits = k.cfbits /\ m.li = k.li
        /\ m.curdepth = d /\ m.whichhalf = k.whichhalf /\ m.maxdepth = k.maxdepth
    BY <2>1 DEF KeyWith, At
  <2>3. k.whichhalf = p /\ k.maxdepth = depth
    BY <1>2 DEF KeyShape
  <2>4. TreeOf(k, f, depth - 1)
    BY <1>1, <1>3 DEF Trees
  <2>5. Keeps(k.li[level - d + 1], p, f[d - 1], G[d], d, e)
    BY <1>1, <1>3 DEF Trees
  <2>6. SameWords(k, m, depth - 1)
    BY <2>2 DEF SameWords
  <2> HIDE DEF k, m, f
  <2>7. TreeOf(m, f, depth - 1)
    <3> DEFINE n == depth - 1
    <3>1. n \in Nat /\ TreeOf(k, f, n) /\ SameWords(k, m, n)
      BY <1>2, <2>4, <2>6
    <3> HIDE DEF n
    <3>2. TreeOf(m, f, n)
      BY <3>1, SameTree
    <3> QED BY <3>2 DEF n
  <2>8. m.maxdepth \in Nat /\ m.maxdepth = level /\ m.whichhalf = p
    BY <1>2, <1>3, <2>2, <2>3
  <2>9. KeepsAt(m, f, d, p, G[d], e)
    BY <2>2, <2>5, <2>8 DEF KeepsAt, LevelOf
  <2> QED BY <1>3, <2>2, <2>7, <2>8, <2>9 DEF KeyAt, m, f
<1> QED BY <1>1, <1>2, <1>3, <1>4, <1>5

\* Storing keeps a key, and an expansion has the leaves that descending finds.
LEMMA ExpandsAll ==
    ASSUME IInv, KeyState, TreesInv
    PROVE  StoredAndExpanded
<1>1. ReadsWhatWasWritten
  BY DEF ReadsWhatWasWritten, KeyState
<1>2. ASSUME phase = "made", NEW p \in Halves, NEW d \in Leaflevels
      PROVE  LET k == [At(p, d) EXCEPT !.li = [i \in DOMAIN @ |-> [@[i] EXCEPT !.expansion = <<>>]]]
             IN  ExpandedLayer(k, d) = [i \in 0 .. Shl[d] - 1 |-> Leaf(k, i)]
  <2> DEFINE m == At(p, d)
             k == [m EXCEPT !.li = [i \in DOMAIN @ |-> [@[i] EXCEPT !.expansion = <<>>]]]
  <2>1. PICK F, g : \E e \in BOOLEAN :
          /\ Fits(g[0], g[1], Shl[d], TargetAt(d), TRUE)
          /\ \A q \in Halves : KeyAt(At(q, d), q, d, F[q], g, e)
    BY <1>2, KeysAt
  <2>2. PICK e \in BOOLEAN : KeyAt(m, p, d, F[p], g, e)
    BY <2>1
  <2>3. depth \in Nat /\ d \in Nat /\ d >= 1 /\ d <= depth /\ d <= MaxDepth
    BY <1>2, KeysAt
  <2>4. depth - d + 1 \in DOMAIN m.li
    <3>1. depth - d + 1 \in 1 .. LeafLayers
      BY <1>2, PlacesOf
    <3>2. KeyShape(key[p], p, depth - 1, LeafLayers)
      BY <1>2, MadeShape
    <3>3. PICK S : key[p] \in KeyWith(S)
      BY <3>2 DEF KeyShape
    <3>4. m.li = key[p].li /\ Len(key[p].li) = LeafLayers /\ key[p].li \in Seq(S)
      BY <3>2, <3>3 DEF KeyShape, KeyWith, At
    <3>5. DOMAIN key[p].li = 1 .. LeafLayers
      BY <3>4
    <3> QED BY <3>1, <3>4, <3>5
  <2>5. PICK S : m \in KeyWith(S)
    <3>1. KeyShape(key[p], p, depth - 1, LeafLayers)
      BY <1>2, MadeShape
    <3>2. PICK S : key[p] \in KeyWith(S)
      BY <3>1 DEF KeyShape
    <3>3. m \in KeyWith(S)
      BY <2>3, <3>2 DEF KeyWith, At
    <3> QED BY <3>3
  <2> HIDE DEF m
  <2>6. /\ k.seed = m.seed /\ k.cw = m.cw /\ k.cfbits = m.cfbits /\ k.curdepth = m.curdepth
        /\ k.maxdepth = m.maxdepth /\ k.whichhalf = m.whichhalf
        /\ k.li = [i \in DOMAIN m.li |-> [m.li[i] EXCEPT !.expansion = <<>>]]
    BY <2>5 DEF KeyWith
  <2> HIDE DEF k
  <2>7. m.maxdepth = depth /\ TreeOf(m, F[p], depth - 1) /\ KeepsAt(m, F[p], d, p, g, e) /\ m.curdepth = d
        /\ m.whichhalf = p
    BY <2>2 DEF KeyAt
  <2>8. LevelOf(k, d) = [LevelOf(m, d) EXCEPT !.expansion = <<>>]
    BY <2>4, <2>6, <2>7 DEF LevelOf
  <2>9. KeepsAt(k, F[p], d, p, g, FALSE)
    <3> DEFINE li == LevelOf(m, d)
               new == LevelOf(k, d)
               layer == F[p][d - 1]
    <3>1. Keeps(li, p, layer, g, d, e)
      BY <2>7 DEF KeepsAt
    <3>2. new = [li EXCEPT !.expansion = <<>>]
      BY <2>8
    <3> HIDE DEF li, new
    <3>3. new = KeptOf(new, p, g, FALSE) /\ new.leaf_cw = li.leaf_cw /\ new.leaf_cfbit = li.leaf_cfbit
      <4> DEFINE a == li.leaf_cw
                 b == li.leaf_cfbit
                 inverse == inverse_value_t((LowSum(0, g[0]) + LowSum(1, g[1])) % Modulus)
                 sums == [j \in 1 .. Width |-> ScaledSum(p, g[p], j)]
                 xors == [j \in 1 .. Width |-> ScaledXor(g[p], j)]
                 x == IF e THEN g[p] ELSE <<>>
      <4>1. li = [leaf_cw |-> a, leaf_cfbit |-> b, unit_sum_inverse |-> inverse,
                  scaled_sum |-> sums, scaled_xor |-> xors, expansion |-> x]
        BY <3>1 DEF Keeps, KeptOf
      <4>2. KeptOf(new, p, g, FALSE)
              = [leaf_cw |-> new.leaf_cw, leaf_cfbit |-> new.leaf_cfbit, unit_sum_inverse |-> inverse,
                 scaled_sum |-> sums, scaled_xor |-> xors, expansion |-> <<>>]
        BY DEF KeptOf
      <4> HIDE DEF a, b, inverse, sums, xors, x
      <4>3. new = [leaf_cw |-> a, leaf_cfbit |-> b, unit_sum_inverse |-> inverse,
                   scaled_sum |-> sums, scaled_xor |-> xors, expansion |-> <<>>]
        BY <3>2, <4>1
      <4>4. new.leaf_cw = a /\ new.leaf_cfbit = b
        BY <4>3
      <4> QED BY <4>2, <4>3, <4>4 DEF a, b
    <3>4. Keeps(new, p, layer, g, d, FALSE)
      BY <3>1, <3>3 DEF Keeps
    <3> QED BY <2>3, <2>6, <2>7, <3>4 DEF KeepsAt, new
  <2>10. TreeOf(k, F[p], depth - 1)
    <3> DEFINE n == depth - 1
               f == F[p]
    <3>1. n \in Nat /\ TreeOf(m, f, n) /\ SameWords(m, k, n)
      BY <2>3, <2>6, <2>7 DEF SameWords
    <3> HIDE DEF n, f
    <3>2. TreeOf(k, f, n)
      BY <3>1, SameTree
    <3> QED BY <3>2 DEF n, f
  <2>11. KeyAt(k, p, d, F[p], g, FALSE)
    BY <2>6, <2>7, <2>9, <2>10 DEF KeyAt
  <2>12. HasLeaves(k, p, d, g, FALSE)
    <3> DEFINE f == F[p]
    <3>1. KeyAt(k, p, d, f, g, FALSE)
      BY <2>11
    <3> HIDE DEF f
    <3> QED BY <2>3, <3>1, KeyLeaf
  <2>14. ExpandedLayer(k, d) = [i \in 0 .. Shl[d] - 1 |-> Leaf(k, i)]
    BY <2>3, <2>12 DEF HasLeaves
  <2> QED BY <2>14 DEF k, m
<1>3. ExpandsToLeaves
  BY <1>2 DEF ExpandsToLeaves
<1> QED BY <1>1, <1>3 DEF StoredAndExpanded

\* An RDPF read back is the one that was written, expanded or not, and its
\* expansions have the leaves that descending from the seed finds, at every leaf
\* level (expand_leaf_layer, leaf and the stream operators of rdpf.tcc).
THEOREM ExpandingChangesNothing == Spec => []StoredAndExpanded
<1>1. IInv /\ (KeyState /\ TreesInv) => StoredAndExpanded
  BY ExpandsAll
<1> QED BY <1>1, Invariance, TreesInvariance, PTL

\* The words of the parties' leaves are the same off the target.
LEMMA LeafWords ==
    ASSUME NEW N \in Nat, NEW F0, NEW F1, NEW u, Fits(F0, F1, N, u, TRUE)
    PROVE  /\ Cardinality(DOMAIN F0) = N /\ Cardinality(DOMAIN F1) = N
           /\ WordsOff(LowWords(F0), LowWords(F1), N, u)
           /\ (LowWords(F0)[u] % 2 = 1) # (LowWords(F1)[u] % 2 = 1)
           /\ \A j : WordsOff(ScaledWords(F0, j), ScaledWords(F1, j), N, u)
<1>1. /\ DOMAIN F0 = 0 .. N - 1 /\ DOMAIN F1 = 0 .. N - 1
      /\ u \in 0 .. N - 1 /\ \A i \in 0 .. N - 1 : i # u => F0[i] = F1[i]
      /\ (get_lsb(F0[u][1]) # get_lsb(F1[u][1]))
  BY DEF Fits, leaf_lsb
<1>2. Cardinality(0 .. N - 1) = N
  BY FS_Interval
<1>3. \A i \in Nat : i < N => i \in 0 .. N - 1
  OBVIOUS
<1>4. WordsOff(LowWords(F0), LowWords(F1), N, u)
  <2>1. \A i \in 0 .. N - 1 : /\ LowWords(F0)[i] = LowWord(F0[i][1])
                              /\ LowWords(F1)[i] = LowWord(F1[i][1])
    BY <1>1 DEF LowWords
  <2>2. \A i \in 0 .. N - 1 : LowWords(F0)[i] \in Words /\ LowWords(F1)[i] \in Words
    BY <2>1, WordType
  <2>3. \A i \in 0 .. N - 1 : i # u => LowWords(F0)[i] = LowWords(F1)[i]
    BY <1>1, <2>1
  <2> QED BY <1>1, <1>3, <2>2, <2>3 DEF WordsOff
<1>5. (LowWords(F0)[u] % 2 = 1) # (LowWords(F1)[u] % 2 = 1)
  <2>1. LowWords(F0)[u] = LowWord(F0[u][1]) /\ LowWords(F1)[u] = LowWord(F1[u][1])
    BY <1>1 DEF LowWords
  <2>2. /\ LowWord(F0[u][1]) % 2 = 1 <=> get_lsb(F0[u][1])
        /\ LowWord(F1[u][1]) % 2 = 1 <=> get_lsb(F1[u][1])
    BY WordType
  <2>3. /\ LowWords(F0)[u] % 2 = 1 <=> get_lsb(F0[u][1])
        /\ LowWords(F1)[u] % 2 = 1 <=> get_lsb(F1[u][1])
    BY <2>1, <2>2
  <2>4. ~ (get_lsb(F0[u][1]) <=> get_lsb(F1[u][1]))
    BY <1>1 DEF get_lsb
  <2>5. ~ ((LowWords(F0)[u] % 2 = 1) <=> (LowWords(F1)[u] % 2 = 1))
    BY ONLY <2>3, <2>4
  <2> QED BY ONLY <2>5
<1>6. ASSUME NEW j PROVE WordsOff(ScaledWords(F0, j), ScaledWords(F1, j), N, u)
  <2> DEFINE f == ScaledWords(F0, j)
             g == ScaledWords(F1, j)
  <2>1. \A i \in 0 .. N - 1 : f[i] = ScaledWord(F0[i], j) /\ g[i] = ScaledWord(F1[i], j)
    BY <1>1 DEF ScaledWords
  <2> HIDE DEF f, g
  <2>2. \A i \in 0 .. N - 1 : f[i] \in Words /\ g[i] \in Words
    BY <2>1, WordType
  <2>3. \A i \in 0 .. N - 1 : i # u => f[i] = g[i]
    BY <1>1, <2>1
  <2>4. WordsOff(f, g, N, u)
    BY <1>1, <1>3, <2>2, <2>3 DEF WordsOff
  <2> QED BY <2>4 DEF f, g
<1> QED BY <1>1, <1>2, <1>4, <1>5, <1>6

\* Two keys whose leaves are the parties' layers share the vectors.
SharesAt(k0, k1, i, u) ==
    /\ (unit_bs(k0, Leaf(k0, i)) # unit_bs(k1, Leaf(k1, i))) <=> (i = u)
    /\ (unit_as(k0, Leaf(k0, i)) + unit_as(k1, Leaf(k1, i))) % Modulus = IF i = u THEN 1 ELSE 0
SharesScaledAt(k0, k1, i, u, j) ==
    LET w0 == ScaledWord(Leaf(k0, i), j)
        w1 == ScaledWord(Leaf(k1, i), j)
        onTarget(v) == IF i = u THEN v ELSE 0
    IN  /\ (w0 + Signed(1, w1)) % Modulus
             = onTarget((LI(k0).scaled_sum[j] + LI(k1).scaled_sum[j]) % Modulus)
        /\ xor(w0, w1) = onTarget(xor(LI(k0).scaled_xor[j], LI(k1).scaled_xor[j]))

LEMMA KeysShare ==
    ASSUME NEW k0, NEW k1, k0.whichhalf = 0, k1.whichhalf = 1, NEW d \in Nat, NEW u,
           NEW g, Fits(g[0], g[1], Shl[d], u, TRUE), NEW e \in BOOLEAN,
           HasLeaves(k0, 0, d, g, e), HasLeaves(k1, 1, d, g, e), NEW i \in 0 .. Shl[d] - 1
    PROVE  /\ SharesAt(k0, k1, i, u)
           /\ \A j \in 1 .. Width : SharesScaledAt(k0, k1, i, u, j)
<1> DEFINE N == Shl[d]
           F0 == g[0]
           F1 == g[1]
<1>1. N \in Nat /\ i \in 0 .. N - 1 /\ Fits(F0, F1, N, u, TRUE)
  BY ShlFacts
<1>2. Leaf(k0, i) = F0[i] /\ Leaf(k1, i) = F1[i]
  BY DEF HasLeaves
<1>3. /\ LI(k0) = KeptOf(LI(k0), 0, g, e)
      /\ LI(k1) = KeptOf(LI(k1), 1, g, e)
  BY DEF HasLeaves
<1> DEFINE v == inverse_value_t((LowSum(0, F0) + LowSum(1, F1)) % Modulus)
<1>4. LI(k0).unit_sum_inverse = v /\ LI(k1).unit_sum_inverse = v
  BY <1>3 DEF KeptOf
<1>5. \A j \in 1 .. Width :
        /\ LI(k0).scaled_sum[j] = ScaledSum(0, F0, j) /\ LI(k1).scaled_sum[j] = ScaledSum(1, F1, j)
        /\ LI(k0).scaled_xor[j] = ScaledXor(F0, j) /\ LI(k1).scaled_xor[j] = ScaledXor(F1, j)
  <2>1. \A j \in 1 .. Width :
          LI(k0).scaled_sum[j] = ScaledSum(0, F0, j) /\ LI(k0).scaled_xor[j] = ScaledXor(F0, j)
    <3> DEFINE a == LI(k0)
               sums == [j \in 1 .. Width |-> ScaledSum(0, F0, j)]
               xors == [j \in 1 .. Width |-> ScaledXor(F0, j)]
    <3>1. a.scaled_sum = sums /\ a.scaled_xor = xors
      BY <1>3 DEF KeptOf
    <3> QED BY <3>1
  <2>2. \A j \in 1 .. Width :
          LI(k1).scaled_sum[j] = ScaledSum(1, F1, j) /\ LI(k1).scaled_xor[j] = ScaledXor(F1, j)
    <3> DEFINE a == LI(k1)
               sums == [j \in 1 .. Width |-> ScaledSum(1, F1, j)]
               xors == [j \in 1 .. Width |-> ScaledXor(F1, j)]
    <3>1. a.scaled_sum = sums /\ a.scaled_xor = xors
      BY <1>3 DEF KeptOf
    <3> QED BY <3>1
  <2> QED BY <2>1, <2>2
<1>6. leaf_lsb(F0[i]) # leaf_lsb(F1[i]) <=> i = u
  BY <1>1 DEF Fits
<1> HIDE DEF N, F0, F1
<1>7. /\ Cardinality(DOMAIN F0) = N /\ Cardinality(DOMAIN F1) = N
      /\ WordsOff(LowWords(F0), LowWords(F1), N, u)
      /\ (LowWords(F0)[u] % 2 = 1) # (LowWords(F1)[u] % 2 = 1)
      /\ \A j : WordsOff(ScaledWords(F0, j), ScaledWords(F1, j), N, u)
  BY <1>1, LeafWords
<1>8. DOMAIN F0 = 0 .. N - 1 /\ DOMAIN F1 = 0 .. N - 1
  BY <1>1 DEF Fits
<1>9. SharesAt(k0, k1, i, u)
  <2> DEFINE a == LowWords(F0)
             b == LowWords(F1)
  <2>1. a[i] = LowWord(F0[i][1]) /\ b[i] = LowWord(F1[i][1])
    BY <1>1, <1>8 DEF LowWords
  <2>2. v = inverse_value_t((Signed(0, SumOf(a, N)) + Signed(1, SumOf(b, N))) % Modulus)
    BY <1>7 DEF LowSum
  <2>3. /\ unit_as(k0, Leaf(k0, i)) = (Signed(0, a[i]) * v) % Modulus
        /\ unit_as(k1, Leaf(k1, i)) = (Signed(1, b[i]) * v) % Modulus
    <3> HIDE DEF v, a, b
    <3>1. LI(k0).unit_sum_inverse = v /\ LI(k1).unit_sum_inverse = v
      BY <1>4
    <3> QED BY <1>2, <2>1, <3>1 DEF unit_as
  <2>4. WordsOff(a, b, N, u) /\ ((a[u] % 2 = 1) # (b[u] % 2 = 1))
    BY <1>7
  <2> HIDE DEF a, b, v
  <2>5. (((Signed(0, a[i]) * v) % Modulus) + ((Signed(1, b[i]) * v) % Modulus)) % Modulus
          = IF i = u THEN 1 ELSE 0
    BY ONLY <1>1, <2>2, <2>4, UnitShares
  <2> QED BY <1>2, <1>6, <2>3, <2>5 DEF SharesAt, unit_bs
<1>10. ASSUME NEW j \in 1 .. Width PROVE SharesScaledAt(k0, k1, i, u, j)
  <2> DEFINE a == ScaledWords(F0, j)
             b == ScaledWords(F1, j)
  <2>1. a[i] = ScaledWord(F0[i], j) /\ b[i] = ScaledWord(F1[i], j)
    BY <1>1, <1>8 DEF ScaledWords
  <2>2. /\ ScaledSum(0, F0, j) = Signed(0, SumOf(a, N)) /\ ScaledSum(1, F1, j) = Signed(1, SumOf(b, N))
        /\ ScaledXor(F0, j) = XorOf(a, N) /\ ScaledXor(F1, j) = XorOf(b, N)
    BY <1>7 DEF ScaledSum, ScaledXor
  <2>3. WordsOff(a, b, N, u)
    BY <1>7
  <2> HIDE DEF a, b
  <2>4. /\ (a[i] + Signed(1, b[i])) % Modulus =
             IF i = u THEN (Signed(0, SumOf(a, N)) + Signed(1, SumOf(b, N))) % Modulus ELSE 0
        /\ xor(a[i], b[i]) = IF i = u THEN xor(XorOf(a, N), XorOf(b, N)) ELSE 0
    BY ONLY <1>1, <2>3, SumShares
  <2> QED BY <1>2, <1>5, <2>1, <2>2, <2>4 DEF SharesScaledAt
<1> QED BY <1>9, <1>10

LEMMA SharesAll ==
    ASSUME IInv, KeyState, TreesInv
    PROVE  SharesVectors
<1>1. ASSUME Made, NEW d \in Leaflevels, NEW i \in 0 .. Shl[d] - 1
      PROVE  /\ SharesAt(At(0, d), At(1, d), i, TargetAt(d))
             /\ \A j \in 1 .. Width : SharesScaledAt(At(0, d), At(1, d), i, TargetAt(d), j)
  <2>1. PICK F, g : \E e \in BOOLEAN :
          /\ Fits(g[0], g[1], Shl[d], TargetAt(d), TRUE)
          /\ \A p \in Halves : KeyAt(At(p, d), p, d, F[p], g, e)
    BY <1>1, KeysAt DEF Made
  <2>2. PICK e \in BOOLEAN : /\ Fits(g[0], g[1], Shl[d], TargetAt(d), TRUE)
                             /\ \A p \in Halves : KeyAt(At(p, d), p, d, F[p], g, e)
    BY <2>1
  <2>3. depth \in Nat /\ d \in Nat /\ d >= 1 /\ d <= depth
    BY <1>1, KeysAt DEF Made
  <2>4. ASSUME NEW p \in Halves PROVE At(p, d).whichhalf = p /\ HasLeaves(At(p, d), p, d, g, e)
    <3> DEFINE f == F[p]
               k == At(p, d)
    <3>1. KeyAt(k, p, d, f, g, e)
      BY <2>2
    <3> HIDE DEF f, k
    <3>2. HasLeaves(k, p, d, g, e)
      BY <2>3, <3>1, KeyLeaf
    <3> QED BY <3>1, <3>2 DEF KeyAt, k
  <2> DEFINE k0 == At(0, d)
             k1 == At(1, d)
             u == TargetAt(d)
  <2>5. /\ k0.whichhalf = 0 /\ k1.whichhalf = 1 /\ Fits(g[0], g[1], Shl[d], u, TRUE)
        /\ HasLeaves(k0, 0, d, g, e) /\ HasLeaves(k1, 1, d, g, e)
    BY <2>2, <2>4 DEF Halves
  <2> HIDE DEF k0, k1, u
  <2>6. SharesAt(k0, k1, i, u) /\ \A j \in 1 .. Width : SharesScaledAt(k0, k1, i, u, j)
    BY <2>3, <2>5, KeysShare
  <2> QED BY <2>6 DEF k0, k1, u
<1>2. SharesUnitVector
  BY <1>1 DEF SharesUnitVector, SharesAt
<1>3. SharesScaledVector
  BY <1>1 DEF SharesScaledVector, SharesScaledAt
<1> QED BY <1>2, <1>3 DEF SharesVectors

\* At every leaf level an RDPF shares the unit vector of its target, bitwise and,
\* by the inverse of the odd sum of the low words, additively, and for each of
\* the values it can update the vector that is zero but at the target, where it
\* is the scaling value shared by the sums and the XORs (RDPF::RDPF and
\* finalize_leaf_layer, unit_bs, unit_as, scaled_rs and scaled_xs).
THEOREM SharesTheTarget == Spec => []SharesVectors
<1>1. IInv /\ (KeyState /\ TreesInv) => SharesVectors
  BY SharesAll
<1> QED BY <1>1, Invariance, TreesInvariance, PTL
-----------------------------------------------------------------------------
(* The streams of an evaluation.                                           *)

\* The stream that is at x and has a path to q: before x, or x at the start.
StreamOf(k, x, q, o) ==
    [nextindex |-> x, pathindex |-> q, offset |-> o,
     path |-> IF LI(k).expansion # <<>> THEN <<>> ELSE PathTo(k, k.curdepth, xor(q, o))]
ComesNext(x, q, size) == x = q \/ x = q + 1 \/ (x = 0 /\ q = size - 1)

LEMMA XorOfBits ==
    ASSUME NEW a \in {0, 1}, NEW b \in {0, 1}
    PROVE  xor(a, b) = (a + b) % 2
<1>1. WordBits - 1 \in Nat /\ (WordBits - 1) + 1 = WordBits
  BY Sizes
<1>2. a \in Nat /\ b \in Nat /\ a \div 2 = 0 /\ b \div 2 = 0
  OBVIOUS
<1>3. Xor(WordBits - 1, 0, 0) = 0
  <2>1. 0 < Pow2[WordBits - 1]
    BY <1>1, Pow2Facts
  <2> QED BY <1>1, <2>1, XorSelf
<1>4. Xor((WordBits - 1) + 1, a, b) = 2 * Xor(WordBits - 1, a \div 2, b \div 2) + ((a + b) % 2)
  BY <1>1, <1>2, XorStep
<1>5. xor(a, b) = Xor((WordBits - 1) + 1, a, b)
  BY <1>1, Binary DEF xor, Xor
<1>6. (a + b) % 2 \in Nat
  OBVIOUS
<1> QED BY <1>2, <1>3, <1>4, <1>5, <1>6

\* The ways of x and q, moved by an offset, part where x and q do.
LEMMA OffsetNear ==
    ASSUME NEW d \in Nat, d >= 1, d <= MaxDepth,
           NEW x \in Nat, x < Shl[d], NEW q \in Nat, q < Shl[d], NEW o \in Nat, o < Shl[d],
           NEW z \in Nat, z < d, Carry(x, q, z)
    PROVE  Near(xor(q, o), xor(x, o), d, z, xor(Bit(x, z), Bit(o, z)), o)
<1> DEFINE a == xor(q, o)
           b == xor(x, o)
<1>1. WordBits \in Nat /\ d <= WordBits
  BY Sizes
<1>2. a = Xor(WordBits, q, o) /\ b = Xor(WordBits, x, o)
  BY Binary DEF xor, Xor
<1> HIDE DEF a, b
<1>3. ASSUME NEW s \in Nat, s > z, s <= d PROVE a \div Shl[s] = b \div Shl[s]
  <2>1. z + 1 \in Nat /\ z + 1 <= s /\ WordBits - s \in Nat /\ (WordBits - s) + s = WordBits
    BY <1>1, <1>3
  <2>2. x \div Pow2[s] = q \div Pow2[s]
    BY <2>1, SameAbove DEF Carry
  <2> DEFINE m == WordBits - s
  <2>3. m \in Nat /\ m + s = WordBits
    BY <2>1
  <2> HIDE DEF m
  <2>4. \A v \in Nat : Xor(m + s, v, o) \div Pow2[s] = Xor(m, v \div Pow2[s], o \div Pow2[s])
    BY ONLY <2>3, s \in Nat, o \in Nat, XorQuotient
  <2> QED BY <1>2, <2>2, <2>3, <2>4, Binary
<1>4. ASSUME NEW s \in Nat, s < d PROVE Bit(b, s) = (Bit(x, s) + Bit(o, s)) % 2
  <2>1. s < WordBits
    BY <1>1, <1>4
  <2>2. Digit(Xor(WordBits, x, o), s) = (Digit(x, s) + Digit(o, s)) % 2
    BY <1>1, <2>1, XorDigit
  <2> QED BY <1>2, <2>2, Binary
<1>5. \A s \in Nat : Bit(x, s) \in {0, 1} /\ Bit(o, s) \in {0, 1}
  BY NextQuotient
<1>6. xor(Bit(x, z), Bit(o, z)) = Bit(b, z)
  BY <1>4, <1>5, XorOfBits
<1>7. ASSUME NEW s \in Nat, s >= 1, s < z PROVE Bit(o, s) = Bit(b, s)
  <2>1. Bit(x, s) = 0
    BY <1>7, Binary DEF Carry
  <2>2. Bit(b, s) = (Bit(x, s) + Bit(o, s)) % 2 /\ Bit(o, s) \in {0, 1}
    BY <1>4, <1>5, <1>7
  <2> QED BY <2>1, <2>2
<1>8. z <= d - 1
  OBVIOUS
<1>9. Near(a, b, d, z, xor(Bit(x, z), Bit(o, z)), o)
  BY <1>3, <1>6, <1>7, <1>8 DEF Near
<1> QED BY <1>9 DEF a, b

\* So a path is moved to the next leaf, whether the range wraps around or not.
Branch(x, q) == popcountl(2 * (xor(x, q) \div 2))
LEMMA NextNear ==
    ASSUME NEW d \in Nat, d >= 1, d <= MaxDepth,
           NEW x \in Nat, x < Shl[d], NEW q \in Nat, q < Shl[d], NEW o \in Nat, o < Shl[d],
           ComesNext(x, q, Shl[d])
    PROVE  Near(xor(q, o), xor(x, o), d, Branch(x, q),
                xor(Bit(x, Branch(x, q)), Bit(o, Branch(x, q))), o)
<1> DEFINE y == 2 * (xor(x, q) \div 2)
<1>1. WordBits \in Nat /\ d <= WordBits
  BY Sizes
<1>2. xor(x, q) \in Nat
  BY <1>1, XorRange, Binary DEF xor, Xor
<1>3. y \in Nat /\ y % 2 = 0 /\ y \div 2 = xor(x, q) \div 2
  BY <1>2
<1>4. ASSUME NEW z \in Nat, z < d, Carry(x, q, z)
      PROVE  Near(xor(q, o), xor(x, o), d, Branch(x, q),
                  xor(Bit(x, Branch(x, q)), Bit(o, Branch(x, q))), o)
  <2> HIDE DEF y
  <2>1. popcountl(y) = z
    BY <1>3, <1>4, PartsAt
  <2>2. Branch(x, q) = z
    BY <2>1 DEF Branch, y
  <2>3. Near(xor(q, o), xor(x, o), d, z, xor(Bit(x, z), Bit(o, z)), o)
    BY <1>4, OffsetNear
  <2> QED BY <2>2, <2>3
<1>5. CASE x = q
  <2>1. xor(x, q) = 0
    <3>1. x < Pow2[WordBits]
      BY <1>1, Binary, BelowNext
    <3>2. Xor(WordBits, x, x) = 0
      BY <1>1, <3>1, XorSelf
    <3> QED BY <1>5, <3>2, Binary DEF xor, Xor
  <2>2. y = 0
    BY <2>1
  <2>3. Branch(x, q) = 0
    <3>1. Pow2[0] = 1
      BY Pow2Facts
    <3>2. \A b \in 0 .. MaxDepth : Digit(0, b) = 0
      BY Sizes, <3>1, BelowNext
    <3>3. {b \in 0 .. MaxDepth : Bit(0, b) = 1} = {}
      BY <3>2, Binary
    <3>4. popcountl(0) = 0
      BY <3>3, FS_EmptySet DEF popcountl
    <3> QED BY <2>2, <3>4 DEF Branch
  <2>4. ~ \E s \in Nat : s >= 1 /\ s < 0
    OBVIOUS
  <2> HIDE DEF y
  <2>5. 0 <= d - 1 /\ ~ (0 >= 1)
    OBVIOUS
  <2>6. \A dir : Near(xor(q, o), xor(x, o), d, 0, dir, o)
    BY <1>5, <2>4, <2>5 DEF Near
  <2> QED BY <2>3, <2>6
<1>6. CASE x = q + 1
  <2>1. 0 < x /\ q = x - 1 /\ x < Pow2[d]
    BY <1>6, Binary
  <2>2. PICK z : CarriesAt(x, q, z, d)
    BY <2>1, CarryExists
  <2> QED BY <1>4, <2>2 DEF CarriesAt
<1>7. CASE x = 0 /\ q = Shl[d] - 1
  <2> DEFINE e == d - 1
  <2>1. e \in Nat /\ e + 1 = d /\ e < d
    OBVIOUS
  <2> HIDE DEF e
  <2>2. Carry(0, Pow2[e + 1] - 1, e)
    BY <2>1, CarryWraps
  <2>3. Carry(x, q, e)
    BY <1>7, <2>1, <2>2, Binary
  <2> QED BY <1>4, <2>1, <2>3
<1> QED BY <1>5, <1>6, <1>7 DEF ComesNext

\* An evaluation's key.
StreamKey(k, d, f) ==
    /\ depth \in Nat /\ d \in Nat /\ d >= 1 /\ d <= depth /\ d <= MaxDepth
    /\ TreeOf(k, f, depth - 1) /\ k.curdepth = d

LEMMA StreamBegins ==
    ASSUME NEW k, NEW start, NEW offset
    PROVE  StreamStart(k, start, offset)
             = StreamOf(k, start % Shl[k.curdepth], start % Shl[k.curdepth], offset % Shl[k.curdepth])
BY DEF StreamStart, StreamOf

\* A stream outputs the leaf of its place, moved by the offset, and goes on.
LEMMA StreamGoesOn ==
    ASSUME NEW k, NEW d, NEW f, StreamKey(k, d, f),
           NEW x \in 0 .. Shl[d] - 1, NEW q \in 0 .. Shl[d] - 1, NEW o \in 0 .. Shl[d] - 1,
           ComesNext(x, q, Shl[d])
    PROVE  StreamNext(k, StreamOf(k, x, q, o))
             = [leaf |-> Leaf(k, xor(x, o)), s |-> StreamOf(k, (x + 1) % Shl[d], x, o)]
<1> DEFINE n == depth - 1
           s == StreamOf(k, x, q, o)
           ones == Branch(x, q)
           dir == xor(Bit(x, ones), Bit(o, ones))
           v == xor(x, o)
           w == xor(q, o)
           next == (x + 1) % Shl[d]
<1>1. /\ depth \in Nat /\ d \in Nat /\ d >= 1 /\ d <= depth /\ d <= MaxDepth
      /\ n \in Nat /\ d <= n + 1 /\ TreeOf(k, f, n) /\ k.curdepth = d
  BY DEF StreamKey
<1>2. Shl[d] \in Nat /\ Shl[d] > 0
  BY <1>1, ShlFacts
<1>3. x \in Nat /\ x < Shl[d] /\ q \in Nat /\ q < Shl[d] /\ o \in Nat /\ o < Shl[d]
  BY <1>2
<1>4. v \in Nat /\ v < Shl[d] /\ v \in 0 .. Shl[d] - 1 /\ w \in Nat /\ w < Shl[d]
  <2>1. WordBits \in Nat /\ d <= WordBits
    BY <1>1, Sizes
  <2>2. Xor(WordBits, x, o) \in Nat /\ Xor(WordBits, x, o) < Pow2[d]
    BY <1>1, <1>3, <2>1, Binary, XorBelow
  <2>3. Xor(WordBits, q, o) \in Nat /\ Xor(WordBits, q, o) < Pow2[d]
    BY <1>1, <1>3, <2>1, Binary, XorBelow
  <2>4. v \in Nat /\ v < Shl[d] /\ w \in Nat /\ w < Shl[d]
    BY <2>2, <2>3, Binary DEF xor, Xor
  <2> HIDE DEF v, w
  <2> QED BY <1>2, <2>4
<1>5. Near(w, v, d, ones, dir, o)
  BY <1>1, <1>3, NextNear
<1> HIDE DEF n, ones, dir, v, w
<1>7. s.nextindex = x /\ s.pathindex = q /\ s.offset = o
      /\ s.path = IF LI(k).expansion # <<>> THEN <<>> ELSE PathTo(k, d, w)
  BY <1>1 DEF StreamOf, w
<1>8. CASE LI(k).expansion # <<>>
  <2>1. StreamNext(k, s) = [leaf |-> LI(k).expansion[v],
                            s |-> [s EXCEPT !.nextindex = (@ + 1) % Shl[d], !.pathindex = s.nextindex]]
    <3> HIDE DEF s
    <3> QED BY <1>1, <1>7, <1>8 DEF StreamNext, v
  <2>2. [s EXCEPT !.nextindex = (@ + 1) % Shl[d], !.pathindex = s.nextindex] = StreamOf(k, next, x, o)
    <3>1. s = [nextindex |-> x, pathindex |-> q, offset |-> o, path |-> <<>>]
      BY <1>8 DEF StreamOf
    <3>2. StreamOf(k, next, x, o) = [nextindex |-> next, pathindex |-> x, offset |-> o, path |-> <<>>]
      BY <1>8 DEF StreamOf
    <3> DEFINE e == [s EXCEPT !.nextindex = (@ + 1) % Shl[d], !.pathindex = s.nextindex]
    <3>3. e = [s EXCEPT !.nextindex = (@ + 1) % Shl[d], !.pathindex = s.nextindex]
      OBVIOUS
    <3> HIDE DEF s, e
    <3>4. e = [nextindex |-> (x + 1) % Shl[d], pathindex |-> x, offset |-> o, path |-> <<>>]
      BY <3>1, <3>3
    <3>5. e = StreamOf(k, next, x, o)
      BY <3>2, <3>4
    <3> QED BY <3>3, <3>5
  <2>3. Leaf(k, v) = LI(k).expansion[v]
    BY <1>8 DEF Leaf
  <2> QED BY <2>1, <2>2, <2>3 DEF v
<1>9. CASE ~ (LI(k).expansion # <<>>)
  <2> DEFINE moved == Moved(k, d, s.path, ones, dir, o)
  <2>1. s.path = Way(f, d, w)
    <3>1. PathTo(k, d, w) = Way(f, d, w)
      BY <1>1, <1>4, PathIs
    <3> QED BY <1>7, <1>9, <3>1
  <2>2. moved = Way(f, d, v)
    <3>1. Moved(k, d, Way(f, d, w), ones, dir, o) = Way(f, d, v)
      BY <1>1, <1>4, <1>5, MovedIs
    <3> QED BY <2>1, <3>1
  <2>3. moved = PathTo(k, d, v)
    <3>1. PathTo(k, d, v) = Way(f, d, v)
      BY <1>1, <1>4, PathIs
    <3> QED BY <2>2, <3>1
  <2>4. StreamNext(k, s)
          = [leaf |-> DescendToLeaf(k, moved[d - 1], d - 1, v % 2),
             s |-> [[s EXCEPT !.nextindex = (@ + 1) % Shl[d], !.pathindex = s.nextindex]
                      EXCEPT !.path = moved]]
    <3> HIDE DEF s
    <3> QED BY <1>1, <1>7, <1>9 DEF StreamNext, v, ones, dir, Branch
  <2> HIDE DEF moved
  <2>5. [[s EXCEPT !.nextindex = (@ + 1) % Shl[d], !.pathindex = s.nextindex] EXCEPT !.path = moved]
          = StreamOf(k, next, x, o)
    <3> DEFINE P == s.path
    <3>1. s = [nextindex |-> x, pathindex |-> q, offset |-> o, path |-> P]
      BY DEF StreamOf
    <3>2. StreamOf(k, next, x, o) = [nextindex |-> next, pathindex |-> x, offset |-> o, path |-> moved]
      BY <1>1, <1>9, <2>3 DEF StreamOf, v
    <3> DEFINE e == [[s EXCEPT !.nextindex = (@ + 1) % Shl[d], !.pathindex = s.nextindex]
                       EXCEPT !.path = moved]
    <3>3. e = [[s EXCEPT !.nextindex = (@ + 1) % Shl[d], !.pathindex = s.nextindex]
                 EXCEPT !.path = moved]
      OBVIOUS
    <3> HIDE DEF P, s, e
    <3>4. e = [nextindex |-> (x + 1) % Shl[d], pathindex |-> x, offset |-> o, path |-> moved]
      BY <3>1, <3>3
    <3>5. e = StreamOf(k, next, x, o)
      BY <3>2, <3>4
    <3> QED BY <3>3, <3>5
  <2>6. Leaf(k, v) = DescendToLeaf(k, moved[d - 1], d - 1, v % 2)
    BY <1>1, <1>9, <2>3 DEF Leaf
  <2> QED BY <2>4, <2>5, <2>6 DEF v
<1> QED BY <1>8, <1>9
-----------------------------------------------------------------------------
(* The chunks of the threads.                                              *)

\* The chunks follow each other, from 0 to n.
ChunksFollow(n, nthreads, t) ==
    /\ ChunkStart(n, nthreads, t) \in Nat /\ ChunkSize(n, nthreads, t) \in Nat
    /\ ChunkStart(n, nthreads, t + 1) = ChunkStart(n, nthreads, t) + ChunkSize(n, nthreads, t)

LEMMA ChunkSteps ==
    ASSUME NEW n \in Nat, NEW nthreads \in Nat, nthreads > 0
    PROVE  /\ ChunkStart(n, nthreads, 0) = 0 /\ ChunkStart(n, nthreads, nthreads) = n
           /\ \A t \in Nat : ChunksFollow(n, nthreads, t)
<1> DEFINE b == n \div nthreads
           r == n % nthreads
<1>1. b \in Nat /\ r \in Nat /\ r < nthreads /\ n = b * nthreads + r
  BY QuotientOf
<1>2. \A t : /\ ChunkStart(n, nthreads, t) = t * b + (IF t < r THEN t ELSE r)
             /\ ChunkSize(n, nthreads, t) = b + (IF t < r THEN 1 ELSE 0)
  BY DEF ChunkStart, ChunkSize
<1> HIDE DEF b, r
<1>3. ChunkStart(n, nthreads, 0) = 0 /\ ChunkStart(n, nthreads, nthreads) = n
  <2>1. 0 * b = 0 /\ nthreads * b = b * nthreads
    BY <1>1
  <2>2. (IF 0 < r THEN 0 ELSE r) = 0 /\ (IF nthreads < r THEN nthreads ELSE r) = r
    BY <1>1
  <2> QED BY <1>1, <1>2, <2>1, <2>2
<1>4. ASSUME NEW t \in Nat PROVE ChunksFollow(n, nthreads, t)
  <2> DEFINE tb == t * b
  <2>1. tb \in Nat /\ (t + 1) * b = tb + b
    BY <1>1
  <2>2. /\ ChunkStart(n, nthreads, t) = tb + (IF t < r THEN t ELSE r)
        /\ ChunkStart(n, nthreads, t + 1) = (t + 1) * b + (IF t + 1 < r THEN t + 1 ELSE r)
        /\ ChunkSize(n, nthreads, t) = b + (IF t < r THEN 1 ELSE 0)
    BY <1>2
  <2> DEFINE a == ChunkStart(n, nthreads, t)
             c == ChunkStart(n, nthreads, t + 1)
             z == ChunkSize(n, nthreads, t)
  <2>3. ChunksFollow(n, nthreads, t) <=> a \in Nat /\ z \in Nat /\ c = a + z
    BY DEF ChunksFollow
  <2> HIDE DEF tb, a, c, z
  <2>4. CASE t < r
    <3>1. a = tb + t /\ z = b + 1 /\ c = (tb + b) + (t + 1)
      BY <1>1, <2>1, <2>2, <2>4 DEF a, c, z
    <3> QED BY <1>1, <2>1, <2>3, <3>1
  <2>5. CASE ~ (t < r)
    <3>1. a = tb + r /\ z = b /\ c = (tb + b) + r
      BY <1>1, <2>1, <2>2, <2>5 DEF a, c, z
    <3> QED BY <1>1, <2>1, <2>3, <3>1
  <2> QED BY <2>4, <2>5
<1> QED BY <1>3, <1>4

\* A place of the range is in the chunk of a thread, and a chunk is in the range.
InChunk(n, nthreads, t, i) ==
    ChunkStart(n, nthreads, t) <= i
      /\ i < ChunkStart(n, nthreads, t) + ChunkSize(n, nthreads, t)

LEMMA ChunksCover ==
    ASSUME NEW n \in Nat, NEW nthreads \in Nat, nthreads > 0
    PROVE  /\ \A i \in 0 .. n - 1 : \E t \in 0 .. nthreads - 1 : InChunk(n, nthreads, t, i)
           /\ \A t \in 0 .. nthreads - 1 :
                ChunkStart(n, nthreads, t) + ChunkSize(n, nthreads, t) <= n
<1> DEFINE Start(t) == ChunkStart(n, nthreads, t)
           S == {t \in Nat : \A i \in Nat : i < Start(t) =>
                                \E u \in Nat : u < t /\ InChunk(n, nthreads, u, i)}
           T == {k \in Nat : k <= nthreads => Start(nthreads - k) <= n}
<1>1. Start(0) = 0 /\ Start(nthreads) = n /\ \A t \in Nat : ChunksFollow(n, nthreads, t)
  BY ChunkSteps
<1> HIDE DEF Start
<1>2. \A t \in Nat : Start(t) \in Nat /\ Start(t) <= Start(t + 1)
                      /\ Start(t + 1) = Start(t) + ChunkSize(n, nthreads, t)
  BY <1>1 DEF ChunksFollow, Start
<1>3. \A t \in Nat : t \in S
  <2>1. 0 \in S
    BY <1>1
  <2>2. ASSUME NEW t \in Nat, t \in S PROVE t + 1 \in S
    <3> SUFFICES ASSUME NEW i \in Nat, i < Start(t + 1)
                 PROVE  \E u \in Nat : u < t + 1 /\ InChunk(n, nthreads, u, i)
      OBVIOUS
    <3>1. CASE i < Start(t)
      <4>1. PICK u \in Nat : u < t /\ InChunk(n, nthreads, u, i)
        BY <2>2, <3>1
      <4>2. u < t + 1
        BY <4>1
      <4> QED BY <4>1, <4>2
    <3>2. CASE ~ (i < Start(t))
      <4>1. Start(t) <= i /\ i < Start(t) + ChunkSize(n, nthreads, t) /\ t < t + 1
        BY <1>2, <3>2
      <4> QED BY <4>1 DEF InChunk, Start
    <3> QED BY <3>1, <3>2
  <2> HIDE DEF S
  <2> QED BY <2>1, <2>2, SetInduction
<1>4. \A k \in Nat : k \in T
  <2>1. 0 \in T
    BY <1>1
  <2>2. ASSUME NEW k \in Nat, k \in T PROVE k + 1 \in T
    <3> SUFFICES ASSUME k + 1 <= nthreads PROVE Start(nthreads - (k + 1)) <= n
      OBVIOUS
    <3> DEFINE t == nthreads - (k + 1)
    <3>1. t \in Nat /\ t + 1 = nthreads - k /\ k <= nthreads
      OBVIOUS
    <3>2. Start(nthreads - k) <= n
      BY <2>2, <3>1
    <3> HIDE DEF t
    <3>3. Start(t + 1) <= n /\ Start(t) <= Start(t + 1) /\ Start(t) \in Nat /\ Start(t + 1) \in Nat
      BY <1>2, <3>1, <3>2
    <3>4. Start(t) <= n
      BY <3>3
    <3> QED BY <3>4 DEF t
  <2> HIDE DEF T
  <2> QED BY <2>1, <2>2, SetInduction
<1>5. ASSUME NEW i \in 0 .. n - 1
      PROVE  \E t \in 0 .. nthreads - 1 : InChunk(n, nthreads, t, i)
  <2>1. i \in Nat /\ i < Start(nthreads)
    BY <1>1
  <2>2. PICK u \in Nat : u < nthreads /\ InChunk(n, nthreads, u, i)
    BY <1>3, <2>1
  <2>3. u \in 0 .. nthreads - 1
    BY <2>2
  <2> QED BY <2>2, <2>3
<1>6. ASSUME NEW t \in 0 .. nthreads - 1
      PROVE  ChunkStart(n, nthreads, t) + ChunkSize(n, nthreads, t) <= n
  <2> DEFINE k == nthreads - (t + 1)
  <2>1. k \in Nat /\ k <= nthreads /\ nthreads - k = t + 1 /\ t \in Nat
    OBVIOUS
  <2> HIDE DEF k
  <2>2. k \in T
    BY <1>4, <2>1
  <2>3. Start(t + 1) <= n
    BY <2>1, <2>2
  <2>4. Start(t + 1) = ChunkStart(n, nthreads, t) + ChunkSize(n, nthreads, t)
    BY <1>2, <2>1 DEF Start
  <2> QED BY <2>3, <2>4
<1> QED BY <1>5, <1>6
LEMMA ChunksApart ==
    ASSUME NEW n \in Nat, NEW nthreads \in Nat, nthreads > 0, NEW t \in Nat, NEW u \in Nat,
           NEW i \in Nat, InChunk(n, nthreads, t, i), InChunk(n, nthreads, u, i)
    PROVE  t = u
<1> DEFINE Start(j) == ChunkStart(n, nthreads, j)
           S == {k \in Nat : \A j \in Nat : Start(j) <= Start(j + k)}
<1>1. \A j \in Nat : ChunksFollow(n, nthreads, j)
  BY ChunkSteps
<1> HIDE DEF Start
<1>2. \A j \in Nat : Start(j) \in Nat /\ Start(j) <= Start(j + 1)
                     /\ Start(j + 1) = Start(j) + ChunkSize(n, nthreads, j)
  BY <1>1 DEF ChunksFollow, Start
<1>3. \A k \in Nat : k \in S
  <2>1. 0 \in S
    BY <1>2
  <2>2. ASSUME NEW k \in Nat, k \in S PROVE k + 1 \in S
    <3>1. ASSUME NEW j \in Nat PROVE Start(j) <= Start(j + (k + 1))
      <4> DEFINE m == j + k
      <4>1. m \in Nat /\ m + 1 = j + (k + 1) /\ Start(j) <= Start(m)
        BY <2>2
      <4> HIDE DEF m
      <4>2. Start(j) \in Nat /\ Start(m) \in Nat /\ Start(m + 1) \in Nat /\ Start(m) <= Start(m + 1)
        BY <1>2, <4>1
      <4>3. Start(j) <= Start(m + 1)
        BY <4>1, <4>2
      <4> QED BY <4>1, <4>3
    <3> QED BY <3>1
  <2> HIDE DEF S
  <2> QED BY <2>1, <2>2, SetInduction
<1>4. ASSUME NEW a \in Nat, NEW b \in Nat, a < b,
             InChunk(n, nthreads, a, i), InChunk(n, nthreads, b, i)
      PROVE  FALSE
  <2> DEFINE c == a + 1
             k == b - c
  <2>1. c \in Nat /\ k \in Nat /\ c + k = b
    BY <1>4
  <2>2. Start(b) <= i /\ i < Start(c)
    BY <1>2, <1>4 DEF InChunk, Start
  <2> HIDE DEF c, k
  <2>3. k \in S
    BY <1>3, <2>1
  <2>4. Start(c) <= Start(b) /\ Start(c) \in Nat /\ Start(b) \in Nat
    BY <1>2, <2>1, <2>3
  <2> QED BY <2>2, <2>4
<1>5. ~ (t < u) /\ ~ (u < t)
  BY <1>4
<1> QED BY <1>5

-----------------------------------------------------------------------------
(* The state of an evaluation.                                             *)

\* What evaluation v puts out for place i of its range, of leaves g.
Output(v, g, size, i) == <<i, g[xor((v.start + i) % size, v.offset % size)]>>

\* The stream of a key whose level is expanded or has the trees f above it.
StreamAt(f, d, expanded, x, q, o) ==
    [nextindex |-> x, pathindex |-> q, offset |-> o,
     path |-> IF expanded THEN <<>> ELSE Way(f, d, xor(q, o))]

\* Thread t has put out the first n leaves of its chunk, and goes on there.
PlaceOf(v, t, n) == ChunkStart(v.num_evals, v.nthreads, t) + n
ThreadAt(v, f, g, d, expanded, t, n) ==
    /\ v.accums[t] = [m \in 1 .. n |-> Output(v, g, Shl[d], PlaceOf(v, t, m - 1))]
    /\ \E q \in 0 .. Shl[d] - 1 :
        /\ ComesNext((v.start + PlaceOf(v, t, n)) % Shl[d], q, Shl[d])
        /\ v.stream[t] = StreamAt(f, d, expanded, (v.start + PlaceOf(v, t, n)) % Shl[d], q,
                                  v.offset % Shl[d])

Threads(v) == 0 .. v.nthreads - 1
Chunk(v, t) == ChunkSize(v.num_evals, v.nthreads, t)
EvalShape(v, d) ==
    /\ v = [half |-> v.half, start |-> v.start, offset |-> v.offset, num_evals |-> v.num_evals,
            nthreads |-> v.nthreads, stream |-> v.stream, accums |-> v.accums]
    /\ v.start \in Nat /\ v.offset \in Nat
    /\ v.num_evals \in Nat /\ v.num_evals <= Shl[d] /\ v.nthreads \in Nat /\ v.nthreads > 0
    /\ v.stream = [t \in Threads(v) |-> v.stream[t]]
    /\ v.accums = [t \in Threads(v) |-> v.accums[t]]
EvalOf(v, f, g, d, expanded) ==
    /\ EvalShape(v, d)
    /\ \A t \in Threads(v) : \E n \in 0 .. Chunk(v, t) : ThreadAt(v, f, g, d, expanded, t, n)

EvalInv ==
    phase \in {"eval", "done"} =>
        \E d \in Leaflevels : \E f, g : \E e \in BOOLEAN :
            /\ ev.half \in Halves /\ KeyAt(key[ev.half], ev.half, d, f, g, e)
            /\ EvalOf(ev, f, g[ev.half], d, LI(key[ev.half]).expansion # <<>>)
            /\ phase = "done" => \A t \in Threads(ev) : Len(ev.accums[t]) = Chunk(ev, t)

LEMMA StreamIs ==
    ASSUME NEW k, NEW d, NEW f, StreamKey(k, d, f), NEW x,
           NEW q \in 0 .. Shl[d] - 1, NEW o \in 0 .. Shl[d] - 1
    PROVE  StreamOf(k, x, q, o) = StreamAt(f, d, LI(k).expansion # <<>>, x, q, o)
<1> DEFINE n == depth - 1
           w == xor(q, o)
<1>1. /\ d \in Nat /\ d >= 1 /\ d <= MaxDepth /\ k.curdepth = d
      /\ n \in Nat /\ d <= n + 1 /\ TreeOf(k, f, n)
  BY DEF StreamKey
<1>2. w \in Nat /\ w < Shl[d]
  <2>1. WordBits \in Nat /\ d <= WordBits /\ Shl[d] \in Nat
    BY <1>1, Sizes, ShlFacts
  <2>2. q \in Nat /\ q < Pow2[d] /\ o \in Nat /\ o < Pow2[d]
    BY <2>1, Binary
  <2>3. Xor(WordBits, q, o) \in Nat /\ Xor(WordBits, q, o) < Pow2[d]
    BY <1>1, <2>1, <2>2, XorBelow
  <2> QED BY <2>3, Binary DEF xor, Xor
<1> HIDE DEF n, w
<1>3. PathTo(k, d, w) = Way(f, d, w)
  BY <1>1, <1>2, PathIs
<1> DEFINE P == PathTo(k, d, w)
           W == Way(f, d, w)
<1>4. StreamOf(k, x, q, o) = [nextindex |-> x, pathindex |-> q, offset |-> o,
                              path |-> IF LI(k).expansion # <<>> THEN <<>> ELSE P]
  BY <1>1 DEF StreamOf, w
<1>5. StreamAt(f, d, LI(k).expansion # <<>>, x, q, o)
        = [nextindex |-> x, pathindex |-> q, offset |-> o,
           path |-> IF LI(k).expansion # <<>> THEN <<>> ELSE W]
  BY DEF StreamAt, w
<1>6. P = W
  BY <1>3
<1> HIDE DEF P, W
<1> QED BY <1>4, <1>5, <1>6

\* A sequence given by a function is made longer.
LEMMA OneMore ==
    ASSUME NEW g, NEW n \in Nat, NEW a, a = [m \in 1 .. n |-> g[m - 1]]
    PROVE  /\ Len(a) = n
           /\ Append(a, g[n]) = [m \in 1 .. n + 1 |-> g[m - 1]]
<1> DEFINE S == {g[m] : m \in Nat}
<1>1. \A m \in 1 .. n : m - 1 \in Nat /\ g[m - 1] \in S
  OBVIOUS
<1>2. g[n] \in S
  OBVIOUS
<1> HIDE DEF S
<1>3. a \in [1 .. n -> S]
  BY <1>1
<1>4. a \in Seq(S) /\ Len(a) = n
  BY <1>3
<1> DEFINE b == Append(a, g[n])
           c == [m \in 1 .. n + 1 |-> g[m - 1]]
<1>5. /\ b \in Seq(S) /\ Len(b) = n + 1
      /\ \A m \in 1 .. n : b[m] = a[m]
      /\ b[n + 1] = g[n]
  BY <1>2, <1>4, AppendProperties
<1>6. DOMAIN b = 1 .. n + 1 /\ b = [m \in DOMAIN b |-> b[m]]
  BY <1>5
<1>7. ASSUME NEW m \in 1 .. n + 1 PROVE b[m] = g[m - 1]
  <2>1. CASE m \in 1 .. n
    BY <1>5, <2>1
  <2>2. CASE m = n + 1
    <3>1. m - 1 = n
      BY <2>2
    <3> QED BY <1>5, <2>2, <3>1
  <2> QED BY <2>1, <2>2
<1> HIDE DEF b
<1>8. b = c
  BY <1>6, <1>7
<1> QED BY <1>4, <1>8 DEF b

\* A thread that puts out its next leaf and moves its stream.
Turn(v, w, t, s, a) == w = [v EXCEPT !.stream[t] = s, !.accums[t] = a]

LEMMA TurnIs ==
    ASSUME NEW v, NEW d, EvalShape(v, d), NEW t \in Threads(v), NEW s, NEW a, NEW w,
           Turn(v, w, t, s, a)
    PROVE  /\ EvalShape(w, d)
           /\ w.half = v.half /\ w.start = v.start /\ w.offset = v.offset
           /\ w.num_evals = v.num_evals /\ w.nthreads = v.nthreads
           /\ w.stream[t] = s /\ w.accums[t] = a
           /\ \A u \in Threads(v) : u # t => w.stream[u] = v.stream[u] /\ w.accums[u] = v.accums[u]
<1> DEFINE N == Threads(v)
           f == v.stream
           g == v.accums
           f1 == [f EXCEPT ![t] = s]
           g1 == [g EXCEPT ![t] = a]
<1>1. f = [u \in N |-> f[u]] /\ g = [u \in N |-> g[u]]
  BY DEF EvalShape
<1>2. v = [half |-> v.half, start |-> v.start, offset |-> v.offset, num_evals |-> v.num_evals,
           nthreads |-> v.nthreads, stream |-> f, accums |-> g]
  BY DEF EvalShape
<1>3. w = [v EXCEPT !.stream = f1, !.accums = g1]
  BY DEF Turn
<1> HIDE DEF f, g, f1, g1
<1>4. w = [half |-> v.half, start |-> v.start, offset |-> v.offset, num_evals |-> v.num_evals,
           nthreads |-> v.nthreads, stream |-> f1, accums |-> g1]
  BY <1>2, <1>3
<1>5. /\ w.half = v.half /\ w.start = v.start /\ w.offset = v.offset
      /\ w.num_evals = v.num_evals /\ w.nthreads = v.nthreads
      /\ w.stream = f1 /\ w.accums = g1
  BY <1>4
<1>6. /\ f1 = [u \in N |-> f1[u]] /\ g1 = [u \in N |-> g1[u]]
      /\ f1[t] = s /\ g1[t] = a
      /\ \A u \in N : u # t => f1[u] = f[u] /\ g1[u] = g[u]
  BY <1>1 DEF f1, g1
<1>7. Threads(w) = N
  BY <1>5 DEF Threads
<1>8. EvalShape(w, d)
  <2>1. /\ v.start \in Nat /\ v.offset \in Nat /\ v.num_evals \in Nat /\ v.num_evals <= Shl[d]
        /\ v.nthreads \in Nat /\ v.nthreads > 0
    BY DEF EvalShape
  <2>2. w = [half |-> w.half, start |-> w.start, offset |-> w.offset, num_evals |-> w.num_evals,
             nthreads |-> w.nthreads, stream |-> w.stream, accums |-> w.accums]
    BY <1>4, <1>5
  <2>3. w.stream = [u \in N |-> w.stream[u]] /\ w.accums = [u \in N |-> w.accums[u]]
    BY <1>5, <1>6
  <2> HIDE DEF N
  <2> QED BY <1>5, <1>7, <2>1, <2>2, <2>3 DEF EvalShape
<1> QED BY <1>5, <1>6, <1>8 DEF f, g

\* Thread t of v, after n leaves at place here of the leaves, makes w of it.
GoesOn(v, w, f, g, d, x, t, n, here) ==
    /\ n \in Nat /\ n < Chunk(v, t) /\ ThreadAt(v, f, g, d, x, t, n)
    /\ here = (v.start + PlaceOf(v, t, n)) % Shl[d]
    /\ Turn(v, w, t, StreamAt(f, d, x, (here + 1) % Shl[d], here, v.offset % Shl[d]),
            Append(v.accums[t], Output(v, g, Shl[d], PlaceOf(v, t, n))))

LEMMA ThreadGoesOn ==
    ASSUME NEW v, NEW f, NEW g, NEW d \in Nat, NEW x, EvalOf(v, f, g, d, x), NEW t \in Threads(v),
           NEW n, NEW here, NEW w, GoesOn(v, w, f, g, d, x, t, n, here)
    PROVE  EvalOf(w, f, g, d, x) /\ Threads(w) = Threads(v)
<1> DEFINE size == Shl[d]
           first == PlaceOf(v, t, 0)
           i == v.start + PlaceOf(v, t, n)
           o == v.offset % size
           out == [m \in Nat |-> Output(v, g, size, PlaceOf(v, t, m))]
<1>0. /\ n \in Nat /\ n < Chunk(v, t) /\ ThreadAt(v, f, g, d, x, t, n)
      /\ here = (v.start + PlaceOf(v, t, n)) % Shl[d]
      /\ Turn(v, w, t, StreamAt(f, d, x, (here + 1) % Shl[d], here, v.offset % Shl[d]),
              Append(v.accums[t], Output(v, g, Shl[d], PlaceOf(v, t, n))))
  BY DEF GoesOn
<1>1. size \in Nat /\ size > 0
  BY ShlFacts
<1>2. EvalShape(v, d) /\ v.start \in Nat /\ v.num_evals \in Nat /\ v.nthreads \in Nat /\ v.nthreads > 0
  BY DEF EvalOf, EvalShape
<1>3. /\ EvalShape(w, d)
      /\ w.half = v.half /\ w.start = v.start /\ w.offset = v.offset
      /\ w.num_evals = v.num_evals /\ w.nthreads = v.nthreads
      /\ w.stream[t] = StreamAt(f, d, x, (here + 1) % Shl[d], here, v.offset % Shl[d])
      /\ w.accums[t] = Append(v.accums[t], Output(v, g, Shl[d], PlaceOf(v, t, n)))
      /\ \A u \in Threads(v) : u # t => w.stream[u] = v.stream[u] /\ w.accums[u] = v.accums[u]
  <2> DEFINE s == StreamAt(f, d, x, (here + 1) % Shl[d], here, v.offset % Shl[d])
             a == Append(v.accums[t], Output(v, g, Shl[d], PlaceOf(v, t, n)))
  <2>1. Turn(v, w, t, s, a)
    BY <1>0
  <2> HIDE DEF s, a
  <2>2. /\ EvalShape(w, d)
        /\ w.half = v.half /\ w.start = v.start /\ w.offset = v.offset
        /\ w.num_evals = v.num_evals /\ w.nthreads = v.nthreads
        /\ w.stream[t] = s /\ w.accums[t] = a
        /\ \A u \in Threads(v) : u # t => w.stream[u] = v.stream[u] /\ w.accums[u] = v.accums[u]
    BY ONLY <1>2, <2>1, t \in Threads(v), TurnIs
  <2> QED BY <2>2 DEF s, a
<1>4. /\ \A u, m : PlaceOf(w, u, m) = PlaceOf(v, u, m)
      /\ \A u : Chunk(w, u) = Chunk(v, u)
      /\ \A j : Output(w, g, size, j) = Output(v, g, size, j)
      /\ Threads(w) = Threads(v)
  BY <1>3 DEF PlaceOf, Chunk, Output, Threads
<1>5. \A m \in Nat : PlaceOf(v, t, m) \in Nat /\ PlaceOf(v, t, m + 1) = PlaceOf(v, t, m) + 1
  <2>1. t \in Nat
    BY <1>2 DEF Threads
  <2>2. ChunkStart(v.num_evals, v.nthreads, t) \in Nat
    BY <1>2, <2>1, ChunkSteps DEF ChunksFollow
  <2> QED BY <2>2 DEF PlaceOf
<1>6. ThreadAt(w, f, g, d, x, t, n + 1)
  <2>1. v.accums[t] = [m \in 1 .. n |-> Output(v, g, Shl[d], PlaceOf(v, t, m - 1))]
    BY <1>0 DEF ThreadAt
  <2>2. v.accums[t] = [m \in 1 .. n |-> out[m - 1]]
    <3>1. \A m \in 1 .. n : m - 1 \in Nat
      BY <1>0
    <3> QED BY <2>1, <3>1
  <2>3. out[n] = Output(v, g, Shl[d], PlaceOf(v, t, n))
    BY <1>0
  <2>4. \A m \in 1 .. n + 1 : m - 1 \in Nat /\ out[m - 1] = Output(w, g, Shl[d], PlaceOf(w, t, m - 1))
    BY <1>0, <1>4
  <2> HIDE DEF out
  <2>5. w.accums[t] = [m \in 1 .. n + 1 |-> out[m - 1]]
    <3>1. Append(v.accums[t], out[n]) = [m \in 1 .. n + 1 |-> out[m - 1]]
      BY <1>0, <2>2, OneMore
    <3> QED BY <1>3, <2>3, <3>1
  <2>6. w.accums[t] = [m \in 1 .. n + 1 |-> Output(w, g, Shl[d], PlaceOf(w, t, m - 1))]
    BY <2>4, <2>5
  <2>7. w.start + PlaceOf(w, t, n + 1) = i + 1 /\ i \in Nat
    <3> DEFINE a == PlaceOf(v, t, n)
               b == PlaceOf(w, t, n + 1)
               c == v.start
    <3>1. a \in Nat /\ b = a + 1
      BY <1>0, <1>4, <1>5
    <3>2. c \in Nat /\ w.start = c
      BY <1>2, <1>3
    <3>3. i = c + a
      OBVIOUS
    <3> HIDE DEF a, b, c, i
    <3>4. w.start + b = i + 1 /\ i \in Nat
      BY <3>1, <3>2, <3>3
    <3> QED BY <3>4 DEF b
  <2>8. (here + 1) % size = (i + 1) % size /\ here \in 0 .. size - 1
    <3>1. i \in Int /\ 1 \in Int /\ i % size \in Int
      BY <1>1, <2>7
    <3> HIDE DEF size, i
    <3>2. Residue(Residue(i, size) + Residue(1, size), size) = Residue(i + 1, size)
      BY <1>1, <3>1, ResidueOps
    <3>3. Residue(Residue(Residue(i, size), size) + Residue(1, size), size)
            = Residue(Residue(i, size) + 1, size)
      BY <1>1, <3>1, ResidueOps DEF Residue
    <3>4. Residue(Residue(i, size), size) = Residue(i, size)
      BY <1>1, <2>7 DEF Residue
    <3>5. ((i % size) + 1) % size = (i + 1) % size
      BY <3>2, <3>3, <3>4 DEF Residue
    <3>6. i % size \in 0 .. size - 1
      BY <1>1, <2>7
    <3>7. here = i % size
      BY <1>0 DEF i, size
    <3> QED BY <3>5, <3>6, <3>7
  <2>9. ComesNext((here + 1) % size, here, size)
    <3>1. here \in Nat /\ here < size
      BY <1>1, <2>8
    <3> HIDE DEF size
    <3>2. CASE here + 1 < size
      <4>1. (here + 1) % size = here + 1
        BY <1>1, <3>1, <3>2
      <4> QED BY <4>1 DEF ComesNext
    <3>3. CASE here + 1 = size
      <4>1. (here + 1) % size = 0 /\ here = size - 1
        BY <1>1, <3>1, <3>3
      <4> QED BY <4>1 DEF ComesNext
    <3> QED BY <1>1, <3>1, <3>2, <3>3
  <2>10. ComesNext((w.start + PlaceOf(w, t, n + 1)) % size, here, size)
    BY <2>7, <2>8, <2>9
  <2>11. w.stream[t] = StreamAt(f, d, x, (w.start + PlaceOf(w, t, n + 1)) % size, here, w.offset % size)
    BY <1>3, <2>7, <2>8
  <2> QED BY <2>6, <2>8, <2>10, <2>11 DEF ThreadAt
<1>7. ASSUME NEW u \in Threads(v) PROVE \E m \in 0 .. Chunk(w, u) : ThreadAt(w, f, g, d, x, u, m)
  <2>1. CASE u = t
    <3>1. Chunk(v, t) \in Nat
      <4>1. t \in Nat
        BY <1>2 DEF Threads
      <4> QED BY <1>2, <4>1, ChunkSteps DEF ChunksFollow, Chunk
    <3>2. n + 1 \in 0 .. Chunk(w, t)
      BY <1>0, <1>4, <3>1
    <3> QED BY <1>6, <2>1, <3>2
  <2>2. CASE u # t
    <3>1. PICK m \in 0 .. Chunk(v, u) : ThreadAt(v, f, g, d, x, u, m)
      BY DEF EvalOf
    <3>2. ThreadAt(w, f, g, d, x, u, m)
      <4>1. w.stream[u] = v.stream[u] /\ w.accums[u] = v.accums[u]
        BY <1>3, <2>2
      <4>2. w.accums[u] = [j \in 1 .. m |-> Output(w, g, Shl[d], PlaceOf(w, u, j - 1))]
        BY <1>4, <3>1, <4>1 DEF ThreadAt
      <4> QED BY <1>3, <1>4, <3>1, <4>1, <4>2 DEF ThreadAt
    <3> QED BY <1>4, <3>1, <3>2
  <2> QED BY <2>1, <2>2
<1> QED BY <1>3, <1>4, <1>7 DEF EvalOf

-----------------------------------------------------------------------------
(* The steps of an evaluation.                                             *)

\* What an evaluation is of: the key of its party, at a leaf level.
EvalIs(K, v, d, f, g, e) ==
    /\ v.half \in Halves /\ KeyAt(K[v.half], v.half, d, f, g, e)
    /\ EvalOf(v, f, g[v.half], d, LI(K[v.half]).expansion # <<>>)
Finished(v) == \A t \in Threads(v) : Len(v.accums[t]) = Chunk(v, t)

LEMMA EvalPrimed ==
    ASSUME UNCHANGED <<gen, depth, incremental>>, NEW d \in Leaflevels, NEW f, NEW g,
           NEW e \in BOOLEAN, EvalIs(key', ev', d, f, g, e), phase' = "done" => Finished(ev')
    PROVE  EvalInv'
<1> DEFINE k == key[ev.half]
           p == ev.half
<1>1. Leaflevels' = Leaflevels
  BY DEF Leaflevels
<1>2. KeyAt(k, p, d, f, g, e)'
  <2>1. KeyAt(key'[ev'.half], ev'.half, d, f, g, e)
    BY DEF EvalIs
  <2> QED BY <2>1 DEF KeyAt, KeepsAt, TreeOf, Descend, Keeps, Below, Corrected, Child
<1>3. ev'.half \in Halves /\ EvalOf(ev', f, g[ev'.half], d, LI(key'[ev'.half]).expansion # <<>>)
  BY DEF EvalIs
<1>4. phase' = "done" => \A t \in Threads(ev') : Len(ev'.accums[t]) = Chunk(ev', t)
  BY DEF Finished
<1> QED BY <1>1, <1>2, <1>3, <1>4 DEF EvalInv

LEMMA StartEvalEval ==
    ASSUME IInv, TreesInv, StartEval
    PROVE  EvalInv'
<1>1. /\ phase = "made" /\ phase' = "eval" /\ UNCHANGED <<gen, depth, incremental>>
  BY DEF StartEval
<1>2. PICK p \in Halves, d \in Leaflevels, start \in Starts, offset \in Offsets,
           nthreads \in 1 .. MaxThreads :
       \E num_evals \in {Shl[d], Shl[d] - 1} \ {0} :
        LET k == At(p, d) IN
        /\ key' = [key EXCEPT ![p] = k]
        /\ ev' = [half |-> p, start |-> start, offset |-> offset,
                  num_evals |-> num_evals, nthreads |-> nthreads,
                  stream |-> [t \in 0 .. nthreads - 1 |->
                     StreamStart(k, start + ChunkStart(num_evals, nthreads, t), offset)],
                  accums |-> [t \in 0 .. nthreads - 1 |-> <<>>]]
  BY DEF StartEval, At, Leaflevels
<1> DEFINE k == At(p, d)
           size == Shl[d]
<1>3. PICK num_evals \in {size, size - 1} \ {0} :
        /\ key' = [key EXCEPT ![p] = k]
        /\ ev' = [half |-> p, start |-> start, offset |-> offset,
                  num_evals |-> num_evals, nthreads |-> nthreads,
                  stream |-> [t \in 0 .. nthreads - 1 |->
                     StreamStart(k, start + ChunkStart(num_evals, nthreads, t), offset)],
                  accums |-> [t \in 0 .. nthreads - 1 |-> <<>>]]
  BY <1>2
<1>4. /\ depth \in Nat /\ d \in Nat /\ d >= 1 /\ d <= depth /\ d <= MaxDepth
      /\ \E F, g : \E e \in BOOLEAN : KeyAt(k, p, d, F[p], g, e)
  BY <1>1, KeysAt
<1>5. PICK F, g : \E e \in BOOLEAN : KeyAt(k, p, d, F[p], g, e)
  BY <1>4
<1>6. PICK e \in BOOLEAN : KeyAt(k, p, d, F[p], g, e)
  BY <1>5
<1> DEFINE f == F[p]
           x == LI(k).expansion # <<>>
           N == 0 .. nthreads - 1
           o == offset % size
           Start(t) == ChunkStart(num_evals, nthreads, t)
<1>7. key'[p] = k
  BY <1>3 DEF IInv, KeysInv
<1>8. /\ size \in Nat /\ size > 0 /\ start \in Nat /\ offset \in Nat /\ nthreads \in Nat
      /\ nthreads > 0 /\ num_evals \in Nat /\ num_evals <= size
  <2>1. size \in Nat /\ size > 0
    BY <1>4, ShlFacts
  <2>2. start \in Nat /\ offset \in Nat /\ nthreads \in Nat /\ nthreads > 0
    BY EvalsAssumption
  <2> HIDE DEF size
  <2> QED BY <2>1, <2>2
<1>9. StreamKey(k, d, f)
  BY <1>4, <1>6 DEF StreamKey, KeyAt
<1>10. ASSUME NEW t \in N
       PROVE  /\ Start(t) \in Nat /\ Chunk(ev', t) \in Nat
              /\ (start + Start(t)) % size \in 0 .. size - 1
              /\ StreamStart(k, start + Start(t), offset)
                   = StreamAt(f, d, x, (start + Start(t)) % size, (start + Start(t)) % size, o)
  <2>1. Start(t) \in Nat /\ ChunkSize(num_evals, nthreads, t) \in Nat
    <3>1. t \in Nat
      BY <1>8
    <3>2. ChunksFollow(num_evals, nthreads, t)
      BY <1>8, <3>1, ChunkSteps
    <3> QED BY <3>2 DEF ChunksFollow
  <2>2. Chunk(ev', t) = ChunkSize(num_evals, nthreads, t)
    BY <1>3 DEF Chunk
  <2> DEFINE a == start + Start(t)
             y == a % size
  <2>3. y \in 0 .. size - 1 /\ o \in 0 .. size - 1
    <3>1. a \in Nat
      BY <1>8, <2>1
    <3> HIDE DEF size, a
    <3> QED BY <1>8, <3>1
  <2>4. StreamStart(k, a, offset) = StreamOf(k, y, y, o)
    <3>1. k.curdepth = d
      BY <1>9 DEF StreamKey
    <3> QED BY <3>1, StreamBegins
  <2> HIDE DEF k, y, o, f, x
  <2>5. StreamOf(k, y, y, o) = StreamAt(f, d, LI(k).expansion # <<>>, y, y, o)
    BY <1>9, <2>3, StreamIs
  <2> QED BY <2>1, <2>2, <2>3, <2>4, <2>5 DEF x, y
<1> DEFINE v == ev'
<1>11. /\ v.half = p /\ v.start = start /\ v.offset = offset /\ v.num_evals = num_evals
       /\ v.nthreads = nthreads
       /\ v.stream = [t \in N |-> StreamStart(k, start + Start(t), offset)]
       /\ v.accums = [t \in N |-> <<>>]
       /\ v = [half |-> v.half, start |-> v.start, offset |-> v.offset, num_evals |-> v.num_evals,
               nthreads |-> v.nthreads, stream |-> v.stream, accums |-> v.accums]
  BY <1>3
<1> HIDE DEF v, k, x, f, o
<1>12. EvalShape(v, d)
  <2>1. Threads(v) = N
    BY <1>11 DEF Threads
  <2>2. v.stream = [t \in N |-> v.stream[t]] /\ v.accums = [t \in N |-> v.accums[t]]
    BY <1>11
  <2> HIDE DEF N
  <2> QED BY <1>8, <1>11, <2>1, <2>2 DEF EvalShape
<1>13. ASSUME NEW t \in Threads(v)
       PROVE  0 \in 0 .. Chunk(v, t) /\ ThreadAt(v, f, g[p], d, x, t, 0)
  <2>1. t \in N
    BY <1>11 DEF Threads
  <2> DEFINE y == (start + Start(t)) % size
  <2>2. /\ Start(t) \in Nat /\ Chunk(v, t) \in Nat /\ y \in 0 .. size - 1
        /\ StreamStart(k, start + Start(t), offset) = StreamAt(f, d, x, y, y, o)
    BY <1>10, <2>1 DEF v
  <2>3. PlaceOf(v, t, 0) = Start(t)
    BY <1>11, <2>2 DEF PlaceOf
  <2>4. v.stream[t] = StreamAt(f, d, x, y, y, o) /\ v.accums[t] = <<>>
    BY <1>11, <2>1, <2>2
  <2>5. <<>> = [m \in 1 .. 0 |-> Output(v, g[p], Shl[d], PlaceOf(v, t, m - 1))]
    OBVIOUS
  <2>6. ComesNext(y, y, size)
    BY DEF ComesNext
  <2>7. (v.start + PlaceOf(v, t, 0)) % Shl[d] = y /\ v.offset % Shl[d] = o
    BY <1>11, <2>3 DEF o
  <2>8. y \in 0 .. Shl[d] - 1 /\ ComesNext(y, y, Shl[d])
    BY <2>2, <2>6
  <2>9. 0 \in 0 .. Chunk(v, t)
    BY <2>2
  <2> HIDE DEF y
  <2> QED BY <2>4, <2>5, <2>7, <2>8, <2>9 DEF ThreadAt
<1>14. EvalOf(v, f, g[p], d, x)
  BY <1>12, <1>13 DEF EvalOf
<1>15. EvalIs(key', ev', d, f, g, e)
  BY <1>6, <1>7, <1>11, <1>14 DEF EvalIs, v, x, f
<1> QED BY <1>1, <1>15, EvalPrimed

LEMMA ProcessEval ==
    ASSUME IInv, EvalInv, NEW t, Process(t)
    PROVE  EvalInv'
<1>1. /\ phase = "eval" /\ phase' = "eval" /\ t \in Threads(ev)
      /\ Len(ev.accums[t]) < Chunk(ev, t)
      /\ UNCHANGED <<gen, depth, incremental, key>>
  BY DEF Process, Threads, Chunk
<1>2. PICK d \in Leaflevels : \E f, g : \E e \in BOOLEAN : EvalIs(key, ev, d, f, g, e)
  BY <1>1 DEF EvalInv, EvalIs
<1>3. PICK f, h : \E e \in BOOLEAN : EvalIs(key, ev, d, f, h, e)
  BY <1>2
<1>4. PICK e \in BOOLEAN : EvalIs(key, ev, d, f, h, e)
  BY <1>3
<1> DEFINE v == ev
           p == ev.half
           k == key[p]
           g == h[p]
           x == LI(k).expansion # <<>>
           size == Shl[d]
           s == v.stream[t]
           r == StreamNext(k, s)
<1>5. /\ depth \in Nat /\ d \in Nat /\ d >= 1 /\ d <= depth /\ d <= MaxDepth
      /\ size \in Nat /\ size > 0
  <2>1. depth \in Nat /\ d \in Nat /\ d >= 1 /\ d <= depth /\ d <= MaxDepth
    BY <1>1, PlacesOf DEF IInv, Choices
  <2> QED BY <2>1, ShlFacts
<1>6. /\ p \in Halves /\ KeyAt(k, p, d, f, h, e) /\ EvalOf(v, f, g, d, x) /\ k.curdepth = d
  BY <1>4 DEF EvalIs, KeyAt
<1>7. ev' = [ev EXCEPT !.stream[t] = r.s,
                       !.accums[t] = Append(@, <<(ChunkStart(v.num_evals, v.nthreads, t)
                                                    + Len(v.accums[t])) % Shl[k.curdepth], r.leaf>>)]
  BY DEF Process
<1>8. HasLeaves(k, p, d, h, e)
  <2> HIDE DEF k, p
  <2> QED BY <1>5, <1>6, KeyLeaf
<1>9. StreamKey(k, d, f)
  BY <1>5, <1>6 DEF StreamKey, KeyAt
<1> HIDE DEF v, p, k, g, x
<1>10. PICK n \in 0 .. Chunk(v, t) : ThreadAt(v, f, g, d, x, t, n)
  BY <1>1, <1>6 DEF EvalOf, v
<1> DEFINE i == PlaceOf(v, t, n)
           here == (v.start + i) % size
           o == v.offset % size
<1>11. /\ v.start \in Nat /\ v.offset \in Nat /\ v.num_evals \in Nat /\ v.num_evals <= size
       /\ v.nthreads \in Nat /\ v.nthreads > 0 /\ t \in Nat /\ t \in 0 .. v.nthreads - 1
  BY <1>1, <1>6 DEF EvalOf, EvalShape, Threads, v
<1>12. Len(v.accums[t]) = n
  <2> DEFINE out == [m \in Nat |-> Output(v, g, Shl[d], PlaceOf(v, t, m))]
             a == v.accums[t]
  <2>1. \A m \in 1 .. n : m - 1 \in Nat
    OBVIOUS
  <2>2. a = [m \in 1 .. n |-> out[m - 1]]
    BY <1>10, <2>1 DEF ThreadAt
  <2>3. n \in Nat
    OBVIOUS
  <2> HIDE DEF a, out
  <2>4. Len(a) = n
    BY ONLY <2>2, <2>3, OneMore
  <2> QED BY <2>4 DEF a
<1>13. n \in Nat /\ n < Chunk(v, t)
  BY <1>1, <1>12 DEF v
<1>14. i \in Nat /\ i < size
  <2>1. ChunkStart(v.num_evals, v.nthreads, t) \in Nat /\ Chunk(v, t) \in Nat
    <3>1. ChunksFollow(v.num_evals, v.nthreads, t)
      BY <1>11, ChunkSteps
    <3> QED BY <3>1 DEF ChunksFollow, Chunk
  <2>2. ChunkStart(v.num_evals, v.nthreads, t) + Chunk(v, t) <= v.num_evals
    BY <1>11, ChunksCover DEF Chunk
  <2> HIDE DEF size
  <2> QED BY <1>5, <1>11, <1>13, <2>1, <2>2 DEF PlaceOf
<1>15. PICK q \in 0 .. size - 1 :
         /\ ComesNext(here, q, size)
         /\ s = StreamAt(f, d, x, here, q, o)
  BY <1>10 DEF ThreadAt
<1>16. here \in 0 .. size - 1 /\ o \in 0 .. size - 1
  <2> DEFINE a == v.start + i
             b == v.offset
  <2>1. a \in Nat /\ b \in Nat
    BY <1>11, <1>14
  <2> HIDE DEF a, b, size
  <2>2. a % size \in 0 .. size - 1 /\ b % size \in 0 .. size - 1
    BY <1>5, <2>1
  <2> QED BY <2>2 DEF a, b, size
<1> DEFINE next == (here + 1) % size
           there == xor(here, o)
<1>17. r = [leaf |-> Leaf(k, there), s |-> StreamAt(f, d, x, next, here, o)]
  <2> HIDE DEF here, o
  <2>1. s = StreamOf(k, here, q, o)
    BY <1>9, <1>15, <1>16, StreamIs DEF x
  <2>2. StreamNext(k, StreamOf(k, here, q, o))
          = [leaf |-> Leaf(k, there), s |-> StreamOf(k, next, here, o)]
    BY <1>9, <1>15, <1>16, StreamGoesOn
  <2>3. StreamOf(k, next, here, o) = StreamAt(f, d, x, next, here, o)
    BY <1>9, <1>16, StreamIs DEF x
  <2> QED BY <2>1, <2>2, <2>3
<1>18. Leaf(k, there) = g[there]
  <2>1. there \in 0 .. size - 1
    <3>1. WordBits \in Nat /\ d <= WordBits
      BY <1>5, Sizes
    <3> HIDE DEF here, o
    <3>2. here \in Nat /\ here < Pow2[d] /\ o \in Nat /\ o < Pow2[d]
      BY <1>5, <1>16, Binary
    <3>3. Xor(WordBits, here, o) \in Nat /\ Xor(WordBits, here, o) < Pow2[d]
      BY <1>5, <3>1, <3>2, XorBelow
    <3>4. there \in Nat /\ there < size
      BY <3>3, Binary DEF xor, Xor
    <3> HIDE DEF there
    <3> QED BY <1>5, <3>4
  <2> QED BY <1>8, <2>1 DEF HasLeaves, g
<1> DEFINE out == Output(v, g, Shl[d], i)
<1>19. <<(ChunkStart(v.num_evals, v.nthreads, t) + Len(v.accums[t])) % Shl[k.curdepth], r.leaf>> = out
  <2>1. i % size = i
    <3> HIDE DEF i, size
    <3> QED BY <1>5, <1>14
  <2>2. (ChunkStart(v.num_evals, v.nthreads, t) + Len(v.accums[t])) % Shl[k.curdepth] = i
    BY <1>6, <1>12, <2>1 DEF PlaceOf
  <2>3. r.leaf = g[there]
    BY <1>17, <1>18
  <2> QED BY <2>2, <2>3 DEF Output
<1>20. Turn(v, ev', t, StreamAt(f, d, x, next, here, o), Append(v.accums[t], out))
  <2>1. r.s = StreamAt(f, d, x, next, here, o)
    BY <1>17
  <2> HIDE DEF r, out, next, here, o
  <2> QED BY <1>7, <1>19, <2>1 DEF Turn, v
<1>21. EvalOf(ev', f, g, d, x) /\ Threads(ev') = Threads(v) /\ ev'.half = p
  <2> DEFINE w == ev'
  <2>1. here = (v.start + PlaceOf(v, t, n)) % Shl[d]
    OBVIOUS
  <2>2. t \in Threads(v)
    BY <1>1 DEF v
  <2>3. Turn(v, w, t, StreamAt(f, d, x, (here + 1) % Shl[d], here, v.offset % Shl[d]),
                      Append(v.accums[t], Output(v, g, Shl[d], PlaceOf(v, t, n))))
    BY <1>20
  <2> HIDE DEF w, here
  <2>4. GoesOn(v, w, f, g, d, x, t, n, here)
    BY <1>10, <1>13, <2>1, <2>3 DEF GoesOn
  <2>5. EvalOf(w, f, g, d, x) /\ Threads(w) = Threads(v)
    BY ONLY <1>5, <1>6, <2>2, <2>4, ThreadGoesOn
  <2>6. ev'.half = ev.half
    BY <1>7
  <2> QED BY <2>5, <2>6 DEF w, p
<1>22. EvalIs(key', ev', d, f, h, e)
  <2>1. key'[ev'.half] = k /\ ev'.half = p
    BY <1>1, <1>21 DEF k
  <2> QED BY <1>6, <1>21, <2>1 DEF EvalIs, x, g
<1>23. phase' # "done"
  BY <1>1
<1> QED BY <1>1, <1>22, <1>23, EvalPrimed

LEMMA JoinEval ==
    ASSUME EvalInv, Join
    PROVE  EvalInv'
<1>1. /\ phase = "eval" /\ phase' = "done" /\ Finished(ev)
      /\ UNCHANGED <<gen, depth, incremental, key, ev>>
  BY DEF Join, Finished, Threads, Chunk
<1>2. PICK d \in Leaflevels : \E f, g : \E e \in BOOLEAN : EvalIs(key, ev, d, f, g, e)
  BY <1>1 DEF EvalInv, EvalIs
<1>3. PICK f, g : \E e \in BOOLEAN : EvalIs(key, ev, d, f, g, e)
  BY <1>2
<1>4. PICK e \in BOOLEAN : EvalIs(key, ev, d, f, g, e)
  BY <1>3
<1>5. EvalIs(key', ev', d, f, g, e) /\ Finished(ev')
  BY <1>1, <1>4
<1> QED BY <1>1, <1>5, EvalPrimed

LEMMA NextEval ==
    ASSUME IInv, TreesInv, EvalInv, [Next]_vars
    PROVE  EvalInv'
<1>1. CASE CreateLevel
  <2>1. phase' \notin {"eval", "done"}
    BY <1>1 DEF CreateLevel
  <2> QED BY <2>1 DEF EvalInv
<1>2. CASE WriteAndRead
  <2>1. phase' \notin {"eval", "done"}
    BY <1>2 DEF WriteAndRead
  <2> QED BY <2>1 DEF EvalInv
<1>3. CASE StartEval
  BY <1>3, StartEvalEval
<1>4. CASE \E t \in 0 .. MaxThreads - 1 : Process(t)
  BY <1>4, ProcessEval
<1>5. CASE Join
  BY <1>5, JoinEval
<1>6. CASE UNCHANGED vars
  <2>1. UNCHANGED <<phase, gen, depth, incremental, key, ev>>
    BY <1>6 DEF vars
  <2>2. CASE phase \notin {"eval", "done"}
    BY <2>1, <2>2 DEF EvalInv
  <2>3. CASE phase \in {"eval", "done"}
    <3>1. PICK d \in Leaflevels : \E f, g : \E e \in BOOLEAN : EvalIs(key, ev, d, f, g, e)
      BY <2>3 DEF EvalInv, EvalIs
    <3>2. PICK f, g : \E e \in BOOLEAN : EvalIs(key, ev, d, f, g, e)
      BY <3>1
    <3>3. PICK e \in BOOLEAN : EvalIs(key, ev, d, f, g, e)
      BY <3>2
    <3>4. EvalIs(key', ev', d, f, g, e)
      BY <2>1, <3>3
    <3>5. phase = "done" => Finished(ev)
      BY <2>3 DEF EvalInv, Finished
    <3>6. phase' = "done" => Finished(ev')
      BY <2>1, <3>5
    <3> QED BY <2>1, <3>4, <3>6, EvalPrimed
  <2> QED BY <2>2, <2>3
<1> QED BY <1>1, <1>2, <1>3, <1>4, <1>5, <1>6 DEF Next

\* The chunks of the threads that are done make up the range.
LEMMA ProcessesAll ==
    ASSUME IInv, EvalInv
    PROVE  ProcessesTheRange
<1> SUFFICES ASSUME phase = "done"
             PROVE  LET k == key[ev.half]
                        size == Shl[k.curdepth]
                        all == UNION {{ev.accums[t][n] : n \in DOMAIN ev.accums[t]} : t \in DOMAIN ev.accums}
                    IN  /\ all = {<<i, Leaf(k, xor((ev.start + i) % size, ev.offset % size))>> :
                                    i \in 0 .. ev.num_evals - 1}
                        /\ \A t, u \in DOMAIN ev.accums :
                              \A n \in DOMAIN ev.accums[t], m \in DOMAIN ev.accums[u] :
                                ev.accums[t][n][1] = ev.accums[u][m][1] => t = u /\ n = m
  BY DEF ProcessesTheRange
<1>1. PICK d \in Leaflevels : \E f, g : \E e \in BOOLEAN : EvalIs(key, ev, d, f, g, e)
  BY DEF EvalInv, EvalIs
<1>2. PICK f, h : \E e \in BOOLEAN : EvalIs(key, ev, d, f, h, e)
  BY <1>1
<1>3. PICK e \in BOOLEAN : EvalIs(key, ev, d, f, h, e)
  BY <1>2
<1> DEFINE v == ev
           p == ev.half
           k == key[p]
           g == h[p]
           x == LI(k).expansion # <<>>
           size == Shl[d]
           N == Threads(v)
           range == 0 .. v.num_evals - 1
           all == UNION {{v.accums[t][n] : n \in DOMAIN v.accums[t]} : t \in DOMAIN v.accums}
           outs == {Output(v, g, size, i) : i \in range}
<1>4. /\ depth \in Nat /\ d \in Nat /\ d >= 1 /\ d <= depth /\ d <= MaxDepth
      /\ size \in Nat /\ size > 0
  <2>1. depth \in Nat /\ d \in Nat /\ d >= 1 /\ d <= depth /\ d <= MaxDepth
    BY PlacesOf DEF IInv, Choices
  <2> QED BY <2>1, ShlFacts
<1>5. /\ p \in Halves /\ KeyAt(k, p, d, f, h, e) /\ EvalOf(v, f, g, d, x) /\ k.curdepth = d
      /\ Finished(v)
  BY <1>3 DEF EvalIs, KeyAt, EvalInv, Finished
<1>6. HasLeaves(k, p, d, h, e)
  <2> HIDE DEF k, p
  <2> QED BY <1>4, <1>5, KeyLeaf
<1> HIDE DEF v, p, k, g, x
<1>7. /\ v.start \in Nat /\ v.offset \in Nat /\ v.num_evals \in Nat
      /\ v.nthreads \in Nat /\ v.nthreads > 0 /\ DOMAIN v.accums = N /\ N = 0 .. v.nthreads - 1
  <2>1. EvalShape(v, d)
    BY <1>5 DEF EvalOf
  <2>2. v.accums = [t \in N |-> v.accums[t]]
    BY <2>1 DEF EvalShape
  <2>3. DOMAIN v.accums = N
    <3> HIDE DEF N
    <3> QED BY <2>2
  <2> QED BY <2>1, <2>3 DEF EvalShape, Threads
<1>8. ASSUME NEW i \in range
      PROVE  Output(v, g, size, i) = <<i, Leaf(k, xor((v.start + i) % size, v.offset % size))>>
  <2> DEFINE here == (v.start + i) % size
             o == v.offset % size
             there == xor(here, o)
  <2>1. here \in 0 .. size - 1 /\ o \in 0 .. size - 1
    <3> DEFINE a == v.start + i
               b == v.offset
    <3>1. a \in Nat /\ b \in Nat
      BY <1>7
    <3> HIDE DEF a, b, size
    <3>2. a % size \in 0 .. size - 1 /\ b % size \in 0 .. size - 1
      BY <1>4, <3>1
    <3> QED BY <3>2 DEF a, b, size
  <2>2. there \in 0 .. size - 1
    <3>1. WordBits \in Nat /\ d <= WordBits
      BY <1>4, Sizes
    <3> HIDE DEF here, o
    <3>2. here \in Nat /\ here < Pow2[d] /\ o \in Nat /\ o < Pow2[d]
      BY <1>4, <2>1, Binary
    <3>3. Xor(WordBits, here, o) \in Nat /\ Xor(WordBits, here, o) < Pow2[d]
      BY <1>4, <3>1, <3>2, XorBelow
    <3>4. there \in Nat /\ there < size
      BY <3>3, Binary DEF xor, Xor
    <3> HIDE DEF there
    <3> QED BY <1>4, <3>4
  <2>3. Leaf(k, there) = g[there]
    BY <1>6, <2>2 DEF HasLeaves, g
  <2> QED BY <2>3 DEF Output
<1>9. ASSUME NEW t \in N
      PROVE  /\ ChunkStart(v.num_evals, v.nthreads, t) \in Nat /\ Chunk(v, t) \in Nat
             /\ ChunkStart(v.num_evals, v.nthreads, t) + Chunk(v, t) <= v.num_evals
             /\ v.accums[t] = [m \in 1 .. Chunk(v, t) |-> Output(v, g, size, PlaceOf(v, t, m - 1))]
  <2>1. PICK n \in 0 .. Chunk(v, t) : ThreadAt(v, f, g, d, x, t, n)
    BY <1>5 DEF EvalOf
  <2> DEFINE out == [m \in Nat |-> Output(v, g, size, PlaceOf(v, t, m))]
             a == v.accums[t]
  <2>2. \A m \in 1 .. n : m - 1 \in Nat
    OBVIOUS
  <2>3. a = [m \in 1 .. n |-> out[m - 1]]
    BY <2>1, <2>2 DEF ThreadAt
  <2>4. n \in Nat
    OBVIOUS
  <2>5. Len(a) = n
    <3> HIDE DEF a, out
    <3> QED BY ONLY <2>3, <2>4, OneMore
  <2>6. n = Chunk(v, t)
    BY <1>5, <2>5 DEF Finished
  <2>7. ChunksFollow(v.num_evals, v.nthreads, t)
    BY <1>7, ChunkSteps
  <2>8. ChunkStart(v.num_evals, v.nthreads, t) + Chunk(v, t) <= v.num_evals
    BY <1>7, ChunksCover DEF Chunk
  <2> QED BY <2>1, <2>6, <2>7, <2>8 DEF ThreadAt, ChunksFollow, Chunk
<1>10. ASSUME NEW t \in N, NEW m \in DOMAIN v.accums[t] PROVE v.accums[t][m] \in outs
  <2> DEFINE i == PlaceOf(v, t, m - 1)
  <2>1. m \in 1 .. Chunk(v, t) /\ v.accums[t][m] = Output(v, g, size, i)
    BY <1>9
  <2>2. i \in range
    <3> DEFINE first == ChunkStart(v.num_evals, v.nthreads, t)
               z == Chunk(v, t)
               n == v.num_evals
    <3>1. first \in Nat /\ z \in Nat /\ first + z <= n /\ n \in Nat
      BY <1>7, <1>9
    <3>2. i = first + (m - 1) /\ m \in 1 .. z
      BY <2>1 DEF PlaceOf
    <3> HIDE DEF first, z, i, n
    <3>3. i \in 0 .. n - 1
      BY <3>1, <3>2
    <3> QED BY <3>3 DEF n
  <2> HIDE DEF i, range
  <2> QED BY <2>1, <2>2
<1>11. ASSUME NEW i \in range
       PROVE  \E t \in N : \E m \in DOMAIN v.accums[t] : v.accums[t][m] = Output(v, g, size, i)
  <2>1. PICK t \in N : InChunk(v.num_evals, v.nthreads, t, i)
    BY <1>7, ChunksCover
  <2> DEFINE first == ChunkStart(v.num_evals, v.nthreads, t)
             m == i - first + 1
  <2>2. first <= i /\ i < first + Chunk(v, t) /\ first \in Nat /\ Chunk(v, t) \in Nat
    BY <1>9, <2>1 DEF InChunk, Chunk
  <2>3. m \in 1 .. Chunk(v, t) /\ first + (m - 1) = i
    BY <2>2
  <2>4. PlaceOf(v, t, m - 1) = i
    BY <2>3 DEF PlaceOf
  <2> HIDE DEF m, first
  <2>5. m \in DOMAIN v.accums[t] /\ v.accums[t][m] = Output(v, g, size, i)
    BY <1>9, <2>3, <2>4
  <2> QED BY <2>5
<1>12. all = outs
  <2>1. all \subseteq outs
    BY <1>7, <1>10
  <2>2. outs \subseteq all
    BY <1>7, <1>11
  <2> QED BY <2>1, <2>2
<1>13. outs = {<<i, Leaf(k, xor((v.start + i) % size, v.offset % size))>> : i \in range}
  BY <1>8
<1>14. all = {<<i, Leaf(k, xor((v.start + i) % size, v.offset % size))>> : i \in range}
  BY <1>12, <1>13
<1>15. ASSUME NEW t \in N, NEW m \in DOMAIN v.accums[t]
       PROVE  /\ v.accums[t][m][1] \in Nat
              /\ v.accums[t][m][1] + 1 = ChunkStart(v.num_evals, v.nthreads, t) + m
              /\ InChunk(v.num_evals, v.nthreads, t, v.accums[t][m][1])
  <2> DEFINE first == ChunkStart(v.num_evals, v.nthreads, t)
             i == first + (m - 1)
             z == Chunk(v, t)
  <2>1. m \in 1 .. z /\ v.accums[t][m] = Output(v, g, size, i)
    BY <1>9 DEF PlaceOf
  <2>2. v.accums[t][m][1] = i
    BY <2>1 DEF Output
  <2>3. first \in Nat /\ z \in Nat
    BY <1>9
  <2>4. i \in Nat /\ i + 1 = first + m /\ first <= i /\ i < first + z
    <3> HIDE DEF first, z
    <3> QED BY <2>1, <2>3
  <2>5. InChunk(v.num_evals, v.nthreads, t, i)
    BY <2>4 DEF InChunk, Chunk
  <2> QED BY <2>2, <2>4, <2>5
<1>16. ASSUME NEW t \in N, NEW u \in N, NEW n \in DOMAIN v.accums[t], NEW m \in DOMAIN v.accums[u],
              v.accums[t][n][1] = v.accums[u][m][1]
       PROVE  t = u /\ n = m
  <2> DEFINE i == v.accums[t][n][1]
  <2>1. /\ i \in Nat /\ t \in Nat /\ u \in Nat
        /\ InChunk(v.num_evals, v.nthreads, t, i) /\ InChunk(v.num_evals, v.nthreads, u, i)
    BY <1>7, <1>15, <1>16
  <2>2. t = u
    BY <1>7, <2>1, ChunksApart
  <2>3. /\ i + 1 = ChunkStart(v.num_evals, v.nthreads, t) + n
        /\ i + 1 = ChunkStart(v.num_evals, v.nthreads, t) + m
        /\ ChunkStart(v.num_evals, v.nthreads, t) \in Nat
    BY <1>9, <1>15, <1>16, <2>2
  <2>4. n \in Int /\ m \in Int
    <3>1. n \in 1 .. Chunk(v, t) /\ Chunk(v, t) \in Nat
      BY <1>9
    <3>2. m \in 1 .. Chunk(v, u) /\ Chunk(v, u) \in Nat
      BY <1>9
    <3> QED BY <3>1, <3>2
  <2> DEFINE first == ChunkStart(v.num_evals, v.nthreads, t)
             next == i + 1
  <2>5. next = first + n /\ next = first + m /\ first \in Nat
    BY <2>3
  <2> HIDE DEF first, next, i
  <2>6. n = m
    BY <2>4, <2>5
  <2> QED BY <2>2, <2>6
<1>17. \A t, u \in DOMAIN v.accums : \A n \in DOMAIN v.accums[t], m \in DOMAIN v.accums[u] :
          v.accums[t][n][1] = v.accums[u][m][1] => t = u /\ n = m
  BY <1>7, <1>16
<1> QED BY <1>5, <1>14, <1>17 DEF v, k, p

\* The threads of a ParallelEval process every index of the range once each, with
\* the leaf that is the offset away from its place, also where the range wraps
\* around and whatever the number of threads and the order of their steps
\* (ParallelEval::reduce and StreamEval of rdpf.tcc).
THEOREM EvaluatesTheRange == Spec => []ProcessesTheRange
<1>1. Init => EvalInv
  BY DEF Init, EvalInv
<1>2. IInv /\ TreesInv /\ EvalInv /\ [Next]_vars => EvalInv'
  BY NextEval
<1>3. IInv /\ EvalInv => ProcessesTheRange
  BY ProcessesAll
<1> QED BY <1>1, <1>2, <1>3, Invariance, TreesInvariance, PTL DEF Spec
=============================================================================
