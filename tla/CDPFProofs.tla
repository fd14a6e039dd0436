----------------------------- MODULE CDPFProofs -----------------------------
(***************************************************************************)
(* Proofs about CDPF.tla, for trees of any depth, words of any length and  *)
(* any generators: the leaves of the two parties differ in the bit of the  *)
(* target alone, their descents fit together at every level, and what they *)
(* return shares the sign of the value compared.                           *)
(***************************************************************************)
EXTENDS CDPF, Basics

-----------------------------------------------------------------------------
(* Powers of 2, quotients and bits, as in Basics.                          *)

LEMMA Binary ==
    /\ Shl = Pow2 /\ XorBits = XorTable
    /\ \A v, k : Bit(v, k) = Digit(v, k)
<1>1. Shl = Pow2
  BY DEF Shl, Pow2
<1>2. XorBits = XorTable
  BY DEF XorBits, XorTable
<1> QED BY <1>1, <1>2 DEF Bit, Digit

LEMMA ShlFacts ==
    /\ Shl[0] = 1
    /\ \A n \in Nat : Shl[n] \in Nat \ {0} /\ Shl[n + 1] = 2 * Shl[n]
BY Binary, Pow2Facts

LEMMA ShlSum ==
    ASSUME NEW m \in Nat, NEW n \in Nat
    PROVE  Shl[m + n] = Shl[m] * Shl[n]
BY Binary, Pow2Sum

\* A quotient by a power of 2 is twice the next one and a bit.
LEMMA NextQuotient ==
    ASSUME NEW v \in Nat, NEW k \in Nat
    PROVE  /\ v \div Shl[k] = 2 * (v \div Shl[k + 1]) + Bit(v, k)
           /\ v \div Shl[k] \in Nat /\ v \div Shl[k + 1] \in Nat
           /\ Bit(v, k) \in {0, 1}
BY Binary, QuotientOfPower

LEMMA Sizes ==
    /\ Depth \in Nat /\ Depth >= 2 /\ LeafBits \in Nat /\ WordBits \in Nat /\ WordBits > 0
    /\ ValueBits \in Nat /\ ValueBits = Depth + LeafBits
    /\ NumValues \in Nat /\ Half \in Nat /\ Half > 0 /\ NumValues = 2 * Half
    /\ Shl[LeafBits] \in Nat /\ Shl[LeafBits] > 0 /\ Bits = 0 .. Shl[LeafBits] - 1
    /\ 0 \in Bits
<1>1. Depth \in Nat /\ Depth >= 2 /\ LeafBits \in Nat /\ WordBits \in Nat /\ WordBits > 0
  BY DepthAssumption, LeafAssumption, WordBitsAssumption
<1>2. ValueBits \in Nat /\ ValueBits = Depth + LeafBits /\ ValueBits - 1 \in Nat
  BY <1>1 DEF ValueBits
<1>3. NumValues \in Nat /\ Half \in Nat /\ Half > 0 /\ NumValues = 2 * Half
  <2>1. NumValues = Shl[(ValueBits - 1) + 1]
    <3>1. (ValueBits - 1) + 1 = ValueBits
      BY <1>2
    <3> QED BY <1>2, <3>1 DEF NumValues
  <2> QED BY <1>2, <2>1, ShlFacts DEF Half
<1>4. Shl[LeafBits] \in Nat /\ Shl[LeafBits] = 2 * WordBits
  BY <1>1, LeafAssumption
<1>5. Bits = 0 .. Shl[LeafBits] - 1 /\ 0 \in Bits
  BY <1>1, <1>4 DEF Bits
<1> QED BY <1>1, <1>2, <1>3, <1>4, <1>5

LEMMA InValue ==
    \A v : v \in Value <=> v \in Nat /\ v < NumValues
<1>1. NumValues \in Nat
  BY Sizes
<1> QED BY <1>1 DEF Value

\* A prefix is twice the one before, and the direction of its last level.
LEMMA NextAbove ==
    ASSUME NEW v \in Nat, NEW l \in Nat, l < ValueBits
    PROVE  /\ Above(v, l + 1) = 2 * Above(v, l) + Dir(v, l)
           /\ Above(v, l) \in Nat /\ Above(v, l + 1) \in Nat
           /\ Dir(v, l) \in {0, 1}
<1> DEFINE k == ValueBits - l - 1
<1>1. k \in Nat /\ k = ValueBits - (l + 1) /\ k + 1 = ValueBits - l
  BY Sizes
<1>2. /\ v \div Shl[k] = 2 * (v \div Shl[k + 1]) + Bit(v, k)
      /\ v \div Shl[k] \in Nat /\ v \div Shl[k + 1] \in Nat
      /\ Bit(v, k) \in {0, 1}
  <2> HIDE DEF k
  <2> QED BY <1>1, NextQuotient
<1>3. Above(v, l + 1) = v \div Shl[k] /\ Above(v, l) = v \div Shl[k + 1]
  BY <1>1 DEF Above
<1>4. Dir(v, l) = Bit(v, k)
  BY DEF Dir
<1> HIDE DEF k
<1> QED BY <1>2, <1>3, <1>4

LEMMA AboveNothing ==
    ASSUME NEW v \in Value
    PROVE  Above(v, 0) = 0
<1>1. v \in Nat /\ v < NumValues /\ NumValues \in Nat /\ NumValues > 0
  BY InValue, Sizes
<1>2. v \in 0 .. NumValues - 1 /\ Apart(v, v, 0, NumValues)
  BY <1>1 DEF Apart
<1>3. v \div NumValues = 0
  BY <1>1, <1>2, QuotientUnique
<1>4. ValueBits - 0 = ValueBits
  BY Sizes
<1>5. Above(v, 0) = v \div Shl[ValueBits - 0]
  BY DEF Above
<1> QED BY <1>3, <1>4, <1>5 DEF NumValues

LEMMA AboveRange ==
    ASSUME NEW v \in Value, NEW l \in Nat, l <= ValueBits
    PROVE  Above(v, l) \in Nat /\ Above(v, l) < Shl[l]
<1> DEFINE T == {n \in Nat : n <= ValueBits => Above(v, n) \in Nat /\ Above(v, n) < Shl[n]}
<1>1. 0 \in T
  BY AboveNothing, ShlFacts
<1>2. ASSUME NEW n \in Nat, n \in T PROVE n + 1 \in T
  <2>1. SUFFICES ASSUME n + 1 <= ValueBits
                 PROVE  Above(v, n + 1) \in Nat /\ Above(v, n + 1) < Shl[n + 1]
    OBVIOUS
  <2>2. n < ValueBits /\ n <= ValueBits /\ v \in Nat
    BY <2>1, InValue, Sizes
  <2>3. Above(v, n + 1) = 2 * Above(v, n) + Dir(v, n) /\ Above(v, n + 1) \in Nat
        /\ Dir(v, n) \in {0, 1}
    BY <2>2, NextAbove
  <2>4. Above(v, n) \in Nat /\ Above(v, n) < Shl[n]
    BY <1>2, <2>2
  <2>5. Shl[n] \in Nat /\ Shl[n + 1] = 2 * Shl[n]
    BY ShlFacts
  <2> QED BY <2>3, <2>4, <2>5
<1> HIDE DEF T
<1>3. \A n \in Nat : n \in T
  BY <1>1, <1>2, SetInduction
<1> QED BY <1>3 DEF T

\* What a leaf stands for, and the bit in it.
LEMMA LeafPart ==
    ASSUME NEW v \in Nat
    PROVE  /\ Above(v, Depth) = v \div Shl[LeafBits]
           /\ Above(v, Depth) \in Nat
           /\ v % Shl[LeafBits] \in Bits /\ v % Shl[LeafBits] \in Nat
           /\ v = Above(v, Depth) * Shl[LeafBits] + (v % Shl[LeafBits])
<1>1. ValueBits - Depth = LeafBits
  BY Sizes
<1> DEFINE m == Shl[LeafBits]
<1>2. m \in Nat /\ m > 0 /\ Bits = 0 .. m - 1
  BY Sizes
<1> HIDE DEF m
<1>3. /\ v \div m \in Nat /\ v % m \in Nat /\ v % m < m
      /\ v = (v \div m) * m + (v % m)
  BY <1>2, QuotientOf
<1>4. v % m \in Bits
  BY <1>2, <1>3
<1> QED BY <1>1, <1>3, <1>4 DEF m, Above

-----------------------------------------------------------------------------
(* The value half of the range away.                                       *)

\* v is w, or half of the range from it one way or the other: the prefixes are
\* half of the nodes of their level apart, and the bits in a leaf are the same.
LEMMA HalfFurther ==
    ASSUME NEW w \in Nat, NEW v, v = w + Half, NEW l \in Nat, 1 <= l, l <= ValueBits
    PROVE  Above(v, l) = Above(w, l) + Shl[l - 1]
<1> DEFINE i == l - 1
           j == ValueBits - l
           m == Shl[j]
           q == w \div m
           r == w % m
           h == Shl[i]
<1>1. i \in Nat /\ j \in Nat /\ i + j = ValueBits - 1
  BY Sizes
<1>2. Half = h * m
  <2>1. Half = Shl[i + j]
    BY <1>1 DEF Half
  <2>2. Shl[i + j] = Shl[i] * Shl[j]
    <3> HIDE DEF i, j
    <3> QED BY <1>1, ShlSum
  <2> QED BY <2>1, <2>2
<1>3. m \in Nat /\ m > 0 /\ h \in Nat
  <2> HIDE DEF i, j
  <2> QED BY <1>1, ShlFacts
<1>4. q \in Nat /\ r \in Nat /\ r < m /\ w = q * m + r
  <2> HIDE DEF m
  <2> QED BY <1>3, QuotientOf
<1>5. v \div m = q + h
  <2> DEFINE k == q + h
  <2>1. k \in Nat /\ r \in 0 .. m - 1
    <3> HIDE DEF m, q, r, h
    <3> QED BY <1>3, <1>4
  <2>2. Apart(v, r, k, m)
    <3> HIDE DEF m, q, r, h
    <3>1. (q + h) * m + r = (q * m + r) + h * m
      BY <1>3, <1>4
    <3> QED BY <3>1, <1>2, <1>4 DEF Apart
  <2> HIDE DEF k, m, q, r, h
  <2>3. v \div m = k
    BY <1>3, <2>1, <2>2, QuotientUnique
  <2> QED BY <2>3 DEF k
<1>6. Above(v, l) = v \div m /\ Above(w, l) = w \div m
  BY DEF Above
<1> QED BY <1>5, <1>6

LEMMA SameLeafBit ==
    ASSUME NEW w \in Nat, NEW v, v = w + Half
    PROVE  v % Shl[LeafBits] = w % Shl[LeafBits]
<1> DEFINE i == Depth - 1
           m == Shl[LeafBits]
           h == Shl[i]
<1>1. i \in Nat /\ LeafBits \in Nat /\ i + LeafBits = ValueBits - 1
  BY Sizes
<1>2. Half = h * m
  <2>1. Half = Shl[i + LeafBits]
    BY <1>1 DEF Half
  <2>2. Shl[i + LeafBits] = Shl[i] * Shl[LeafBits]
    <3> HIDE DEF i
    <3> QED BY <1>1, ShlSum
  <2> QED BY <2>1, <2>2
<1>3. m \in Nat /\ m > 0 /\ h \in Nat
  <2> HIDE DEF i
  <2> QED BY <1>1, ShlFacts
<1> HIDE DEF m, h
<1>4. Apart(v, w, h, m)
  BY <1>2 DEF Apart
<1>5. Residue(v, m) = Residue(w, m)
  BY <1>3, <1>4, ResidueShift
<1> QED BY <1>5 DEF Residue, m

\* The value opposite to S.
Across(S) == (S + Half) % NumValues

LEMMA AcrossIs ==
    ASSUME NEW S \in Value
    PROVE  /\ Across(S) \in Value
           /\ Across(S) = S + Half \/ S = Across(S) + Half
<1> DEFINE n == NumValues
           y == S + Half
<1>1. S \in Nat /\ S < n /\ n \in Nat /\ n > 0 /\ n = 2 * Half /\ Half \in Nat
  BY InValue, Sizes
<1>2. CASE y < n
  <2>1. Apart(y, y, 0, n) /\ y \in 0 .. n - 1
    BY <1>1, <1>2 DEF Apart
  <2>2. Residue(y, n) = y
    <3> HIDE DEF y, n
    <3> QED BY <1>1, <2>1, ResidueUnique
  <2> QED BY <2>1, <2>2 DEF Across, Residue, Value
<1>3. CASE ~ y < n
  <2> DEFINE z == y - n
  <2>1. Apart(y, z, 1, n) /\ z \in 0 .. n - 1 /\ S = z + Half
    BY <1>1, <1>3 DEF Apart
  <2>2. Residue(y, n) = z
    <3> HIDE DEF y, n, z
    <3> QED BY <1>1, <2>1, ResidueUnique
  <2>3. Across(S) = z /\ Value = 0 .. n - 1
    BY <2>2 DEF Across, Residue, Value
  <2> HIDE DEF z, n
  <2> QED BY <2>1, <2>3
<1> QED BY <1>2, <1>3

LEMMA AcrossAbove ==
    ASSUME NEW S \in Value, NEW l \in Nat, 1 <= l, l <= ValueBits
    PROVE  \/ Above(Across(S), l) = Above(S, l) + Shl[l - 1]
           \/ Above(S, l) = Above(Across(S), l) + Shl[l - 1]
<1>1. S \in Nat /\ Across(S) \in Nat
  BY AcrossIs, InValue
<1> QED BY <1>1, AcrossIs, HalfFurther

\* The ways to S and to the opposite value part at the root and go on alike.
LEMMA AcrossDir ==
    ASSUME NEW S \in Value
    PROVE  /\ Dir(Across(S), 0) = 1 - Dir(S, 0)
           /\ \A l \in Nat : 1 <= l /\ l < ValueBits => Dir(Across(S), l) = Dir(S, l)
<1> DEFINE T == Across(S)
<1>1. S \in Nat /\ T \in Nat /\ S \in Value /\ T \in Value
  BY AcrossIs, InValue
<1>2. Dir(T, 0) = 1 - Dir(S, 0)
  <2>1. 0 < ValueBits /\ 0 + 1 = 1 /\ 1 - 1 = 0 /\ 1 <= ValueBits
    BY Sizes
  <2>2. /\ Above(S, 1) = 2 * Above(S, 0) + Dir(S, 0)
        /\ Above(T, 1) = 2 * Above(T, 0) + Dir(T, 0)
        /\ Dir(S, 0) \in {0, 1} /\ Dir(T, 0) \in {0, 1}
    <3> HIDE DEF T
    <3> QED BY <1>1, <2>1, NextAbove
  <2>3. Above(S, 0) = 0 /\ Above(T, 0) = 0
    <3> HIDE DEF T
    <3> QED BY <1>1, AboveNothing
  <2>4. Above(T, 1) = Above(S, 1) + Shl[1 - 1] \/ Above(S, 1) = Above(T, 1) + Shl[1 - 1]
    BY <2>1, AcrossAbove
  <2>5. Shl[1 - 1] = 1
    BY <2>1, ShlFacts
  <2> HIDE DEF T
  <2> QED BY <2>2, <2>3, <2>4, <2>5
<1>3. ASSUME NEW l \in Nat, 1 <= l, l < ValueBits PROVE Dir(T, l) = Dir(S, l)
  <2>1. l + 1 \in Nat /\ 1 <= l + 1 /\ l + 1 <= ValueBits /\ l <= ValueBits /\ l < ValueBits
    BY <1>3, Sizes
  <2>2. \/ T = S + Half
        \/ S = T + Half
    BY AcrossIs
  <2> HIDE DEF T
  <2>3. /\ Above(S, l + 1) = 2 * Above(S, l) + Dir(S, l)
        /\ Above(T, l + 1) = 2 * Above(T, l) + Dir(T, l)
        /\ Dir(S, l) \in {0, 1} /\ Dir(T, l) \in {0, 1}
        /\ Above(S, l) \in Nat /\ Above(T, l) \in Nat
    BY <1>1, <2>1, NextAbove
  <2>4. l - 1 \in Nat /\ (l + 1) - 1 = (l - 1) + 1
    BY <1>3
  <2>5. Shl[(l + 1) - 1] = 2 * Shl[l - 1] /\ Shl[l - 1] \in Nat
    BY <2>4, ShlFacts
  <2>6. CASE T = S + Half
    <3>1. Above(T, l) = Above(S, l) + Shl[l - 1] /\ Above(T, l + 1) = Above(S, l + 1) + Shl[(l + 1) - 1]
      BY <1>1, <1>3, <2>1, <2>6, HalfFurther
    <3> QED BY <2>3, <2>5, <3>1
  <2>7. CASE S = T + Half
    <3>1. Above(S, l) = Above(T, l) + Shl[l - 1] /\ Above(S, l + 1) = Above(T, l + 1) + Shl[(l + 1) - 1]
      BY <1>1, <1>3, <2>1, <2>7, HalfFurther
    <3> QED BY <2>3, <2>5, <3>1
  <2> QED BY <2>2, <2>6, <2>7
<1> QED BY <1>2, <1>3

LEMMA AcrossLeafBit ==
    ASSUME NEW S \in Value
    PROVE  Across(S) % Shl[LeafBits] = S % Shl[LeafBits]
<1>1. S \in Nat /\ Across(S) \in Nat
  BY AcrossIs, InValue
<1>2. CASE Across(S) = S + Half
  BY <1>1, <1>2, SameLeafBit
<1>3. CASE S = Across(S) + Half
  BY <1>1, <1>3, SameLeafBit
<1> QED BY <1>2, <1>3, AcrossIs

-----------------------------------------------------------------------------
(* Between two opposite nodes.                                             *)

LEMMA TimesLess ==
    ASSUME NEW b \in Nat, NEW i \in Nat, NEW j \in Nat, i < j
    PROVE  b * i \in Nat /\ b * j \in Nat /\ b * i + b <= b * j
<1>1. PICK k \in Nat : j = (i + 1) + k
  <2>1. j - (i + 1) \in Nat /\ j = (i + 1) + (j - (i + 1))
    OBVIOUS
  <2> QED BY <2>1
<1>2. b * j = (b * i + b) + b * k /\ b * k \in Nat /\ b * i \in Nat
  BY <1>1
<1> QED BY <1>2

\* Whether a node g is strictly between s and the node t, h of 2 * h nodes
\* further, going up from s and around.
Inside(g, s, h) == Residue(g - s, 2 * h) \in 1 .. h - 1

\* When nodes are split into b parts each, part e of g is between part d of s
\* and part d of t if g is, and for g = s or g = t if e is on the right side of
\* d.
LEMMA InsideParts ==
    ASSUME NEW h \in Nat, h > 0, NEW b \in Nat, b > 0,
           NEW s \in Nat, s < 2 * h, NEW g \in Nat, g < 2 * h,
           NEW t \in Nat, t < 2 * h, t = s + h \/ s = t + h,
           NEW d \in Nat, d < b, NEW e \in Nat, e < b
    PROVE  Inside(b * g + e, b * s + d, b * h)
             <=> \/ Inside(g, s, h)
                 \/ g = s /\ e > d
                 \/ g = t /\ e < d
<1> DEFINE u == Residue(g - s, 2 * h)
           D == (b * g + e) - (b * s + d)
           N == 2 * (b * h)
           H == b * h
           U == b * u
<1>1. PICK c \in Int : g - s = c * (2 * h) + u /\ u \in 0 .. (2 * h) - 1
  <2> DEFINE m == 2 * h
             y == g - s
  <2>1. m \in Nat /\ m > 0 /\ y \in Int
    OBVIOUS
  <2> HIDE DEF m, y
  <2>2. \E k \in Int : y = k * m + Residue(y, m) /\ Residue(y, m) \in 0 .. m - 1
    BY <2>1, Residues
  <2> QED BY <2>2 DEF m, y
<1> HIDE DEF u
<1>2. u \in Nat /\ u < 2 * h
  BY <1>1
<1>3. c = 0 \/ c + 1 = 0
  <2>1. CASE c > 0
    <3>1. PICK k \in Nat : c = k + 1
      <4>1. c - 1 \in Nat /\ c = (c - 1) + 1
        BY <2>1
      <4> QED BY <4>1
    <3>2. c * (2 * h) = k * (2 * h) + 2 * h /\ k * (2 * h) \in Nat
      BY <3>1
    <3> QED BY <3>2, <1>1, <1>2
  <2>2. CASE c < -1
    <3>1. PICK k \in Nat : c = -2 - k
      <4>1. -2 - c \in Nat /\ c = -2 - (-2 - c)
        BY <2>2
      <4> QED BY <4>1
    <3>2. c * (2 * h) = -4 * h - k * (2 * h) /\ k * (2 * h) \in Nat
      BY <3>1
    <3> QED BY <3>2, <1>1, <1>2
  <2> QED BY <2>1, <2>2
<1>4. g - s = u \/ g - s = u - 2 * h
  <2>1. CASE c = 0
    BY <2>1, <1>1, <1>2
  <2>2. CASE c + 1 = 0
    <3>1. c * (2 * h) = 0 - 2 * h
      BY <2>2
    <3> QED BY <3>1, <1>1, <1>2
  <2> QED BY <2>1, <2>2, <1>3
<1>5. (g = s <=> u = 0) /\ (g = t <=> u = h)
  <2>1. g = s <=> u = 0
    BY <1>2, <1>4
  <2>2. CASE t = s + h
    BY <1>2, <1>4, <2>1, <2>2
  <2>3. CASE s = t + h
    BY <1>2, <1>4, <2>1, <2>3
  <2> QED BY <2>2, <2>3
<1>6. /\ U \in Nat /\ H \in Nat /\ H >= b /\ N = 2 * H
      /\ (u = 0 => U = 0) /\ (u = h => U = H)
      /\ (0 < u => U >= b) /\ (u < h => U + b <= H) /\ (u > h => U >= H + b)
      /\ U + b <= N
  <2>1. U \in Nat /\ H \in Nat /\ N = 2 * H
    BY <1>2
  <2>2. (u = 0 => U = 0) /\ (u = h => U = H)
    BY <1>2
  <2>3. 0 < u => U >= b
    BY <1>2, TimesLess
  <2>4. u < h => U + b <= H
    BY <1>2, TimesLess
  <2>5. u > h => U >= H + b
    BY <1>2, TimesLess
  <2>6. U + b <= N
    <3>1. U + b <= b * (2 * h)
      BY <1>2, TimesLess
    <3>2. b * (2 * h) = 2 * (b * h)
      OBVIOUS
    <3> QED BY <3>1, <3>2
  <2>7. H >= b
    <3>1. b * 0 + b <= b * h /\ b * 0 = 0
      BY TimesLess
    <3> QED BY <3>1
  <2> QED BY <2>1, <2>2, <2>3, <2>4, <2>5, <2>6, <2>7
<1>7. Apart(D, U + (e - d), c, N)
  <2>1. b * g - b * s = b * (g - s)
    OBVIOUS
  <2>2. b * (c * (2 * h) + u) = c * (2 * (b * h)) + b * u
    BY <1>2
  <2>3. b * g - b * s = c * N + U
    BY <2>1, <2>2, <1>1
  <2>4. b * g \in Int /\ b * s \in Int /\ c * N \in Int
    OBVIOUS
  <2> HIDE DEF N, U
  <2>5. U \in Int
    BY <1>6
  <2> QED BY <2>3, <2>4, <2>5 DEF Apart
<1> HIDE DEF U, H, N, D
<1>8. Inside(b * g + e, b * s + d, b * h) <=> Residue(D, N) \in 1 .. H - 1
  BY DEF Inside, D, N, H
<1>9. Inside(g, s, h) <=> u \in 1 .. h - 1
  BY DEF Inside, u
<1>10. CASE u = 0 /\ e < d
  <2> DEFINE r == N + (e - d)
             k == c - 1
  <2>1. Apart(D, r, k, N) /\ r \in 0 .. N - 1 /\ k \in Int /\ N \in Nat /\ N > 0
    <3>1. (c - 1) * N = c * N - N /\ c * N \in Int
      BY <1>6
    <3>2. D = c * N + (e - d)
      BY <1>6, <1>7, <1>10, <3>1 DEF Apart
    <3>3. D = (c - 1) * N + (N + (e - d))
      BY <3>1, <3>2, <1>6
    <3>4. N + (e - d) \in 0 .. N - 1 /\ N \in Nat /\ N > 0
      BY <1>6, <1>10
    <3> QED BY <3>3, <3>4 DEF Apart
  <2>2. Residue(D, N) = r
    <3> HIDE DEF r, k
    <3> QED BY <2>1, ResidueUnique
  <2>3. ~ (r \in 1 .. H - 1)
    BY <1>6
  <2> HIDE DEF r
  <2> QED BY <1>5, <1>8, <1>9, <1>10, <2>2, <2>3
<1>11. CASE ~ (u = 0 /\ e < d)
  <2> DEFINE r == U + (e - d)
  <2>1. r \in 0 .. N - 1 /\ N \in Nat /\ N > 0
    BY <1>2, <1>6, <1>11
  <2>2. Residue(D, N) = r
    <3>1. Apart(D, r, c, N)
      BY <1>7
    <3> HIDE DEF r
    <3> QED BY <2>1, <3>1, ResidueUnique
  <2>3. r \in 1 .. H - 1 <=> (u \in 1 .. h - 1) \/ (u = 0 /\ e > d) \/ (u = h /\ e < d)
    <3>1. CASE u = 0
      BY <3>1, <1>6, <1>11
    <3>2. CASE 0 < u /\ u < h
      BY <3>2, <1>6, <1>2
    <3>3. CASE u = h
      BY <3>3, <1>6
    <3>4. CASE u > h
      BY <3>4, <1>6, <1>2
    <3> QED BY <3>1, <3>2, <3>3, <3>4, <1>2
  <2> HIDE DEF r
  <2> QED BY <1>5, <1>8, <1>9, <2>2, <2>3
<1> QED BY <1>10, <1>11

\* Whether v is strictly between the ways to S and to the value opposite to it,
\* as far as a level tells.
InsideAt(v, S, l) == Inside(Above(v, l), Above(S, l), Shl[l - 1])

LEMMA InsideFirst ==
    ASSUME NEW v \in Value, NEW S \in Value
    PROVE  ~ InsideAt(v, S, 1)
<1>1. 1 - 1 = 0 /\ Shl[0] = 1
  BY ShlFacts
<1>2. Shl[1 - 1] = 1
  BY <1>1
<1> QED BY <1>2 DEF InsideAt, Inside

LEMMA InsideNext ==
    ASSUME NEW v \in Value, NEW S \in Value, NEW l \in Nat, 1 <= l, l < ValueBits
    PROVE  InsideAt(v, S, l + 1)
             <=> \/ InsideAt(v, S, l)
                 \/ Above(v, l) = Above(S, l) /\ Dir(v, l) > Dir(S, l)
                 \/ Above(v, l) = Above(Across(S), l) /\ Dir(v, l) < Dir(S, l)
<1> DEFINE h == Shl[l - 1]
           T == Across(S)
           s == Above(S, l)
           g == Above(v, l)
           t == Above(T, l)
           d == Dir(S, l)
           e == Dir(v, l)
           b == 2
<1>1. v \in Nat /\ S \in Nat /\ T \in Value /\ T \in Nat /\ l <= ValueBits /\ l - 1 \in Nat
      /\ (l - 1) + 1 = l /\ (l + 1) - 1 = l
  BY AcrossIs, InValue, Sizes
<1>2. h \in Nat /\ h > 0 /\ Shl[l] = 2 * h
  BY <1>1, ShlFacts
<1>3. /\ Above(v, l + 1) = b * g + e
      /\ Above(S, l + 1) = b * s + d
      /\ d \in {0, 1} /\ e \in {0, 1}
  BY <1>1, NextAbove
<1>4. s \in Nat /\ s < 2 * h /\ g \in Nat /\ g < 2 * h
  <2> HIDE DEF T
  <2> QED BY <1>1, <1>2, AboveRange
<1>5. t \in Nat /\ t < 2 * h
  <2> HIDE DEF T
  <2> QED BY <1>1, <1>2, AboveRange
<1>6. t = s + h \/ s = t + h
  BY <1>1, AcrossAbove
<1>7. b \in Nat /\ b > 0 /\ d \in Nat /\ d < b /\ e \in Nat /\ e < b
  <2> HIDE DEF d, e
  <2> QED BY <1>3
<1>8. InsideAt(v, S, l + 1) <=> Inside(b * g + e, b * s + d, b * h)
  BY <1>1, <1>2, <1>3 DEF InsideAt
<1>9. InsideAt(v, S, l) <=> Inside(g, s, h)
  BY DEF InsideAt
<1> HIDE DEF h, T, s, g, t, d, e, b
<1>10. Inside(b * g + e, b * s + d, b * h)
         <=> \/ Inside(g, s, h)
             \/ g = s /\ e > d
             \/ g = t /\ e < d
  BY <1>2, <1>4, <1>5, <1>6, <1>7, InsideParts
<1> QED BY <1>8, <1>9, <1>10 DEF s, g, t, d, e, T

LEMMA InsideLeaf ==
    ASSUME NEW v \in Value, NEW S \in Value
    PROVE  Inside(v, S, Half)
             <=> \/ InsideAt(v, S, Depth)
                 \/ /\ Above(v, Depth) = Above(S, Depth)
                    /\ v % Shl[LeafBits] > S % Shl[LeafBits]
                 \/ /\ Above(v, Depth) = Above(Across(S), Depth)
                    /\ v % Shl[LeafBits] < S % Shl[LeafBits]
<1> DEFINE l == Depth
           h == Shl[l - 1]
           T == Across(S)
           s == Above(S, l)
           g == Above(v, l)
           t == Above(T, l)
           b == Shl[LeafBits]
           d == S % b
           e == v % b
<1>1. v \in Nat /\ S \in Nat /\ T \in Value /\ T \in Nat
      /\ l \in Nat /\ 1 <= l /\ l <= ValueBits /\ l - 1 \in Nat /\ (l - 1) + 1 = l
      /\ LeafBits \in Nat /\ (l - 1) + LeafBits = ValueBits - 1
  BY AcrossIs, InValue, Sizes
<1>2. h \in Nat /\ h > 0 /\ Shl[l] = 2 * h /\ b \in Nat /\ b > 0
  BY <1>1, ShlFacts
<1>3. Half = h * b
  <2>1. Half = Shl[(l - 1) + LeafBits]
    BY <1>1 DEF Half
  <2> DEFINE i == l - 1
  <2>2. Shl[i + LeafBits] = Shl[i] * Shl[LeafBits]
    <3>1. i \in Nat
      BY <1>1
    <3> HIDE DEF i
    <3> QED BY <1>1, <3>1, ShlSum
  <2> QED BY <2>1, <2>2
<1>4. /\ v = g * b + e /\ S = s * b + d
      /\ d \in Nat /\ e \in Nat /\ d \in Bits /\ e \in Bits
  BY <1>1, LeafPart
<1>5. d < b /\ e < b
  BY <1>4, Sizes
<1>6. s \in Nat /\ s < 2 * h /\ g \in Nat /\ g < 2 * h
  <2> HIDE DEF T
  <2> QED BY <1>1, <1>2, AboveRange
<1>7. t \in Nat /\ t < 2 * h
  <2> HIDE DEF T
  <2> QED BY <1>1, <1>2, AboveRange
<1>8. t = s + h \/ s = t + h
  BY <1>1, AcrossAbove
<1>9. InsideAt(v, S, Depth) <=> Inside(g, s, h)
  BY DEF InsideAt
<1>10. Inside(v, S, Half) <=> Inside(b * g + e, b * s + d, b * h)
  <2> HIDE DEF h, s, g, d, e, b
  <2>1. g * b = b * g /\ s * b = b * s /\ h * b = b * h
    BY <1>2, <1>6
  <2> QED BY <2>1, <1>3, <1>4
<1> HIDE DEF h, T, s, g, t, d, e, b
<1>11. Inside(b * g + e, b * s + d, b * h)
         <=> \/ Inside(g, s, h)
             \/ g = s /\ e > d
             \/ g = t /\ e < d
  BY <1>2, <1>4, <1>5, <1>6, <1>7, <1>8, InsideParts
<1> QED BY <1>9, <1>10, <1>11 DEF s, g, t, d, e, b, T

\* The value opposite to S is half of the nodes of a level from it.
LEMMA UpAcross ==
    ASSUME NEW S \in Value, NEW l \in Nat, 1 <= l, l <= ValueBits
    PROVE  Residue(Above(Across(S), l) - Above(S, l), Shl[l]) = Shl[l - 1]
<1> DEFINE h == Shl[l - 1]
           n == Shl[l]
           y == Above(Across(S), l) - Above(S, l)
<1>1. l - 1 \in Nat /\ (l - 1) + 1 = l
  OBVIOUS
<1>2. h \in Nat /\ h > 0 /\ n = 2 * h
  BY <1>1, ShlFacts
<1>3. Above(S, l) \in Nat /\ Above(Across(S), l) \in Nat
  BY AcrossIs, AboveRange
<1>4. y = h \/ y = h - n
  BY <1>2, <1>3, AcrossAbove
<1>5. n \in Nat /\ n > 0 /\ h \in 0 .. n - 1
  BY <1>2
<1> HIDE DEF h, n, y
<1>6. CASE y = h
  <2>1. Apart(y, h, 0, n)
    BY <1>6, <1>5 DEF Apart
  <2>2. Residue(y, n) = h
    BY <2>1, <1>5, ResidueUnique
  <2> QED BY <2>2 DEF y, n, h
<1>7. CASE y = h - n
  <2> DEFINE k == 0 - 1
  <2>1. Apart(y, h, k, n) /\ k \in Int
    BY <1>7, <1>5 DEF Apart
  <2> HIDE DEF k
  <2>2. Residue(y, n) = h
    BY <2>1, <1>5, ResidueUnique
  <2> QED BY <2>2 DEF y, n, h
<1> QED BY <1>4, <1>6, <1>7

\* On either way nothing is between the ways.
LEMMA OnTheWay ==
    ASSUME NEW v \in Value, NEW S \in Value, NEW l \in Nat, 1 <= l, l <= ValueBits,
           Above(v, l) = Above(S, l) \/ Above(v, l) = Above(Across(S), l)
    PROVE  ~ InsideAt(v, S, l)
<1> DEFINE h == Shl[l - 1]
           n == 2 * h
           y == Above(v, l) - Above(S, l)
<1>1. l - 1 \in Nat /\ (l - 1) + 1 = l
  OBVIOUS
<1>2. h \in Nat /\ h > 0 /\ Shl[l] = n
  BY <1>1, ShlFacts
<1>3. InsideAt(v, S, l) <=> Residue(y, n) \in 1 .. h - 1
  BY DEF InsideAt, Inside
<1>4. Above(S, l) \in Nat
  BY AboveRange
<1>5. CASE Above(v, l) = Above(S, l)
  <2>1. y = 0
    BY <1>4, <1>5
  <2>2. n \in Nat /\ n > 0 /\ 0 \in 0 .. n - 1 /\ Apart(0, 0, 0, n)
    BY <1>2 DEF Apart
  <2> HIDE DEF n, y
  <2>3. Residue(0, n) = 0
    BY <2>2, ResidueUnique
  <2>4. Residue(y, n) = 0
    BY <2>1, <2>3
  <2> QED BY <1>3, <2>4
<1>6. CASE Above(v, l) = Above(Across(S), l)
  <2>1. Residue(y, n) = h
    BY <1>2, <1>6, UpAcross
  <2> HIDE DEF n, y, h
  <2> QED BY <1>2, <1>3, <2>1
<1> QED BY <1>5, <1>6

-----------------------------------------------------------------------------
(* Nodes and their children.                                               *)

\* The correction word of a side at a level, and the child that it corrects.
Word(k, l, side) ==
    IF l = Depth - 1 THEN IF side = 1 THEN k.leaf_cwr ELSE k.cw[Depth]
    ELSE IF side = 1 THEN xor_lsb(k.cw[l + 1], k.cfbits[l + 1])
    ELSE k.cw[l + 1]

Down(G, n, side, w) == xor_if(prg(G, n, side, 0), w, get_lsb(n))

LEMMA DescendIs ==
    \A k, n, l, side : Descend(k, n, l, side) = Down(Gens[gen], n, side, Word(k, l, side))
BY DEF Descend, Down, Word

Generators == [{0} \X Node -> Node]

LEMMA XorType ==
    ASSUME NEW a \in Node, NEW b \in Node
    PROVE  /\ XorNode(a, b) \in Node
           /\ \A f : xor_if(a, b, f) \in Node
           /\ \A f : xor_lsb(a, f) \in Node
<1>1. {0} \in Node
  BY Sizes DEF Node
<1> QED BY <1>1 DEF XorNode, xor_if, xor_lsb, Node

LEMMA ChildType ==
    ASSUME NEW G \in Generators, NEW n \in Node, NEW side
    PROVE  prg(G, n, side, 0) \in Node
<1> DEFINE in == (n \ {0}) \cup (IF side = 1 THEN {0} ELSE {})
<1>1. in \in Node
  BY Sizes DEF Node
<1> HIDE DEF in
<1>2. G[<<0, in>>] \in Node
  BY <1>1 DEF Generators
<1>3. XorNode(G[<<0, in>>], in) \in Node
  BY <1>1, <1>2, XorType
<1> QED BY <1>3 DEF prg, in

LEMMA DownType ==
    ASSUME NEW G \in Generators, NEW n \in Node, NEW side, NEW w \in Node
    PROVE  Down(G, n, side, w) \in Node
BY ChildType, XorType DEF Down

\* The flag of a XOR.
LEMMA FlagOfXor ==
    \A a, b : get_lsb(XorNode(a, b)) <=> (get_lsb(a) # get_lsb(b))
BY DEF get_lsb, XorNode

LEMMA FlagOfFlip ==
    \A a, f : f \in BOOLEAN => (get_lsb(xor_lsb(a, f)) <=> (get_lsb(a) # f))
BY DEF get_lsb, xor_lsb, XorNode

LEMMA XorBack ==
    \A a, b : /\ XorNode(a, XorNode(a, b)) = b
              /\ XorNode(XorNode(a, b), a) = b
              /\ XorNode(XorNode(a, b), b) = a
              /\ XorNode(a, b) = XorNode(b, a)
              /\ XorNode(a, {}) = a
              /\ XorNode(a, a) = {}
              /\ (XorNode(a, b) = {} => a = b)
BY DEF XorNode

LEMMA XorThree ==
    \A a, b, c : XorNode(XorNode(a, b), c) = XorNode(a, XorNode(b, c))
BY DEF XorNode

LEMMA FlipTwice ==
    \A a, f : /\ xor_lsb(xor_lsb(a, f), f) = a
              /\ xor_lsb(a, FALSE) = a
BY DEF xor_lsb, XorNode

\* A correction by the difference of two nodes makes them the same.
LEMMA Corrected ==
    ASSUME NEW m, NEW n, NEW f \in BOOLEAN, NEW g \in BOOLEAN, f # g
    PROVE  xor_if(m, XorNode(m, n), f) = xor_if(n, XorNode(m, n), g)
BY XorBack DEF xor_if

\* One by a word whose flag is not the one between those of two nodes makes
\* their flags differ.
LEMMA FlagsPart ==
    ASSUME NEW m, NEW n, NEW w, NEW f \in BOOLEAN, NEW g \in BOOLEAN, f # g,
           get_lsb(w) <=> (get_lsb(m) <=> get_lsb(n))
    PROVE  get_lsb(xor_if(m, w, f)) # get_lsb(xor_if(n, w, g))
<1>1. get_lsb(m) \in BOOLEAN /\ get_lsb(n) \in BOOLEAN /\ get_lsb(w) \in BOOLEAN
  BY DEF get_lsb
<1>2. CASE f
  <2>1. xor_if(m, w, f) = XorNode(m, w) /\ xor_if(n, w, g) = n
    BY <1>2 DEF xor_if
  <2> QED BY <1>1, <2>1, FlagOfXor
<1>3. CASE g
  <2>1. xor_if(m, w, f) = m /\ xor_if(n, w, g) = XorNode(n, w)
    BY <1>3 DEF xor_if
  <2> QED BY <1>1, <2>1, FlagOfXor
<1> QED BY <1>2, <1>3

\* A level of the generation, for the children l0, r0 and l1, r1 of the parties.
LevelFlag(l0, r0, l1, r1) ==
    ~ XorBool(XorBool(get_lsb(l0), get_lsb(l1)), XorBool(get_lsb(r0), get_lsb(r1)))

LEMMA LevelToRight ==
    ASSUME NEW l0, NEW r0, NEW l1, NEW r1, NEW f \in BOOLEAN, NEW g \in BOOLEAN, f # g,
           NEW cfbit, cfbit = LevelFlag(l0, r0, l1, r1),
           NEW CW, CW = XorNode(l0, l1)
    PROVE  /\ xor_if(l0, CW, f) = xor_if(l1, CW, g)
           /\ get_lsb(xor_if(r0, xor_lsb(CW, cfbit), f))
                # get_lsb(xor_if(r1, xor_lsb(CW, cfbit), g))
<1>1. xor_if(l0, CW, f) = xor_if(l1, CW, g)
  BY Corrected
<1>2. cfbit \in BOOLEAN
  BY DEF LevelFlag
<1>3. get_lsb(xor_lsb(CW, cfbit)) <=> (get_lsb(r0) <=> get_lsb(r1))
  <2>1. get_lsb(xor_lsb(CW, cfbit)) <=> (get_lsb(CW) # cfbit)
    BY <1>2, FlagOfFlip
  <2>2. get_lsb(CW) <=> (get_lsb(l0) # get_lsb(l1))
    BY FlagOfXor
  <2> QED BY <2>1, <2>2 DEF LevelFlag, XorBool, get_lsb
<1> DEFINE w == xor_lsb(CW, cfbit)
<1> HIDE DEF w
<1>4. get_lsb(xor_if(r0, w, f)) # get_lsb(xor_if(r1, w, g))
  <2>1. get_lsb(w) <=> (get_lsb(r0) <=> get_lsb(r1))
    BY <1>3 DEF w
  <2> QED BY <2>1, FlagsPart
<1> QED BY <1>1, <1>4 DEF w

LEMMA LevelToLeft ==
    ASSUME NEW l0, NEW r0, NEW l1, NEW r1, NEW f \in BOOLEAN, NEW g \in BOOLEAN, f # g,
           NEW cfbit, cfbit = LevelFlag(l0, r0, l1, r1),
           NEW CW, CW = xor_lsb(XorNode(r0, r1), cfbit)
    PROVE  /\ xor_if(r0, xor_lsb(CW, cfbit), f) = xor_if(r1, xor_lsb(CW, cfbit), g)
           /\ get_lsb(xor_if(l0, CW, f)) # get_lsb(xor_if(l1, CW, g))
<1>1. xor_lsb(CW, cfbit) = XorNode(r0, r1)
  BY FlipTwice
<1>2. xor_if(r0, XorNode(r0, r1), f) = xor_if(r1, XorNode(r0, r1), g)
  BY Corrected
<1>3. cfbit \in BOOLEAN
  BY DEF LevelFlag
<1>4. get_lsb(CW) <=> (get_lsb(l0) <=> get_lsb(l1))
  <2>1. get_lsb(CW) <=> (get_lsb(XorNode(r0, r1)) # cfbit)
    BY <1>3, FlagOfFlip
  <2>2. get_lsb(XorNode(r0, r1)) <=> (get_lsb(r0) # get_lsb(r1))
    BY FlagOfXor
  <2> QED BY <2>1, <2>2 DEF LevelFlag, XorBool, get_lsb
<1>5. get_lsb(xor_if(l0, CW, f)) # get_lsb(xor_if(l1, CW, g))
  BY <1>4, FlagsPart
<1> QED BY <1>1, <1>2, <1>5

-----------------------------------------------------------------------------
(* Paths down the two trees.                                               *)

\* The nodes a and b of the parties on the way to a target, down to level n:
\* their flags differ, and the children off the way are the same.
TrailTo(G, k, tgt, a, b, n) ==
    /\ a \in [Nat -> Node] /\ b \in [Nat -> Node]
    /\ \A l \in Nat : l <= n => get_lsb(a[l]) # get_lsb(b[l])
    /\ \A l \in Nat : l < n =>
        LET on  == Dir(tgt, l)
            off == 1 - on
        IN  /\ a[l + 1] = Down(G, a[l], on, Word(k, l, on))
            /\ b[l + 1] = Down(G, b[l], on, Word(k, l, on))
            /\ Down(G, a[l], off, Word(k, l, off)) = Down(G, b[l], off, Word(k, l, off))

\* The leaves below the last nodes are the same but for the target's bit.
LeavesFit(G, k, tgt, m0, m1) ==
    \A side \in Halves :
        XorNode(Down(G, m0, side, Word(k, Depth - 1, side)),
                Down(G, m1, side, Word(k, Depth - 1, side)))
          = IF side = Dir(tgt, Depth - 1) THEN {tgt % Shl[LeafBits]} ELSE {}

\* A complete pair of trees.
Pair(G, k, tgt, r0, r1) ==
    \E a, b : /\ TrailTo(G, k, tgt, a, b, Depth - 1)
              /\ a[0] = r0 /\ b[0] = r1
              /\ LeavesFit(G, k, tgt, a[Depth - 1], b[Depth - 1])

\* The nodes f of a party on the way to v from its root, down to level n.
PathTo(G, k, v, root, f, n) ==
    /\ f \in [Nat -> Node] /\ f[0] = root
    /\ \A l \in Nat : l < n => f[l + 1] = Down(G, f[l], Dir(v, l), Word(k, l, Dir(v, l)))

\* How the nodes f and g of the two parties on the way to v fit together.
Fit(v, tgt, f, g, n) ==
    /\ \A l \in Nat : l <= n /\ l < Depth =>
        IF Above(v, l) = Above(tgt, l) THEN get_lsb(f[l]) # get_lsb(g[l]) ELSE f[l] = g[l]
    /\ n = Depth => XorNode(f[Depth], g[Depth])
                      = IF Above(v, Depth) = Above(tgt, Depth) THEN {tgt % Shl[LeafBits]} ELSE {}

\* A prefix is the target's if the one before is and the direction is.
LEMMA SameNext ==
    ASSUME NEW v \in Value, NEW w \in Value, NEW l \in Nat, l < ValueBits
    PROVE  /\ Above(v, l + 1) = Above(w, l + 1)
                <=> Above(v, l) = Above(w, l) /\ Dir(v, l) = Dir(w, l)
           /\ Dir(v, l) \in Halves /\ Dir(w, l) \in Halves
           /\ (Dir(v, l) # Dir(w, l) => Dir(v, l) = 1 - Dir(w, l))
<1>1. v \in Nat /\ w \in Nat
  BY InValue
<1>2. /\ Above(v, l + 1) = 2 * Above(v, l) + Dir(v, l) /\ Above(v, l) \in Nat
      /\ Dir(v, l) \in {0, 1}
  BY <1>1, NextAbove
<1>3. /\ Above(w, l + 1) = 2 * Above(w, l) + Dir(w, l) /\ Above(w, l) \in Nat
      /\ Dir(w, l) \in {0, 1}
  BY <1>1, NextAbove
<1> QED BY <1>2, <1>3 DEF Halves

\* On the way to the target a path is the trail, and off it the parties' are
\* the same.
OnTrail(v, tgt, a, b, f, g, l) ==
    IF Above(v, l) = Above(tgt, l) THEN f[l] = a[l] /\ g[l] = b[l] ELSE f[l] = g[l]

LEMMA TrailNext ==
    ASSUME NEW G, NEW k, NEW tgt \in Value, NEW v \in Value, NEW a, NEW b, NEW f, NEW g,
           NEW m \in Nat, NEW n \in Nat, NEW l \in Nat, l < n, l < m, l < Depth,
           TrailTo(G, k, tgt, a, b, m), NEW r, NEW q,
           PathTo(G, k, v, r, f, n), PathTo(G, k, v, q, g, n),
           OnTrail(v, tgt, a, b, f, g, l)
    PROVE  OnTrail(v, tgt, a, b, f, g, l + 1)
<1> DEFINE s == Dir(v, l)
           on == Dir(tgt, l)
<1>1. l < ValueBits
  BY Sizes
<1>2. /\ Above(v, l + 1) = Above(tgt, l + 1) <=> Above(v, l) = Above(tgt, l) /\ s = on
      /\ s \in Halves /\ on \in Halves
      /\ (s # on => s = 1 - on)
  BY <1>1, SameNext
<1>3. /\ f[l + 1] = Down(G, f[l], s, Word(k, l, s))
      /\ g[l + 1] = Down(G, g[l], s, Word(k, l, s))
  BY DEF PathTo
<1>4. /\ a[l + 1] = Down(G, a[l], on, Word(k, l, on))
      /\ b[l + 1] = Down(G, b[l], on, Word(k, l, on))
      /\ Down(G, a[l], 1 - on, Word(k, l, 1 - on)) = Down(G, b[l], 1 - on, Word(k, l, 1 - on))
  BY DEF TrailTo
<1> HIDE DEF s, on
<1>5. CASE Above(v, l) # Above(tgt, l)
  <2>1. f[l] = g[l]
    BY <1>5 DEF OnTrail
  <2> QED BY <1>2, <1>3, <1>5, <2>1 DEF OnTrail
<1>6. CASE Above(v, l) = Above(tgt, l)
  <2>1. f[l] = a[l] /\ g[l] = b[l]
    BY <1>6 DEF OnTrail
  <2>2. CASE s = on
    BY <1>2, <1>3, <1>4, <2>1, <2>2 DEF OnTrail
  <2>3. CASE s # on
    <3>1. f[l + 1] = g[l + 1]
      BY <1>2, <1>3, <1>4, <2>1, <2>3
    <3> QED BY <1>2, <2>3, <3>1 DEF OnTrail
  <2> QED BY <2>2, <2>3
<1> QED BY <1>5, <1>6

LEMMA PathsFollow ==
    ASSUME NEW G, NEW k, NEW tgt \in Value, NEW v \in Value, NEW a, NEW b, NEW f, NEW g,
           NEW n \in Nat, n <= Depth,
           TrailTo(G, k, tgt, a, b, Depth - 1),
           PathTo(G, k, v, a[0], f, n), PathTo(G, k, v, b[0], g, n)
    PROVE  \A l \in Nat : l <= n /\ l < Depth => OnTrail(v, tgt, a, b, f, g, l)
<1> DEFINE T == {l \in Nat : l <= n /\ l < Depth => OnTrail(v, tgt, a, b, f, g, l)}
           m == Depth - 1
<1>1. m \in Nat /\ Depth \in Nat
  BY Sizes
<1>2. 0 \in T
  <2>1. Above(v, 0) = Above(tgt, 0)
    BY AboveNothing
  <2>2. f[0] = a[0] /\ g[0] = b[0]
    BY DEF PathTo
  <2> QED BY <2>1, <2>2 DEF OnTrail
<1>3. ASSUME NEW l \in Nat, l \in T PROVE l + 1 \in T
  <2>1. SUFFICES ASSUME l + 1 <= n, l + 1 < Depth PROVE OnTrail(v, tgt, a, b, f, g, l + 1)
    OBVIOUS
  <2>2. l < n /\ l < m /\ l < Depth /\ l <= n
    BY <1>1, <2>1
  <2>3. OnTrail(v, tgt, a, b, f, g, l)
    BY <1>3, <2>2
  <2>4. TrailTo(G, k, tgt, a, b, m)
    OBVIOUS
  <2> DEFINE r == a[0]
             q == b[0]
  <2>5. PathTo(G, k, v, r, f, n) /\ PathTo(G, k, v, q, g, n)
    OBVIOUS
  <2> HIDE DEF m, r, q
  <2> QED BY <1>1, <2>2, <2>3, <2>4, <2>5, TrailNext
<1> HIDE DEF T
<1>4. \A l \in Nat : l \in T
  BY <1>2, <1>3, SetInduction
<1> QED BY <1>4 DEF T

LEMMA PathsMeet ==
    ASSUME NEW G, NEW k, NEW tgt \in Value, NEW v \in Value, NEW r, NEW q, NEW f, NEW g,
           NEW n \in Nat, n <= Depth,
           Pair(G, k, tgt, r, q),
           PathTo(G, k, v, r, f, n), PathTo(G, k, v, q, g, n)
    PROVE  Fit(v, tgt, f, g, n)
<1>1. PICK a, b : /\ TrailTo(G, k, tgt, a, b, Depth - 1)
                  /\ a[0] = r /\ b[0] = q
                  /\ LeavesFit(G, k, tgt, a[Depth - 1], b[Depth - 1])
  BY DEF Pair
<1>2. \A l \in Nat : l <= n /\ l < Depth => OnTrail(v, tgt, a, b, f, g, l)
  <2>1. PathTo(G, k, v, a[0], f, n) /\ PathTo(G, k, v, b[0], g, n)
    BY <1>1
  <2> QED BY <1>1, <2>1, PathsFollow
<1>3. \A l \in Nat : l < Depth => get_lsb(a[l]) # get_lsb(b[l])
  <2>1. \A l \in Nat : l < Depth => l <= Depth - 1
    BY Sizes
  <2> QED BY <1>1, <2>1 DEF TrailTo
<1>4. ASSUME NEW l \in Nat, l <= n, l < Depth
      PROVE  IF Above(v, l) = Above(tgt, l) THEN get_lsb(f[l]) # get_lsb(g[l]) ELSE f[l] = g[l]
  BY <1>2, <1>3, <1>4 DEF OnTrail
<1>5. ASSUME n = Depth
      PROVE  XorNode(f[Depth], g[Depth])
               = IF Above(v, Depth) = Above(tgt, Depth) THEN {tgt % Shl[LeafBits]} ELSE {}
  <2> DEFINE m == Depth - 1
             s == Dir(v, m)
             on == Dir(tgt, m)
  <2>1. m \in Nat /\ m < n /\ m <= n /\ m < Depth /\ m + 1 = Depth /\ m < ValueBits
    BY <1>5, Sizes
  <2>2. /\ Above(v, Depth) = Above(tgt, Depth) <=> Above(v, m) = Above(tgt, m) /\ s = on
        /\ s \in Halves /\ on \in Halves
    <3>1. /\ Above(v, m + 1) = Above(tgt, m + 1) <=> Above(v, m) = Above(tgt, m) /\ s = on
          /\ s \in Halves /\ on \in Halves
      <4> HIDE DEF m
      <4> QED BY <2>1, SameNext
    <3> QED BY <2>1, <3>1
  <2>3. /\ f[Depth] = Down(G, f[m], s, Word(k, m, s))
        /\ g[Depth] = Down(G, g[m], s, Word(k, m, s))
    <3>1. /\ f[m + 1] = Down(G, f[m], s, Word(k, m, s))
          /\ g[m + 1] = Down(G, g[m], s, Word(k, m, s))
      BY <2>1 DEF PathTo
    <3> QED BY <2>1, <3>1
  <2>4. XorNode(Down(G, a[m], s, Word(k, m, s)), Down(G, b[m], s, Word(k, m, s)))
          = IF s = on THEN {tgt % Shl[LeafBits]} ELSE {}
    BY <1>1, <2>2 DEF LeavesFit
  <2>5. OnTrail(v, tgt, a, b, f, g, m)
    BY <1>2, <2>1
  <2> HIDE DEF m, s, on
  <2>6. CASE Above(v, m) # Above(tgt, m)
    <3>1. f[m] = g[m]
      BY <2>5, <2>6 DEF OnTrail
    <3> QED BY <2>2, <2>3, <2>6, <3>1, XorBack
  <2>7. CASE Above(v, m) = Above(tgt, m)
    <3>1. f[m] = a[m] /\ g[m] = b[m]
      BY <2>5, <2>7 DEF OnTrail
    <3> QED BY <2>2, <2>3, <2>4, <2>7, <3>1
  <2> QED BY <2>6, <2>7
<1> QED BY <1>4, <1>5 DEF Fit

-----------------------------------------------------------------------------
(* A level more.                                                           *)

SameWords(k, kn, n) == \A l \in Nat, s \in Halves : l < n => Word(kn, l, s) = Word(k, l, s)

\* The nodes c0 and c1 continue the trail from m0 and m1 at level n.
Continues(G, k, tgt, m0, m1, n, c0, c1) ==
    LET on  == Dir(tgt, n)
        off == 1 - on
    IN  /\ c0 \in Node /\ c1 \in Node
        /\ c0 = Down(G, m0, on, Word(k, n, on))
        /\ c1 = Down(G, m1, on, Word(k, n, on))
        /\ Down(G, m0, off, Word(k, n, off)) = Down(G, m1, off, Word(k, n, off))
        /\ get_lsb(c0) # get_lsb(c1)

TrailFrom(G, k, tgt, r0, r1, m0, m1, n) ==
    \E a, b : /\ TrailTo(G, k, tgt, a, b, n)
              /\ a[0] = r0 /\ b[0] = r1 /\ a[n] = m0 /\ b[n] = m1

LEMMA TrailSame ==
    ASSUME NEW G, NEW k, NEW kn, NEW tgt \in Value, NEW a, NEW b, NEW n \in Nat, n < ValueBits,
           TrailTo(G, k, tgt, a, b, n), SameWords(k, kn, n)
    PROVE  TrailTo(G, kn, tgt, a, b, n)
<1>1. ASSUME NEW l \in Nat, l < n, NEW on, on = Dir(tgt, l)
      PROVE  /\ a[l + 1] = Down(G, a[l], on, Word(kn, l, on))
             /\ b[l + 1] = Down(G, b[l], on, Word(kn, l, on))
             /\ Down(G, a[l], 1 - on, Word(kn, l, 1 - on)) = Down(G, b[l], 1 - on, Word(kn, l, 1 - on))
  <2>1. on \in Halves /\ 1 - on \in Halves
    <3>1. tgt \in Nat /\ l < ValueBits
      BY <1>1, InValue, Sizes
    <3>2. on \in {0, 1}
      BY <1>1, <3>1, NextAbove
    <3> QED BY <3>2 DEF Halves
  <2>2. Word(kn, l, on) = Word(k, l, on) /\ Word(kn, l, 1 - on) = Word(k, l, 1 - on)
    BY <1>1, <2>1 DEF SameWords
  <2>3. /\ a[l + 1] = Down(G, a[l], on, Word(k, l, on))
        /\ b[l + 1] = Down(G, b[l], on, Word(k, l, on))
        /\ Down(G, a[l], 1 - on, Word(k, l, 1 - on)) = Down(G, b[l], 1 - on, Word(k, l, 1 - on))
    BY <1>1 DEF TrailTo
  <2> QED BY <2>2, <2>3
<1> QED BY <1>1 DEF TrailTo

LEMMA TrailGrows ==
    ASSUME NEW G, NEW k, NEW kn, NEW tgt \in Value, NEW n \in Nat, n < ValueBits,
           NEW r0, NEW r1, NEW m0, NEW m1, NEW c0, NEW c1,
           TrailFrom(G, k, tgt, r0, r1, m0, m1, n), SameWords(k, kn, n),
           Continues(G, kn, tgt, m0, m1, n, c0, c1)
    PROVE  TrailFrom(G, kn, tgt, r0, r1, c0, c1, n + 1)
<1>1. PICK a, b : /\ TrailTo(G, k, tgt, a, b, n)
                  /\ a[0] = r0 /\ b[0] = r1 /\ a[n] = m0 /\ b[n] = m1
  BY DEF TrailFrom
<1>2. TrailTo(G, kn, tgt, a, b, n)
  BY <1>1, TrailSame
<1>3. c0 \in Node /\ c1 \in Node /\ get_lsb(c0) # get_lsb(c1)
  BY DEF Continues
<1> DEFINE e == [a EXCEPT ![n + 1] = c0]
           f == [b EXCEPT ![n + 1] = c1]
<1>4. /\ e \in [Nat -> Node] /\ f \in [Nat -> Node]
      /\ e[n + 1] = c0 /\ f[n + 1] = c1
      /\ \A l \in Nat : l # n + 1 => e[l] = a[l] /\ f[l] = b[l]
  BY <1>2, <1>3 DEF TrailTo
<1>5. e[0] = r0 /\ f[0] = r1 /\ e[n] = m0 /\ f[n] = m1
  <2>1. 0 # n + 1 /\ n # n + 1
    OBVIOUS
  <2> HIDE DEF e, f
  <2> QED BY <1>1, <1>4, <2>1
<1> HIDE DEF e, f
<1>6. ASSUME NEW l \in Nat, l <= n + 1 PROVE get_lsb(e[l]) # get_lsb(f[l])
  <2>1. CASE l = n + 1
    BY <1>3, <1>4, <2>1
  <2>2. CASE l # n + 1
    <3>1. l <= n
      BY <1>6, <2>2
    <3> QED BY <1>2, <1>4, <2>2, <3>1 DEF TrailTo
  <2> QED BY <2>1, <2>2
<1>7. ASSUME NEW l \in Nat, l < n + 1, NEW on, on = Dir(tgt, l)
      PROVE  /\ e[l + 1] = Down(G, e[l], on, Word(kn, l, on))
             /\ f[l + 1] = Down(G, f[l], on, Word(kn, l, on))
             /\ Down(G, e[l], 1 - on, Word(kn, l, 1 - on)) = Down(G, f[l], 1 - on, Word(kn, l, 1 - on))
  <2>1. CASE l = n
    <3>1. e[l + 1] = c0 /\ f[l + 1] = c1 /\ e[l] = m0 /\ f[l] = m1
      BY <1>4, <1>5, <2>1
    <3> QED BY <1>7, <2>1, <3>1 DEF Continues
  <2>2. CASE l # n
    <3>1. l < n /\ l # n + 1 /\ l + 1 # n + 1 /\ l + 1 \in Nat
      BY <1>7, <2>2
    <3>2. e[l] = a[l] /\ f[l] = b[l] /\ e[l + 1] = a[l + 1] /\ f[l + 1] = b[l + 1]
      BY <1>4, <3>1
    <3>3. /\ a[l + 1] = Down(G, a[l], on, Word(kn, l, on))
          /\ b[l + 1] = Down(G, b[l], on, Word(kn, l, on))
          /\ Down(G, a[l], 1 - on, Word(kn, l, 1 - on)) = Down(G, b[l], 1 - on, Word(kn, l, 1 - on))
      BY <1>2, <1>7, <3>1 DEF TrailTo
    <3> QED BY <3>2, <3>3
  <2> QED BY <2>1, <2>2
<1>8. TrailTo(G, kn, tgt, e, f, n + 1)
  BY <1>4, <1>6, <1>7 DEF TrailTo
<1> QED BY <1>4, <1>5, <1>8 DEF TrailFrom

Keys == [seed : Node, cw : Seq(Node), cfbits : Seq(BOOLEAN), leaf_cwr : Node,
         as_target : Value, xs_target : Value]

Grown(k, kn, CW, cfbit) ==
    /\ kn.cw = Append(k.cw, CW) /\ kn.cfbits = Append(k.cfbits, cfbit)

LEMMA WordsOfGrown ==
    ASSUME NEW k \in Keys, NEW kn, NEW CW \in Node, NEW cfbit \in BOOLEAN,
           NEW n \in Nat, n < Depth, Len(k.cw) = n, Len(k.cfbits) = n,
           Grown(k, kn, CW, cfbit)
    PROVE  /\ SameWords(k, kn, n)
           /\ n < Depth - 1 => Word(kn, n, 0) = CW /\ Word(kn, n, 1) = xor_lsb(CW, cfbit)
           /\ n = Depth - 1 => Word(kn, n, 0) = CW /\ Word(kn, n, 1) = kn.leaf_cwr
<1> DEFINE u == k.cw
           w == k.cfbits
<1>1. u \in Seq(Node) /\ w \in Seq(BOOLEAN) /\ Len(u) = n /\ Len(w) = n
  BY DEF Keys
<1>2. kn.cw = Append(u, CW) /\ kn.cfbits = Append(w, cfbit)
  BY DEF Grown
<1> HIDE DEF u, w
<1>3. /\ kn.cw[n + 1] = CW /\ kn.cfbits[n + 1] = cfbit
      /\ \A i \in 1 .. n : kn.cw[i] = u[i] /\ kn.cfbits[i] = w[i]
  BY <1>1, <1>2
<1>4. Depth \in Nat /\ Depth >= 2
  BY Sizes
<1>5. ASSUME NEW l \in Nat, NEW s \in Halves, l < n PROVE Word(kn, l, s) = Word(k, l, s)
  <2>1. l + 1 \in 1 .. n /\ l # Depth - 1
    BY <1>4, <1>5
  <2>2. kn.cw[l + 1] = k.cw[l + 1] /\ kn.cfbits[l + 1] = k.cfbits[l + 1]
    BY <1>3, <2>1 DEF u, w
  <2> QED BY <2>1, <2>2 DEF Word
<1>6. n < Depth - 1 => Word(kn, n, 0) = CW /\ Word(kn, n, 1) = xor_lsb(CW, cfbit)
  BY <1>3, <1>4 DEF Word
<1>7. n = Depth - 1 => Word(kn, n, 0) = CW /\ Word(kn, n, 1) = kn.leaf_cwr
  <2>1. ASSUME n = Depth - 1 PROVE n + 1 = Depth
    BY <1>4, <2>1
  <2> QED BY <1>3, <2>1 DEF Word
<1> QED BY <1>5, <1>6, <1>7 DEF SameWords

LEMMA LevelWord ==
    ASSUME NEW G \in Generators, NEW m0 \in Node, NEW m1 \in Node,
           NEW off \in Halves, NEW f, NEW cfbit, NEW CW,
           CW = xor_lsb(XorNode(prg(G, m0, off, 0), prg(G, m1, off, 0)), f)
    PROVE  CW \in Node /\ xor_lsb(CW, cfbit) \in Node
<1>1. XorNode(prg(G, m0, off, 0), prg(G, m1, off, 0)) \in Node
  BY ChildType, XorType
<1>2. CW \in Node
  BY <1>1, XorType
<1> QED BY <1>2, XorType

LEMMA LevelStep ==
    ASSUME NEW G \in Generators, NEW kn, NEW tgt \in Value, NEW n \in Nat, n < Depth - 1,
           NEW m0 \in Node, NEW m1 \in Node, get_lsb(m0) # get_lsb(m1),
           NEW cfbit, cfbit = LevelFlag(prg(G, m0, 0, 0), prg(G, m0, 1, 0),
                                        prg(G, m1, 0, 0), prg(G, m1, 1, 0)),
           NEW off, off = (IF Dir(tgt, n) = 1 THEN 0 ELSE 1),
           NEW CW, CW = xor_lsb(XorNode(prg(G, m0, off, 0), prg(G, m1, off, 0)),
                                Dir(tgt, n) # 1 /\ cfbit),
           Word(kn, n, 0) = CW, Word(kn, n, 1) = xor_lsb(CW, cfbit),
           NEW w, w = (IF Dir(tgt, n) = 1 THEN xor_lsb(CW, cfbit) ELSE CW),
           NEW c0, c0 = xor_if(prg(G, m0, 1 - off, 0), w, get_lsb(m0)),
           NEW c1, c1 = xor_if(prg(G, m1, 1 - off, 0), w, get_lsb(m1))
    PROVE  Continues(G, kn, tgt, m0, m1, n, c0, c1)
<1>1. get_lsb(m0) \in BOOLEAN /\ get_lsb(m1) \in BOOLEAN /\ cfbit \in BOOLEAN
  BY DEF get_lsb, LevelFlag
<1>2. Dir(tgt, n) \in {0, 1}
  <2>1. tgt \in Nat /\ n < ValueBits
    BY InValue, Sizes
  <2> QED BY <2>1, NextAbove
<1>3. prg(G, m0, 0, 0) \in Node /\ prg(G, m0, 1, 0) \in Node
      /\ prg(G, m1, 0, 0) \in Node /\ prg(G, m1, 1, 0) \in Node
  BY ChildType
<1> DEFINE l0 == prg(G, m0, 0, 0)
           r0 == prg(G, m0, 1, 0)
           l1 == prg(G, m1, 0, 0)
           r1 == prg(G, m1, 1, 0)
           f == get_lsb(m0)
           g == get_lsb(m1)
<1>4. CW \in Node /\ w \in Node
  <2>1. off \in Halves
    BY DEF Halves
  <2>2. CW \in Node /\ xor_lsb(CW, cfbit) \in Node
    BY <2>1, LevelWord
  <2> QED BY <2>2
<1>5. CASE Dir(tgt, n) = 1
  <2>1. off = 0 /\ 1 - off = 1 /\ 1 - 1 = 0 /\ w = xor_lsb(CW, cfbit)
    BY <1>5
  <2>2. CW = XorNode(l0, l1)
    BY <1>5, <2>1, FlipTwice
  <2>3. c0 = xor_if(r0, xor_lsb(CW, cfbit), f) /\ c1 = xor_if(r1, xor_lsb(CW, cfbit), g)
    BY <2>1
  <2>4. cfbit = LevelFlag(l0, r0, l1, r1)
    OBVIOUS
  <2>5. c0 \in Node /\ c1 \in Node
    BY <1>3, <1>4, <2>1, XorType
  <2>6. /\ Down(G, m0, 0, CW) = xor_if(l0, CW, f) /\ Down(G, m1, 0, CW) = xor_if(l1, CW, g)
        /\ Down(G, m0, 1, xor_lsb(CW, cfbit)) = c0 /\ Down(G, m1, 1, xor_lsb(CW, cfbit)) = c1
    BY <2>3 DEF Down
  <2> HIDE DEF l0, r0, l1, r1, f, g
  <2>7. /\ xor_if(l0, CW, f) = xor_if(l1, CW, g)
        /\ get_lsb(c0) # get_lsb(c1)
    <3>1. f \in BOOLEAN /\ g \in BOOLEAN /\ f # g
      BY <1>1 DEF f, g
    <3> QED BY <2>2, <2>3, <2>4, <3>1, LevelToRight
  <2> QED BY <1>1, <1>4, <1>5, <2>1, <2>5, <2>6, <2>7 DEF Continues
<1>6. CASE Dir(tgt, n) = 0
  <2>1. off = 1 /\ 1 - off = 0 /\ 1 - 0 = 1 /\ w = CW
    BY <1>6
  <2>2. CW = xor_lsb(XorNode(r0, r1), cfbit)
    <3>1. (Dir(tgt, n) # 1 /\ cfbit) = cfbit
      BY <1>1, <1>6
    <3> QED BY <2>1, <3>1
  <2>3. c0 = xor_if(l0, CW, f) /\ c1 = xor_if(l1, CW, g)
    BY <2>1
  <2>4. cfbit = LevelFlag(l0, r0, l1, r1)
    OBVIOUS
  <2>5. c0 \in Node /\ c1 \in Node
    BY <1>3, <1>4, <2>1, XorType
  <2>6. /\ Down(G, m0, 0, CW) = c0 /\ Down(G, m1, 0, CW) = c1
        /\ Down(G, m0, 1, xor_lsb(CW, cfbit)) = xor_if(r0, xor_lsb(CW, cfbit), f)
        /\ Down(G, m1, 1, xor_lsb(CW, cfbit)) = xor_if(r1, xor_lsb(CW, cfbit), g)
    BY <2>3 DEF Down
  <2> HIDE DEF l0, r0, l1, r1, f, g
  <2>7. /\ xor_if(r0, xor_lsb(CW, cfbit), f) = xor_if(r1, xor_lsb(CW, cfbit), g)
        /\ get_lsb(c0) # get_lsb(c1)
    <3>1. f \in BOOLEAN /\ g \in BOOLEAN /\ f # g
      BY <1>1 DEF f, g
    <3> QED BY <2>2, <2>3, <2>4, <3>1, LevelToLeft
  <2> QED BY <1>1, <1>4, <1>6, <2>1, <2>5, <2>6, <2>7 DEF Continues
<1> QED BY <1>2, <1>5, <1>6

\* The leaves: a correction word for each side.
LeafWord(G, m0, m1, tgt, n, side) ==
    XorNode(XorNode(prg(G, m0, side, 0), prg(G, m1, side, 0)),
            IF side = Dir(tgt, n) THEN {tgt % Shl[LeafBits]} ELSE {})

LEMMA LeavesStep ==
    ASSUME NEW G, NEW k, NEW tgt, NEW m0, NEW m1, get_lsb(m0) # get_lsb(m1),
           \A side \in Halves :
               Word(k, Depth - 1, side) = LeafWord(G, m0, m1, tgt, Depth - 1, side)
    PROVE  LeavesFit(G, k, tgt, m0, m1)
<1> SUFFICES ASSUME NEW side \in Halves,
                    NEW e, e = (IF side = Dir(tgt, Depth - 1) THEN {tgt % Shl[LeafBits]} ELSE {})
             PROVE  XorNode(Down(G, m0, side, Word(k, Depth - 1, side)),
                            Down(G, m1, side, Word(k, Depth - 1, side))) = e
  BY DEF LeavesFit
<1> DEFINE p == prg(G, m0, side, 0)
           q == prg(G, m1, side, 0)
           w == Word(k, Depth - 1, side)
<1>1. w = XorNode(XorNode(p, q), e)
  BY DEF LeafWord
<1>2. /\ Down(G, m0, side, w) = IF get_lsb(m0) THEN XorNode(p, w) ELSE p
      /\ Down(G, m1, side, w) = IF get_lsb(m1) THEN XorNode(q, w) ELSE q
  BY DEF Down, xor_if
<1> HIDE DEF p, q, w
<1>3. get_lsb(m0) \in BOOLEAN /\ get_lsb(m1) \in BOOLEAN
  BY DEF get_lsb
<1>4. /\ XorNode(XorNode(p, w), q) = e
      /\ XorNode(p, XorNode(q, w)) = e
  BY <1>1 DEF XorNode
<1> QED BY <1>2, <1>3, <1>4 DEF w

-----------------------------------------------------------------------------
(* The XOR of numbers.                                                     *)

LEMMA XorValue ==
    /\ \A a, b \in Value : xor(a, b) \in Value /\ xor(a, b) = xor(b, a)
    /\ \A a, b \in Value : xor(a, xor(b, a)) = b /\ (xor(b, a) = b <=> a = 0)
    /\ \A a, b, c, d \in Value : xor(xor(a, b), xor(c, d)) = xor(xor(a, c), xor(b, d))
<1>1. \A a, b : xor(a, b) = Xor(ValueBits, a, b)
  BY Binary DEF xor, Xor
<1>2. ValueBits \in Nat /\ \A a : a \in Value <=> a \in Nat /\ a < Pow2[ValueBits]
  BY Binary, Sizes, InValue DEF NumValues
<1>3. ASSUME NEW a \in Value, NEW b \in Value PROVE xor(a, b) \in Value /\ xor(a, b) = xor(b, a)
  <2>1. Xor(ValueBits, a, b) \in Nat /\ Xor(ValueBits, a, b) < Pow2[ValueBits]
    BY <1>2, XorRange
  <2>2. Xor(ValueBits, a, b) = Xor(ValueBits, b, a)
    BY <1>2, XorCommutes
  <2> QED BY <1>1, <1>2, <2>1, <2>2
<1>4. ASSUME NEW a \in Value, NEW b \in Value
      PROVE  xor(a, xor(b, a)) = b /\ (xor(b, a) = b <=> a = 0)
  BY <1>1, <1>2, XorUndone
<1>5. ASSUME NEW a \in Value, NEW b \in Value, NEW c \in Value, NEW d \in Value
      PROVE  xor(xor(a, b), xor(c, d)) = xor(xor(a, c), xor(b, d))
  <2>1. Crossed(ValueBits, a, b, c, d)
    BY <1>2, XorCrossed
  <2> QED BY <1>1, <2>1 DEF Crossed
<1> QED BY <1>3, <1>4, <1>5

-----------------------------------------------------------------------------
(* Sums and differences of values.                                         *)

Minus(a, b) == (a - b) % NumValues

LEMMA InRange ==
    \A a \in Int : a % NumValues \in Value
<1> SUFFICES ASSUME NEW a \in Int PROVE Residue(a, NumValues) \in Value
  BY DEF Residue
<1>1. NumValues \in Nat /\ NumValues > 0
  BY Sizes
<1>2. Residue(a, NumValues) \in 0 .. NumValues - 1
  BY <1>1, Residues
<1> QED BY <1>2 DEF Value

LEMMA SharesAdd ==
    ASSUME NEW t \in Value, NEW s \in Value
    PROVE  Minus(t, s) \in Value /\ Sum(s, Minus(t, s)) = t
<1> DEFINE n == NumValues
           y == t - s
<1>1. n \in Nat /\ n > 0 /\ t \in Nat /\ s \in Nat /\ t \in 0 .. n - 1 /\ y \in Int
  BY InValue, Sizes
<1> HIDE DEF n
<1>2. PICK c \in Int : y = c * n + Residue(y, n)
  <2> HIDE DEF y
  <2> QED BY <1>1, Residues
<1>3. Minus(t, s) = Residue(y, n)
  BY DEF Minus, Residue, n
<1>4. Minus(t, s) \in Value
  BY <1>1, InRange DEF Minus
<1>5. PICK r \in Nat : r = Minus(t, s)
  BY <1>4, InValue
<1> DEFINE z == s + r
           k == 0 - c
<1>6. Apart(z, t, k, n) /\ k \in Int
  <2>1. t - s = c * n + r /\ c * n \in Int /\ (0 - c) * n = 0 - c * n
    BY <1>1, <1>2, <1>3, <1>5
  <2> QED BY <1>1, <2>1 DEF Apart
<1> HIDE DEF z, k
<1>7. Residue(z, n) = t
  BY <1>1, <1>6, ResidueUnique
<1> QED BY <1>4, <1>5, <1>7 DEF Sum, Residue, z, n

\* The shares of the difference are the differences of the shares.
LEMMA DifferenceOfSums ==
    ASSUME NEW a \in Value, NEW b \in Value, NEW c \in Value, NEW d \in Value
    PROVE  Sum(Minus(a, c), Minus(b, d)) = Minus(Sum(a, b), Sum(c, d))
<1> DEFINE n == NumValues
           p == a - c
           q == b - d
           t == a + b
           v == c + d
<1>1. n \in Nat /\ n > 0 /\ a \in Nat /\ b \in Nat /\ c \in Nat /\ d \in Nat
  BY InValue, Sizes
<1>2. p \in Int /\ q \in Int /\ t \in Int /\ v \in Int
  BY <1>1
<1> HIDE DEF n
<1>3. ASSUME NEW y \in Int
      PROVE  \E m, r \in Int : y = m * n + r /\ r = Residue(y, n)
  <2>1. PICK m \in Int : y = m * n + Residue(y, n) /\ Residue(y, n) \in 0 .. n - 1
    BY <1>1, Residues
  <2>2. PICK r \in Int : r = Residue(y, n)
    BY <2>1, <1>1
  <2>3. y = m * n + r
    BY <2>1, <2>2
  <2> QED BY <2>2, <2>3
<1> HIDE DEF p, q, t, v
<1>4. PICK i \in Int, pp \in Int : p = i * n + pp /\ pp = Residue(p, n)
  BY <1>2, <1>3
<1>5. PICK j \in Int, qq \in Int : q = j * n + qq /\ qq = Residue(q, n)
  BY <1>2, <1>3
<1>6. PICK k \in Int, tt \in Int : t = k * n + tt /\ tt = Residue(t, n)
  BY <1>2, <1>3
<1>7. PICK l \in Int, vv \in Int : v = l * n + vv /\ vv = Residue(v, n)
  BY <1>2, <1>3
<1> DEFINE y == pp + qq
           z == tt - vv
           m == k - l - i - j
<1>8. Apart(y, z, m, n) /\ m \in Int /\ z \in Int
  <2>1. /\ i * n \in Int /\ j * n \in Int /\ k * n \in Int /\ l * n \in Int
        /\ m * n = k * n - l * n - i * n - j * n
    BY <1>1
  <2>2. /\ a - c = i * n + pp /\ b - d = j * n + qq
        /\ a + b = k * n + tt /\ c + d = l * n + vv
    BY <1>4, <1>5, <1>6, <1>7 DEF p, q, t, v
  <2>3. pp + qq = m * n + (tt - vv)
    <3> HIDE DEF m
    <3>1. m * n \in Int
      BY <2>1
    <3> QED BY <1>1, <2>1, <2>2, <3>1
  <2> QED BY <2>3, <1>1 DEF Apart
<1> HIDE DEF y, z, m
<1>9. Residue(y, n) = Residue(z, n)
  BY <1>1, <1>8, ResidueShift
<1>10. /\ Minus(a, c) = pp /\ Minus(b, d) = qq
      /\ Sum(a, b) = tt /\ Sum(c, d) = vv
  BY <1>4, <1>5, <1>6, <1>7 DEF Minus, Sum, Residue, n, p, q, t, v
<1> QED BY <1>9, <1>10 DEF Minus, Sum, Residue, n, y, z

-----------------------------------------------------------------------------
(* The descents of a comparison.                                           *)

FullKeys(k) == k \in Keys /\ Len(k.cw) = Depth /\ Len(k.cfbits) = Depth

LEMMA WordType ==
    ASSUME NEW k, FullKeys(k), NEW l \in Nat, l < Depth, NEW side
    PROVE  Word(k, l, side) \in Node
<1> DEFINE u == k.cw
<1>1. u \in Seq(Node) /\ Len(u) = Depth /\ k.leaf_cwr \in Node
  BY DEF FullKeys, Keys
<1>2. Depth \in 1 .. Depth /\ l + 1 \in 1 .. Depth
  BY Sizes
<1>3. u[Depth] \in Node /\ u[l + 1] \in Node
  <2> HIDE DEF u
  <2> QED BY <1>1, <1>2
<1>4. xor_lsb(u[l + 1], k.cfbits[l + 1]) \in Node
  <2> HIDE DEF u
  <2> QED BY <1>3, XorType
<1> QED BY <1>1, <1>3, <1>4 DEF Word

PathLonger(G, k, v, root, f, n, c) ==
    \E g : /\ PathTo(G, k, v, root, g, n + 1)
           /\ \A l \in Nat : l <= n => g[l] = f[l]
           /\ g[n + 1] = c

LEMMA PathGrows ==
    ASSUME NEW G \in Generators, NEW k, FullKeys(k), NEW v, NEW root, NEW f,
           NEW n \in Nat, n < Depth, PathTo(G, k, v, root, f, n),
           NEW c, c = Down(G, f[n], Dir(v, n), Word(k, n, Dir(v, n)))
    PROVE  PathLonger(G, k, v, root, f, n, c)
<1>1. f \in [Nat -> Node] /\ f[0] = root
      /\ \A l \in Nat : l < n => f[l + 1] = Down(G, f[l], Dir(v, l), Word(k, l, Dir(v, l)))
  BY DEF PathTo
<1>2. c \in Node
  <2>1. Word(k, n, Dir(v, n)) \in Node
    BY WordType
  <2> QED BY <1>1, <2>1, DownType
<1> DEFINE g == [f EXCEPT ![n + 1] = c]
<1>3. /\ g \in [Nat -> Node] /\ g[n + 1] = c
      /\ \A l \in Nat : l # n + 1 => g[l] = f[l]
  BY <1>1, <1>2
<1>4. 0 # n + 1 /\ n # n + 1
  OBVIOUS
<1> HIDE DEF g
<1>5. ASSUME NEW l \in Nat, l < n + 1
      PROVE  g[l + 1] = Down(G, g[l], Dir(v, l), Word(k, l, Dir(v, l)))
  <2>1. CASE l = n
    BY <1>3, <1>4, <2>1
  <2>2. CASE l # n
    <3>1. l < n /\ l + 1 \in Nat /\ l + 1 # n + 1 /\ l # n + 1
      BY <1>5, <2>2
    <3> QED BY <1>1, <1>3, <3>1
  <2> QED BY <2>1, <2>2
<1>6. PathTo(G, k, v, root, g, n + 1)
  BY <1>1, <1>3, <1>4, <1>5 DEF PathTo
<1>7. \A l \in Nat : l <= n => g[l] = f[l]
  BY <1>3
<1> QED BY <1>3, <1>6, <1>7 DEF PathLonger

\* The ways f and h of a party to S and to the value opposite to it, down to
\* level n, and what it has added up: e[l] when it is at level l.
RunTo(G, k, S, root, f, h, e, n) ==
    /\ PathTo(G, k, S, root, f, n) /\ PathTo(G, k, Across(S), root, h, n)
    /\ e \in [Nat -> BOOLEAN] /\ e[1] = FALSE
    /\ \A l \in Nat : 1 <= l /\ l < n /\ l < Depth - 1 =>
          e[l + 1] = XorBool(e[l], Passed(f[l], f[l + 1], h[l], h[l + 1], Dir(S, l)))

RunAt(G, k, S, root, n, Snode, Tnode, gt) ==
    \E f, h, e : RunTo(G, k, S, root, f, h, e, n) /\ Snode = f[n] /\ Tnode = h[n] /\ gt = e[n]

LEMMA RunType ==
    ASSUME NEW G, NEW k, NEW S, NEW root, NEW n \in Nat, NEW m, NEW q, NEW gt,
           RunAt(G, k, S, root, n, m, q, gt)
    PROVE  m \in Node /\ q \in Node /\ gt \in BOOLEAN
BY DEF RunAt, RunTo, PathTo

LEMMA RunStarts ==
    ASSUME NEW G \in Generators, NEW k, FullKeys(k), NEW S \in Value, NEW root \in Node,
           NEW d, d = Dir(S, 0),
           NEW m, m = Down(G, root, d, Word(k, 0, d)),
           NEW q, q = Down(G, root, 1 - d, Word(k, 0, 1 - d))
    PROVE  RunAt(G, k, S, root, 1, m, q, FALSE)
<1> DEFINE o == [i \in Nat |-> root]
           e == [i \in Nat |-> FALSE]
           T == Across(S)
<1>1. PathTo(G, k, S, root, o, 0) /\ PathTo(G, k, T, root, o, 0)
  BY DEF PathTo
<1>2. Dir(T, 0) = 1 - d
  BY AcrossDir
<1>3. o[0] = root /\ 0 < Depth /\ 0 + 1 = 1
  BY Sizes
<1> HIDE DEF o, T
<1>4. PathLonger(G, k, S, root, o, 0, m)
  BY <1>1, <1>3, PathGrows
<1>5. PathLonger(G, k, T, root, o, 0, q)
  BY <1>1, <1>2, <1>3, PathGrows
<1>6. PICK f, h : /\ PathTo(G, k, S, root, f, 1) /\ f[1] = m
                  /\ PathTo(G, k, T, root, h, 1) /\ h[1] = q
  BY <1>3, <1>4, <1>5 DEF PathLonger
<1>7. e \in [Nat -> BOOLEAN] /\ e[1] = FALSE
  OBVIOUS
<1> HIDE DEF e
<1>8. RunTo(G, k, S, root, f, h, e, 1)
  BY <1>6, <1>7 DEF RunTo, T
<1> QED BY <1>6, <1>7, <1>8 DEF RunAt

\* A turn more: the nodes m and q below f[n] and h[n].
RunLonger(G, k, S, root, n, f, h, e, m, q) ==
    \E ff, hh, ee :
        /\ RunTo(G, k, S, root, ff, hh, ee, n + 1)
        /\ ff[n] = f[n] /\ hh[n] = h[n] /\ ee[n] = e[n]
        /\ ff[n + 1] = m /\ hh[n + 1] = q
        /\ n < Depth - 1 => ee[n + 1] = XorBool(e[n], Passed(f[n], m, h[n], q, Dir(S, n)))

LEMMA RunGrows ==
    ASSUME NEW G \in Generators, NEW k, FullKeys(k), NEW S \in Value, NEW root,
           NEW n \in Nat, 1 <= n, n < Depth, NEW f, NEW h, NEW e,
           RunTo(G, k, S, root, f, h, e, n),
           NEW d, d = Dir(S, n),
           NEW m, m = Down(G, f[n], d, Word(k, n, d)),
           NEW q, q = Down(G, h[n], d, Word(k, n, d))
    PROVE  RunLonger(G, k, S, root, n, f, h, e, m, q)
<1> DEFINE T == Across(S)
<1>1. PathTo(G, k, S, root, f, n) /\ PathTo(G, k, T, root, h, n)
      /\ e \in [Nat -> BOOLEAN] /\ e[1] = FALSE
  BY DEF RunTo
<1>2. Dir(T, n) = d
  <2>1. n < ValueBits
    BY Sizes
  <2> QED BY <2>1, AcrossDir
<1> HIDE DEF T
<1>3. PathLonger(G, k, S, root, f, n, m)
  BY <1>1, PathGrows
<1>4. PathLonger(G, k, T, root, h, n, q)
  BY <1>1, <1>2, PathGrows
<1>5. PICK ff, hh : /\ PathTo(G, k, S, root, ff, n + 1) /\ ff[n + 1] = m
                    /\ PathTo(G, k, T, root, hh, n + 1) /\ hh[n + 1] = q
                    /\ \A l \in Nat : l <= n => ff[l] = f[l] /\ hh[l] = h[l]
  BY <1>3, <1>4 DEF PathLonger
<1> DEFINE y == XorBool(e[n], Passed(f[n], m, h[n], q, d))
           ee == [e EXCEPT ![n + 1] = y]
<1>6. y \in BOOLEAN
  BY DEF XorBool
<1>7. /\ ee \in [Nat -> BOOLEAN] /\ ee[n + 1] = y
      /\ \A l \in Nat : l # n + 1 => ee[l] = e[l]
  <2> HIDE DEF y
  <2> QED BY <1>1, <1>6
<1>8. 1 # n + 1 /\ n # n + 1
  OBVIOUS
<1> HIDE DEF y, ee
<1>9. \A l \in Nat : l <= n => ff[l] = f[l] /\ hh[l] = h[l]
  BY <1>5
<1>10. ASSUME NEW l \in Nat, 1 <= l, l < n + 1, l < Depth - 1
       PROVE  ee[l + 1] = XorBool(ee[l], Passed(ff[l], ff[l + 1], hh[l], hh[l + 1], Dir(S, l)))
  <2>1. CASE l = n
    <3>1. ee[l + 1] = y /\ ee[l] = e[l]
      BY <1>7, <1>8, <2>1
    <3> QED BY <1>5, <2>1, <3>1 DEF y
  <2>2. CASE l # n
    <3>1. l < n /\ l <= n /\ l + 1 <= n /\ l + 1 \in Nat /\ l # n + 1 /\ l + 1 # n + 1
      BY <1>10, <2>2
    <3>2. e[l + 1] = XorBool(e[l], Passed(f[l], f[l + 1], h[l], h[l + 1], Dir(S, l)))
      BY <1>10, <3>1 DEF RunTo
    <3> QED BY <1>7, <1>9, <3>1, <3>2
  <2> QED BY <1>10, <2>1, <2>2
<1>11. RunTo(G, k, S, root, ff, hh, ee, n + 1)
  <2>1. ee[1] = FALSE
    BY <1>1, <1>7, <1>8
  <2> QED BY <1>5, <1>7, <1>10, <2>1 DEF RunTo, T
<1> QED BY <1>5, <1>7, <1>8, <1>11 DEF RunLonger, y

-----------------------------------------------------------------------------
(* What the two parties have added up.                                     *)

\* y and z are shares of something.
Share(y, z, that) == y \in BOOLEAN /\ z \in BOOLEAN /\ (y # z <=> that)

LEMMA ShareXor ==
    ASSUME NEW a, NEW b, NEW c, NEW d, NEW p, NEW q, Share(a, b, p), Share(c, d, q)
    PROVE  Share(XorBool(a, c), XorBool(b, d), (p \/ q) /\ ~ (p /\ q))
BY DEF Share, XorBool

\* A turn: p and c are the flags of the nodes on the way to S at a level and
\* (or, of the leaves, the parities) at the next, u and w those on the way to
\* the value opposite to it.
Turned(s, p, c, u, w) == IF s = 0 THEN XorBool(p, c) ELSE XorBool(u, w)

LEMMA TurnShare ==
    ASSUME NEW tgt \in Value, NEW S \in Value, NEW l \in Nat, 1 <= l, l < Depth,
           NEW T, T = Across(S), NEW s, s = Dir(S, l),
           NEW p0, NEW p1, Share(p0, p1, Above(S, l) = Above(tgt, l)),
           NEW c0, NEW c1, Share(c0, c1, Above(S, l + 1) = Above(tgt, l + 1)),
           NEW u0, NEW u1, Share(u0, u1, Above(T, l) = Above(tgt, l)),
           NEW w0, NEW w1, Share(w0, w1, Above(T, l + 1) = Above(tgt, l + 1)),
           NEW g0, NEW g1, Share(g0, g1, InsideAt(tgt, S, l))
    PROVE  Share(XorBool(g0, Turned(s, p0, c0, u0, w0)), XorBool(g1, Turned(s, p1, c1, u1, w1)),
                 InsideAt(tgt, S, l + 1))
<1> DEFINE t == Dir(tgt, l)
           A == Above(S, l) = Above(tgt, l)
           B == Above(T, l) = Above(tgt, l)
           I == InsideAt(tgt, S, l)
           J == InsideAt(tgt, S, l + 1)
<1>1. T \in Value /\ l < ValueBits /\ l <= ValueBits
  BY AcrossIs, Sizes
<1>2. s \in {0, 1} /\ t \in {0, 1} /\ Dir(T, l) = s
  <2>1. S \in Nat /\ tgt \in Nat
    BY InValue
  <2>2. s \in {0, 1} /\ t \in {0, 1}
    BY <1>1, <2>1, NextAbove
  <2>3. Dir(T, l) = s
    BY <1>1, AcrossDir
  <2> QED BY <2>2, <2>3
<1>3. J <=> I \/ (A /\ t > s) \/ (B /\ t < s)
  BY <1>1, InsideNext
<1>4. A \/ B => ~ I
  BY <1>1, OnTheWay
<1>5. Above(S, l + 1) = Above(tgt, l + 1) <=> A /\ s = t
  BY <1>1, SameNext
<1>6. Above(T, l + 1) = Above(tgt, l + 1) <=> B /\ s = t
  BY <1>1, <1>2, SameNext
<1>7. I \in BOOLEAN /\ J \in BOOLEAN /\ A \in BOOLEAN /\ B \in BOOLEAN
  BY DEF InsideAt, Inside
<1> HIDE DEF t, A, B, I, J
<1>8. CASE s = 0
  <2>1. s = t <=> ~ t > s
    BY <1>2, <1>8
  <2>2. ~ t < s
    BY <1>2, <1>8
  <2>3. J <=> I \/ (A /\ ~ s = t)
    BY <1>3, <2>1, <2>2
  <2>4. Share(p0, p1, A) /\ Share(c0, c1, A /\ s = t) /\ Share(g0, g1, I)
    BY <1>5 DEF A, I, Share
  <2>5. Turned(s, p0, c0, u0, w0) = XorBool(p0, c0) /\ Turned(s, p1, c1, u1, w1) = XorBool(p1, c1)
    BY <1>8 DEF Turned
  <2>6. Share(XorBool(p0, c0), XorBool(p1, c1), (A \/ (A /\ s = t)) /\ ~ (A /\ (A /\ s = t)))
    BY <2>4, ShareXor
  <2>7. Share(XorBool(p0, c0), XorBool(p1, c1), A /\ ~ s = t)
    BY <2>6 DEF Share
  <2>8. Share(XorBool(g0, XorBool(p0, c0)), XorBool(g1, XorBool(p1, c1)),
              (I \/ (A /\ ~ s = t)) /\ ~ (I /\ (A /\ ~ s = t)))
    BY <2>4, <2>7, ShareXor
  <2>9. Share(XorBool(g0, XorBool(p0, c0)), XorBool(g1, XorBool(p1, c1)), J)
    BY <2>3, <2>8, <1>4, <1>7 DEF Share
  <2> QED BY <2>5, <2>9 DEF J
<1>9. CASE s = 1
  <2>1. s = t <=> ~ t < s
    BY <1>2, <1>9
  <2>2. ~ t > s
    BY <1>2, <1>9
  <2>3. J <=> I \/ (B /\ ~ s = t)
    BY <1>3, <2>1, <2>2
  <2>4. Share(u0, u1, B) /\ Share(w0, w1, B /\ s = t) /\ Share(g0, g1, I)
    BY <1>6 DEF B, I, Share
  <2>5. Turned(s, p0, c0, u0, w0) = XorBool(u0, w0) /\ Turned(s, p1, c1, u1, w1) = XorBool(u1, w1)
    BY <1>9 DEF Turned
  <2>6. Share(XorBool(u0, w0), XorBool(u1, w1), (B \/ (B /\ s = t)) /\ ~ (B /\ (B /\ s = t)))
    BY <2>4, ShareXor
  <2>7. Share(XorBool(u0, w0), XorBool(u1, w1), B /\ ~ s = t)
    BY <2>6 DEF Share
  <2>8. Share(XorBool(g0, XorBool(u0, w0)), XorBool(g1, XorBool(u1, w1)),
              (I \/ (B /\ ~ s = t)) /\ ~ (I /\ (B /\ ~ s = t)))
    BY <2>4, <2>7, ShareXor
  <2>9. Share(XorBool(g0, XorBool(u0, w0)), XorBool(g1, XorBool(u1, w1)), J)
    BY <2>3, <2>8, <1>4, <1>7 DEF Share
  <2> QED BY <2>5, <2>9 DEF J
<1> QED BY <1>2, <1>8, <1>9

\* The flags of the nodes share whether the target is below.
LEMMA FlagShare ==
    ASSUME NEW v, NEW tgt, NEW f, NEW g, NEW n, Fit(v, tgt, f, g, n),
           NEW l \in Nat, l <= n, l < Depth
    PROVE  Share(get_lsb(f[l]), get_lsb(g[l]), Above(v, l) = Above(tgt, l))
<1>1. IF Above(v, l) = Above(tgt, l) THEN get_lsb(f[l]) # get_lsb(g[l]) ELSE f[l] = g[l]
  BY DEF Fit
<1>2. get_lsb(f[l]) \in BOOLEAN /\ get_lsb(g[l]) \in BOOLEAN
  BY DEF get_lsb
<1> QED BY <1>1, <1>2 DEF Share

LEMMA RunsFit ==
    ASSUME NEW G, NEW k, NEW tgt \in Value, NEW S \in Value, NEW r, NEW q, Pair(G, k, tgt, r, q),
           NEW n \in Nat, n <= Depth,
           NEW f0, NEW h0, NEW e0, RunTo(G, k, S, r, f0, h0, e0, n),
           NEW f1, NEW h1, NEW e1, RunTo(G, k, S, q, f1, h1, e1, n)
    PROVE  /\ Fit(S, tgt, f0, f1, n) /\ Fit(Across(S), tgt, h0, h1, n)
           /\ \A l \in Nat : 1 <= l /\ l <= n /\ l < Depth => Share(e0[l], e1[l], InsideAt(tgt, S, l))
<1> DEFINE T == Across(S)
<1>1. T \in Value
  BY AcrossIs
<1>2. Fit(S, tgt, f0, f1, n)
  BY PathsMeet DEF RunTo
<1>3. Fit(T, tgt, h0, h1, n)
  <2>1. PathTo(G, k, T, r, h0, n) /\ PathTo(G, k, T, q, h1, n)
    BY DEF RunTo
  <2> HIDE DEF T
  <2> QED BY <1>1, <2>1, PathsMeet
<1>4. e0 \in [Nat -> BOOLEAN] /\ e1 \in [Nat -> BOOLEAN] /\ e0[1] = FALSE /\ e1[1] = FALSE
  BY DEF RunTo
<1> DEFINE U == {i \in Nat : i + 1 <= n /\ i + 1 < Depth =>
                    Share(e0[i + 1], e1[i + 1], InsideAt(tgt, S, i + 1))}
<1>5. 0 \in U
  <2>1. 0 + 1 = 1 /\ ~ InsideAt(tgt, S, 1)
    BY InsideFirst
  <2> QED BY <1>4, <2>1 DEF Share
<1>6. ASSUME NEW i \in Nat, i \in U PROVE i + 1 \in U
  <2> DEFINE l == i + 1
             s == Dir(S, l)
  <2>1. SUFFICES ASSUME l + 1 <= n, l + 1 < Depth
                 PROVE  Share(e0[l + 1], e1[l + 1], InsideAt(tgt, S, l + 1))
    OBVIOUS
  <2>2. /\ l \in Nat /\ 1 <= l /\ l < n /\ l <= n /\ l < Depth /\ l < Depth - 1
        /\ l + 1 \in Nat
    BY <2>1, Sizes
  <2>3. Share(e0[l], e1[l], InsideAt(tgt, S, l))
    BY <1>6, <2>2
  <2> HIDE DEF l, U, T
  <2>4. /\ e0[l + 1] = XorBool(e0[l], Passed(f0[l], f0[l + 1], h0[l], h0[l + 1], s))
        /\ e1[l + 1] = XorBool(e1[l], Passed(f1[l], f1[l + 1], h1[l], h1[l + 1], s))
    BY <2>2 DEF RunTo
  <2>5. \A a, b, c, d, z : Passed(a, b, c, d, z)
                             = Turned(z, get_lsb(a), get_lsb(b), get_lsb(c), get_lsb(d))
    BY DEF Passed, Turned
  <2>6. /\ Share(get_lsb(f0[l]), get_lsb(f1[l]), Above(S, l) = Above(tgt, l))
        /\ Share(get_lsb(f0[l + 1]), get_lsb(f1[l + 1]), Above(S, l + 1) = Above(tgt, l + 1))
    BY <1>2, <2>1, <2>2, FlagShare
  <2>7. /\ Share(get_lsb(h0[l]), get_lsb(h1[l]), Above(T, l) = Above(tgt, l))
        /\ Share(get_lsb(h0[l + 1]), get_lsb(h1[l + 1]), Above(T, l + 1) = Above(tgt, l + 1))
    BY <1>3, <2>1, <2>2, FlagShare
  <2>8. T = Across(S)
    BY DEF T
  <2> DEFINE p0 == get_lsb(f0[l])
             p1 == get_lsb(f1[l])
             c0 == get_lsb(f0[l + 1])
             c1 == get_lsb(f1[l + 1])
             u0 == get_lsb(h0[l])
             u1 == get_lsb(h1[l])
             w0 == get_lsb(h0[l + 1])
             w1 == get_lsb(h1[l + 1])
             g0 == e0[l]
             g1 == e1[l]
  <2>9. /\ e0[l + 1] = XorBool(g0, Turned(s, p0, c0, u0, w0))
        /\ e1[l + 1] = XorBool(g1, Turned(s, p1, c1, u1, w1))
    BY <2>4, <2>5
  <2> HIDE DEF s, p0, p1, c0, c1, u0, u1, w0, w1, g0, g1
  <2>10. /\ Share(p0, p1, Above(S, l) = Above(tgt, l))
         /\ Share(c0, c1, Above(S, l + 1) = Above(tgt, l + 1))
    BY <2>6 DEF p0, p1, c0, c1
  <2>11. /\ Share(u0, u1, Above(T, l) = Above(tgt, l))
         /\ Share(w0, w1, Above(T, l + 1) = Above(tgt, l + 1))
    BY <2>7 DEF u0, u1, w0, w1
  <2>12. Share(g0, g1, InsideAt(tgt, S, l)) /\ s = Dir(S, l)
    BY <2>3 DEF g0, g1, s
  <2>13. Share(XorBool(g0, Turned(s, p0, c0, u0, w0)), XorBool(g1, Turned(s, p1, c1, u1, w1)),
               InsideAt(tgt, S, l + 1))
    BY <2>2, <2>8, <2>10, <2>11, <2>12, TurnShare
  <2> QED BY <2>9, <2>13
<1> HIDE DEF U
<1>7. \A i \in Nat : i \in U
  BY <1>5, <1>6, SetInduction
<1>8. ASSUME NEW l \in Nat, 1 <= l, l <= n, l < Depth PROVE Share(e0[l], e1[l], InsideAt(tgt, S, l))
  <2>1. l - 1 \in Nat /\ (l - 1) + 1 = l
    BY <1>8
  <2>2. l - 1 \in U
    BY <1>7, <2>1
  <2> QED BY <1>8, <2>1, <2>2 DEF U
<1> QED BY <1>2, <1>3, <1>8

-----------------------------------------------------------------------------
(* The results.                                                            *)

LEMMA ParityShare ==
    ASSUME NEW a \in Node, NEW b \in Node, NEW t, NEW A \in BOOLEAN,
           XorNode(a, b) = IF A THEN {t} ELSE {}
    PROVE  Share(parity(a), parity(b), A)
<1>1. IsFiniteSet(Bits)
  BY Sizes, FS_Interval
<1>2. IsFiniteSet(a) /\ IsFiniteSet(b)
  BY <1>1, FS_Subset DEF Node
<1>3. CASE ~ A
  <2>1. a = b
    BY <1>3, XorBack
  <2> QED BY <1>3, <2>1 DEF Share, parity
<1>4. CASE A
  <2>1. (a = b \cup {t} /\ t \notin b) \/ (b = a \cup {t} /\ t \notin a)
    BY <1>4 DEF XorNode
  <2>2. Cardinality(a) = Cardinality(b) + 1 \/ Cardinality(b) = Cardinality(a) + 1
    BY <1>2, <2>1, FS_AddElement
  <2>3. Cardinality(a) \in Nat /\ Cardinality(b) \in Nat
    BY <1>2, FS_CardinalityType
  <2> QED BY <1>4, <2>2, <2>3 DEF Share, parity
<1> QED BY <1>3, <1>4

\* The same for the bits on a side of a position.
LEMMA PartShare ==
    ASSUME NEW a \in Node, NEW b \in Node, NEW t \in Nat, NEW pos \in Nat, NEW A \in BOOLEAN,
           XorNode(a, b) = IF A THEN {t} ELSE {}
    PROVE  /\ Share(parity_above(a, pos), parity_above(b, pos), A /\ t > pos)
           /\ Share(parity_below(a, pos), parity_below(b, pos), A /\ t < pos)
           /\ Share(bit_at(a, pos), bit_at(b, pos), A /\ t = pos)
<1>1. Share(parity_above(a, pos), parity_above(b, pos), A /\ t > pos)
  <2> DEFINE u == {i \in a : i > pos}
             w == {i \in b : i > pos}
             B == A /\ t > pos
  <2>1. u \in Node /\ w \in Node /\ B \in BOOLEAN
    BY DEF Node
  <2>2. XorNode(u, w) = IF B THEN {t} ELSE {}
    BY DEF XorNode
  <2>3. parity_above(a, pos) = parity(u) /\ parity_above(b, pos) = parity(w)
    BY DEF parity_above
  <2> HIDE DEF u, w
  <2> QED BY <2>1, <2>2, <2>3, ParityShare
<1>2. Share(parity_below(a, pos), parity_below(b, pos), A /\ t < pos)
  <2> DEFINE u == {i \in a : i < pos}
             w == {i \in b : i < pos}
             B == A /\ t < pos
  <2>1. u \in Node /\ w \in Node /\ B \in BOOLEAN
    BY DEF Node
  <2>2. XorNode(u, w) = IF B THEN {t} ELSE {}
    BY DEF XorNode
  <2>3. parity_below(a, pos) = parity(u) /\ parity_below(b, pos) = parity(w)
    BY DEF parity_below
  <2> HIDE DEF u, w
  <2> QED BY <2>1, <2>2, <2>3, ParityShare
<1>3. Share(bit_at(a, pos), bit_at(b, pos), A /\ t = pos)
  <2>1. pos \in XorNode(a, b) <=> A /\ t = pos
    OBVIOUS
  <2> QED BY <2>1 DEF Share, bit_at, XorNode
<1> QED BY <1>1, <1>2, <1>3

\* What a party returns of its descents: the parents and the leaves on its two
\* ways, and what it had added up before.
EqualOf(S, Sleaf) == bit_at(Sleaf, S % Shl[LeafBits])
GreaterOf(S, Sparent, Sleaf, Tparent, Tleaf, gt) ==
    XorBool(XorBool(gt, Turned(Dir(S, Depth - 1), get_lsb(Sparent), parity(Sleaf),
                               get_lsb(Tparent), parity(Tleaf))),
            AtLeaf(Sleaf, Tleaf, S % Shl[LeafBits]))
LessOf(p, eq, gt) == XorBool(p = 1, XorBool(eq, gt))
Result(kind, p, eq, gt) == IF kind = "compare" THEN <<LessOf(p, eq, gt), eq, gt>> ELSE <<eq>>

\* The leaves on the way to v.
LEMMA LeafFit ==
    ASSUME NEW G, NEW k, NEW v, NEW tgt, NEW r, NEW q, NEW f, NEW g,
           PathTo(G, k, v, r, f, Depth), PathTo(G, k, v, q, g, Depth),
           Fit(v, tgt, f, g, Depth)
    PROVE  /\ f[Depth] \in Node /\ g[Depth] \in Node
           /\ XorNode(f[Depth], g[Depth])
                = IF Above(v, Depth) = Above(tgt, Depth) THEN {tgt % Shl[LeafBits]} ELSE {}
<1>1. Depth \in Nat
  BY Sizes
<1> QED BY <1>1 DEF PathTo, Fit

\* The outputs of complete descents share how the target lies to S.
LEMMA ResultsShare ==
    ASSUME NEW G, NEW k, NEW tgt \in Value, NEW S \in Value, NEW r, NEW q, Pair(G, k, tgt, r, q),
           NEW f0, NEW h0, NEW e0, RunTo(G, k, S, r, f0, h0, e0, Depth),
           NEW f1, NEW h1, NEW e1, RunTo(G, k, S, q, f1, h1, e1, Depth),
           NEW m, m = Depth - 1,
           NEW eq0, eq0 = EqualOf(S, f0[Depth]), NEW eq1, eq1 = EqualOf(S, f1[Depth]),
           NEW gt0, gt0 = GreaterOf(S, f0[m], f0[Depth], h0[m], h0[Depth], e0[m]),
           NEW gt1, gt1 = GreaterOf(S, f1[m], f1[Depth], h1[m], h1[Depth], e1[m])
    PROVE  /\ Share(eq0, eq1, tgt = S)
           /\ Share(gt0, gt1, Inside(tgt, S, Half))
           /\ Share(LessOf(0, eq0, gt0), LessOf(1, eq1, gt1), ~ (tgt = S) /\ ~ Inside(tgt, S, Half))
<1> DEFINE T == Across(S)
           s == Dir(S, m)
           pos == S % Shl[LeafBits]
           t == tgt % Shl[LeafBits]
           A == Above(S, Depth) = Above(tgt, Depth)
           B == Above(T, Depth) = Above(tgt, Depth)
           I == InsideAt(tgt, S, Depth)
<1>1. /\ m \in Nat /\ 1 <= m /\ m < Depth /\ m <= Depth /\ m + 1 = Depth
      /\ Depth \in Nat /\ Depth <= Depth /\ 1 <= Depth /\ Depth <= ValueBits
      /\ T \in Value
  BY AcrossIs, Sizes
<1>2. /\ Fit(S, tgt, f0, f1, Depth) /\ Fit(T, tgt, h0, h1, Depth)
      /\ Share(e0[m], e1[m], InsideAt(tgt, S, m))
  BY <1>1, RunsFit
<1>3. /\ PathTo(G, k, S, r, f0, Depth) /\ PathTo(G, k, S, q, f1, Depth)
      /\ PathTo(G, k, T, r, h0, Depth) /\ PathTo(G, k, T, q, h1, Depth)
  BY DEF RunTo
<1>4. pos \in Nat /\ t \in Nat /\ S \in Nat /\ tgt \in Nat
  BY InValue, LeafPart
<1>5. A \in BOOLEAN /\ B \in BOOLEAN /\ I \in BOOLEAN
  BY DEF InsideAt, Inside
<1>6. (A \/ B => ~ I) /\ ~ (A /\ B)
  <2>1. A \/ B => ~ I
    BY <1>1, OnTheWay
  <2>2. Above(T, Depth) # Above(S, Depth)
    <3>1. Depth - 1 \in Nat
      BY <1>1
    <3>2. Shl[Depth - 1] \in Nat \ {0}
      BY <3>1, ShlFacts
    <3>3. Above(S, Depth) \in Nat /\ Above(T, Depth) \in Nat
      BY <1>1, AboveRange
    <3>4. Above(T, Depth) = Above(S, Depth) + Shl[Depth - 1] \/ Above(S, Depth) = Above(T, Depth) + Shl[Depth - 1]
      BY <1>1, AcrossAbove
    <3> QED BY <3>2, <3>3, <3>4
  <2> QED BY <2>1, <2>2
<1>7. Inside(tgt, S, Half) <=> I \/ (A /\ t > pos) \/ (B /\ t < pos)
  BY InsideLeaf
<1>8. tgt = S <=> A /\ t = pos
  <2>1. /\ S = Above(S, Depth) * Shl[LeafBits] + pos
        /\ tgt = Above(tgt, Depth) * Shl[LeafBits] + t
    BY <1>4, LeafPart
  <2> QED BY <2>1
<1> HIDE DEF T, s, pos, t
<1>9. /\ f0[Depth] \in Node /\ f1[Depth] \in Node
      /\ XorNode(f0[Depth], f1[Depth]) = IF A THEN {t} ELSE {}
  BY <1>2, <1>3, LeafFit DEF t
<1>10. /\ h0[Depth] \in Node /\ h1[Depth] \in Node
       /\ XorNode(h0[Depth], h1[Depth]) = IF B THEN {t} ELSE {}
  BY <1>2, <1>3, LeafFit DEF t
<1>11. /\ Share(get_lsb(f0[m]), get_lsb(f1[m]), Above(S, m) = Above(tgt, m))
       /\ Share(get_lsb(h0[m]), get_lsb(h1[m]), Above(T, m) = Above(tgt, m))
  BY <1>1, <1>2, FlagShare
<1> HIDE DEF A, B, I
<1>12. /\ Share(parity(f0[Depth]), parity(f1[Depth]), A)
       /\ Share(parity(h0[Depth]), parity(h1[Depth]), B)
  BY <1>5, <1>9, <1>10, ParityShare
<1>13. Share(parity_above(f0[Depth], pos), parity_above(f1[Depth], pos), A /\ t > pos)
       /\ Share(bit_at(f0[Depth], pos), bit_at(f1[Depth], pos), A /\ t = pos)
  BY <1>4, <1>5, <1>9, PartShare
<1>14. Share(parity_below(h0[Depth], pos), parity_below(h1[Depth], pos), B /\ t < pos)
  BY <1>4, <1>5, <1>10, PartShare
<1>15. PICK y0, y1 :
          /\ y0 = XorBool(e0[m], Turned(s, get_lsb(f0[m]), parity(f0[Depth]), get_lsb(h0[m]), parity(h0[Depth])))
          /\ y1 = XorBool(e1[m], Turned(s, get_lsb(f1[m]), parity(f1[Depth]), get_lsb(h1[m]), parity(h1[Depth])))
  OBVIOUS
<1>16. Share(y0, y1, I)
  <2> DEFINE p0 == get_lsb(f0[m])
             p1 == get_lsb(f1[m])
             c0 == parity(f0[Depth])
             c1 == parity(f1[Depth])
             u0 == get_lsb(h0[m])
             u1 == get_lsb(h1[m])
             w0 == parity(h0[Depth])
             w1 == parity(h1[Depth])
             g0 == e0[m]
             g1 == e1[m]
  <2>1. /\ Share(p0, p1, Above(S, m) = Above(tgt, m))
        /\ Share(c0, c1, Above(S, m + 1) = Above(tgt, m + 1))
    BY <1>1, <1>11, <1>12 DEF A
  <2>2. /\ Share(u0, u1, Above(T, m) = Above(tgt, m))
        /\ Share(w0, w1, Above(T, m + 1) = Above(tgt, m + 1))
    BY <1>1, <1>11, <1>12 DEF B
  <2>3. Share(g0, g1, InsideAt(tgt, S, m)) /\ T = Across(S) /\ s = Dir(S, m)
    BY <1>2 DEF T, s
  <2>4. y0 = XorBool(g0, Turned(s, p0, c0, u0, w0)) /\ y1 = XorBool(g1, Turned(s, p1, c1, u1, w1))
    BY <1>15
  <2> HIDE DEF p0, p1, c0, c1, u0, u1, w0, w1, g0, g1
  <2>5. Share(XorBool(g0, Turned(s, p0, c0, u0, w0)), XorBool(g1, Turned(s, p1, c1, u1, w1)),
              InsideAt(tgt, S, m + 1))
    BY <1>1, <2>1, <2>2, <2>3, TurnShare
  <2> QED BY <1>1, <2>4, <2>5 DEF I
<1>17. PICK z0, z1 : /\ z0 = AtLeaf(f0[Depth], h0[Depth], pos)
                     /\ z1 = AtLeaf(f1[Depth], h1[Depth], pos)
  OBVIOUS
<1>18. Share(z0, z1, (A /\ t > pos) \/ (B /\ t < pos))
  <2>1. Share(z0, z1, ((A /\ t > pos) \/ (B /\ t < pos)) /\ ~ ((A /\ t > pos) /\ (B /\ t < pos)))
    BY <1>13, <1>14, <1>17, ShareXor DEF AtLeaf
  <2> QED BY <2>1, <1>6 DEF Share
<1>19. gt0 = XorBool(y0, z0) /\ gt1 = XorBool(y1, z1)
  BY <1>15, <1>17 DEF GreaterOf, s, pos
<1>20. Share(gt0, gt1, Inside(tgt, S, Half))
  <2> DEFINE Z == (A /\ t > pos) \/ (B /\ t < pos)
  <2>1. Share(gt0, gt1, (I \/ Z) /\ ~ (I /\ Z))
    <3> HIDE DEF Z
    <3>1. Share(z0, z1, Z)
      BY <1>18 DEF Z
    <3> QED BY <1>16, <1>19, <3>1, ShareXor
  <2> QED BY <2>1, <1>6, <1>7 DEF Share
<1>21. Share(eq0, eq1, tgt = S)
  <2>1. eq0 = bit_at(f0[Depth], pos) /\ eq1 = bit_at(f1[Depth], pos)
    BY DEF EqualOf, pos
  <2> QED BY <2>1, <1>8, <1>13 DEF Share
<1>22. ~ (tgt = S /\ Inside(tgt, S, Half))
  <2>1. A /\ t = pos => ~ I /\ ~ B /\ ~ t > pos
    BY <1>4, <1>6
  <2> QED BY <2>1, <1>7, <1>8
<1>23. Share(LessOf(0, eq0, gt0), LessOf(1, eq1, gt1), ~ (tgt = S) /\ ~ Inside(tgt, S, Half))
  <2>1. /\ LessOf(0, eq0, gt0) = XorBool(FALSE, XorBool(eq0, gt0))
        /\ LessOf(1, eq1, gt1) = XorBool(TRUE, XorBool(eq1, gt1))
    <3>1. (0 = 1) = FALSE /\ (1 = 1) = TRUE
      OBVIOUS
    <3>2. \A p, a, b : LessOf(p, a, b) = XorBool(p = 1, XorBool(a, b))
      BY DEF LessOf
    <3>3. /\ LessOf(0, eq0, gt0) = XorBool(0 = 1, XorBool(eq0, gt0))
          /\ LessOf(1, eq1, gt1) = XorBool(1 = 1, XorBool(eq1, gt1))
      BY <3>2
    <3> QED BY <3>1, <3>3
  <2> QED BY <2>1, <1>20, <1>21, <1>22 DEF Share, XorBool
<1> QED BY <1>20, <1>21, <1>23

-----------------------------------------------------------------------------
(* The inductive invariant: what has been generated.                       *)

\* With generator g for the target tgt, the nodes c and the keys d.
GenAt(g, tgt, c, d) ==
    /\ g \in DOMAIN Gens /\ tgt \in Value
    /\ c \in [Halves -> Node] /\ d \in [Halves -> Keys]
    /\ Len(d[0].cw) <= Depth /\ Len(d[0].cfbits) = Len(d[0].cw)
    /\ d[1].cw = d[0].cw /\ d[1].cfbits = d[0].cfbits /\ d[1].leaf_cwr = d[0].leaf_cwr
    /\ Sum(d[0].as_target, d[1].as_target) = tgt
    /\ xor(d[0].xs_target, d[1].xs_target) = tgt
    /\ Len(d[0].cw) < Depth =>
         TrailFrom(Gens[g], d[0], tgt, d[0].seed, d[1].seed, c[0], c[1], Len(d[0].cw))
    /\ Len(d[0].cw) = Depth => Pair(Gens[g], d[0], tgt, d[0].seed, d[1].seed)

GenInv == GenAt(gen, target, cur, dpf)

LEMMA GenInit ==
    Init => GenInv
<1> SUFFICES ASSUME Init PROVE GenInv
  OBVIOUS
<1>1. gen \in DOMAIN Gens /\ target \in Value
  BY DEF Init
<1>2. PICK s \in Seeds, share \in TargetShares :
        LET seed == [p \in Halves |-> IF p = 0 THEN s[p] \ {0} ELSE s[p] \cup {0}] IN
        /\ cur = seed
        /\ dpf = [p \in Halves |->
                    [seed |-> seed[p], cw |-> <<>>, cfbits |-> <<>>, leaf_cwr |-> {},
                     as_target |-> IF p = 0 THEN share ELSE (target - share) % NumValues,
                     xs_target |-> IF p = 0 THEN share ELSE xor(target, share)]]
  BY DEF Init
<1>3. 0 \in Halves /\ 1 \in Halves /\ s \in [Halves -> Node] /\ share \in Value
  BY SeedsAssumption, SharesAssumption DEF Halves
<1> DEFINE r0 == s[0] \ {0}
           r1 == s[1] \cup {0}
<1>4. r0 \in Node /\ r1 \in Node /\ get_lsb(r0) = FALSE /\ get_lsb(r1) = TRUE
  BY <1>3, Sizes DEF Node, get_lsb
<1>5. cur = [p \in Halves |-> IF p = 0 THEN r0 ELSE r1]
  BY <1>2, <1>3 DEF Halves
<1>6. /\ dpf[0] = [seed |-> r0, cw |-> <<>>, cfbits |-> <<>>, leaf_cwr |-> {},
                   as_target |-> share, xs_target |-> share]
      /\ dpf[1] = [seed |-> r1, cw |-> <<>>, cfbits |-> <<>>, leaf_cwr |-> {},
                   as_target |-> Minus(target, share), xs_target |-> xor(target, share)]
      /\ dpf = [p \in Halves |-> dpf[p]]
  BY <1>2, <1>3 DEF Minus
<1> HIDE DEF r0, r1
<1>7. Minus(target, share) \in Value /\ Sum(share, Minus(target, share)) = target
  BY <1>1, <1>3, SharesAdd
<1>8. xor(target, share) \in Value /\ xor(share, xor(target, share)) = target
  BY <1>1, <1>3, XorValue
<1>9. <<>> \in Seq(Node) /\ <<>> \in Seq(BOOLEAN) /\ {} \in Node /\ Len(<<>>) = 0
  BY DEF Node
<1>10. dpf \in [Halves -> Keys]
  <2>1. dpf[0] \in Keys /\ dpf[1] \in Keys
    BY <1>3, <1>4, <1>6, <1>7, <1>8, <1>9 DEF Keys
  <2> QED BY <1>6, <2>1 DEF Halves
<1>11. cur \in [Halves -> Node] /\ cur[0] = r0 /\ cur[1] = r1
  BY <1>3, <1>4, <1>5
<1>12. TrailFrom(Gens[gen], dpf[0], target, r0, r1, r0, r1, 0)
  <2> DEFINE a == [i \in Nat |-> r0]
             b == [i \in Nat |-> r1]
  <2>1. /\ a \in [Nat -> Node] /\ b \in [Nat -> Node]
        /\ \A l \in Nat : a[l] = r0 /\ b[l] = r1
        /\ \A l \in Nat : ~ l < 0
    BY <1>4
  <2> HIDE DEF a, b
  <2>2. ASSUME NEW l \in Nat PROVE get_lsb(a[l]) # get_lsb(b[l])
    <3>1. a[l] = r0 /\ b[l] = r1
      BY <2>1
    <3> QED BY <1>4, <3>1
  <2>3. TrailTo(Gens[gen], dpf[0], target, a, b, 0)
    BY <2>1, <2>2 DEF TrailTo
  <2> QED BY <2>1, <2>3 DEF TrailFrom
<1>13. 0 <= Depth /\ 0 # Depth
  BY Sizes
<1>14. Len(dpf[0].cw) = 0 /\ Len(dpf[0].cfbits) = 0 /\ dpf[0].seed = r0 /\ dpf[1].seed = r1
  BY <1>6, <1>9
<1>15. /\ dpf[1].cw = dpf[0].cw /\ dpf[1].cfbits = dpf[0].cfbits /\ dpf[1].leaf_cwr = dpf[0].leaf_cwr
       /\ Sum(dpf[0].as_target, dpf[1].as_target) = target
       /\ xor(dpf[0].xs_target, dpf[1].xs_target) = target
  BY <1>6, <1>7, <1>8
<1> QED BY <1>1, <1>10, <1>11, <1>12, <1>13, <1>14, <1>15 DEF GenInv, GenAt

LEMMA GeneratorType ==
    \A g \in DOMAIN Gens : Gens[g] \in Generators
BY GensAssumption DEF Generators

LEMMA EndOfTrail ==
    ASSUME NEW G, NEW k, NEW tgt, NEW r, NEW q, NEW m0, NEW m1, NEW n \in Nat,
           TrailFrom(G, k, tgt, r, q, m0, m1, n)
    PROVE  m0 \in Node /\ m1 \in Node /\ get_lsb(m0) # get_lsb(m1)
BY DEF TrailFrom, TrailTo

LEMMA GenLevelStep ==
    GenInv /\ GenerateLevel => GenInv' /\ ~ Generated /\ UNCHANGED <<op, x, comp>>
<1> SUFFICES ASSUME GenInv, GenerateLevel
             PROVE  GenInv' /\ ~ Generated /\ UNCHANGED <<op, x, comp>>
  OBVIOUS
<1> DEFINE G == Gens[gen]
           k == dpf[0]
           n == Len(k.cw)
           m0 == cur[0]
           m1 == cur[1]
           cfbit == FlagBit
           right == Dir(target, n) = 1
           off == IF right THEN 0 ELSE 1
           CW == xor_lsb(XorNode(prg(G, m0, off, 0), prg(G, m1, off, 0)), ~ right /\ cfbit)
           w == IF right THEN xor_lsb(CW, cfbit) ELSE CW
           c0 == xor_if(prg(G, m0, 1 - off, 0), w, get_lsb(m0))
           c1 == xor_if(prg(G, m1, 1 - off, 0), w, get_lsb(m1))
<1>1. /\ gen \in DOMAIN Gens /\ target \in Value
      /\ cur \in [Halves -> Node] /\ dpf \in [Halves -> Keys]
      /\ Len(dpf[0].cfbits) = n
      /\ dpf[1].cw = k.cw /\ dpf[1].cfbits = k.cfbits /\ dpf[1].leaf_cwr = k.leaf_cwr
      /\ Sum(dpf[0].as_target, dpf[1].as_target) = target
      /\ xor(dpf[0].xs_target, dpf[1].xs_target) = target
      /\ n < Depth => TrailFrom(G, k, target, dpf[0].seed, dpf[1].seed, m0, m1, n)
  BY DEF GenInv, GenAt
<1>2. /\ n < Depth - 1
      /\ dpf' = [p \in Halves |-> [dpf[p] EXCEPT !.cw = Append(@, CW), !.cfbits = Append(@, cfbit)]]
      /\ gen' = gen /\ target' = target /\ op' = op /\ x' = x /\ comp' = comp
  <2>1. 0 \in Halves /\ 1 \in Halves /\ off \in Halves
    BY DEF Halves
  <2> QED BY <2>1 DEF GenerateLevel
<1>3. cur' = [p \in Halves |-> IF p = 0 THEN c0 ELSE c1]
  <2>1. 0 \in Halves /\ 1 \in Halves /\ off \in Halves /\ 1 - off \in Halves
    BY DEF Halves
  <2>2. cur' = [p \in Halves |-> xor_if(prg(G, cur[p], 1 - off, 0), w, get_lsb(cur[p]))]
    BY <2>1 DEF GenerateLevel
  <2>3. \A p \in Halves : p = 0 \/ p = 1
    BY DEF Halves
  <2> QED BY <2>2, <2>3
<1>4. /\ k \in Keys /\ n \in Nat /\ n < Depth /\ n < ValueBits /\ n + 1 \in Nat /\ n + 1 < Depth
      /\ G \in Generators
  <2>1. k \in Keys
    BY <1>1 DEF Halves
  <2>2. n \in Nat
    BY <2>1 DEF Keys
  <2>3. n < Depth /\ n < ValueBits /\ n + 1 \in Nat /\ n + 1 < Depth
    <3>1. n < Depth - 1
      BY <1>2
    <3> HIDE DEF n
    <3> QED BY <2>2, <3>1, Sizes
  <2> QED BY <2>1, <2>2, <2>3, <1>1, GeneratorType
<1>5. cfbit = LevelFlag(prg(G, m0, 0, 0), prg(G, m0, 1, 0), prg(G, m1, 0, 0), prg(G, m1, 1, 0))
      /\ cfbit \in BOOLEAN
  BY DEF FlagBit, LevelFlag
<1> HIDE DEF G, k, n, m0, m1, cfbit
<1>6. m0 \in Node /\ m1 \in Node /\ get_lsb(m0) # get_lsb(m1)
  BY <1>1, <1>4, EndOfTrail
<1>7. CW \in Node
  <2>1. off \in Halves
    BY DEF Halves
  <2> QED BY <1>4, <1>6, <2>1, LevelWord
<1> PICK kn, kp : kn = dpf'[0] /\ kp = dpf'[1]
  OBVIOUS
<1>8. /\ kn = [k EXCEPT !.cw = Append(@, CW), !.cfbits = Append(@, cfbit)]
      /\ kp = [dpf[1] EXCEPT !.cw = Append(@, CW), !.cfbits = Append(@, cfbit)]
      /\ dpf' = [p \in Halves |-> dpf'[p]]
  <2> HIDE DEF CW
  <2> QED BY <1>2 DEF Halves, k
<1> HIDE DEF CW
<1>9. /\ Grown(k, kn, CW, cfbit) /\ kn.leaf_cwr = k.leaf_cwr
      /\ kn.seed = k.seed /\ kn.as_target = k.as_target /\ kn.xs_target = k.xs_target
  BY <1>4, <1>8 DEF Grown, Keys
<1>10. /\ Grown(dpf[1], kp, CW, cfbit) /\ kp.leaf_cwr = dpf[1].leaf_cwr
       /\ kp.seed = dpf[1].seed /\ kp.as_target = dpf[1].as_target /\ kp.xs_target = dpf[1].xs_target
  <2>1. dpf[1] \in Keys
    BY <1>1 DEF Halves
  <2> QED BY <1>8, <2>1 DEF Grown, Keys
<1>11. Len(k.cw) = n /\ Len(k.cfbits) = n
  BY <1>1 DEF n, k
<1>12. SameWords(k, kn, n) /\ Word(kn, n, 0) = CW /\ Word(kn, n, 1) = xor_lsb(CW, cfbit)
  <2>1. n < Depth - 1
    BY <1>2
  <2> QED BY <1>4, <1>5, <1>7, <1>9, <1>11, <2>1, WordsOfGrown
<1>13. Continues(G, kn, target, m0, m1, n, c0, c1)
  <2>1. n < Depth - 1
    BY <1>2
  <2>2. off = (IF Dir(target, n) = 1 THEN 0 ELSE 1) /\ w = (IF Dir(target, n) = 1 THEN xor_lsb(CW, cfbit) ELSE CW)
    OBVIOUS
  <2>3. CW = xor_lsb(XorNode(prg(G, m0, off, 0), prg(G, m1, off, 0)), Dir(target, n) # 1 /\ cfbit)
    BY DEF CW
  <2>4. c0 = xor_if(prg(G, m0, 1 - off, 0), w, get_lsb(m0)) /\ c1 = xor_if(prg(G, m1, 1 - off, 0), w, get_lsb(m1))
    OBVIOUS
  <2> HIDE DEF off, w, c0, c1
  <2> QED BY <1>1, <1>4, <1>5, <1>6, <1>12, <2>1, <2>2, <2>3, <2>4, LevelStep
<1> HIDE DEF c0, c1
<1>14. TrailFrom(G, kn, target, dpf[0].seed, dpf[1].seed, c0, c1, n + 1)
  <2>1. TrailFrom(G, k, target, dpf[0].seed, dpf[1].seed, m0, m1, n)
    BY <1>1, <1>4
  <2> QED BY <1>1, <1>4, <1>12, <1>13, <2>1, TrailGrows
<1>15. kn \in Keys /\ Len(kn.cw) = n + 1 /\ Len(kn.cfbits) = n + 1
  <2> DEFINE u == k.cw
             z == k.cfbits
  <2>1. u \in Seq(Node) /\ z \in Seq(BOOLEAN) /\ kn.cw = Append(u, CW) /\ kn.cfbits = Append(z, cfbit)
    BY <1>4, <1>9 DEF Grown, Keys
  <2> HIDE DEF u, z
  <2>2. Append(u, CW) \in Seq(Node) /\ Append(z, cfbit) \in Seq(BOOLEAN)
        /\ Len(Append(u, CW)) = Len(u) + 1 /\ Len(Append(z, cfbit)) = Len(z) + 1
    BY <1>5, <1>7, <2>1
  <2>3. kn \in Keys
    BY <1>4, <1>8, <2>1, <2>2 DEF Keys
  <2> QED BY <1>11, <2>1, <2>2, <2>3 DEF u, z
<1>16. kp \in Keys /\ kp.cw = kn.cw /\ kp.cfbits = kn.cfbits /\ kp.leaf_cwr = kn.leaf_cwr
  <2>1. dpf[1] \in Keys
    BY <1>1 DEF Halves
  <2>2. kp.cw = kn.cw /\ kp.cfbits = kn.cfbits /\ kp.leaf_cwr = kn.leaf_cwr
    BY <1>1, <1>9, <1>10 DEF Grown, k
  <2>3. kn.cw \in Seq(Node) /\ kn.cfbits \in Seq(BOOLEAN)
    BY <1>15 DEF Keys
  <2> QED BY <1>8, <2>1, <2>2, <2>3 DEF Keys
<1>17. c0 \in Node /\ c1 \in Node
  BY <1>13 DEF Continues
<1>18. cur' \in [Halves -> Node] /\ cur'[0] = c0 /\ cur'[1] = c1
  BY <1>3, <1>17 DEF Halves
<1>19. dpf' \in [Halves -> Keys]
  BY <1>8, <1>15, <1>16 DEF Halves
<1>20. GenAt(gen, target, cur', dpf')
  <2>1. Len(dpf'[0].cw) = n + 1 /\ Len(dpf'[0].cfbits) = n + 1
    BY <1>8, <1>15
  <2>2. /\ Sum(dpf'[0].as_target, dpf'[1].as_target) = target
        /\ xor(dpf'[0].xs_target, dpf'[1].xs_target) = target
    BY <1>1, <1>8, <1>9, <1>10 DEF k
  <2>3. TrailFrom(Gens[gen], dpf'[0], target, dpf'[0].seed, dpf'[1].seed, cur'[0], cur'[1], n + 1)
    BY <1>8, <1>9, <1>10, <1>14, <1>18 DEF G, k
  <2>4. n + 1 <= Depth /\ n + 1 # Depth
    BY <1>4, Sizes
  <2> QED BY <1>1, <1>8, <1>16, <1>18, <1>19, <2>1, <2>2, <2>3, <2>4 DEF GenAt
<1>21. ~ Generated
  BY <1>4, Sizes DEF Generated, n, k
<1> QED BY <1>2, <1>20, <1>21 DEF GenInv

LEMMA LeafWordType ==
    ASSUME NEW G \in Generators, NEW m0 \in Node, NEW m1 \in Node, NEW tgt \in Value, NEW n,
           NEW side \in Halves
    PROVE  LeafWord(G, m0, m1, tgt, n, side) \in Node
<1>1. XorNode(prg(G, m0, side, 0), prg(G, m1, side, 0)) \in Node
  BY ChildType, XorType
<1>2. (IF side = Dir(tgt, n) THEN {tgt % Shl[LeafBits]} ELSE {}) \in Node
  <2>1. tgt % Shl[LeafBits] \in Bits
    BY InValue, LeafPart
  <2> QED BY <2>1 DEF Node
<1> QED BY <1>1, <1>2, XorType DEF LeafWord

LEMMA PairComplete ==
    ASSUME NEW G, NEW k, NEW kn, NEW tgt \in Value, NEW r, NEW q, NEW m0, NEW m1,
           NEW n \in Nat, n = Depth - 1, n < ValueBits,
           TrailFrom(G, k, tgt, r, q, m0, m1, n), SameWords(k, kn, n),
           \A side \in Halves : Word(kn, n, side) = LeafWord(G, m0, m1, tgt, n, side)
    PROVE  Pair(G, kn, tgt, r, q)
<1>1. PICK a, b : /\ TrailTo(G, k, tgt, a, b, n)
                  /\ a[0] = r /\ b[0] = q /\ a[n] = m0 /\ b[n] = m1
  BY DEF TrailFrom
<1>2. TrailTo(G, kn, tgt, a, b, n)
  BY <1>1, TrailSame
<1>3. get_lsb(m0) # get_lsb(m1)
  BY EndOfTrail
<1>4. LeavesFit(G, kn, tgt, m0, m1)
  BY <1>3, LeavesStep
<1> QED BY <1>1, <1>2, <1>4 DEF Pair

LEMMA GenLastStep ==
    GenInv /\ GenerateLast => GenInv' /\ ~ Generated /\ Generated' /\ UNCHANGED <<op, x, comp>>
<1> SUFFICES ASSUME GenInv, GenerateLast
             PROVE  GenInv' /\ ~ Generated /\ Generated' /\ UNCHANGED <<op, x, comp>>
  OBVIOUS
<1> DEFINE G == Gens[gen]
           k == dpf[0]
           n == Len(k.cw)
           m0 == cur[0]
           m1 == cur[1]
           cfbit == FlagBit
           W(side) == LeafWord(G, m0, m1, target, n, side)
<1>1. /\ gen \in DOMAIN Gens /\ target \in Value
      /\ cur \in [Halves -> Node] /\ dpf \in [Halves -> Keys]
      /\ Len(dpf[0].cfbits) = n
      /\ dpf[1].cw = k.cw /\ dpf[1].cfbits = k.cfbits /\ dpf[1].leaf_cwr = k.leaf_cwr
      /\ Sum(dpf[0].as_target, dpf[1].as_target) = target
      /\ xor(dpf[0].xs_target, dpf[1].xs_target) = target
      /\ n < Depth => TrailFrom(G, k, target, dpf[0].seed, dpf[1].seed, m0, m1, n)
  BY DEF GenInv, GenAt
<1>2. /\ n = Depth - 1
      /\ dpf' = [p \in Halves |-> [dpf[p] EXCEPT !.cw = Append(@, W(0)), !.cfbits = Append(@, cfbit),
                                                 !.leaf_cwr = W(1)]]
      /\ gen' = gen /\ target' = target /\ cur' = cur /\ op' = op /\ x' = x /\ comp' = comp
  BY DEF GenerateLast, GenerateLeaves, LeafWord
<1>3. /\ k \in Keys /\ n \in Nat /\ n < Depth /\ n < ValueBits /\ n + 1 = Depth
      /\ G \in Generators
  <2>1. k \in Keys
    BY <1>1 DEF Halves
  <2>2. n \in Nat
    BY <2>1 DEF Keys
  <2>3. n < Depth /\ n < ValueBits /\ n + 1 = Depth
    <3>1. n = Depth - 1
      BY <1>2
    <3> HIDE DEF n
    <3> QED BY <2>2, <3>1, Sizes
  <2> QED BY <2>1, <2>2, <2>3, <1>1, GeneratorType
<1>4. cfbit \in BOOLEAN
  BY DEF FlagBit
<1> HIDE DEF G, k, n, m0, m1, cfbit
<1>5. m0 \in Node /\ m1 \in Node
  BY <1>1, <1>3, EndOfTrail
<1>6. W(0) \in Node /\ W(1) \in Node
  BY <1>1, <1>3, <1>5, LeafWordType DEF Halves
<1> PICK kn, kp : kn = dpf'[0] /\ kp = dpf'[1]
  OBVIOUS
<1> DEFINE w0 == W(0)
           w1 == W(1)
<1>7. /\ kn = [k EXCEPT !.cw = Append(@, w0), !.cfbits = Append(@, cfbit), !.leaf_cwr = w1]
      /\ kp = [dpf[1] EXCEPT !.cw = Append(@, w0), !.cfbits = Append(@, cfbit), !.leaf_cwr = w1]
      /\ dpf' = [p \in Halves |-> dpf'[p]]
  <2>1. dpf' = [p \in Halves |-> [dpf[p] EXCEPT !.cw = Append(@, w0), !.cfbits = Append(@, cfbit),
                                                !.leaf_cwr = w1]]
    BY <1>2
  <2> HIDE DEF w0, w1
  <2> QED BY <2>1 DEF Halves, k
<1> HIDE DEF w0, w1
<1>8. w0 \in Node /\ w1 \in Node
  BY <1>6 DEF w0, w1
<1>9. /\ Grown(k, kn, w0, cfbit) /\ kn.leaf_cwr = w1
      /\ kn.seed = k.seed /\ kn.as_target = k.as_target /\ kn.xs_target = k.xs_target
  BY <1>3, <1>7 DEF Grown, Keys
<1>10. /\ Grown(dpf[1], kp, w0, cfbit) /\ kp.leaf_cwr = w1
       /\ kp.seed = dpf[1].seed /\ kp.as_target = dpf[1].as_target /\ kp.xs_target = dpf[1].xs_target
  <2>1. dpf[1] \in Keys
    BY <1>1 DEF Halves
  <2> QED BY <1>7, <2>1 DEF Grown, Keys
<1>11. Len(k.cw) = n /\ Len(k.cfbits) = n
  BY <1>1 DEF n, k
<1>12. SameWords(k, kn, n) /\ Word(kn, n, 0) = w0 /\ Word(kn, n, 1) = w1
  <2>1. n = Depth - 1
    BY <1>2
  <2> QED BY <1>3, <1>4, <1>8, <1>9, <1>11, <2>1, WordsOfGrown
<1>13. Pair(G, kn, target, dpf[0].seed, dpf[1].seed)
  <2>1. n = Depth - 1
    BY <1>2
  <2>2. \A side \in Halves : Word(kn, n, side) = LeafWord(G, m0, m1, target, n, side)
    BY <1>12 DEF w0, w1, Halves
  <2>3. TrailFrom(G, k, target, dpf[0].seed, dpf[1].seed, m0, m1, n)
    BY <1>1, <1>3
  <2> QED BY <1>1, <1>3, <1>12, <2>1, <2>2, <2>3, PairComplete
<1>14. kn \in Keys /\ Len(kn.cw) = Depth /\ Len(kn.cfbits) = Depth
  <2> DEFINE u == k.cw
             z == k.cfbits
  <2>1. u \in Seq(Node) /\ z \in Seq(BOOLEAN) /\ kn.cw = Append(u, w0) /\ kn.cfbits = Append(z, cfbit)
    BY <1>3, <1>9 DEF Grown, Keys
  <2> HIDE DEF u, z
  <2>2. Append(u, w0) \in Seq(Node) /\ Append(z, cfbit) \in Seq(BOOLEAN)
        /\ Len(Append(u, w0)) = Len(u) + 1 /\ Len(Append(z, cfbit)) = Len(z) + 1
    BY <1>4, <1>8, <2>1
  <2>3. kn \in Keys
    BY <1>3, <1>7, <1>8, <2>1, <2>2 DEF Keys
  <2> QED BY <1>3, <1>11, <2>1, <2>2, <2>3 DEF u, z
<1>15. kp \in Keys /\ kp.cw = kn.cw /\ kp.cfbits = kn.cfbits /\ kp.leaf_cwr = kn.leaf_cwr
  <2>1. dpf[1] \in Keys
    BY <1>1 DEF Halves
  <2>2. kp.cw = kn.cw /\ kp.cfbits = kn.cfbits /\ kp.leaf_cwr = kn.leaf_cwr
    BY <1>1, <1>9, <1>10 DEF Grown, k
  <2>3. kn.cw \in Seq(Node) /\ kn.cfbits \in Seq(BOOLEAN)
    BY <1>14 DEF Keys
  <2> QED BY <1>7, <1>8, <2>1, <2>2, <2>3 DEF Keys
<1>16. dpf' \in [Halves -> Keys]
  BY <1>7, <1>14, <1>15 DEF Halves
<1>17. GenAt(gen, target, cur', dpf')
  <2>1. Len(dpf'[0].cw) = Depth /\ Len(dpf'[0].cfbits) = Depth
    BY <1>7, <1>14
  <2>2. /\ Sum(dpf'[0].as_target, dpf'[1].as_target) = target
        /\ xor(dpf'[0].xs_target, dpf'[1].xs_target) = target
    BY <1>1, <1>7, <1>9, <1>10 DEF k
  <2>3. Pair(Gens[gen], dpf'[0], target, dpf'[0].seed, dpf'[1].seed)
    BY <1>7, <1>9, <1>10, <1>13 DEF G, k
  <2>4. Depth <= Depth /\ ~ Depth < Depth
    BY Sizes
  <2>5. cur' \in [Halves -> Node]
    BY <1>1, <1>2
  <2> QED BY <1>1, <1>7, <1>15, <1>16, <2>1, <2>2, <2>3, <2>4, <2>5 DEF GenAt
<1>18. ~ Generated
  BY <1>3, Sizes DEF Generated, n, k
<1>19. Generated'
  BY <1>7, <1>14 DEF Generated
<1> QED BY <1>2, <1>17, <1>18, <1>19 DEF GenInv

-----------------------------------------------------------------------------
(* The inductive invariant: where the parties are in a comparison.         *)

\* A party's share of S, of keys k and the share y of the value, and S itself.
ShareOf(kind, k, y) ==
    IF kind = "is_zero_xs" THEN xor(k.xs_target, y) ELSE Minus(k.as_target, y)
SOf(kind, a, b) == IF kind = "is_zero_xs" THEN xor(a, b) ELSE Sum(a, b)
WholeS(kind, d, y) == SOf(kind, ShareOf(kind, d[0], y[0]), ShareOf(kind, d[1], y[1]))

\* What the party p returns.
Returned(G, k, S, root, kind, p, out) ==
    \E f, h, e, eq, gt, m :
        /\ RunTo(G, k, S, root, f, h, e, Depth)
        /\ m = Depth - 1
        /\ eq = EqualOf(S, f[Depth])
        /\ gt = GreaterOf(S, f[m], f[Depth], h[m], h[Depth], e[m])
        /\ out = Result(kind, p, eq, gt)

Descending == [at : {"down"}, S_share : Value, S : Value, level : 1 .. Depth - 1,
               Snode : Node, Tnode : Node, gt : BOOLEAN]

Below(G, k, S, root, c) ==
    /\ c \in Descending /\ c.S = S
    /\ RunAt(G, k, S, root, c.level, c.Snode, c.Tnode, c.gt)

\* What the party p has done.
PartyAt(G, k, S, root, kind, sh, p, c) ==
    \/ c.at = "start"
    \/ /\ kind # "none" /\ c.S_share = sh
       /\ \/ c.at = "sent"
          \/ c.at = "down" /\ Below(G, k, S, root, c)
          \/ c.at = "done" /\ Returned(G, k, S, root, kind, p, c.out)

PartyOK(p) ==
    PartyAt(Gens[gen], dpf[0], WholeS(op, dpf, x), dpf[p].seed, op, ShareOf(op, dpf[p], x[p]),
            p, comp[p])

CompInv ==
    /\ op \in {"none", "compare", "is_zero", "is_zero_xs"}
    /\ x \in [Halves -> Value]
    /\ comp = [p \in Halves |-> comp[p]]
    /\ op # "none" => Generated
    /\ \A p \in Halves : PartyOK(p)

LEMMA CompInit ==
    Init => CompInv
<1> SUFFICES ASSUME Init PROVE CompInv
  OBVIOUS
<1>1. /\ op = "none" /\ x = [p \in Halves |-> 0]
      /\ comp = [p \in Halves |-> [at |-> "start"]]
  BY DEF Init
<1>2. 0 \in Value
  BY InValue, Sizes
<1>3. \A p \in Halves : comp[p].at = "start"
  BY <1>1
<1>4. comp = [p \in Halves |-> comp[p]]
  BY <1>1
<1> QED BY <1>1, <1>2, <1>3, <1>4 DEF CompInv, PartyOK, PartyAt

\* Before a call the parties have done nothing.
LEMMA NothingBefore ==
    CompInv /\ op = "none" => \A p \in Halves : comp[p].at = "start"
BY DEF CompInv, PartyOK, PartyAt

LEMMA CompGenerate ==
    CompInv /\ ~ Generated /\ UNCHANGED <<op, x, comp>> => CompInv'
<1> SUFFICES ASSUME CompInv, ~ Generated, UNCHANGED <<op, x, comp>> PROVE CompInv'
  OBVIOUS
<1>1. op = "none"
  BY DEF CompInv
<1>2. \A p \in Halves : comp'[p].at = "start"
  BY <1>1, NothingBefore
<1> QED BY <1>1, <1>2 DEF CompInv, PartyOK, PartyAt

LEMMA CompCall ==
    CompInv /\ Call => CompInv'
<1> SUFFICES ASSUME CompInv, Call PROVE CompInv'
  OBVIOUS
<1>1. /\ Generated /\ op = "none" /\ op' \in {"compare", "is_zero", "is_zero_xs"}
      /\ dpf' = dpf /\ comp' = comp
  BY DEF Call
<1>2. PICK share \in OperandShares, v \in Value :
         x' = [p \in Halves |-> IF p = 0 THEN share
                               ELSE IF op' = "is_zero_xs" THEN xor(v, share) ELSE (v - share) % NumValues]
  BY DEF Call
<1>3. share \in Value
  BY SharesAssumption
<1>4. xor(v, share) \in Value /\ Minus(v, share) \in Value
  BY <1>3, XorValue, SharesAdd
<1>5. x' \in [Halves -> Value]
  BY <1>2, <1>3, <1>4 DEF Minus
<1>6. \A p \in Halves : comp'[p].at = "start"
  BY <1>1, NothingBefore
<1>7. Generated'
  BY <1>1 DEF Generated
<1> QED BY <1>1, <1>5, <1>6, <1>7 DEF CompInv, PartyOK, PartyAt

\* A step of one party.
LEMMA CompMove ==
    ASSUME CompInv, NEW p \in Halves, NEW v, comp' = [comp EXCEPT ![p] = v],
           UNCHANGED <<gen, dpf, op, x>>,
           PartyAt(Gens[gen], dpf[0], WholeS(op, dpf, x), dpf[p].seed, op, ShareOf(op, dpf[p], x[p]), p, v)
    PROVE  CompInv'
<1>1. comp = [q \in Halves |-> comp[q]]
  BY DEF CompInv
<1>2. comp'[p] = v /\ (\A q \in Halves : q # p => comp'[q] = comp[q])
      /\ comp' = [q \in Halves |-> comp'[q]]
  BY <1>1
<1>3. ASSUME NEW q \in Halves PROVE PartyOK(q)'
  <2>1. CASE q = p
    BY <1>2, <2>1 DEF PartyOK
  <2>2. CASE q # p
    <3>1. comp'[q] = comp[q] /\ PartyOK(q)
      BY <1>2, <2>2 DEF CompInv
    <3> QED BY <3>1 DEF PartyOK
  <2> QED BY <2>1, <2>2
<1>4. (op # "none" => Generated)'
  BY DEF CompInv, Generated
<1> QED BY <1>2, <1>3, <1>4 DEF CompInv

LEMMA CompSend ==
    ASSUME CompInv, NEW p \in Halves, Send(p)
    PROVE  CompInv'
<1> DEFINE v == [at |-> "sent", S_share |-> ShareOf(op, dpf[p], x[p])]
<1>1. op # "none" /\ comp' = [comp EXCEPT ![p] = v] /\ UNCHANGED <<gen, dpf, op, x>>
  BY DEF Send, ShareOf, Minus
<1>2. PartyAt(Gens[gen], dpf[0], WholeS(op, dpf, x), dpf[p].seed, op, ShareOf(op, dpf[p], x[p]), p, v)
  BY <1>1 DEF PartyAt
<1> HIDE DEF v
<1> QED BY <1>1, <1>2, CompMove

LEMMA SameDescent ==
    ASSUME GenInv
    PROVE  \A p \in Halves : \A n, l, s :
              Descend(dpf[p], n, l, s) = Down(Gens[gen], n, s, Word(dpf[0], l, s))
<1>1. /\ dpf[1].cw = dpf[0].cw /\ dpf[1].cfbits = dpf[0].cfbits
      /\ dpf[1].leaf_cwr = dpf[0].leaf_cwr
  BY DEF GenInv, GenAt
<1>2. ASSUME NEW p \in Halves, NEW l, NEW s PROVE Word(dpf[p], l, s) = Word(dpf[0], l, s)
  BY <1>1 DEF Word, Halves
<1> QED BY <1>2, DescendIs

LEMMA SharesOfS ==
    ASSUME GenInv, CompInv
    PROVE  /\ \A p \in Halves : ShareOf(op, dpf[p], x[p]) \in Value
           /\ WholeS(op, dpf, x) \in Value
           /\ SOf(op, ShareOf(op, dpf[1], x[1]), ShareOf(op, dpf[0], x[0])) = WholeS(op, dpf, x)
<1>1. 0 \in Halves /\ 1 \in Halves /\ \A p \in Halves : p = 0 \/ p = 1
  BY DEF Halves
<1>2. ASSUME NEW p \in Halves PROVE ShareOf(op, dpf[p], x[p]) \in Value
  <2>1. dpf[p] \in Keys /\ x[p] \in Value
    BY DEF GenInv, GenAt, CompInv
  <2>2. dpf[p].as_target \in Value /\ dpf[p].xs_target \in Value
    BY <2>1 DEF Keys
  <2> QED BY <2>1, <2>2, XorValue, SharesAdd DEF ShareOf
<1>3. PICK a \in Value, b \in Value : /\ a = ShareOf(op, dpf[0], x[0])
                                     /\ b = ShareOf(op, dpf[1], x[1])
  BY <1>1, <1>2
<1>4. xor(a, b) \in Value /\ xor(b, a) = xor(a, b)
  BY XorValue
<1>5. Sum(a, b) \in Value /\ Sum(b, a) = Sum(a, b)
  <2>1. a \in Nat /\ b \in Nat
    BY InValue
  <2>2. a + b \in Int /\ a + b = b + a
    BY <2>1
  <2> QED BY <2>2, InRange DEF Sum
<1> QED BY <1>2, <1>3, <1>4, <1>5 DEF WholeS, SOf

LEMMA Ready ==
    ASSUME GenInv, CompInv, op # "none" \/ Generated
    PROVE  /\ FullKeys(dpf[0]) /\ Gens[gen] \in Generators
           /\ \A p \in Halves : dpf[p].seed \in Node
           /\ Pair(Gens[gen], dpf[0], target, dpf[0].seed, dpf[1].seed)
           /\ target \in Value
<1>1. Len(dpf[0].cw) = Depth
  BY DEF CompInv, Generated
<1>2. /\ gen \in DOMAIN Gens /\ target \in Value /\ dpf \in [Halves -> Keys]
      /\ Len(dpf[0].cfbits) = Len(dpf[0].cw)
      /\ Pair(Gens[gen], dpf[0], target, dpf[0].seed, dpf[1].seed)
  BY <1>1 DEF GenInv, GenAt
<1>3. dpf[0] \in Keys /\ \A p \in Halves : dpf[p].seed \in Node
  <2>1. \A p \in Halves : dpf[p] \in Keys
    BY <1>2
  <2> QED BY <2>1 DEF Keys, Halves
<1> QED BY <1>1, <1>2, <1>3, GeneratorType DEF FullKeys

LEMMA CompReceive ==
    ASSUME GenInv, CompInv, NEW p \in Halves, Receive(p)
    PROVE  CompInv'
<1> DEFINE G == Gens[gen]
           k == dpf[0]
           S == WholeS(op, dpf, x)
           root == dpf[p].seed
           sh == ShareOf(op, dpf[p], x[p])
           d == Dir(S, 0)
           m == Down(G, root, d, Word(k, 0, d))
           q == Down(G, root, 1 - d, Word(k, 0, 1 - d))
           v == [at |-> "down", S_share |-> sh, S |-> S, level |-> 1,
                 Snode |-> m, Tnode |-> q, gt |-> FALSE]
<1>1. comp[p].at = "sent" /\ comp[PeerOf(p)].at # "start" /\ UNCHANGED <<gen, dpf, op, x>>
  BY DEF Receive
<1>2. PeerOf(p) \in Halves /\ PartyOK(p) /\ PartyOK(PeerOf(p))
  BY DEF CompInv, PeerOf, Halves
<1>3. /\ op # "none" /\ comp[p].S_share = sh
      /\ comp[PeerOf(p)].S_share = ShareOf(op, dpf[PeerOf(p)], x[PeerOf(p)])
  BY <1>1, <1>2 DEF PartyOK, PartyAt
<1>4. SOf(op, comp[p].S_share, comp[PeerOf(p)].S_share) = S
  <2>1. CASE p = 0
    BY <1>3, <2>1 DEF WholeS, PeerOf
  <2>2. CASE p = 1
    <3>1. PeerOf(p) = 0
      BY <2>2 DEF PeerOf
    <3> QED BY <1>3, <2>2, <3>1, SharesOfS
  <2> QED BY <2>1, <2>2 DEF Halves
<1>5. comp' = [comp EXCEPT ![p] = v]
  <2>1. comp' = [comp EXCEPT ![p] =
           [at |-> "down", S_share |-> comp[p].S_share, S |-> S, level |-> 1,
            Snode |-> Descend(dpf[p], root, 0, d),
            Tnode |-> Descend(dpf[p], root, 0, 1 - d), gt |-> FALSE]]
    <3>1. comp' = [comp EXCEPT ![p] =
             LET z == SOf(op, comp[p].S_share, comp[PeerOf(p)].S_share) IN
             [at |-> "down", S_share |-> comp[p].S_share, S |-> z, level |-> 1,
              Snode |-> Descend(dpf[p], root, 0, Dir(z, 0)),
              Tnode |-> Descend(dpf[p], root, 0, 1 - Dir(z, 0)), gt |-> FALSE]]
      BY DEF Receive, SOf
    <3> HIDE DEF S, root
    <3> QED BY <1>4, <3>1
  <2>2. Descend(dpf[p], root, 0, d) = m /\ Descend(dpf[p], root, 0, 1 - d) = q
    BY SameDescent
  <2> HIDE DEF m, q, d, S, root, sh
  <2> QED BY <1>3, <2>1, <2>2
<1>6. FullKeys(k) /\ G \in Generators /\ root \in Node /\ S \in Value /\ sh \in Value
  BY <1>3, Ready, SharesOfS
<1> HIDE DEF G, k, S, root, sh
<1>7. RunAt(G, k, S, root, 1, m, q, FALSE)
  <2> HIDE DEF d, m, q
  <2>1. d = Dir(S, 0) /\ m = Down(G, root, d, Word(k, 0, d)) /\ q = Down(G, root, 1 - d, Word(k, 0, 1 - d))
    BY DEF d, m, q
  <2> QED BY <1>6, <2>1, RunStarts
<1> HIDE DEF m, q
<1>8. Below(G, k, S, root, v)
  <2>1. 1 \in 1 .. Depth - 1
    BY Sizes
  <2>2. m \in Node /\ q \in Node
    BY <1>7, RunType
  <2>3. v \in Descending
    BY <1>6, <2>1, <2>2 DEF Descending
  <2> QED BY <1>7, <2>3 DEF Below
<1>9. PartyAt(G, k, S, root, op, sh, p, v)
  <2>1. v.at = "down" /\ v.S_share = sh
    OBVIOUS
  <2> HIDE DEF v
  <2> QED BY <1>3, <1>8, <2>1 DEF PartyAt
<1> HIDE DEF v
<1> QED BY <1>1, <1>5, <1>9, CompMove DEF G, k, S, root, sh

LEMMA CompTurn ==
    ASSUME GenInv, CompInv, NEW p \in Halves, Turn(p)
    PROVE  CompInv'
<1> DEFINE G == Gens[gen]
           k == dpf[0]
           S == WholeS(op, dpf, x)
           root == dpf[p].seed
           sh == ShareOf(op, dpf[p], x[p])
           c == comp[p]
           n == c.level
           d == Dir(S, n)
           m == Down(G, c.Snode, d, Word(k, n, d))
           q == Down(G, c.Tnode, d, Word(k, n, d))
           gt == XorBool(c.gt, Passed(c.Snode, m, c.Tnode, q, d))
           v == [c EXCEPT !.level = n + 1, !.Snode = m, !.Tnode = q, !.gt = gt]
<1>1. comp[p].at = "down" /\ n < Depth - 1 /\ UNCHANGED <<gen, dpf, op, x>>
  BY DEF Turn
<1>2. op # "none" /\ c.S_share = sh /\ Below(G, k, S, root, c)
  <2>1. PartyOK(p)
    BY DEF CompInv
  <2> QED BY <1>1, <2>1 DEF PartyOK, PartyAt
<1>3. /\ c \in Descending /\ c.S = S /\ n \in 1 .. Depth - 1
      /\ RunAt(G, k, S, root, n, c.Snode, c.Tnode, c.gt)
  BY <1>2 DEF Below, Descending
<1>4. comp' = [comp EXCEPT ![p] = v]
  <2>1. c.S = S
    BY <1>3
  <2>2. \A y : Descend(dpf[p], y, n, d) = Down(G, y, d, Word(k, n, d))
    BY SameDescent
  <2>3. comp' = [comp EXCEPT ![p] = v]
    <3>1. comp' = [comp EXCEPT ![p] =
             [c EXCEPT !.level = @ + 1, !.Snode = Descend(dpf[p], c.Snode, n, Dir(c.S, n)),
                       !.Tnode = Descend(dpf[p], c.Tnode, n, Dir(c.S, n)),
                       !.gt = XorBool(@, Passed(c.Snode, Descend(dpf[p], c.Snode, n, Dir(c.S, n)),
                                                c.Tnode, Descend(dpf[p], c.Tnode, n, Dir(c.S, n)),
                                                Dir(c.S, n)))]]
      BY DEF Turn
    <3>2. v = [c EXCEPT !.level = @ + 1, !.Snode = m, !.Tnode = q,
                        !.gt = XorBool(@, Passed(c.Snode, m, c.Tnode, q, d))]
      <4> HIDE DEF c, m, q, S
      <4> QED BY <1>3 DEF n, Descending
    <3>3. Dir(c.S, n) = d
      BY <2>1
    <3>4. /\ Descend(dpf[p], c.Snode, n, Dir(c.S, n)) = m
          /\ Descend(dpf[p], c.Tnode, n, Dir(c.S, n)) = q
      BY <2>2, <3>3
    <3> HIDE DEF m, q, d, gt, c, n, v
    <3> QED BY <3>1, <3>2, <3>3, <3>4
  <2> QED BY <2>3
<1>5. FullKeys(k) /\ G \in Generators /\ S \in Value
  BY <1>2, Ready, SharesOfS
<1> HIDE DEF G, k, S, root, sh, n, c
<1>6. n \in Nat /\ 1 <= n /\ n < Depth /\ n + 1 \in 1 .. Depth - 1
  BY <1>1, <1>3, Sizes
<1>7. RunAt(G, k, S, root, n + 1, m, q, gt)
  <2>1. PICK f, h, e : RunTo(G, k, S, root, f, h, e, n) /\ c.Snode = f[n] /\ c.Tnode = h[n] /\ c.gt = e[n]
    BY <1>3 DEF RunAt
  <2>2. d = Dir(S, n) /\ m = Down(G, f[n], d, Word(k, n, d)) /\ q = Down(G, h[n], d, Word(k, n, d))
    BY <2>1
  <2>3. gt = XorBool(e[n], Passed(f[n], m, h[n], q, Dir(S, n)))
    BY <2>1
  <2> HIDE DEF d, m, q, gt
  <2>4. RunLonger(G, k, S, root, n, f, h, e, m, q)
    BY <1>5, <1>6, <2>1, <2>2, RunGrows
  <2> QED BY <1>1, <2>3, <2>4 DEF RunLonger, RunAt
<1> HIDE DEF m, q, gt
<1>8. Below(G, k, S, root, v) /\ v.at = "down" /\ v.S_share = sh
  <2>1. m \in Node /\ q \in Node /\ gt \in BOOLEAN
    <3>1. n + 1 \in Nat
      BY <1>6
    <3> QED BY <1>7, <3>1, RunType
  <2>2. /\ v \in Descending /\ v.S = c.S /\ v.at = "down" /\ v.S_share = c.S_share
        /\ v.level = n + 1 /\ v.Snode = m /\ v.Tnode = q /\ v.gt = gt
    BY <1>3, <1>6, <2>1 DEF Descending
  <2> HIDE DEF v
  <2> QED BY <1>2, <1>3, <1>7, <2>2 DEF Below
<1>9. PartyAt(G, k, S, root, op, sh, p, v)
  <2>1. v.at = "down" /\ v.S_share = sh
    BY <1>8
  <2> HIDE DEF v
  <2> QED BY <1>2, <1>8, <2>1 DEF PartyAt
<1> HIDE DEF v
<1> QED BY <1>1, <1>4, <1>9, CompMove DEF G, k, S, root, sh

LEMMA CompFinish ==
    ASSUME GenInv, CompInv, NEW p \in Halves, Finish(p)
    PROVE  CompInv'
<1> DEFINE G == Gens[gen]
           k == dpf[0]
           S == WholeS(op, dpf, x)
           root == dpf[p].seed
           sh == ShareOf(op, dpf[p], x[p])
           c == comp[p]
           n == c.level
           d == Dir(S, n)
           m == Down(G, c.Snode, d, Word(k, n, d))
           q == Down(G, c.Tnode, d, Word(k, n, d))
           eq == EqualOf(S, m)
           gt == GreaterOf(S, c.Snode, m, c.Tnode, q, c.gt)
           v == [at |-> "done", S_share |-> sh, out |-> Result(op, p, eq, gt)]
<1>1. comp[p].at = "down" /\ n = Depth - 1 /\ UNCHANGED <<gen, dpf, op, x>>
  BY DEF Finish
<1>2. op # "none" /\ c.S_share = sh /\ Below(G, k, S, root, c)
  <2>1. PartyOK(p)
    BY DEF CompInv
  <2> QED BY <1>1, <2>1 DEF PartyOK, PartyAt
<1>3. /\ c \in Descending /\ c.S = S /\ n \in 1 .. Depth - 1
      /\ RunAt(G, k, S, root, n, c.Snode, c.Tnode, c.gt)
  BY <1>2 DEF Below, Descending
<1>4. comp' = [comp EXCEPT ![p] = v]
  <2>1. c.S = S
    BY <1>3
  <2>2. \A y : Descend(dpf[p], y, n, d) = Down(G, y, d, Word(k, n, d))
    BY SameDescent
  <2>3. comp' = [comp EXCEPT ![p] =
           LET Sdir == Dir(c.S, n)
               Snode == Descend(dpf[p], c.Snode, n, Sdir)
               Tnode == Descend(dpf[p], c.Tnode, n, Sdir)
               equal == EqualOf(c.S, Snode)
               greater == XorBool(XorBool(c.gt, Turned(Sdir, get_lsb(c.Snode), parity(Snode),
                                                       get_lsb(c.Tnode), parity(Tnode))),
                                  AtLeaf(Snode, Tnode, c.S % Shl[LeafBits]))
           IN  [at |-> "done", S_share |-> c.S_share, out |-> Result(op, p, equal, greater)]]
    BY DEF Finish, EqualOf, Turned, Result, LessOf
  <2>4. gt = XorBool(XorBool(c.gt, Turned(d, get_lsb(c.Snode), parity(m), get_lsb(c.Tnode), parity(q))),
                     AtLeaf(m, q, S % Shl[LeafBits]))
    BY <1>1 DEF GreaterOf
  <2> HIDE DEF S, G, k, d, n, gt, sh
  <2> QED BY <1>2, <2>1, <2>2, <2>3, <2>4 DEF d
<1>5. FullKeys(k) /\ G \in Generators /\ S \in Value
  BY <1>2, Ready, SharesOfS
<1> HIDE DEF G, k, S, root, sh, n, c
<1>6. n \in Nat /\ 1 <= n /\ n < Depth /\ n + 1 = Depth /\ ~ n < Depth - 1
  BY <1>1, <1>3, Sizes
<1>7. Returned(G, k, S, root, op, p, Result(op, p, eq, gt))
  <2>1. PICK f, h, e : RunTo(G, k, S, root, f, h, e, n) /\ c.Snode = f[n] /\ c.Tnode = h[n] /\ c.gt = e[n]
    BY <1>3 DEF RunAt
  <2>2. d = Dir(S, n) /\ m = Down(G, f[n], d, Word(k, n, d)) /\ q = Down(G, h[n], d, Word(k, n, d))
    BY <2>1
  <2>3. eq = EqualOf(S, m) /\ gt = GreaterOf(S, f[n], m, h[n], q, e[n])
    BY <2>1
  <2> HIDE DEF d, m, q, gt, eq
  <2>4. RunLonger(G, k, S, root, n, f, h, e, m, q)
    BY <1>5, <1>6, <2>1, <2>2, RunGrows
  <2>5. PICK ff, hh, ee : /\ RunTo(G, k, S, root, ff, hh, ee, Depth)
                          /\ ff[n] = f[n] /\ hh[n] = h[n] /\ ee[n] = e[n]
                          /\ ff[Depth] = m /\ hh[Depth] = q
    BY <1>6, <2>4 DEF RunLonger
  <2>6. eq = EqualOf(S, ff[Depth]) /\ gt = GreaterOf(S, ff[n], ff[Depth], hh[n], hh[Depth], ee[n])
    BY <2>3, <2>5
  <2> QED BY <1>1, <2>5, <2>6 DEF Returned
<1> HIDE DEF eq, gt
<1>8. PartyAt(G, k, S, root, op, sh, p, v)
  <2>1. v.at = "done" /\ v.S_share = sh /\ v.out = Result(op, p, eq, gt)
    OBVIOUS
  <2> HIDE DEF v
  <2> QED BY <1>2, <1>7, <2>1 DEF PartyAt
<1> HIDE DEF v
<1> QED BY <1>1, <1>4, <1>8, CompMove DEF G, k, S, root, sh

-----------------------------------------------------------------------------
(* The theorems.                                                           *)

Inv == GenInv /\ CompInv

LEMMA GenKept ==
    GenInv /\ UNCHANGED <<gen, target, cur, dpf>> => GenInv'
BY DEF GenInv

\* What is generated and what the parties have done is as it should be, at
\* every step of any call.
THEOREM Invariance == Spec => []Inv
<1>1. Init => Inv
  BY GenInit, CompInit DEF Inv
<1>2. Inv /\ [Next]_vars => Inv'
  <2> SUFFICES ASSUME Inv, [Next]_vars PROVE Inv'
    OBVIOUS
  <2>1. GenInv /\ CompInv
    BY DEF Inv
  <2>2. CASE GenerateLevel
    BY <2>1, <2>2, GenLevelStep, CompGenerate DEF Inv
  <2>3. CASE GenerateLast
    BY <2>1, <2>3, GenLastStep, CompGenerate DEF Inv
  <2>4. CASE Call
    <3>1. UNCHANGED <<gen, target, cur, dpf>>
      BY <2>4 DEF Call
    <3> QED BY <2>1, <2>4, <3>1, GenKept, CompCall DEF Inv
  <2>5. ASSUME NEW p \in Halves, Send(p) PROVE Inv'
    <3>1. UNCHANGED <<gen, target, cur, dpf>>
      BY <2>5 DEF Send
    <3> QED BY <2>1, <2>5, <3>1, GenKept, CompSend DEF Inv
  <2>6. ASSUME NEW p \in Halves, Receive(p) PROVE Inv'
    <3>1. UNCHANGED <<gen, target, cur, dpf>>
      BY <2>6 DEF Receive
    <3> QED BY <2>1, <2>6, <3>1, GenKept, CompReceive DEF Inv
  <2>7. ASSUME NEW p \in Halves, Turn(p) PROVE Inv'
    <3>1. UNCHANGED <<gen, target, cur, dpf>>
      BY <2>7 DEF Turn
    <3> QED BY <2>1, <2>7, <3>1, GenKept, CompTurn DEF Inv
  <2>8. ASSUME NEW p \in Halves, Finish(p) PROVE Inv'
    <3>1. UNCHANGED <<gen, target, cur, dpf>>
      BY <2>8 DEF Finish
    <3> QED BY <2>1, <2>8, <3>1, GenKept, CompFinish DEF Inv
  <2>9. CASE UNCHANGED vars
    BY <2>1, <2>9 DEF Inv, GenInv, CompInv, PartyOK, Generated, vars
  <2> QED BY <2>2, <2>3, <2>4, <2>5, <2>6, <2>7, <2>8, <2>9 DEF Next, Finished
<1> QED BY <1>1, <1>2, PTL DEF Spec

\* The descent to a leaf is a path.
Walk(k, v, c) ==
    c = [l \in 0 .. Depth |-> IF l = 0 THEN k.seed ELSE Descend(k, c[l - 1], l - 1, Dir(v, l - 1))]

LEMMA PathExists ==
    ASSUME NEW G \in Generators, NEW k, FullKeys(k), NEW v, NEW root \in Node
    PROVE  \E f : PathTo(G, k, v, root, f, Depth)
<1> DEFINE T == {n \in Nat : n <= Depth => \E f : PathTo(G, k, v, root, f, n)}
<1>1. 0 \in T
  <2> DEFINE f == [i \in Nat |-> root]
  <2>1. PathTo(G, k, v, root, f, 0)
    BY DEF PathTo
  <2> HIDE DEF f
  <2> QED BY <2>1
<1>2. ASSUME NEW n \in Nat, n \in T PROVE n + 1 \in T
  <2>1. SUFFICES ASSUME n + 1 <= Depth PROVE \E f : PathTo(G, k, v, root, f, n + 1)
    OBVIOUS
  <2>2. n < Depth /\ n <= Depth
    BY <2>1, Sizes
  <2>3. PICK f : PathTo(G, k, v, root, f, n)
    BY <1>2, <2>2
  <2>4. PICK c : c = Down(G, f[n], Dir(v, n), Word(k, n, Dir(v, n)))
    OBVIOUS
  <2>5. PathLonger(G, k, v, root, f, n, c)
    BY <2>2, <2>3, <2>4, PathGrows
  <2> QED BY <2>5 DEF PathLonger
<1> HIDE DEF T
<1>3. \A n \in Nat : n \in T
  BY <1>1, <1>2, SetInduction
<1>4. Depth \in Nat /\ Depth <= Depth
  BY Sizes
<1> QED BY <1>3, <1>4 DEF T

LEMMA LeafIsPath ==
    ASSUME GenInv, NEW G, G = Gens[gen], NEW p \in Halves, NEW v, NEW f,
           NEW r, r = dpf[p].seed, PathTo(G, dpf[0], v, r, f, Depth)
    PROVE  Leaf(dpf[p], v) = f[Depth]
<1> DEFINE k == dpf[p]
           c == CHOOSE g : Walk(k, v, g)
           g == [l \in 0 .. Depth |-> f[l]]
<1>1. Leaf(k, v) = c[Depth]
  BY DEF Leaf, Walk
<1>2. Depth \in Nat /\ Depth \in 0 .. Depth
  BY Sizes
<1>3. \A n, l, s : Descend(k, n, l, s) = Down(G, n, s, Word(dpf[0], l, s))
  BY SameDescent
<1>4. /\ f[0] = k.seed
      /\ \A l \in Nat : l < Depth => f[l + 1] = Descend(k, f[l], l, Dir(v, l))
  BY <1>3 DEF PathTo
<1>5. Walk(k, v, g)
  <2>1. ASSUME NEW l \in 0 .. Depth
        PROVE  g[l] = IF l = 0 THEN k.seed ELSE Descend(k, g[l - 1], l - 1, Dir(v, l - 1))
    <3>1. CASE l = 0
      BY <1>2, <1>4, <3>1
    <3>2. CASE l # 0
      <4>1. l - 1 \in Nat /\ l - 1 < Depth /\ (l - 1) + 1 = l /\ l - 1 \in 0 .. Depth
        BY <1>2, <3>2
      <4>2. f[(l - 1) + 1] = Descend(k, f[l - 1], l - 1, Dir(v, l - 1))
        BY <1>4, <4>1
      <4>3. g[l] = f[l] /\ g[l - 1] = f[l - 1]
        BY <4>1
      <4> HIDE DEF g
      <4> QED BY <3>2, <4>1, <4>2, <4>3
    <3> QED BY <3>1, <3>2
  <2>2. g = [l \in 0 .. Depth |-> g[l]]
    OBVIOUS
  <2> HIDE DEF g
  <2>3. g = [l \in 0 .. Depth |->
               IF l = 0 THEN k.seed ELSE Descend(k, g[l - 1], l - 1, Dir(v, l - 1))]
    BY <2>1, <2>2
  <2> QED BY <2>3 DEF Walk
<1> HIDE DEF g
<1>6. Walk(k, v, c)
  BY <1>5
<1> HIDE DEF c
<1> DEFINE T == {l \in Nat : l <= Depth => c[l] = f[l]}
<1>7. 0 \in T
  <2>1. 0 \in 0 .. Depth
    BY <1>2
  <2>2. c[0] = k.seed
    BY <1>6, <2>1 DEF Walk
  <2> QED BY <1>4, <2>2
<1>8. ASSUME NEW l \in Nat, l \in T PROVE l + 1 \in T
  <2>1. SUFFICES ASSUME l + 1 <= Depth PROVE c[l + 1] = f[l + 1]
    OBVIOUS
  <2>2. l + 1 \in 0 .. Depth /\ l + 1 # 0 /\ (l + 1) - 1 = l /\ l < Depth /\ l <= Depth
    BY <1>2, <2>1
  <2>3. c[l + 1] = Descend(k, c[(l + 1) - 1], (l + 1) - 1, Dir(v, (l + 1) - 1))
    BY <1>6, <2>2 DEF Walk
  <2>4. c[l] = f[l]
    BY <1>8, <2>2
  <2>5. f[l + 1] = Descend(k, f[l], l, Dir(v, l))
    BY <1>4, <2>2
  <2> QED BY <2>2, <2>3, <2>4, <2>5
<1> HIDE DEF T
<1>9. \A l \in Nat : l \in T
  BY <1>7, <1>8, SetInduction
<1>10. c[Depth] = f[Depth]
  BY <1>2, <1>9 DEF T
<1> QED BY <1>1, <1>10

\* The leaves of an input that starts a leaf.
LEMMA LeafStart ==
    ASSUME NEW i \in 0 .. Shl[Depth] - 1, NEW v, v = i * Shl[LeafBits]
    PROVE  v \in Value /\ v \div Shl[LeafBits] = i
<1> DEFINE b == Shl[LeafBits]
           h == Shl[Depth]
<1>1. Depth \in Nat /\ LeafBits \in Nat /\ ValueBits = Depth + LeafBits
  BY Sizes
<1>2. h \in Nat /\ b \in Nat /\ b > 0 /\ i \in Nat /\ i < h
  BY <1>1, ShlFacts
<1>3. NumValues = h * b
  BY <1>1, ShlSum DEF NumValues
<1> HIDE DEF h, b
<1>4. v \in Nat /\ v < NumValues
  <2>1. b * i + b <= b * h /\ b * i \in Nat
    BY <1>2, TimesLess
  <2>2. v = b * i /\ NumValues = b * h
    BY <1>2, <1>3 DEF b
  <2>3. b * h \in Int
    BY <1>2
  <2> QED BY <1>2, <2>1, <2>2, <2>3
<1>5. v \div b = i
  <2>1. Apart(v, 0, i, b) /\ 0 \in 0 .. b - 1
    BY <1>2 DEF Apart, b
  <2> QED BY <1>2, <2>1, QuotientUnique
<1> QED BY <1>4, <1>5, InValue DEF b

\* The leaves of all inputs are the same at both parties but for the bit of the
\* target (CDPF::generate and CDPF::leaf), in a tree of any depth and for any
\* generator.
THEOREM LeavesDiffer == Spec => []LeavesDifferAtTarget
<1>1. Inv => LeavesDifferAtTarget
  <2> SUFFICES ASSUME Inv, Generated, op = "none",
                      NEW i \in 0 .. Shl[Depth] - 1, NEW v, v = i * Shl[LeafBits]
               PROVE  XorNode(Leaf(dpf[0], v), Leaf(dpf[1], v))
                        = IF target \div Shl[LeafBits] = v \div Shl[LeafBits]
                          THEN {target % Shl[LeafBits]} ELSE {}
    BY DEF LeavesDifferAtTarget
  <2> DEFINE G == Gens[gen]
             k == dpf[0]
             r == dpf[0].seed
             q == dpf[1].seed
  <2>1. GenInv /\ CompInv
    BY DEF Inv
  <2>2. /\ FullKeys(k) /\ G \in Generators /\ target \in Value /\ Pair(G, k, target, r, q)
        /\ r \in Node /\ q \in Node /\ 0 \in Halves /\ 1 \in Halves
    BY <2>1, Ready DEF Halves
  <2>3. v \in Value
    BY LeafStart
  <2> HIDE DEF G, k, r, q
  <2>4. PICK f, g : PathTo(G, k, v, r, f, Depth) /\ PathTo(G, k, v, q, g, Depth)
    BY <2>2, PathExists
  <2>5. Leaf(dpf[0], v) = f[Depth] /\ Leaf(dpf[1], v) = g[Depth]
    BY <2>1, <2>2, <2>4, LeafIsPath DEF G, k, r, q
  <2>6. Fit(v, target, f, g, Depth)
    <3>1. Depth \in Nat /\ Depth <= Depth
      BY Sizes
    <3> QED BY <2>2, <2>3, <2>4, <3>1, PathsMeet
  <2>7. XorNode(f[Depth], g[Depth])
          = IF Above(v, Depth) = Above(target, Depth) THEN {target % Shl[LeafBits]} ELSE {}
    <3>1. Depth \in Nat
      BY Sizes
    <3> QED BY <2>6, <3>1 DEF Fit
  <2>8. Above(v, Depth) = v \div Shl[LeafBits] /\ Above(target, Depth) = target \div Shl[LeafBits]
    BY <2>2, <2>3, InValue, LeafPart
  <2>9. Above(v, Depth) = Above(target, Depth) <=> target \div Shl[LeafBits] = v \div Shl[LeafBits]
    BY <2>8
  <2> QED BY <2>5, <2>7, <2>9
<1> QED BY <1>1, Invariance, PTL

\* A party on its way down.
LEMMA OnTheWayDown ==
    ASSUME GenInv, CompInv, NEW p \in Halves, comp[p].at = "down"
    PROVE  /\ op # "none"
           /\ Below(Gens[gen], dpf[0], WholeS(op, dpf, x), dpf[p].seed, comp[p])
BY DEF CompInv, PartyOK, PartyAt

LEMMA Types ==
    Inv => TypeOK
<1> SUFFICES ASSUME Inv PROVE TypeOK
  OBVIOUS
<1>1. GenInv /\ CompInv
  BY DEF Inv
<1>2. /\ cur \in [Halves -> Node] /\ dpf \in [Halves -> Keys]
      /\ Len(dpf[0].cfbits) = Len(dpf[0].cw)
      /\ dpf[1].cw = dpf[0].cw /\ dpf[1].cfbits = dpf[0].cfbits
  BY <1>1 DEF GenInv, GenAt
<1>3. op \in {"none", "compare", "is_zero", "is_zero_xs"} /\ x \in [Halves -> Value]
  BY <1>1 DEF CompInv
<1>4. ASSUME NEW p \in Halves
      PROVE  /\ cur[p] \in Node
             /\ dpf[p].as_target \in Value
             /\ dpf[p].cw \in Seq(Node) /\ dpf[p].cfbits \in Seq(BOOLEAN)
             /\ Len(dpf[p].cw) = Len(dpf[p].cfbits)
  <2>1. dpf[p] \in Keys /\ cur[p] \in Node
    BY <1>2
  <2>2. dpf[p].as_target \in Value /\ dpf[p].cw \in Seq(Node) /\ dpf[p].cfbits \in Seq(BOOLEAN)
    BY <2>1 DEF Keys
  <2>3. Len(dpf[p].cw) = Len(dpf[p].cfbits)
    BY <1>2 DEF Halves
  <2> QED BY <2>1, <2>2, <2>3
<1>5. ASSUME NEW p \in Halves, comp[p].at = "down"
      PROVE  comp[p].S \in Value /\ comp[p].level \in 1 .. Depth - 1
  <2>1. comp[p] \in Descending
    BY <1>1, <1>5, OnTheWayDown DEF Below
  <2> QED BY <2>1 DEF Descending
<1> QED BY <1>3, <1>4, <1>5 DEF TypeOK

\* Both parties on their ways at the same level.
LEMMA RunsMeet ==
    ASSUME GenInv, CompInv, AtSameLevel,
           NEW S, S = WholeS(op, dpf, x), NEW l, l = comp[0].level
    PROVE  /\ S \in Value /\ l \in Nat /\ 1 <= l /\ l < Depth /\ target \in Value
           /\ comp[0].S = S /\ comp[1].S = S /\ comp[1].level = l
           /\ \E f0, h0, f1, h1 :
                /\ Fit(S, target, f0, f1, l) /\ Fit(Across(S), target, h0, h1, l)
                /\ comp[0].Snode = f0[l] /\ comp[0].Tnode = h0[l]
                /\ comp[1].Snode = f1[l] /\ comp[1].Tnode = h1[l]
           /\ Share(comp[0].gt, comp[1].gt, InsideAt(target, S, l))
<1> DEFINE G == Gens[gen]
           k == dpf[0]
           r == dpf[0].seed
           q == dpf[1].seed
           c == comp[0]
           d == comp[1]
<1>1. comp[0].at = "down" /\ comp[1].at = "down" /\ comp[1].level = l /\ 0 \in Halves /\ 1 \in Halves
  BY DEF AtSameLevel, Halves
<1>2. op # "none" /\ Below(G, k, S, r, c) /\ Below(G, k, S, q, d)
  BY <1>1, OnTheWayDown
<1>3. target \in Value /\ Pair(G, k, target, r, q)
  BY <1>2, Ready
<1>4. S \in Value
  BY SharesOfS
<1>5. c \in Descending /\ c.S = S /\ d.S = S /\ c.level = l /\ d.level = l
  BY <1>1, <1>2 DEF Below
<1>6. l \in Nat /\ 1 <= l /\ l < Depth /\ l <= Depth
  <2>1. l \in 1 .. Depth - 1
    BY <1>5 DEF Descending
  <2> QED BY <2>1, Sizes
<1>7. RunAt(G, k, S, r, l, c.Snode, c.Tnode, c.gt) /\ RunAt(G, k, S, q, l, d.Snode, d.Tnode, d.gt)
  BY <1>2, <1>5 DEF Below
<1> HIDE DEF G, k, r, q, c, d
<1>8. PICK f0, h0, e0 : /\ RunTo(G, k, S, r, f0, h0, e0, l)
                        /\ c.Snode = f0[l] /\ c.Tnode = h0[l] /\ c.gt = e0[l]
  BY <1>7 DEF RunAt
<1>9. PICK f1, h1, e1 : /\ RunTo(G, k, S, q, f1, h1, e1, l)
                        /\ d.Snode = f1[l] /\ d.Tnode = h1[l] /\ d.gt = e1[l]
  BY <1>7 DEF RunAt
<1>10. /\ Fit(S, target, f0, f1, l) /\ Fit(Across(S), target, h0, h1, l)
       /\ \A i \in Nat : 1 <= i /\ i <= l /\ i < Depth => Share(e0[i], e1[i], InsideAt(target, S, i))
  BY <1>3, <1>4, <1>6, <1>8, <1>9, RunsFit
<1>11. Share(e0[l], e1[l], InsideAt(target, S, l))
  BY <1>6, <1>10
<1>12. Share(c.gt, d.gt, InsideAt(target, S, l))
  BY <1>8, <1>9, <1>11
<1>13. \E f2, h2, f3, h3 :
          /\ Fit(S, target, f2, f3, l) /\ Fit(Across(S), target, h2, h3, l)
          /\ c.Snode = f2[l] /\ c.Tnode = h2[l] /\ d.Snode = f3[l] /\ d.Tnode = h3[l]
  BY <1>8, <1>9, <1>10
<1> QED BY <1>1, <1>3, <1>4, <1>5, <1>6, <1>12, <1>13 DEF c, d

LEMMA PathsMeetAtLevel ==
    Inv => PathsMeetTarget
<1> SUFFICES ASSUME Inv, AtSameLevel PROVE PathsMeetTarget
  BY DEF PathsMeetTarget
<1>1. GenInv /\ CompInv
  BY DEF Inv
<1>2. PICK S, l : S = WholeS(op, dpf, x) /\ l = comp[0].level
  OBVIOUS
<1>3. /\ S \in Value /\ l \in Nat /\ 1 <= l /\ l < Depth /\ target \in Value
      /\ comp[0].S = S /\ comp[1].S = S /\ comp[1].level = l
      /\ \E f0, h0, f1, h1 :
           /\ Fit(S, target, f0, f1, l) /\ Fit(Across(S), target, h0, h1, l)
           /\ comp[0].Snode = f0[l] /\ comp[0].Tnode = h0[l]
           /\ comp[1].Snode = f1[l] /\ comp[1].Tnode = h1[l]
  BY <1>1, <1>2, RunsMeet
<1>4. ASSUME NEW v, NEW f, NEW g, Fit(v, target, f, g, l)
      PROVE  IF Above(v, l) = Above(target, l) THEN get_lsb(f[l]) # get_lsb(g[l]) ELSE f[l] = g[l]
  <2>1. l <= l
    BY <1>3
  <2> QED BY <1>3, <1>4, <2>1 DEF Fit
<1>5. /\ IF Above(S, l) = Above(target, l) THEN get_lsb(comp[0].Snode) # get_lsb(comp[1].Snode)
         ELSE comp[0].Snode = comp[1].Snode
      /\ IF Above(Across(S), l) = Above(target, l)
         THEN get_lsb(comp[0].Tnode) # get_lsb(comp[1].Tnode)
         ELSE comp[0].Tnode = comp[1].Tnode
  BY <1>3, <1>4
<1> QED BY <1>2, <1>3, <1>5 DEF PathsMeetTarget, Across

LEMMA BetweenAtLevel ==
    Inv => BetweenSoFar
<1> SUFFICES ASSUME Inv, AtSameLevel PROVE BetweenSoFar
  BY DEF BetweenSoFar
<1>1. GenInv /\ CompInv
  BY DEF Inv
<1>2. PICK S, l : S = WholeS(op, dpf, x) /\ l = comp[0].level
  OBVIOUS
<1>3. /\ S \in Value /\ l \in Nat /\ 1 <= l /\ l < Depth /\ target \in Value /\ comp[0].S = S
      /\ Share(comp[0].gt, comp[1].gt, InsideAt(target, S, l))
  BY <1>1, <1>2, RunsMeet
<1>4. l <= ValueBits
  BY <1>3, Sizes
<1>5. Residue(Above(Across(S), l) - Above(S, l), Shl[l]) = Shl[l - 1]
  BY <1>3, <1>4, UpAcross
<1>6. Shl[l] = 2 * Shl[l - 1]
  <2>1. l - 1 \in Nat /\ (l - 1) + 1 = l
    BY <1>3
  <2>2. Shl[(l - 1) + 1] = 2 * Shl[l - 1]
    BY <2>1, ShlFacts
  <2> QED BY <2>1, <2>2
<1>7. InsideAt(target, S, l)
        <=> Residue(Above(target, l) - Above(S, l), Shl[l])
              \in 1 .. Residue(Above(Across(S), l) - Above(S, l), Shl[l]) - 1
  BY <1>5, <1>6 DEF InsideAt, Inside
<1>8. (comp[0].gt # comp[1].gt) <=> InsideAt(target, S, l)
  BY <1>3 DEF Share
<1> QED BY <1>2, <1>3, <1>7, <1>8 DEF BetweenSoFar, Residue, Across

\* At every level the nodes of the two parties meet in the target alone, and
\* their flags share whether it is between their ways so far (the comments of
\* CDPF::compare), in a tree of any depth and for any values and generators.
THEOREM PathsAlwaysFit == Spec => []PathsFit
<1>1. Inv => PathsFit
  BY Types, PathsMeetAtLevel, BetweenAtLevel DEF PathsFit
<1> QED BY <1>1, Invariance, PTL

-----------------------------------------------------------------------------
(* What the outputs say of the value.                                      *)

\* How the value v, the target and S belong together.
LEMMA DifferenceOf ==
    ASSUME NEW t \in Value, NEW v \in Value, NEW S, S = Minus(t, v)
    PROVE  /\ t = S <=> v = 0
           /\ Inside(t, S, Half) <=> v \in 1 .. Half - 1
<1> DEFINE N == NumValues
<1>1. t \in Nat /\ t < N /\ v \in Nat /\ v < N /\ N \in Nat /\ N > 0 /\ N = 2 * Half /\ t - v \in Int
  BY InValue, Sizes
<1> HIDE DEF N
<1>2. S = Residue(t - v, N)
  BY DEF Minus, Residue, N
<1>3. \E i \in Int : t - v = i * N + S /\ S \in 0 .. N - 1
  <2> DEFINE y == t - v
  <2>1. y \in Int
    BY <1>1
  <2> HIDE DEF y
  <2>2. \E i \in Int : y = i * N + Residue(y, N) /\ Residue(y, N) \in 0 .. N - 1
    BY <1>1, <2>1, Residues
  <2> QED BY <1>2, <2>2 DEF y
<1>4. PICK i \in Int : t - v = i * N + S /\ S \in 0 .. N - 1
  BY <1>3
<1>5. PICK j : j = i * N /\ j \in Int /\ (0 - i) * N = 0 - j /\ (i = 0 => j = 0)
               /\ (i > 0 => j >= N) /\ (i < 0 => j <= 0 - N)
  <2> DEFINE j == i * N
  <2>1. j \in Int /\ (0 - i) * N = 0 - j
    BY <1>1
  <2>2. i = 0 => j = 0
    BY <1>1
  <2>3. i > 0 => j >= N
    BY <1>1
  <2>4. i < 0 => j <= 0 - N
    BY <1>1
  <2> HIDE DEF j
  <2>5. j = j /\ j \in Int /\ (0 - i) * N = 0 - j /\ (i = 0 => j = 0)
          /\ (i > 0 => j >= N) /\ (i < 0 => j <= 0 - N)
    BY <2>1, <2>2, <2>3, <2>4
  <2> QED BY <2>5 DEF j
<1>6. t - v = j + S /\ S \in Int /\ 0 <= S /\ S < N
  BY <1>1, <1>4, <1>5
<1>7. t = S <=> v = 0
  <2>1. j \in Int /\ (j = 0 \/ j >= N \/ j <= 0 - N)
    BY <1>1, <1>5
  <2>2. t \in Int /\ v \in Int /\ t < N /\ v < N /\ 0 <= t /\ 0 <= v /\ N \in Int
    BY <1>1
  <2> QED BY <1>6, <2>1, <2>2
<1>8. Residue(t - S, N) = v
  <2>1. t - S = (0 - (0 - j)) + v
    BY <1>1, <1>5, <1>6
  <2>2. t - S = i * N + v
    BY <1>1, <1>5, <1>6, <2>1
  <2>3. Apart(t - S, v, i, N)
    BY <2>2 DEF Apart
  <2>4. t - S \in Int /\ v \in 0 .. N - 1
    BY <1>1, <1>6
  <2> QED BY <1>1, <2>3, <2>4, ResidueUnique
<1> QED BY <1>1, <1>7, <1>8 DEF Inside

\* A value is negative, zero or positive.
LEMMA ThreeCases ==
    ASSUME NEW v \in Value
    PROVE  v >= Half <=> ~ v = 0 /\ v \notin 1 .. Half - 1
BY InValue, Sizes

\* S is the target less the value, by shares of either kind.
LEMMA WholeOf ==
    ASSUME GenInv, CompInv,
           NEW v, v = IF op = "is_zero_xs" THEN xor(x[0], x[1]) ELSE Sum(x[0], x[1])
    PROVE  /\ v \in Value /\ target \in Value
           /\ WholeS(op, dpf, x) = IF op = "is_zero_xs" THEN xor(target, v) ELSE Minus(target, v)
<1>1. /\ dpf \in [Halves -> Keys] /\ target \in Value
      /\ Sum(dpf[0].as_target, dpf[1].as_target) = target
      /\ xor(dpf[0].xs_target, dpf[1].xs_target) = target
  BY DEF GenInv, GenAt
<1>2. x \in [Halves -> Value] /\ 0 \in Halves /\ 1 \in Halves
  BY DEF CompInv, Halves
<1>3. PICK a, b, c, d : a = dpf[0].as_target /\ b = dpf[1].as_target
                        /\ c = dpf[0].xs_target /\ d = dpf[1].xs_target
  OBVIOUS
<1>4. PICK y, z : y = x[0] /\ z = x[1]
  OBVIOUS
<1>5. a \in Value /\ b \in Value /\ c \in Value /\ d \in Value /\ y \in Value /\ z \in Value
  <2>1. dpf[0] \in Keys /\ dpf[1] \in Keys
    BY <1>1, <1>2
  <2>2. a \in Value /\ b \in Value /\ c \in Value /\ d \in Value
    BY <1>3, <2>1 DEF Keys
  <2> QED BY <1>2, <1>4, <2>2
<1>6. Sum(a, b) = target /\ xor(c, d) = target
  BY <1>1, <1>3
<1>7. CASE op = "is_zero_xs"
  <2>1. WholeS(op, dpf, x) = xor(xor(c, y), xor(d, z))
    BY <1>3, <1>4, <1>7 DEF WholeS, SOf, ShareOf
  <2>2. xor(xor(c, y), xor(d, z)) = xor(xor(c, d), xor(y, z))
    BY <1>5, XorValue
  <2>3. v = xor(y, z) /\ v \in Value
    BY <1>4, <1>5, <1>7, XorValue
  <2> QED BY <1>1, <1>6, <1>7, <2>1, <2>2, <2>3
<1>8. CASE op # "is_zero_xs"
  <2>1. WholeS(op, dpf, x) = Sum(Minus(a, y), Minus(b, z))
    BY <1>3, <1>4, <1>8 DEF WholeS, SOf, ShareOf
  <2>2. Sum(Minus(a, y), Minus(b, z)) = Minus(Sum(a, b), Sum(y, z))
    BY <1>5, DifferenceOfSums
  <2>3. v = Sum(y, z)
    BY <1>4, <1>8
  <2>4. v \in Value
    <3>1. y + z \in Int
      BY <1>5, InValue
    <3>2. (y + z) % NumValues \in Value
      BY <3>1, InRange
    <3> QED BY <2>3, <3>2 DEF Sum
  <2> QED BY <1>1, <1>6, <1>8, <2>1, <2>2, <2>3, <2>4
<1> QED BY <1>7, <1>8

\* What the two parties return.
SharedResults(kind, tgt, S, out0, out1) ==
    \E eq0, eq1, gt0, gt1, lt0, lt1 :
        /\ Share(eq0, eq1, tgt = S)
        /\ Share(gt0, gt1, Inside(tgt, S, Half))
        /\ Share(lt0, lt1, ~ (tgt = S) /\ ~ Inside(tgt, S, Half))
        /\ out0 = IF kind = "compare" THEN <<lt0, eq0, gt0>> ELSE <<eq0>>
        /\ out1 = IF kind = "compare" THEN <<lt1, eq1, gt1>> ELSE <<eq1>>

LEMMA BothReturned ==
    ASSUME NEW G, NEW k, NEW tgt \in Value, NEW S \in Value, NEW r, NEW q, Pair(G, k, tgt, r, q),
           NEW kind, NEW out0, NEW out1,
           Returned(G, k, S, r, kind, 0, out0), Returned(G, k, S, q, kind, 1, out1)
    PROVE  SharedResults(kind, tgt, S, out0, out1)
<1>1. PICK f0, h0, e0, eq0, gt0, m :
        /\ RunTo(G, k, S, r, f0, h0, e0, Depth) /\ m = Depth - 1
        /\ eq0 = EqualOf(S, f0[Depth])
        /\ gt0 = GreaterOf(S, f0[m], f0[Depth], h0[m], h0[Depth], e0[m])
        /\ out0 = Result(kind, 0, eq0, gt0)
  BY DEF Returned
<1>2. PICK f1, h1, e1, eq1, gt1, n :
        /\ RunTo(G, k, S, q, f1, h1, e1, Depth) /\ n = Depth - 1
        /\ eq1 = EqualOf(S, f1[Depth])
        /\ gt1 = GreaterOf(S, f1[n], f1[Depth], h1[n], h1[Depth], e1[n])
        /\ out1 = Result(kind, 1, eq1, gt1)
  BY DEF Returned
<1>3. gt1 = GreaterOf(S, f1[m], f1[Depth], h1[m], h1[Depth], e1[m])
  BY <1>1, <1>2
<1>4. /\ Share(eq0, eq1, tgt = S)
      /\ Share(gt0, gt1, Inside(tgt, S, Half))
      /\ Share(LessOf(0, eq0, gt0), LessOf(1, eq1, gt1), ~ (tgt = S) /\ ~ Inside(tgt, S, Half))
  BY <1>1, <1>2, <1>3, ResultsShare
<1>5. PICK lt0, lt1 : lt0 = LessOf(0, eq0, gt0) /\ lt1 = LessOf(1, eq1, gt1)
  OBVIOUS
<1>6. /\ out0 = IF kind = "compare" THEN <<lt0, eq0, gt0>> ELSE <<eq0>>
      /\ out1 = IF kind = "compare" THEN <<lt1, eq1, gt1>> ELSE <<eq1>>
  BY <1>1, <1>2, <1>5 DEF Result
<1>7. Share(lt0, lt1, ~ (tgt = S) /\ ~ Inside(tgt, S, Half))
  BY <1>4, <1>5
<1> QED BY <1>4, <1>6, <1>7 DEF SharedResults

\* Shares of tuples.
LEMMA SharedThree ==
    ASSUME NEW a0, NEW b0, NEW c0, NEW a1, NEW b1, NEW c1, NEW a, NEW b, NEW c,
           a0 # a1 <=> a, b0 # b1 <=> b, c0 # c1 <=> c,
           a \in BOOLEAN, b \in BOOLEAN, c \in BOOLEAN,
           NEW s, s = <<a0, b0, c0>>, NEW t, t = <<a1, b1, c1>>
    PROVE  [i \in DOMAIN s |-> s[i] # t[i]] = <<a, b, c>>
<1>1. DOMAIN s = 1 .. 3 /\ s[1] = a0 /\ s[2] = b0 /\ s[3] = c0 /\ t[1] = a1 /\ t[2] = b1 /\ t[3] = c1
  OBVIOUS
<1> DEFINE f == [i \in 1 .. 3 |-> s[i] # t[i]]
           g == <<a, b, c>>
<1>2. g \in [1 .. 3 -> BOOLEAN] /\ g[1] = a /\ g[2] = b /\ g[3] = c
  OBVIOUS
<1>3. f[1] = a /\ f[2] = b /\ f[3] = c
  BY <1>1
<1>4. f \in [1 .. 3 -> BOOLEAN]
  OBVIOUS
<1> HIDE DEF f, g
<1>5. \A i \in 1 .. 3 : f[i] = g[i]
  BY <1>2, <1>3
<1>6. f = g
  BY <1>2, <1>4, <1>5
<1> QED BY <1>1, <1>6 DEF f, g

LEMMA SharedOne ==
    ASSUME NEW a0, NEW a1, NEW a, a0 # a1 <=> a, a \in BOOLEAN,
           NEW s, s = <<a0>>, NEW t, t = <<a1>>
    PROVE  [i \in DOMAIN s |-> s[i] # t[i]] = <<a>>
<1>1. DOMAIN s = 1 .. 1 /\ s[1] = a0 /\ t[1] = a1
  OBVIOUS
<1> DEFINE f == [i \in 1 .. 1 |-> s[i] # t[i]]
           g == <<a>>
<1>2. g \in [1 .. 1 -> BOOLEAN] /\ g[1] = a
  OBVIOUS
<1>3. f[1] = a
  BY <1>1
<1>4. f \in [1 .. 1 -> BOOLEAN]
  OBVIOUS
<1> HIDE DEF f, g
<1>5. \A i \in 1 .. 1 : f[i] = g[i]
  BY <1>2, <1>3
<1>6. f = g
  BY <1>2, <1>4, <1>5
<1> QED BY <1>1, <1>6 DEF f, g

LEMMA EndsWithShares ==
    Inv => ComparesToZero
<1> SUFFICES ASSUME Inv, \A p \in Halves : comp[p].at = "done" PROVE ComparesToZero
  BY DEF ComparesToZero
<1>1. GenInv /\ CompInv
  BY DEF Inv
<1>2. PICK v : v = IF op = "is_zero_xs" THEN xor(x[0], x[1]) ELSE Sum(x[0], x[1])
  OBVIOUS
<1>3. PICK S : S = WholeS(op, dpf, x)
  OBVIOUS
<1>4. PICK out0, out1 : out0 = comp[0].out /\ out1 = comp[1].out
  OBVIOUS
<1>5. /\ v \in Value /\ target \in Value /\ S \in Value
      /\ S = IF op = "is_zero_xs" THEN xor(target, v) ELSE Minus(target, v)
  BY <1>1, <1>2, <1>3, WholeOf, SharesOfS
<1>6. /\ op # "none"
      /\ Returned(Gens[gen], dpf[0], S, dpf[0].seed, op, 0, out0)
      /\ Returned(Gens[gen], dpf[0], S, dpf[1].seed, op, 1, out1)
  <2>1. /\ 0 \in Halves /\ 1 \in Halves
        /\ comp[0].at = "done" /\ comp[1].at = "done"
    BY DEF Halves
  <2>2. PartyOK(0) /\ PartyOK(1)
    BY <1>1, <2>1 DEF CompInv
  <2> QED BY <1>3, <1>4, <2>1, <2>2 DEF PartyOK, PartyAt
<1>7. SharedResults(op, target, S, out0, out1)
  <2>1. Pair(Gens[gen], dpf[0], target, dpf[0].seed, dpf[1].seed)
    BY <1>1, <1>6, Ready
  <2> QED BY <1>5, <1>6, <2>1, BothReturned
<1>8. PICK eq0, eq1, gt0, gt1, lt0, lt1 :
        /\ Share(eq0, eq1, target = S)
        /\ Share(gt0, gt1, Inside(target, S, Half))
        /\ Share(lt0, lt1, ~ (target = S) /\ ~ Inside(target, S, Half))
        /\ out0 = IF op = "compare" THEN <<lt0, eq0, gt0>> ELSE <<eq0>>
        /\ out1 = IF op = "compare" THEN <<lt1, eq1, gt1>> ELSE <<eq1>>
  BY <1>7 DEF SharedResults
<1>9. target = S <=> v = 0
  <2>1. CASE op = "is_zero_xs"
    <3>1. S = xor(target, v)
      BY <1>5, <2>1
    <3>2. xor(target, v) = target <=> v = 0
      BY <1>5, XorValue
    <3> QED BY <3>1, <3>2
  <2>2. CASE op # "is_zero_xs"
    BY <1>5, <2>2, DifferenceOf
  <2> QED BY <2>1, <2>2
<1>10. (v = 0) \in BOOLEAN /\ (v >= Half) \in BOOLEAN /\ (v \in 1 .. Half - 1) \in BOOLEAN
  OBVIOUS
<1>11. eq0 # eq1 <=> v = 0
  BY <1>8, <1>9 DEF Share
<1>12. CASE op = "compare"
  <2>1. Inside(target, S, Half) <=> v \in 1 .. Half - 1
    BY <1>5, <1>12, DifferenceOf
  <2>2. gt0 # gt1 <=> v \in 1 .. Half - 1
    BY <1>8, <2>1 DEF Share
  <2>3. lt0 # lt1 <=> v >= Half
    BY <1>5, <1>8, <1>9, <2>1, ThreeCases DEF Share
  <2>4. out0 = <<lt0, eq0, gt0>> /\ out1 = <<lt1, eq1, gt1>>
    BY <1>8, <1>12
  <2>5. [i \in DOMAIN out0 |-> out0[i] # out1[i]] = <<v >= Half, v = 0, v \in 1 .. Half - 1>>
    BY <1>10, <1>11, <2>2, <2>3, <2>4, SharedThree
  <2> QED BY <1>2, <1>4, <1>12, <2>5 DEF ComparesToZero, Sum
<1>13. CASE op # "compare"
  <2>1. out0 = <<eq0>> /\ out1 = <<eq1>>
    BY <1>8, <1>13
  <2>2. [i \in DOMAIN out0 |-> out0[i] # out1[i]] = <<v = 0>>
    BY <1>10, <1>11, <2>1, SharedOne
  <2> QED BY <1>2, <1>4, <1>13, <2>2 DEF ComparesToZero, Sum
<1> QED BY <1>12, <1>13

\* When both parties are through, their outputs share whether the value is less
\* than, equal to and greater than zero (CDPF::compare), or whether it is zero
\* (CDPF::is_zero), for any values, shares and target, in a tree of any depth.
THEOREM ComparesCorrectly == Spec => []ComparesToZero
<1>1. Inv => ComparesToZero
  BY EndsWithShares
<1> QED BY <1>1, Invariance, PTL
=============================================================================
