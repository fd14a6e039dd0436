------------------------------- MODULE Basics -------------------------------
(***************************************************************************)
(* What proofs about several of the models need: induction over the        *)
(* natural numbers by sets, the existence of sequences defined by          *)
(* recursion, on which recursive functions rest, the powers of 2,          *)
(* residues, numbers in binary and their XOR, and the items of an array    *)
(* and their rearrangement.                                                *)
(***************************************************************************)
EXTENDS Integers, FiniteSetTheorems, WellFoundedInduction, TLAPS

-----------------------------------------------------------------------------
(* Induction and recursion.                                                *)

LEMMA SetInduction ==
    ASSUME NEW S, 0 \in S, \A n \in Nat : n \in S => n + 1 \in S
    PROVE  \A n \in Nat : n \in S
<1> DEFINE T == Nat \ S
           R == OpToRel(<, Nat)
<1>1. SUFFICES ASSUME T # {} PROVE FALSE
  OBVIOUS
<1>2. IsWellFoundedOn(R, Nat)
  BY NatLessThanWellFounded
<1>3. PICK x \in T : \A y \in T : ~ (<<y, x>> \in R)
  BY <1>1, <1>2, WFMin
<1>4. \A y \in T : ~ (y < x)
  BY <1>3 DEF OpToRel
<1>5. x - 1 \in Nat /\ x - 1 \notin T /\ x = (x - 1) + 1
  BY <1>4
<1> QED BY <1>5

\* The first n steps of a sequence that begins with s and goes on by F.
Orbit(g, s, F, n) == g[0] = s /\ \A i \in Nat : i < n => g[i + 1] = F[g[i]]

Agree(g, h, n, m) == \A i \in Nat : i <= n /\ i <= m => g[i] = h[i]

LEMMA OrbitUnique ==
    ASSUME NEW s, NEW F, NEW n \in Nat, NEW m \in Nat,
           NEW g, Orbit(g, s, F, n), NEW h, Orbit(h, s, F, m)
    PROVE  Agree(g, h, n, m)
<1> DEFINE T == {i \in Nat : i <= n /\ i <= m => g[i] = h[i]}
<1>1. 0 \in T
  BY DEF Orbit
<1>2. ASSUME NEW i \in Nat, i \in T PROVE i + 1 \in T
  BY <1>2 DEF Orbit
<1>3. \A i \in Nat : i \in T
  <2> HIDE DEF T
  <2> QED BY <1>1, <1>2, SetInduction
<1> QED BY <1>3 DEF Agree

HasOrbit(S, s, F) ==
    \E g \in [Nat -> S] : g[0] = s /\ \A i \in Nat : g[i + 1] = F[g[i]]

LEMMA OrbitExists ==
    ASSUME NEW S, NEW s \in S, NEW F \in [S -> S]
    PROVE  HasOrbit(S, s, F)
<1> DEFINE T == {n \in Nat : \E h \in [Nat -> S] : Orbit(h, s, F, n)}
<1>1. 0 \in T
  <2> DEFINE h == [i \in Nat |-> s]
  <2>1. h \in [Nat -> S] /\ Orbit(h, s, F, 0)
    BY DEF Orbit
  <2> HIDE DEF h
  <2> QED BY <2>1
<1>2. ASSUME NEW n \in Nat, n \in T PROVE n + 1 \in T
  <2>1. PICK h \in [Nat -> S] : Orbit(h, s, F, n)
    BY <1>2
  <2> DEFINE k == [h EXCEPT ![n + 1] = F[h[n]]]
  <2>2. k \in [Nat -> S]
    OBVIOUS
  <2>3. Orbit(k, s, F, n + 1)
    BY <2>1 DEF Orbit
  <2> HIDE DEF k
  <2> QED BY <2>2, <2>3
<1>3. \A n \in Nat : \E h \in [Nat -> S] : Orbit(h, s, F, n)
  <2>1. \A n \in Nat : n \in T
    <3> HIDE DEF T
    <3> QED BY <1>1, <1>2, SetInduction
  <2> QED BY <2>1
<1> HIDE DEF T
<1> DEFINE H == [n \in Nat |-> CHOOSE k \in [Nat -> S] : Orbit(k, s, F, n)]
           g == [n \in Nat |-> H[n][n]]
<1>4. \A n \in Nat : H[n] \in [Nat -> S] /\ Orbit(H[n], s, F, n)
  BY <1>3
<1> HIDE DEF H
<1>5. ASSUME NEW n \in Nat PROVE H[n + 1][n] = H[n][n]
  <2> DEFINE m == n + 1
  <2>1. Orbit(H[m], s, F, m) /\ Orbit(H[n], s, F, n) /\ m \in Nat
    BY <1>4
  <2>2. \A i \in Nat : i <= m /\ i <= n => H[m][i] = H[n][i]
    <3> HIDE DEF m, g
    <3>1. Agree(H[m], H[n], m, n)
      BY <2>1, OrbitUnique
    <3> QED BY <3>1 DEF Agree
  <2> QED BY <2>2
<1>6. g \in [Nat -> S] /\ g[0] = s
  BY <1>4 DEF Orbit
<1>7. ASSUME NEW n \in Nat PROVE g[n + 1] = F[g[n]]
  <2>1. H[n + 1][n + 1] = F[H[n + 1][n]]
    BY <1>4 DEF Orbit
  <2> QED BY <2>1, <1>5
<1> HIDE DEF g
<1> QED BY <1>6, <1>7 DEF HasOrbit

\* The same with a step that depends on the number of steps made.
HasFold(S, s, G) ==
    \E g \in [Nat -> S] : g[0] = s /\ \A i \in Nat : g[i + 1] = G[<<i, g[i]>>]

LEMMA FoldExists ==
    ASSUME NEW S, NEW s \in S, NEW G \in [Nat \X S -> S]
    PROVE  HasFold(S, s, G)
<1> DEFINE P == Nat \X S
           F == [p \in P |-> <<p[1] + 1, G[p]>>]
<1>1. F \in [P -> P] /\ <<0, s>> \in P
  OBVIOUS
<1>2. PICK h \in [Nat -> P] : h[0] = <<0, s>> /\ \A i \in Nat : h[i + 1] = F[h[i]]
  <2> HIDE DEF P, F
  <2>1. HasOrbit(P, <<0, s>>, F)
    BY <1>1, OrbitExists
  <2> QED BY <2>1 DEF HasOrbit
<1> DEFINE T == {i \in Nat : h[i][1] = i}
           g == [i \in Nat |-> h[i][2]]
<1>3. \A i \in Nat : h[i + 1] = <<h[i][1] + 1, G[h[i]]>> /\ h[i] \in P
  BY <1>2
<1>4. \A i \in Nat : i \in T
  <2>1. 0 \in T
    BY <1>2
  <2>2. ASSUME NEW i \in Nat, i \in T PROVE i + 1 \in T
    BY <1>3, <2>2
  <2> HIDE DEF T
  <2> QED BY <2>1, <2>2, SetInduction
<1>5. \A i \in Nat : h[i] = <<i, g[i]>> /\ g[i] \in S
  BY <1>3, <1>4
<1>6. g \in [Nat -> S] /\ g[0] = s
  BY <1>2, <1>5
<1>7. \A i \in Nat : g[i + 1] = G[<<i, g[i]>>]
  <2>1. ASSUME NEW i \in Nat PROVE g[i + 1] = G[<<i, g[i]>>]
    <3>1. h[i + 1] = <<h[i][1] + 1, G[h[i]]>> /\ h[i] = <<i, g[i]>> /\ i + 1 \in Nat
      BY <1>3, <1>5
    <3>2. g[i + 1] = h[i + 1][2]
      BY <3>1
    <3> QED BY <3>1, <3>2
  <2> QED BY <2>1
<1> HIDE DEF g
<1> QED BY <1>6, <1>7 DEF HasFold

\* A function defined by recursion up to N is what its sequence is.
LEMMA RecursionIs ==
    ASSUME NEW N \in Nat, NEW g, NEW c, c[0] = g[0],
           \A n \in Nat : n < N /\ c[n] = g[n] => c[n + 1] = g[n + 1]
    PROVE  \A n \in 0 .. N : c[n] = g[n]
<1> DEFINE T == {n \in Nat : n <= N => c[n] = g[n]}
<1>1. 0 \in T
  OBVIOUS
<1>2. ASSUME NEW n \in Nat, n \in T PROVE n + 1 \in T
  BY <1>2
<1> HIDE DEF T
<1>3. \A n \in Nat : n \in T
  BY <1>1, <1>2, SetInduction
<1> QED BY <1>3 DEF T

-----------------------------------------------------------------------------
(* Powers of 2.                                                            *)

Doubles(c) == c = [n \in Nat |-> IF n = 0 THEN 1 ELSE 2 * c[n - 1]]
IsPowers(P) == P[0] = 1 /\ \A n \in Nat : P[n] \in Nat \ {0} /\ P[n + 1] = 2 * P[n]

LEMMA PowersOf2 ==
    ASSUME NEW P, P = CHOOSE c : Doubles(c)
    PROVE  IsPowers(P)
<1> DEFINE S == Nat \ {0}
           F == [k \in S |-> 2 * k]
<1>1. F \in [S -> S] /\ 1 \in S
  OBVIOUS
<1>2. PICK g \in [Nat -> S] : g[0] = 1 /\ \A i \in Nat : g[i + 1] = F[g[i]]
  <2> HIDE DEF S, F
  <2>1. HasOrbit(S, 1, F)
    BY <1>1, OrbitExists
  <2> QED BY <2>1 DEF HasOrbit
<1>3. Doubles(g)
  <2>1. ASSUME NEW n \in Nat PROVE g[n] = IF n = 0 THEN 1 ELSE 2 * g[n - 1]
    <3>1. CASE n = 0
      BY <1>2, <3>1
    <3>2. CASE n # 0
      <4>1. n - 1 \in Nat /\ (n - 1) + 1 = n
        BY <3>2
      <4>2. g[n - 1] \in S /\ g[n] = F[g[n - 1]]
        BY <1>2, <4>1
      <4> QED BY <3>2, <4>2
    <3> QED BY <3>1, <3>2
  <2> QED BY <2>1 DEF Doubles
<1>4. Doubles(P)
  BY <1>3
<1>5. P[0] = 1 /\ \A n \in Nat : P[n + 1] = 2 * P[n]
  <2>1. P[0] = 1
    BY <1>4 DEF Doubles
  <2>2. ASSUME NEW n \in Nat PROVE P[n + 1] = 2 * P[n]
    <3>1. n + 1 \in Nat /\ n + 1 # 0 /\ (n + 1) - 1 = n
      OBVIOUS
    <3>2. P[n + 1] = 2 * P[(n + 1) - 1]
      BY <1>4, <3>1 DEF Doubles
    <3> QED BY <3>1, <3>2
  <2> QED BY <2>1, <2>2
<1> DEFINE T == {n \in Nat : P[n] \in S}
<1>6. \A n \in Nat : n \in T
  <2>1. 0 \in T
    BY <1>5
  <2>2. ASSUME NEW n \in Nat, n \in T PROVE n + 1 \in T
    BY <1>5, <2>2
  <2> HIDE DEF T
  <2> QED BY <2>1, <2>2, SetInduction
<1> QED BY <1>5, <1>6 DEF IsPowers

-----------------------------------------------------------------------------
(* Residues.                                                               *)

\* The residue of x.
Residue(x, m) == x % m
\* y is x and k times m.
Apart(y, x, k, m) == y = k * m + x

LEMMA ResidueUnique ==
    ASSUME NEW m \in Nat, m > 0, NEW k \in Int, NEW r \in 0 .. m - 1,
           NEW x, Apart(x, r, k, m)
    PROVE  Residue(x, m) = r
BY DEF Residue, Apart

LEMMA QuotientOf ==
    ASSUME NEW m \in Nat, m > 0, NEW x \in Nat
    PROVE  /\ x \div m \in Nat /\ x % m \in Nat /\ x % m < m
           /\ x = (x \div m) * m + (x % m)
OBVIOUS

LEMMA QuotientUnique ==
    ASSUME NEW m \in Nat, m > 0, NEW q \in Nat, NEW r \in 0 .. m - 1, NEW x,
           Apart(x, r, q, m)
    PROVE  x \div m = q
BY DEF Apart

LEMMA NatResidue ==
    ASSUME NEW m \in Nat, m > 0, NEW x \in Nat
    PROVE  \E k, r \in Nat : x = k * m + r /\ r < m
BY QuotientOf

LEMMA Residues ==
    ASSUME NEW m \in Nat, m > 0, NEW x \in Int
    PROVE  \E k \in Int : x = k * m + Residue(x, m) /\ Residue(x, m) \in 0 .. m - 1
<1>1. \E k \in Int, r \in 0 .. m - 1 : x = k * m + r
  <2>1. CASE x >= 0
    BY <2>1, NatResidue
  <2>2. CASE x < 0
    <3> DEFINE z == x + (0 - x) * m
    <3>1. z \in Nat
      <4>1. (0 - x) * m = (0 - x) * (m - 1) + (0 - x)
        OBVIOUS
      <4>2. (0 - x) * (m - 1) \in Nat
        <5>1. 0 - x \in Nat /\ m - 1 \in Nat
          BY <2>2
        <5> QED BY <5>1
      <4> QED BY <4>1, <4>2
    <3>2. PICK k \in Nat, r \in Nat : z = k * m + r /\ r < m
      BY <3>1, NatResidue
    <3>3. x = (k + x) * m + r
      <4>1. (k + x) * m = k * m + x * m
        OBVIOUS
      <4> QED BY <3>2, <4>1
    <3> DEFINE n == k + x
    <3>4. n \in Int /\ x = n * m + r /\ r \in 0 .. m - 1
      BY <3>2, <3>3
    <3> HIDE DEF n
    <3> QED BY <3>4
  <2> QED BY <2>1, <2>2
<1>2. PICK k \in Int, r \in 0 .. m - 1 : x = k * m + r
  BY <1>1
<1>3. Residue(x, m) = r
  BY <1>2, ResidueUnique DEF Apart
<1> QED BY <1>2, <1>3

LEMMA ResidueShift ==
    ASSUME NEW m \in Nat, m > 0, NEW k \in Int, NEW x \in Int, NEW y, Apart(y, x, k, m)
    PROVE  Residue(y, m) = Residue(x, m)
<1>1. PICK q \in Int, r \in 0 .. m - 1 : x = q * m + r /\ r = Residue(x, m)
  BY Residues
<1>2. y = (k + q) * m + r /\ k + q \in Int
  <2>1. (k + q) * m = k * m + q * m
    OBVIOUS
  <2> QED BY <2>1, <1>1 DEF Apart
<1>3. Residue(y, m) = r
  <2> DEFINE n == k + q
  <2>1. n \in Int /\ Apart(y, r, n, m)
    BY <1>2 DEF Apart
  <2> HIDE DEF n
  <2> QED BY <2>1, <1>1, ResidueUnique
<1> QED BY <1>1, <1>3

\* Sums, differences and products of residues.
LEMMA ResidueOps ==
    ASSUME NEW m \in Nat, m > 0, NEW x \in Int, NEW y \in Int
    PROVE  /\ Residue(Residue(x, m) + Residue(y, m), m) = Residue(x + y, m)
           /\ Residue(Residue(x, m) + m - Residue(y, m), m) = Residue(x - y, m)
           /\ Residue(Residue(x, m) * Residue(y, m), m) = Residue(x * y, m)
<1> DEFINE r == Residue(x, m)
           s == Residue(y, m)
<1>1. PICK a \in Int : x = a * m + r /\ r \in 0 .. m - 1
  BY Residues
<1>2. PICK b \in Int : y = b * m + s /\ s \in 0 .. m - 1
  BY Residues
<1> HIDE DEF r, s
<1>3. r \in Int /\ s \in Int
  BY <1>1, <1>2
<1>4. Residue(r + s, m) = Residue(x + y, m)
  <2> DEFINE k == a + b
             z == r + s
  <2>1. k \in Int /\ z \in Int /\ Apart(x + y, z, k, m)
    BY <1>1, <1>2, <1>3 DEF Apart
  <2> HIDE DEF k
  <2>2. Residue(x + y, m) = Residue(z, m)
    <3> HIDE DEF z
    <3> QED BY <2>1, ResidueShift
  <2> QED BY <2>2
<1>5. Residue(r + m - s, m) = Residue(x - y, m)
  <2> DEFINE k == a - b - 1
             z == r + m - s
  <2>1. k \in Int /\ z \in Int /\ Apart(x - y, z, k, m)
    BY <1>1, <1>2, <1>3 DEF Apart
  <2> HIDE DEF k
  <2>2. Residue(x - y, m) = Residue(z, m)
    <3> HIDE DEF z
    <3> QED BY <2>1, ResidueShift
  <2> QED BY <2>2
<1>6. Residue(r * s, m) = Residue(x * y, m)
  <2> DEFINE k == a * b * m + a * s + b * r
             z == r * s
  <2>1. k \in Int /\ z \in Int /\ Apart(x * y, z, k, m)
    BY <1>1, <1>2, <1>3 DEF Apart
  <2> HIDE DEF k
  <2>2. Residue(x * y, m) = Residue(z, m)
    <3> HIDE DEF z
    <3> QED BY <2>1, ResidueShift
  <2> QED BY <2>2
<1> QED BY <1>4, <1>5, <1>6 DEF r, s

-----------------------------------------------------------------------------
(* Numbers in binary.                                                      *)

Pow2[n \in Nat] == IF n = 0 THEN 1 ELSE 2 * Pow2[n - 1]

LEMMA Pow2Facts ==
    /\ Pow2[0] = 1
    /\ \A n \in Nat : Pow2[n] \in Nat \ {0} /\ Pow2[n + 1] = 2 * Pow2[n]
<1>1. Pow2 = CHOOSE c : Doubles(c)
  BY DEF Pow2, Doubles
<1>2. IsPowers(Pow2)
  BY <1>1, PowersOf2
<1> QED BY <1>2 DEF IsPowers

LEMMA Pow2Sum ==
    ASSUME NEW m \in Nat, NEW n \in Nat
    PROVE  Pow2[m + n] = Pow2[m] * Pow2[n]
<1> DEFINE T == {k \in Nat : Pow2[m + k] = Pow2[m] * Pow2[k]}
<1>1. 0 \in T
  BY Pow2Facts
<1>2. ASSUME NEW k \in Nat, k \in T PROVE k + 1 \in T
  <2>1. Pow2[m + (k + 1)] = 2 * Pow2[m + k]
    <3>1. m + (k + 1) = (m + k) + 1 /\ m + k \in Nat
      OBVIOUS
    <3> QED BY <3>1, Pow2Facts
  <2>2. Pow2[m] \in Nat /\ Pow2[k] \in Nat /\ Pow2[k + 1] = 2 * Pow2[k]
    BY Pow2Facts
  <2>3. Pow2[m + (k + 1)] = 2 * (Pow2[m] * Pow2[k])
    BY <1>2, <2>1
  <2>4. Pow2[m] * (2 * Pow2[k]) = 2 * (Pow2[m] * Pow2[k])
    BY <2>2
  <2> QED BY <2>2, <2>3, <2>4
<1> HIDE DEF T
<1>3. \A k \in Nat : k \in T
  BY <1>1, <1>2, SetInduction
<1> QED BY <1>3 DEF T

\* The digit k of x.
Digit(x, k) == (x \div Pow2[k]) % 2

\* A quotient by a power of 2 is twice the next one and a bit.
LEMMA QuotientOfPower ==
    ASSUME NEW v \in Nat, NEW k \in Nat
    PROVE  /\ v \div Pow2[k] = 2 * (v \div Pow2[k + 1]) + Digit(v, k)
           /\ v \div Pow2[k] \in Nat /\ v \div Pow2[k + 1] \in Nat
           /\ Digit(v, k) \in {0, 1}
<1> DEFINE m == Pow2[k]
           a == v \div m
           r == v % m
           b == a \div 2
           c == a % 2
<1>1. m \in Nat /\ m > 0 /\ Pow2[k + 1] = 2 * m
  BY Pow2Facts
<1>2. a \in Nat /\ r \in 0 .. m - 1 /\ v = a * m + r
  <2> HIDE DEF m
  <2>1. a \in Nat /\ r \in Nat /\ r < m /\ v = a * m + r
    BY <1>1, QuotientOf
  <2> QED BY <2>1, <1>1
<1>3. b \in Nat /\ c \in {0, 1} /\ a = 2 * b + c
  <2> HIDE DEF a
  <2> QED BY <1>2
<1>4. v \div (2 * m) = b
  <2> DEFINE n == 2 * m
             s == c * m + r
  <2>1. n \in Nat /\ n > 0
    BY <1>1
  <2>2. s \in 0 .. n - 1
    <3> HIDE DEF m, c, r
    <3>1. CASE c = 0
      BY <3>1, <1>1, <1>2
    <3>2. CASE c = 1
      BY <3>2, <1>1, <1>2
    <3> QED BY <3>1, <3>2, <1>3
  <2>3. Apart(v, s, b, n)
    <3> HIDE DEF m, a, b, c, r
    <3>1. v = (2 * b + c) * m + r
      BY <1>2, <1>3
    <3>2. (2 * b + c) * m + r = b * (2 * m) + (c * m + r)
      <4>1. b \in Int /\ c \in Int /\ m \in Int /\ r \in Int
        BY <1>1, <1>2, <1>3
      <4> QED BY <4>1
    <3> QED BY <3>1, <3>2 DEF Apart
  <2> HIDE DEF n, s, b
  <2>4. v \div n = b
    BY <2>1, <2>2, <2>3, <1>3, QuotientUnique
  <2> QED BY <2>4 DEF n
<1> HIDE DEF b
<1>5. Digit(v, k) = c
  BY DEF Digit
<1> QED BY <1>1, <1>2, <1>3, <1>4, <1>5

\* Quotients by powers of 2, one after the other.
LEMMA QuotientHalf ==
    ASSUME NEW v \in Nat, NEW k \in Nat
    PROVE  /\ v \div Pow2[0] = v
           /\ v \div Pow2[k] \in Nat
           /\ v \div Pow2[k + 1] = (v \div Pow2[k]) \div 2
           /\ Digit(v, k) = (v \div Pow2[k]) % 2
<1>1. Pow2[0] = 1
  BY Pow2Facts
<1>2. v \div 1 = v
  OBVIOUS
<1>3. PICK a, b, c : a = v \div Pow2[k] /\ b = v \div Pow2[k + 1] /\ c = Digit(v, k)
  OBVIOUS
<1>4. a \in Nat /\ b \in Nat /\ c \in {0, 1} /\ a = 2 * b + c
  BY <1>3, QuotientOfPower
<1>5. b = a \div 2
  BY <1>4
<1> QED BY <1>1, <1>2, <1>3, <1>4, <1>5 DEF Digit

LEMMA QuotientTwice ==
    ASSUME NEW v \in Nat, NEW j \in Nat
    PROVE  \A k \in Nat : (v \div Pow2[j]) \div Pow2[k] = v \div Pow2[j + k]
<1> DEFINE T == {k \in Nat : (v \div Pow2[j]) \div Pow2[k] = v \div Pow2[j + k]}
<1>1. v \div Pow2[j] \in Nat
  BY QuotientHalf
<1>2. 0 \in T
  <2>1. j + 0 = j
    OBVIOUS
  <2> QED BY <1>1, <2>1, QuotientHalf
<1>3. ASSUME NEW k \in Nat, k \in T PROVE k + 1 \in T
  <2>1. j + (k + 1) = (j + k) + 1 /\ j + k \in Nat
    OBVIOUS
  <2>2. (v \div Pow2[j]) \div Pow2[k + 1] = ((v \div Pow2[j]) \div Pow2[k]) \div 2
    BY <1>1, QuotientHalf
  <2>3. v \div Pow2[(j + k) + 1] = (v \div Pow2[j + k]) \div 2
    BY <2>1, QuotientHalf
  <2> QED BY <1>3, <2>1, <2>2, <2>3
<1> HIDE DEF T
<1>4. \A k \in Nat : k \in T
  BY <1>2, <1>3, SetInduction
<1> QED BY <1>4 DEF T

\* The digits of a half are the next ones.
LEMMA DigitOfHalf ==
    ASSUME NEW v \in Nat, NEW k \in Nat
    PROVE  /\ Digit(v, 0) = v % 2
           /\ v \div Pow2[1] = v \div 2
           /\ (v \div 2) \div Pow2[k] = v \div Pow2[k + 1]
           /\ Digit(v \div 2, k) = Digit(v, k + 1)
<1>1. v \div Pow2[0] = v /\ v \div Pow2[0 + 1] = (v \div Pow2[0]) \div 2 /\ Digit(v, 0) = (v \div Pow2[0]) % 2
  BY QuotientHalf
<1>2. (v \div Pow2[1]) \div Pow2[k] = v \div Pow2[1 + k]
  BY QuotientTwice
<1>3. 1 + k = k + 1 /\ 0 + 1 = 1
  OBVIOUS
<1>4. (v \div 2) \div Pow2[k] = v \div Pow2[k + 1]
  BY <1>1, <1>2, <1>3
<1> QED BY <1>1, <1>3, <1>4 DEF Digit

\* Numbers less than a power.
LEMMA BelowPower ==
    ASSUME NEW v \in Nat, NEW d \in Nat
    PROVE  v < Pow2[d] <=> v \div Pow2[d] = 0
<1>1. PICK m \in Nat : m = Pow2[d] /\ m > 0
  BY Pow2Facts
<1>2. v \div m \in Nat /\ v % m \in Nat /\ v % m < m /\ v = (v \div m) * m + (v % m)
  BY <1>1, QuotientOf
<1>3. PICK q \in Nat, r \in Nat : q = v \div m /\ r = v % m
  BY <1>2
<1>4. v = q * m + r /\ r < m
  BY <1>2, <1>3
<1>5. CASE q = 0
  BY <1>1, <1>3, <1>4, <1>5
<1>6. CASE q >= 1
  <2>1. PICK p \in Nat : q = p + 1
    <3>1. q - 1 \in Nat /\ q = (q - 1) + 1
      BY <1>6
    <3> QED BY <3>1
  <2>2. q * m = p * m + m /\ p * m \in Nat
    BY <2>1, <1>1
  <2> QED BY <1>1, <1>3, <1>4, <1>6, <2>2
<1> QED BY <1>5, <1>6

LEMMA BelowNext ==
    ASSUME NEW v \in Nat, NEW d \in Nat, NEW e \in Nat, d <= e, v < Pow2[d]
    PROVE  v < Pow2[e] /\ v \div Pow2[e] = 0 /\ Digit(v, e) = 0
<1>1. v \div Pow2[d] = 0
  BY BelowPower
<1>2. e - d \in Nat /\ e = d + (e - d)
  OBVIOUS
<1>3. v \div Pow2[e] = (v \div Pow2[d]) \div Pow2[e - d]
  BY <1>2, QuotientTwice
<1>4. 0 \div Pow2[e - d] = 0
  <2>1. 0 < Pow2[e - d]
    BY <1>2, Pow2Facts
  <2> QED BY <1>2, <2>1, BelowPower
<1>5. v \div Pow2[e] = 0
  BY <1>1, <1>3, <1>4
<1> QED BY <1>5, BelowPower DEF Digit

\* Numbers with a quotient in common have all the following in common.
LEMMA SameAbove ==
    ASSUME NEW v \in Nat, NEW w \in Nat, NEW j \in Nat, NEW k \in Nat, j <= k,
           v \div Pow2[j] = w \div Pow2[j]
    PROVE  v \div Pow2[k] = w \div Pow2[k] /\ Digit(v, k) = Digit(w, k)
<1>1. k - j \in Nat /\ k = j + (k - j)
  OBVIOUS
<1>2. v \div Pow2[k] = (v \div Pow2[j]) \div Pow2[k - j]
  BY <1>1, QuotientTwice
<1>3. w \div Pow2[k] = (w \div Pow2[j]) \div Pow2[k - j]
  BY <1>1, QuotientTwice
<1> QED BY <1>2, <1>3 DEF Digit

\* The XOR of two numbers of n digits, from the lowest one up.
XorTable[n \in Nat] ==
    [w \in Nat \X Nat |->
        IF n = 0 THEN 0
        ELSE 2 * XorTable[n - 1][<<w[1] \div 2, w[2] \div 2>>] + ((w[1] + w[2]) % 2)]

NatPairs == Nat \X Nat
Halved(c, w) == 2 * c[<<w[1] \div 2, w[2] \div 2>>] + ((w[1] + w[2]) % 2)
IsXor(c) == c = [n \in Nat |-> [w \in NatPairs |-> IF n = 0 THEN 0 ELSE Halved(c[n - 1], w)]]

LEMMA HalvedType ==
    ASSUME NEW c \in [NatPairs -> Nat], NEW w \in NatPairs
    PROVE  Halved(c, w) \in Nat
<1>1. w[1] \in Nat /\ w[2] \in Nat
  BY DEF NatPairs
<1>2. w[1] \div 2 \in Nat /\ w[2] \div 2 \in Nat /\ (w[1] + w[2]) % 2 \in Nat
  BY <1>1
<1>3. c[<<w[1] \div 2, w[2] \div 2>>] \in Nat
  BY <1>2 DEF NatPairs
<1> QED BY <1>2, <1>3 DEF Halved

LEMMA XorExists ==
    \E c : IsXor(c)
<1> DEFINE S == [NatPairs -> Nat]
           s == [w \in NatPairs |-> 0]
           F == [c \in S |-> [w \in NatPairs |-> Halved(c, w)]]
<1>1. s \in S /\ F \in [S -> S]
  <2>1. ASSUME NEW c \in S PROVE [w \in NatPairs |-> Halved(c, w)] \in S
    BY HalvedType
  <2> QED BY <2>1
<1>2. PICK g \in [Nat -> S] : g[0] = s /\ \A i \in Nat : g[i + 1] = F[g[i]]
  <2> HIDE DEF S, s, F
  <2>1. HasOrbit(S, s, F)
    BY <1>1, OrbitExists
  <2> QED BY <2>1 DEF HasOrbit
<1>3. ASSUME NEW n \in Nat
      PROVE  g[n] = [w \in NatPairs |-> IF n = 0 THEN 0 ELSE Halved(g[n - 1], w)]
  <2>1. CASE n = 0
    BY <1>2, <2>1
  <2>2. CASE n # 0
    <3>1. n - 1 \in Nat /\ (n - 1) + 1 = n
      BY <2>2
    <3>2. g[n] = F[g[n - 1]] /\ g[n - 1] \in S
      <4>1. g[(n - 1) + 1] = F[g[n - 1]] /\ g[n - 1] \in S
        BY <1>2, <3>1
      <4> QED BY <3>1, <4>1
    <3> QED BY <2>2, <3>2
  <2> QED BY <2>1, <2>2
<1>4. g = [n \in Nat |-> g[n]]
  BY <1>2
<1> QED BY <1>3, <1>4 DEF IsXor

Xor(n, a, b) == XorTable[n][<<a, b>>]

LEMMA XorStep ==
    ASSUME NEW n \in Nat, NEW a \in Nat, NEW b \in Nat
    PROVE  /\ Xor(0, a, b) = 0
           /\ Xor(n + 1, a, b) = 2 * Xor(n, a \div 2, b \div 2) + ((a + b) % 2)
<1>1. XorTable = CHOOSE c : IsXor(c)
  BY DEF XorTable, IsXor, Halved, NatPairs
<1>2. IsXor(XorTable)
  BY <1>1, XorExists
<1>3. \A i \in Nat : XorTable[i] = [w \in NatPairs |-> IF i = 0 THEN 0 ELSE Halved(XorTable[i - 1], w)]
  BY <1>2 DEF IsXor
<1>4. <<a, b>> \in NatPairs
  BY DEF NatPairs
<1>5. XorTable[0][<<a, b>>] = 0
  BY <1>3, <1>4
<1>6. XorTable[n + 1][<<a, b>>] = Halved(XorTable[n], <<a, b>>)
  <2>1. n + 1 \in Nat /\ n + 1 # 0 /\ (n + 1) - 1 = n
    OBVIOUS
  <2>2. XorTable[n + 1] = [w \in NatPairs |-> Halved(XorTable[n], w)]
    BY <1>3, <2>1
  <2> QED BY <1>4, <2>2
<1> QED BY <1>5, <1>6 DEF Halved, Xor

LEMMA XorRange ==
    \A n \in Nat : \A a \in Nat, b \in Nat :
        Xor(n, a, b) \in Nat /\ Xor(n, a, b) < Pow2[n]
<1> DEFINE Fits(n, y) == y \in Nat /\ y < Pow2[n]
           T == {n \in Nat : \A a \in Nat, b \in Nat : Fits(n, Xor(n, a, b))}
<1>1. 0 \in T
  <2>1. \A a \in Nat, b \in Nat : Xor(0, a, b) = 0
    BY XorStep
  <2>2. Pow2[0] = 1
    BY Pow2Facts
  <2> QED BY <2>1, <2>2
<1>2. ASSUME NEW n \in Nat, n \in T PROVE n + 1 \in T
  <2>1. SUFFICES ASSUME NEW a \in Nat, NEW b \in Nat
                 PROVE  Fits(n + 1, Xor(n + 1, a, b))
    <3> HIDE DEF Fits
    <3> QED OBVIOUS
  <2>2. (a + b) % 2 \in {0, 1}
    OBVIOUS
  <2>3. PICK aa \in Nat, bb \in Nat : aa = a \div 2 /\ bb = b \div 2
    OBVIOUS
  <2>4. PICK y \in Nat : y = Xor(n, aa, bb) /\ y < Pow2[n] /\ Xor(n + 1, a, b) = 2 * y + ((a + b) % 2)
    <3>1. Xor(n + 1, a, b) = 2 * Xor(n, a \div 2, b \div 2) + ((a + b) % 2)
      BY XorStep
    <3> QED BY <1>2, <2>3, <3>1
  <2>5. Pow2[n] \in Nat /\ Pow2[n + 1] = 2 * Pow2[n]
    BY Pow2Facts
  <2> QED BY <2>2, <2>3, <2>4, <2>5
<1> HIDE DEF T
<1>3. \A n \in Nat : n \in T
  BY <1>1, <1>2, SetInduction
<1> QED BY <1>3 DEF T

\* The XOR without its lowest bit, and the lowest bit.
XorParts(n, a, b) ==
    /\ Xor(n + 1, a, b) \in Nat
    /\ Xor(n + 1, a, b) \div 2 = Xor(n, a \div 2, b \div 2)
    /\ Xor(n + 1, a, b) % 2 = (a + b) % 2

LEMMA XorHalf ==
    \A n \in Nat : \A a \in Nat, b \in Nat : XorParts(n, a, b)
<1> SUFFICES ASSUME NEW n \in Nat, NEW a \in Nat, NEW b \in Nat PROVE XorParts(n, a, b)
  OBVIOUS
<1>1. a \div 2 \in Nat /\ b \div 2 \in Nat /\ (a + b) % 2 \in {0, 1}
  OBVIOUS
<1>2. PICK y \in Nat : y = Xor(n, a \div 2, b \div 2)
  BY <1>1, XorRange
<1>3. Xor(n + 1, a, b) = 2 * y + ((a + b) % 2)
  BY <1>2, XorStep
<1>4. PICK r \in {0, 1} : r = (a + b) % 2
  BY <1>1
<1>5. (2 * y + r) \div 2 = y /\ (2 * y + r) % 2 = r
  BY <1>4
<1> QED BY <1>1, <1>2, <1>3, <1>4, <1>5 DEF XorParts

\* Numbers with the same half and lowest bit are the same.
LEMMA HalfAndBit ==
    \A a, b \in Nat : (a \div 2 = b \div 2 /\ a % 2 = b % 2) => a = b
OBVIOUS

LEMMA XorCommutes ==
    \A n \in Nat : \A a \in Nat, b \in Nat : Xor(n, a, b) = Xor(n, b, a)
<1> DEFINE T == {n \in Nat : \A a \in Nat, b \in Nat : Xor(n, a, b) = Xor(n, b, a)}
<1>1. 0 \in T
  <2>1. \A a \in Nat, b \in Nat : Xor(0, a, b) = 0
    BY XorStep
  <2> QED BY <2>1
<1>2. ASSUME NEW n \in Nat, n \in T PROVE n + 1 \in T
  <2>1. SUFFICES ASSUME NEW a \in Nat, NEW b \in Nat
                 PROVE  Xor(n + 1, a, b) = Xor(n + 1, b, a)
    OBVIOUS
  <2>2. PICK aa \in Nat, bb \in Nat : aa = a \div 2 /\ bb = b \div 2
    OBVIOUS
  <2>3. Xor(n, aa, bb) = Xor(n, bb, aa) /\ a + b = b + a
    BY <1>2
  <2>4. /\ Xor(n + 1, a, b) = 2 * Xor(n, a \div 2, b \div 2) + ((a + b) % 2)
        /\ Xor(n + 1, b, a) = 2 * Xor(n, b \div 2, a \div 2) + ((b + a) % 2)
    BY XorStep
  <2> QED BY <2>2, <2>3, <2>4
<1> HIDE DEF T
<1>3. \A n \in Nat : n \in T
  BY <1>1, <1>2, SetInduction
<1> QED BY <1>3 DEF T

Crossed(n, a, b, c, d) ==
    Xor(n, Xor(n, a, b), Xor(n, c, d))
      = Xor(n, Xor(n, a, c), Xor(n, b, d))

\* The order of four numbers does not matter.
LEMMA XorCrossed ==
    \A n \in Nat : \A a \in Nat, b \in Nat, c \in Nat, d \in Nat : Crossed(n, a, b, c, d)
<1> DEFINE T == {n \in Nat : \A a \in Nat, b \in Nat, c \in Nat, d \in Nat : Crossed(n, a, b, c, d)}
<1>1. 0 \in T
  <2>1. \A a \in Nat, b \in Nat : Xor(0, a, b) = 0
    BY XorStep
  <2>2. \A a \in Nat, b \in Nat, c \in Nat, d \in Nat :
           Xor(0, Xor(0, a, b), Xor(0, c, d)) = 0
    BY <2>1
  <2> QED BY <2>2 DEF Crossed
<1>2. ASSUME NEW n \in Nat, n \in T PROVE n + 1 \in T
  <2>1. SUFFICES ASSUME NEW a \in Nat, NEW b \in Nat, NEW c \in Nat, NEW d \in Nat
                 PROVE  Crossed(n + 1, a, b, c, d)
    OBVIOUS
  <2>2. PICK p, q, r, s : /\ p = Xor(n + 1, a, b) /\ q = Xor(n + 1, c, d)
                          /\ r = Xor(n + 1, a, c) /\ s = Xor(n + 1, b, d)
    OBVIOUS
  <2>3. PICK aa \in Nat, bb \in Nat, cc \in Nat, dd \in Nat :
           aa = a \div 2 /\ bb = b \div 2 /\ cc = c \div 2 /\ dd = d \div 2
    OBVIOUS
  <2>4. /\ p \in Nat /\ p \div 2 = Xor(n, aa, bb) /\ p % 2 = (a + b) % 2
        /\ q \in Nat /\ q \div 2 = Xor(n, cc, dd) /\ q % 2 = (c + d) % 2
    <3>1. XorParts(n, a, b) /\ XorParts(n, c, d)
      BY XorHalf
    <3> QED BY <2>2, <2>3, <3>1 DEF XorParts
  <2>5. /\ r \in Nat /\ r \div 2 = Xor(n, aa, cc) /\ r % 2 = (a + c) % 2
        /\ s \in Nat /\ s \div 2 = Xor(n, bb, dd) /\ s % 2 = (b + d) % 2
    <3>1. XorParts(n, a, c) /\ XorParts(n, b, d)
      BY XorHalf
    <3> QED BY <2>2, <2>3, <3>1 DEF XorParts
  <2>6. PICK y, z : y = Xor(n + 1, p, q) /\ z = Xor(n + 1, r, s)
    OBVIOUS
  <2>7. /\ y \in Nat /\ y \div 2 = Xor(n, p \div 2, q \div 2) /\ y % 2 = (p + q) % 2
        /\ z \in Nat /\ z \div 2 = Xor(n, r \div 2, s \div 2) /\ z % 2 = (r + s) % 2
    <3>1. XorParts(n, p, q) /\ XorParts(n, r, s)
      BY <2>4, <2>5, XorHalf
    <3> QED BY <2>6, <3>1 DEF XorParts
  <2>8. Crossed(n, aa, bb, cc, dd)
    BY <1>2
  <2>9. y \div 2 = z \div 2
    BY <2>4, <2>5, <2>7, <2>8 DEF Crossed
  <2>10. y % 2 = z % 2
    <3>1. p \in Nat /\ q \in Nat /\ r \in Nat /\ s \in Nat
      BY <2>4, <2>5
    <3>2. (p + q) % 2 = (r + s) % 2
      BY <3>1, <2>4, <2>5
    <3> QED BY <3>2, <2>7
  <2>11. y = z
    BY <2>7, <2>9, <2>10, HalfAndBit
  <2> QED BY <2>2, <2>6, <2>11 DEF Crossed
<1> HIDE DEF T
<1>3. \A n \in Nat : n \in T
  BY <1>1, <1>2, SetInduction
<1> QED BY <1>3 DEF T

\* What XOR-ing a number with another makes of it: itself for 0 alone, and the
\* other way round for the result.
LEMMA XorUndone ==
    \A n \in Nat : \A a \in Nat, b \in Nat :
        a < Pow2[n] /\ b < Pow2[n] =>
            /\ Xor(n, a, Xor(n, b, a)) = b
            /\ Xor(n, b, a) = b <=> a = 0
<1> DEFINE T == {n \in Nat : \A a \in Nat, b \in Nat :
                    a < Pow2[n] /\ b < Pow2[n] =>
                        /\ Xor(n, a, Xor(n, b, a)) = b
                        /\ Xor(n, b, a) = b <=> a = 0}
<1>1. 0 \in T
  <2>1. \A a \in Nat, b \in Nat : Xor(0, a, b) = 0
    BY XorStep
  <2>2. Pow2[0] = 1
    BY Pow2Facts
  <2>3. ASSUME NEW a \in Nat, NEW b \in Nat, a < Pow2[0], b < Pow2[0]
        PROVE  a = 0 /\ b = 0
    BY <2>2, <2>3
  <2> QED BY <2>1, <2>3
<1>2. ASSUME NEW n \in Nat, n \in T PROVE n + 1 \in T
  <2>1. SUFFICES ASSUME NEW a \in Nat, NEW b \in Nat, a < Pow2[n + 1], b < Pow2[n + 1]
                 PROVE  /\ Xor(n + 1, a, Xor(n + 1, b, a)) = b
                        /\ Xor(n + 1, b, a) = b <=> a = 0
    OBVIOUS
  <2>2. PICK h \in Nat : h = Pow2[n] /\ Pow2[n + 1] = 2 * h
    BY Pow2Facts
  <2>3. PICK aa \in Nat, bb \in Nat : aa = a \div 2 /\ bb = b \div 2 /\ aa < h /\ bb < h
    BY <2>1, <2>2
  <2>4. /\ Xor(n, aa, Xor(n, bb, aa)) = bb
        /\ Xor(n, bb, aa) = bb <=> aa = 0
    BY <1>2, <2>2, <2>3
  <2>5. PICK p : p = Xor(n + 1, b, a)
    OBVIOUS
  <2>6. p \in Nat /\ p \div 2 = Xor(n, bb, aa) /\ p % 2 = (b + a) % 2
    <3>1. XorParts(n, b, a)
      BY XorHalf
    <3> QED BY <2>3, <2>5, <3>1 DEF XorParts
  <2>7. PICK y : y = Xor(n + 1, a, p)
    OBVIOUS
  <2>8. y \in Nat /\ y \div 2 = Xor(n, aa, p \div 2) /\ y % 2 = (a + p) % 2
    <3>1. XorParts(n, a, p)
      BY <2>6, XorHalf
    <3> QED BY <2>3, <2>7, <3>1 DEF XorParts
  <2>9. y = b
    <3>1. y \div 2 = b \div 2
      BY <2>3, <2>4, <2>6, <2>8
    <3>2. y % 2 = b % 2
      BY <2>6, <2>8
    <3> QED BY <2>8, <3>1, <3>2, HalfAndBit
  <2>10. p = b <=> a = 0
    <3>1. a = 0 <=> aa = 0 /\ a % 2 = 0
      BY <2>3
    <3>2. (b + a) % 2 = b % 2 <=> a % 2 = 0
      OBVIOUS
    <3>3. p = b <=> p \div 2 = b \div 2 /\ p % 2 = b % 2
      BY <2>6, HalfAndBit
    <3> QED BY <3>1, <3>2, <3>3, <2>3, <2>4, <2>6
  <2> QED BY <2>5, <2>7, <2>9, <2>10
<1> HIDE DEF T
<1>3. \A n \in Nat : n \in T
  BY <1>1, <1>2, SetInduction
<1> QED BY <1>3 DEF T

\* The XOR of quotients, and the digits of a XOR.
LEMMA XorQuotient ==
    \A s \in Nat : \A n \in Nat, a \in Nat, b \in Nat :
        Xor(n + s, a, b) \div Pow2[s] = Xor(n, a \div Pow2[s], b \div Pow2[s])
<1> DEFINE Q(s) == \A n \in Nat, a \in Nat, b \in Nat :
                      Xor(n + s, a, b) \div Pow2[s] = Xor(n, a \div Pow2[s], b \div Pow2[s])
           T == {s \in Nat : Q(s)}
<1>1. 0 \in T
  <2>1. ASSUME NEW n \in Nat, NEW a \in Nat, NEW b \in Nat
        PROVE  Xor(n + 0, a, b) \div Pow2[0] = Xor(n, a \div Pow2[0], b \div Pow2[0])
    <3>1. n + 0 = n /\ Xor(n, a, b) \in Nat
      BY XorRange
    <3>2. a \div Pow2[0] = a /\ b \div Pow2[0] = b /\ Xor(n, a, b) \div Pow2[0] = Xor(n, a, b)
      BY <3>1, QuotientHalf
    <3> QED BY <3>1, <3>2
  <2> QED BY <2>1
<1>2. ASSUME NEW s \in Nat, s \in T PROVE s + 1 \in T
  <2>1. ASSUME NEW n \in Nat, NEW a \in Nat, NEW b \in Nat
        PROVE  Xor(n + (s + 1), a, b) \div Pow2[s + 1]
                 = Xor(n, a \div Pow2[s + 1], b \div Pow2[s + 1])
    <3>1. n + (s + 1) = (n + 1) + s /\ n + 1 \in Nat /\ n + (s + 1) \in Nat
      OBVIOUS
    <3>2. PICK x : x = Xor(n + (s + 1), a, b)
      OBVIOUS
    <3>3. x \in Nat
      BY <3>1, <3>2, XorRange
    <3>4. PICK aa, bb : aa = a \div Pow2[s] /\ bb = b \div Pow2[s]
      OBVIOUS
    <3>5. aa \in Nat /\ bb \in Nat /\ a \div Pow2[s + 1] = aa \div 2 /\ b \div Pow2[s + 1] = bb \div 2
      BY <3>4, QuotientHalf
    <3>6. x \div Pow2[s] = Xor(n + 1, aa, bb)
      BY <1>2, <3>1, <3>2, <3>4
    <3>7. x \div Pow2[s + 1] = (x \div Pow2[s]) \div 2
      BY <3>3, QuotientHalf
    <3>8. Xor(n + 1, aa, bb) \div 2 = Xor(n, aa \div 2, bb \div 2)
      BY <3>5, XorHalf DEF XorParts
    <3> QED BY <3>2, <3>5, <3>6, <3>7, <3>8
  <2> QED BY <2>1
<1> HIDE DEF T
<1>3. \A s \in Nat : s \in T
  BY <1>1, <1>2, SetInduction
<1> QED BY <1>3 DEF T

LEMMA XorDigit ==
    ASSUME NEW n \in Nat, NEW k \in Nat, k < n, NEW a \in Nat, NEW b \in Nat
    PROVE  Digit(Xor(n, a, b), k) = (Digit(a, k) + Digit(b, k)) % 2
<1>1. PICK m \in Nat : n = (m + 1) + k
  <2>1. n - k - 1 \in Nat /\ n = ((n - k - 1) + 1) + k
    OBVIOUS
  <2> QED BY <2>1
<1>2. PICK aa \in Nat, bb \in Nat : aa = a \div Pow2[k] /\ bb = b \div Pow2[k]
  BY QuotientHalf
<1>3. Xor(n, a, b) \div Pow2[k] = Xor(m + 1, aa, bb)
  BY <1>1, <1>2, XorQuotient
<1>4. Xor(m + 1, aa, bb) % 2 = (aa + bb) % 2
  <2>1. XorParts(m, aa, bb)
    BY XorHalf
  <2> QED BY <2>1 DEF XorParts
<1>5. (aa + bb) % 2 = ((aa % 2) + (bb % 2)) % 2
  OBVIOUS
<1> QED BY <1>2, <1>3, <1>4, <1>5 DEF Digit

LEMMA XorBelow ==
    ASSUME NEW n \in Nat, NEW d \in Nat, d <= n, NEW a \in Nat, NEW b \in Nat,
           a < Pow2[d], b < Pow2[d]
    PROVE  Xor(n, a, b) \in Nat /\ Xor(n, a, b) < Pow2[d]
<1>1. PICK m \in Nat : n = m + d
  <2>1. n - d \in Nat /\ n = (n - d) + d
    OBVIOUS
  <2> QED BY <2>1
<1>2. a \div Pow2[d] = 0 /\ b \div Pow2[d] = 0
  BY BelowPower
<1>3. Xor(n, a, b) \div Pow2[d] = Xor(m, 0, 0)
  BY <1>1, <1>2, XorQuotient
<1>4. 0 < Pow2[m]
  BY Pow2Facts
<1>5. Xor(m, 0, 0) = 0
  BY <1>4, XorUndone
<1>6. Xor(n, a, b) \in Nat
  BY XorRange
<1> QED BY <1>3, <1>5, <1>6, BelowPower

\* The XOR with 0 and with itself.
LEMMA XorSelf ==
    ASSUME NEW n \in Nat, NEW a \in Nat, a < Pow2[n]
    PROVE  Xor(n, a, 0) = a /\ Xor(n, 0, a) = a /\ Xor(n, a, a) = 0
<1>1. 0 \in Nat /\ 0 < Pow2[n]
  BY Pow2Facts
<1>2. Xor(n, a, 0) = a
  BY <1>1, XorUndone
<1>3. Xor(n, 0, a) = a
  BY <1>1, <1>2, XorCommutes
<1>4. Xor(n, a, Xor(n, 0, a)) = 0
  BY <1>1, XorUndone
<1> QED BY <1>2, <1>3, <1>4

\* Numbers whose digits from the lowest up to z differ, those below z being 0
\* in n and 1 in p: n follows p, or begins anew.
Carry(n, p, z) ==
    /\ \A k \in Nat : k < z => Digit(n, k) = 0 /\ Digit(p, k) = 1
    /\ Digit(n, z) # Digit(p, z)
    /\ n \div Pow2[z + 1] = p \div Pow2[z + 1]

CarriesAt(n, p, z, d) == z \in Nat /\ z < d /\ Digit(n, z) = 1 /\ Carry(n, p, z)

LEMMA CarryExists ==
    \A d \in Nat : \A n \in Nat : 0 < n /\ n < Pow2[d] => \E z : CarriesAt(n, n - 1, z, d)
<1> DEFINE Q(d) == \A n \in Nat : 0 < n /\ n < Pow2[d] => \E z : CarriesAt(n, n - 1, z, d)
           T == {d \in Nat : Q(d)}
<1>1. 0 \in T
  <2>1. Pow2[0] = 1
    BY Pow2Facts
  <2> QED BY <2>1
<1>2. ASSUME NEW d \in Nat, d \in T PROVE d + 1 \in T
  <2>1. ASSUME NEW n \in Nat, 0 < n, n < Pow2[d + 1]
        PROVE  \E z : CarriesAt(n, n - 1, z, d + 1)
    <3>1. PICK p \in Nat : p = n - 1
      BY <2>1
    <3>2. /\ Digit(n, 0) = n % 2 /\ Digit(p, 0) = p % 2
          /\ n \div Pow2[1] = n \div 2 /\ p \div Pow2[1] = p \div 2
      BY DigitOfHalf
    <3>3. CASE n % 2 = 1
      <4>1. p % 2 = 0 /\ n \div 2 = p \div 2
        BY <2>1, <3>1, <3>3
      <4>2. Carry(n, p, 0)
        <5>1. \A k \in Nat : ~ (k < 0)
          OBVIOUS
        <5>2. 0 + 1 = 1
          OBVIOUS
        <5> QED BY <3>2, <3>3, <4>1, <5>1, <5>2 DEF Carry
      <4>3. 0 \in Nat /\ 0 < d + 1
        OBVIOUS
      <4>4. CarriesAt(n, p, 0, d + 1)
        BY <3>2, <3>3, <4>2, <4>3 DEF CarriesAt
      <4> QED BY <3>1, <4>4
    <3>4. CASE n % 2 = 0
      <4>1. PICK m \in Nat : m = n \div 2
        OBVIOUS
      <4>2. m > 0 /\ p % 2 = 1 /\ p \div 2 = m - 1
        BY <2>1, <3>1, <3>4, <4>1
      <4>3. m < Pow2[d]
        <5>1. PICK h \in Nat : h = Pow2[d] /\ Pow2[d + 1] = 2 * h
          BY Pow2Facts
        <5> QED BY <2>1, <4>1, <5>1
      <4>4. PICK z : CarriesAt(m, m - 1, z, d)
        BY <1>2, <4>2, <4>3
      <4>5. z \in Nat /\ z < d /\ Digit(m, z) = 1 /\ Carry(m, m - 1, z)
        BY <4>4 DEF CarriesAt
      <4>6. \A k \in Nat : /\ Digit(n, k + 1) = Digit(m, k) /\ Digit(p, k + 1) = Digit(m - 1, k)
                           /\ n \div Pow2[k + 1] = m \div Pow2[k]
                           /\ p \div Pow2[k + 1] = (m - 1) \div Pow2[k]
        <5>1. m - 1 \in Nat /\ p \div 2 = m - 1 /\ n \div 2 = m
          BY <4>1, <4>2
        <5> HIDE DEF T
        <5>2. ASSUME NEW k \in Nat
              PROVE  /\ (n \div 2) \div Pow2[k] = n \div Pow2[k + 1] /\ Digit(n \div 2, k) = Digit(n, k + 1)
                     /\ (p \div 2) \div Pow2[k] = p \div Pow2[k + 1] /\ Digit(p \div 2, k) = Digit(p, k + 1)
          BY DigitOfHalf
        <5> QED BY <5>1, <5>2
      <4>7. Carry(n, p, z + 1)
        <5>1. ASSUME NEW k \in Nat, k < z + 1 PROVE Digit(n, k) = 0 /\ Digit(p, k) = 1
          <6>1. CASE k = 0
            BY <6>1, <3>2, <3>4, <4>2
          <6>2. CASE k # 0
            <7>1. PICK j \in Nat : k = j + 1 /\ j < z
              <8>1. k - 1 \in Nat /\ k = (k - 1) + 1 /\ k - 1 < z
                BY <5>1, <6>2, <4>5
              <8> QED BY <8>1
            <7> QED BY <7>1, <4>5, <4>6 DEF Carry
          <6> QED BY <6>1, <6>2
        <5>2. Digit(n, z + 1) # Digit(p, z + 1)
          BY <4>5, <4>6 DEF Carry
        <5>3. n \div Pow2[(z + 1) + 1] = p \div Pow2[(z + 1) + 1]
          <6>1. z + 1 \in Nat
            BY <4>5
          <6> QED BY <4>5, <4>6, <6>1 DEF Carry
        <5> QED BY <5>1, <5>2, <5>3 DEF Carry
      <4>8. CarriesAt(n, p, z + 1, d + 1)
        <5>1. z + 1 \in Nat /\ z + 1 < d + 1
          BY <4>5
        <5> QED BY <4>5, <4>6, <4>7, <5>1 DEF CarriesAt
      <4> QED BY <3>1, <4>8
    <3> QED BY <3>3, <3>4
  <2> QED BY <2>1
<1> HIDE DEF T
<1>3. \A d \in Nat : d \in T
  BY <1>1, <1>2, SetInduction
<1> QED BY <1>3 DEF T

\* From the last number of d digits to 0.
LEMMA CarryWraps ==
    \A d \in Nat : Carry(0, Pow2[d + 1] - 1, d)
<1> DEFINE T == {d \in Nat : Carry(0, Pow2[d + 1] - 1, d)}
<1>1. \A k \in Nat : Digit(0, k) = 0 /\ 0 \div Pow2[k] = 0
  <2>1. ASSUME NEW k \in Nat PROVE Digit(0, k) = 0 /\ 0 \div Pow2[k] = 0
    <3>1. 0 < Pow2[0]
      BY Pow2Facts
    <3> QED BY <3>1, BelowNext
  <2> QED BY <2>1
<1>2. \A d \in Nat : /\ Pow2[d + 1] - 1 \in Nat
                     /\ (Pow2[d + 1] - 1) % 2 = 1 /\ (Pow2[d + 1] - 1) \div 2 = Pow2[d] - 1
  <2>1. ASSUME NEW d \in Nat
        PROVE  /\ Pow2[d + 1] - 1 \in Nat
               /\ (Pow2[d + 1] - 1) % 2 = 1 /\ (Pow2[d + 1] - 1) \div 2 = Pow2[d] - 1
    <3>1. PICK h \in Nat : h = Pow2[d] /\ h > 0 /\ Pow2[d + 1] = 2 * h
      BY Pow2Facts
    <3>2. (2 * h - 1) % 2 = 1 /\ (2 * h - 1) \div 2 = h - 1
      BY <3>1
    <3> QED BY <3>1, <3>2
  <2> QED BY <2>1
<1>3. \A d \in Nat : \A k \in Nat :
         /\ Digit(Pow2[d + 1] - 1, 0) = 1
         /\ (Pow2[d + 1] - 1) \div Pow2[1] = Pow2[d] - 1
         /\ Digit(Pow2[d + 1] - 1, k + 1) = Digit(Pow2[d] - 1, k)
         /\ (Pow2[d + 1] - 1) \div Pow2[k + 1] = (Pow2[d] - 1) \div Pow2[k]
  <2>1. ASSUME NEW d \in Nat, NEW k \in Nat, NEW v, v = Pow2[d + 1] - 1
        PROVE  /\ Digit(v, 0) = 1
               /\ v \div Pow2[1] = Pow2[d] - 1
               /\ Digit(v, k + 1) = Digit(Pow2[d] - 1, k)
               /\ v \div Pow2[k + 1] = (Pow2[d] - 1) \div Pow2[k]
    <3>1. v \in Nat /\ v % 2 = 1 /\ v \div 2 = Pow2[d] - 1
      BY <1>2, <2>1
    <3> QED BY <3>1, DigitOfHalf
  <2> QED BY <2>1
<1>4. 0 \in T
  <2>1. \A k \in Nat : ~ (k < 0)
    OBVIOUS
  <2>2. 0 + 1 = 1 /\ Pow2[0] - 1 = 0
    BY Pow2Facts
  <2>3. (Pow2[1] - 1) \div Pow2[1] = 0 /\ Digit(Pow2[1] - 1, 0) = 1
    BY <1>3, <2>2
  <2> QED BY <1>1, <2>1, <2>2, <2>3 DEF Carry
<1>5. ASSUME NEW d \in Nat, d \in T PROVE d + 1 \in T
  <2>1. PICK v, w : v = Pow2[(d + 1) + 1] - 1 /\ w = Pow2[d + 1] - 1
    OBVIOUS
  <2>2. Carry(0, w, d)
    BY <1>5, <2>1
  <2>3. /\ Digit(v, 0) = 1
        /\ \A k \in Nat : Digit(v, k + 1) = Digit(w, k) /\ v \div Pow2[k + 1] = w \div Pow2[k]
    <3>1. d + 1 \in Nat
      OBVIOUS
    <3> QED BY <1>3, <2>1, <3>1
  <2>4. ASSUME NEW k \in Nat, k < d + 1 PROVE Digit(v, k) = 1
    <3>1. CASE k = 0
      BY <3>1, <2>3
    <3>2. CASE k # 0
      <4>1. PICK j \in Nat : k = j + 1 /\ j < d
        <5>1. k - 1 \in Nat /\ k = (k - 1) + 1 /\ k - 1 < d
          BY <2>4, <3>2
        <5> QED BY <5>1
      <4> QED BY <2>2, <2>3, <4>1 DEF Carry
    <3> QED BY <3>1, <3>2
  <2>5. Digit(v, d + 1) = Digit(w, d) /\ Digit(w, d) # Digit(0, d)
    BY <2>2, <2>3 DEF Carry
  <2>6. v \div Pow2[(d + 1) + 1] = w \div Pow2[d + 1] /\ 0 \div Pow2[d + 1] = w \div Pow2[d + 1]
    <3>1. d + 1 \in Nat
      OBVIOUS
    <3> QED BY <2>2, <2>3, <3>1 DEF Carry
  <2>7. Carry(0, v, d + 1)
    <3>1. d + 1 \in Nat /\ (d + 1) + 1 \in Nat
      OBVIOUS
    <3>2. Digit(0, d + 1) = Digit(0, d) /\ 0 \div Pow2[(d + 1) + 1] = 0 \div Pow2[d + 1]
      BY <1>1, <3>1
    <3> QED BY <1>1, <2>4, <2>5, <2>6, <3>1, <3>2 DEF Carry
  <2> QED BY <2>1, <2>7
<1> HIDE DEF T
<1>6. \A d \in Nat : d \in T
  BY <1>4, <1>5, SetInduction
<1> QED BY <1>6 DEF T

\* The ones of a number up to place b.
Ones(y, b) == {k \in 0 .. b : Digit(y, k) = 1}

\* After a carry the XOR has ones up to its place: an even number with the same
\* half has as many as the place says.
PartsOff(d, n, p, z, y) ==
    /\ n < Pow2[d] /\ p < Pow2[d] /\ z < d /\ Carry(n, p, z)
    /\ y % 2 = 0 /\ y \div 2 = Xor(d, n, p) \div 2
LEMMA CarryOnes ==
    ASSUME NEW d \in Nat, NEW n \in Nat, NEW p \in Nat, NEW z \in Nat, NEW y \in Nat,
           PartsOff(d, n, p, z, y), NEW b \in Nat, z <= b
    PROVE  Ones(y, b) = 1 .. z
<1>0. /\ n < Pow2[d] /\ p < Pow2[d] /\ z < d /\ Carry(n, p, z)
      /\ y % 2 = 0 /\ y \div 2 = Xor(d, n, p) \div 2
  BY DEF PartsOff
<1> USE <1>0
<1> DEFINE x == Xor(d, n, p)
<1>1. x \in Nat /\ x < Pow2[d]
  BY XorRange
<1>2. ASSUME NEW k \in Nat PROVE Digit(x, k) = 1 <=> k <= z
  <2>1. CASE k < z
    <3>1. Digit(n, k) = 0 /\ Digit(p, k) = 1
      BY <2>1 DEF Carry
    <3>2. Digit(x, k) = (Digit(n, k) + Digit(p, k)) % 2
      BY <2>1, XorDigit
    <3> QED BY <2>1, <3>1, <3>2
  <2>2. CASE k = z
    <3>1. Digit(n, k) # Digit(p, k) /\ Digit(n, k) \in {0, 1} /\ Digit(p, k) \in {0, 1}
      BY <2>2, QuotientOfPower DEF Carry
    <3>2. Digit(x, k) = (Digit(n, k) + Digit(p, k)) % 2
      BY <2>2, XorDigit
    <3> QED BY <2>2, <3>1, <3>2
  <2>3. CASE k > z /\ k < d
    <3>1. z + 1 \in Nat /\ z + 1 <= k
      BY <2>3
    <3>2. Digit(n, k) = Digit(p, k) /\ Digit(n, k) \in {0, 1}
      <4>1. n \div Pow2[z + 1] = p \div Pow2[z + 1]
        BY DEF Carry
      <4>2. Digit(n, k) = Digit(p, k)
        BY <3>1, <4>1, SameAbove
      <4> QED BY <4>2, QuotientOfPower
    <3>3. Digit(x, k) = (Digit(n, k) + Digit(p, k)) % 2
      BY <2>3, XorDigit
    <3> QED BY <2>3, <3>2, <3>3
  <2>4. CASE k >= d
    <3>1. Digit(x, k) = 0
      BY <1>1, <2>4, BelowNext
    <3> QED BY <2>4, <3>1
  <2> QED BY <2>1, <2>2, <2>3, <2>4
<1> HIDE DEF x
<1>3. Digit(y, 0) = 0
  BY DigitOfHalf
<1>4. ASSUME NEW k \in Nat, k # 0 PROVE Digit(y, k) = Digit(x, k)
  <2>1. PICK j \in Nat : k = j + 1
    <3>1. k - 1 \in Nat /\ k = (k - 1) + 1
      BY <1>4
    <3> QED BY <3>1
  <2>2. Digit(y \div 2, j) = Digit(y, j + 1) /\ Digit(x \div 2, j) = Digit(x, j + 1)
    BY <1>1, DigitOfHalf
  <2> QED BY <2>1, <2>2 DEF x
<1>5. ASSUME NEW k \in Nat PROVE Digit(y, k) = 1 <=> k # 0 /\ k <= z
  BY <1>2, <1>3, <1>4
<1>6. \A k : k \in Ones(y, b) <=> k \in 1 .. z
  BY <1>5 DEF Ones
<1> QED BY <1>6

-----------------------------------------------------------------------------
(* The items of an array.                                                  *)

\* The cells up to n that hold v.
Items(B, n, v) == {i \in 1 .. n : B[i] = v}

LEMMA ItemsFinite ==
    ASSUME NEW n \in Nat, NEW B, NEW v
    PROVE  IsFiniteSet(Items(B, n, v)) /\ Cardinality(Items(B, n, v)) \in Nat
<1>1. IsFiniteSet(1 .. n)
  BY FS_Interval
<1>2. Items(B, n, v) \in SUBSET (1 .. n)
  BY DEF Items
<1>3. IsFiniteSet(Items(B, n, v))
  BY <1>1, <1>2, FS_Subset
<1> QED BY <1>3, FS_CardinalityType

\* The last cell adds one to the count of its value.
LEMMA LastItem ==
    ASSUME NEW n \in Nat, n >= 1, NEW B, NEW v
    PROVE  Cardinality(Items(B, n, v)) =
             IF B[n] = v THEN Cardinality(Items(B, n - 1, v)) + 1
             ELSE Cardinality(Items(B, n - 1, v))
<1> DEFINE S == Items(B, n - 1, v)
<1>1. IsFiniteSet(S)
  BY ItemsFinite
<1>2. n \notin S
  BY DEF Items
<1>3. CASE B[n] = v
  <2>1. Items(B, n, v) = S \cup {n}
    BY <1>3 DEF Items
  <2> HIDE DEF S
  <2>2. Cardinality(S \cup {n}) = Cardinality(S) + 1
    BY <1>1, <1>2, FS_AddElement
  <2> QED BY <1>3, <2>1, <2>2 DEF S
<1>4. CASE B[n] # v
  <2>1. Items(B, n, v) = S
    BY <1>4 DEF Items
  <2> QED BY <1>4, <2>1
<1> QED BY <1>3, <1>4

\* Arrays that agree up to n hold the same items.
LEMMA SameArray ==
    ASSUME NEW n, NEW B, NEW C, NEW v, \A i \in 1 .. n : C[i] = B[i]
    PROVE  Items(C, n, v) = Items(B, n, v)
BY DEF Items

\* Each of the first n cells of C has the item of its own cell of B.
Rearranges(h, n, B, C) ==
    /\ h \in [1 .. n -> 1 .. n]
    /\ \A i, j \in 1 .. n : h[i] = h[j] => i = j
    /\ \A j \in 1 .. n : \E i \in 1 .. n : h[i] = j
    /\ \A i \in 1 .. n : C[i] = B[h[i]]

\* Moving the items to other cells keeps the count of every value.
LEMMA Rearranged ==
    ASSUME NEW n \in Nat, NEW B, NEW C, NEW v, NEW h, Rearranges(h, n, B, C)
    PROVE  Cardinality(Items(C, n, v)) = Cardinality(Items(B, n, v))
<1> DEFINE S == Items(C, n, v)
           T == Items(B, n, v)
           g == [i \in S |-> h[i]]
<1> USE DEF Rearranges
<1>1. g \in [S -> T]
  BY DEF Items
<1>2. \A i, j \in S : g[i] = g[j] => i = j
  BY DEF Items
<1>3. \A j \in T : \E i \in S : g[i] = j
  <2> TAKE j \in T
  <2>1. j \in 1 .. n /\ B[j] = v
    BY DEF Items
  <2>2. PICK i \in 1 .. n : h[i] = j
    BY <2>1
  <2>3. i \in S
    BY <2>1, <2>2 DEF Items
  <2> QED BY <2>2, <2>3
<1> HIDE DEF S, T, g
<1>4. g \in Bijection(S, T)
  <2>1. DOMAIN g = S
    BY <1>1
  <2> QED BY <1>1, <1>2, <1>3, <2>1 DEF Bijection, Injection, Surjection, IsInjective
<1>5. ExistsBijection(S, T)
  BY <1>4 DEF ExistsBijection
<1>6. IsFiniteSet(S)
  BY ItemsFinite DEF S
<1> QED BY <1>5, <1>6, FS_Bijection DEF S, T

\* An exchange of two cells is a rearrangement, and so is nothing at all.
LEMMA ExchangeRearranges ==
    ASSUME NEW n \in Nat, NEW B, NEW C, NEW a \in 1 .. n, NEW b \in 1 .. n,
           C[a] = B[b], C[b] = B[a],
           \A i \in 1 .. n : i # a /\ i # b => C[i] = B[i]
    PROVE  \E h : Rearranges(h, n, B, C)
<1> DEFINE h == [i \in 1 .. n |-> IF i = a THEN b ELSE IF i = b THEN a ELSE i]
<1>1. /\ h \in [1 .. n -> 1 .. n]
      /\ \A i \in 1 .. n : h[i] = IF i = a THEN b ELSE IF i = b THEN a ELSE i
  OBVIOUS
<1> HIDE DEF h
<1>2. \A i, j \in 1 .. n : h[i] = h[j] => i = j
  BY <1>1
<1>3. \A i \in 1 .. n : h[h[i]] = i
  BY <1>1
<1>4. \A j \in 1 .. n : \E i \in 1 .. n : h[i] = j
  BY <1>1, <1>3
<1>5. \A i \in 1 .. n : C[i] = B[h[i]]
  BY <1>1
<1> QED BY <1>1, <1>2, <1>4, <1>5 DEF Rearranges

\* So an exchange of two cells keeps the count of every value.
LEMMA Exchanged ==
    ASSUME NEW n \in Nat, NEW B, NEW C, NEW v, NEW a \in 1 .. n, NEW b \in 1 .. n,
           C[a] = B[b], C[b] = B[a],
           \A i \in 1 .. n : i # a /\ i # b => C[i] = B[i]
    PROVE  Cardinality(Items(C, n, v)) = Cardinality(Items(B, n, v))
<1>1. PICK h : Rearranges(h, n, B, C)
  BY ExchangeRearranges
<1> QED BY <1>1, Rearranged

LEMMA SameRearranges ==
    ASSUME NEW n \in Nat, NEW B, NEW C, \A i \in 1 .. n : C[i] = B[i]
    PROVE  \E h : Rearranges(h, n, B, C)
<1> DEFINE h == [i \in 1 .. n |-> i]
<1>1. Rearranges(h, n, B, C)
  BY DEF Rearranges
<1> QED BY <1>1

\* One rearrangement after another is one.
LEMMA TwiceRearranged ==
    ASSUME NEW n \in Nat, NEW B, NEW C, NEW D, NEW h, NEW k,
           Rearranges(h, n, B, C), Rearranges(k, n, C, D)
    PROVE  \E m : Rearranges(m, n, B, D)
<1> DEFINE m == [i \in 1 .. n |-> h[k[i]]]
<1>1. m \in [1 .. n -> 1 .. n] /\ \A i \in 1 .. n : m[i] = h[k[i]] /\ k[i] \in 1 .. n
  BY DEF Rearranges
<1> HIDE DEF m
<1>2. ASSUME NEW i \in 1 .. n, NEW j \in 1 .. n, m[i] = m[j] PROVE i = j
  <2>1. \A x, y \in 1 .. n : h[x] = h[y] => x = y
    BY DEF Rearranges
  <2>2. k[i] \in 1 .. n /\ k[j] \in 1 .. n /\ h[k[i]] = h[k[j]]
    BY <1>1, <1>2
  <2>3. k[i] = k[j]
    BY <2>1, <2>2
  <2> QED BY <2>3 DEF Rearranges
<1>3. ASSUME NEW j \in 1 .. n PROVE \E i \in 1 .. n : m[i] = j
  <2>1. PICK x \in 1 .. n : h[x] = j
    BY DEF Rearranges
  <2>2. PICK i \in 1 .. n : k[i] = x
    BY DEF Rearranges
  <2> QED BY <1>1, <2>1, <2>2
<1>4. ASSUME NEW i \in 1 .. n PROVE D[i] = B[m[i]]
  <2>1. D[i] = C[k[i]] /\ C[k[i]] = B[h[k[i]]]
    BY <1>1 DEF Rearranges
  <2> QED BY <1>1, <2>1
<1>5. Rearranges(m, n, B, D)
  BY <1>1, <1>2, <1>3, <1>4 DEF Rearranges
<1> QED BY <1>5

\* A rearrangement holds the same items, and each once if they were once each.
LEMMA SameItems ==
    ASSUME NEW n \in Nat, NEW B, NEW C, NEW h, Rearranges(h, n, B, C)
    PROVE  /\ {C[i] : i \in 1 .. n} = {B[i] : i \in 1 .. n}
           /\ (\A i, j \in 1 .. n : i # j => B[i] # B[j])
                => \A i, j \in 1 .. n : i # j => C[i] # C[j]
<1>1. ASSUME NEW i \in 1 .. n PROVE C[i] \in {B[j] : j \in 1 .. n}
  <2>1. C[i] = B[h[i]] /\ h[i] \in 1 .. n
    BY DEF Rearranges
  <2> QED BY <2>1
<1>2. ASSUME NEW j \in 1 .. n PROVE B[j] \in {C[i] : i \in 1 .. n}
  <2>1. PICK i \in 1 .. n : h[i] = j
    BY DEF Rearranges
  <2>2. C[i] = B[j]
    BY <2>1 DEF Rearranges
  <2> QED BY <2>2
<1>3. ASSUME \A i, j \in 1 .. n : i # j => B[i] # B[j], NEW i \in 1 .. n, NEW j \in 1 .. n,
             i # j
      PROVE  C[i] # C[j]
  <2>1. h[i] # h[j] /\ h[i] \in 1 .. n /\ h[j] \in 1 .. n
    BY <1>3 DEF Rearranges
  <2>2. C[i] = B[h[i]] /\ C[j] = B[h[j]]
    BY DEF Rearranges
  <2> QED BY <1>3, <2>1, <2>2
<1> QED BY <1>1, <1>2, <1>3
=============================================================================
