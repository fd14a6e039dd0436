---------------------------- MODULE DuoramProofs ----------------------------
(***************************************************************************)
(* Proofs about Duoram.tla.  Every state has a past: every player is       *)
(* somewhere along one sequence of controls, what it holds came about step *)
(* by step, and every link carries a window of the sequence of the         *)
(* messages that are ever queued on it.  That is the inductive invariant   *)
(* of the protocol, and the first part of this module.  What makes the     *)
(* protocol correct is then an induction along the past, the second part:  *)
(* the blinds and the blinded databases agree, the shares of the parties   *)
(* add up to the memory, reads get the cell at their index, and writes     *)
(* take effect.                                                            *)
(*                                                                         *)
(* First the arithmetic of shares, sums over the cells, and queues as      *)
(* windows of a log.  Then the control of a player.  Which slice it runs   *)
(* next, and over which links it receives and sends there, depends on the  *)
(* script alone: so all three players go through the same sequence of      *)
(* controls, each at its own pace.  The counters of a control say which    *)
(* message of a link each waiting coroutine is waiting for.                *)
(*                                                                         *)
(* A fact about the data of several players after j steps is stated of     *)
(* those that have taken j steps; it does not matter in which order the    *)
(* players took them.                                                      *)
(***************************************************************************)
EXTENDS Duoram, Basics, SequenceTheorems

-----------------------------------------------------------------------------
(* Values are a ring.                                                      *)

Red(x) == Residue(x, M)

LEMMA RedOps ==
    ASSUME NEW x \in Int, NEW y \in Int
    PROVE  /\ Add(Red(x), Red(y)) = Red(x + y)
           /\ Sub(Red(x), Red(y)) = Red(x - y)
           /\ Mul(Red(x), Red(y)) = Red(x * y)
<1>1. M \in Nat /\ M > 0
  BY RingAssumption
<1> DEFINE r == Residue(x, M)
           s == Residue(y, M)
<1>2. /\ Residue(r + s, M) = Residue(x + y, M)
      /\ Residue(r + M - s, M) = Residue(x - y, M)
      /\ Residue(r * s, M) = Residue(x * y, M)
  BY <1>1, ResidueOps
<1> HIDE DEF r, s
<1>3. /\ Add(r, s) = Residue(r + s, M)
      /\ Sub(r, s) = Residue(r + M - s, M)
      /\ Mul(r, s) = Residue(r * s, M)
  BY DEF Add, Sub, Mul, Residue
<1> QED BY <1>2, <1>3 DEF r, s, Red

LEMMA RedValue ==
    /\ \A x \in Int : Red(x) \in Values
    /\ \A v \in Values : v \in Int /\ Red(v) = v
<1>1. M \in Nat /\ M > 0
  BY RingAssumption
<1>2. ASSUME NEW x \in Int PROVE Red(x) \in Values
  BY <1>1, Residues DEF Red, Values
<1>3. ASSUME NEW v \in Values PROVE Red(v) = v
  <2>1. Apart(v, v, 0, M) /\ v \in 0 .. M - 1
    BY <1>1 DEF Values, Apart
  <2> QED BY <1>1, <2>1, ResidueUnique DEF Red
<1>4. \A v \in Values : v \in Int
  BY <1>1 DEF Values
<1> QED BY <1>2, <1>3, <1>4

\* With these two lemmas the provers decide equations between sums and
\* differences of values; those below are for products.
LEMMA RedSums ==
    \A x, y \in Int : /\ Add(Red(x), Red(y)) = Red(x + y)
                      /\ Sub(Red(x), Red(y)) = Red(x - y)
BY RedOps

LEMMA AddType ==
    \A a, b \in Values : /\ Add(a, b) \in Values /\ Sub(a, b) \in Values
                         /\ Mul(a, b) \in Values /\ 0 \in Values /\ 1 % M \in Values
<1>1. ASSUME NEW a \in Values, NEW b \in Values
      PROVE  Add(a, b) \in Values /\ Sub(a, b) \in Values /\ Mul(a, b) \in Values
  BY RedOps, RedValue
<1>2. 0 \in Values /\ 1 % M \in Values
  <2>1. Red(1) = 1 % M /\ 0 \in Values
    BY RingAssumption DEF Red, Residue, Values
  <2> QED BY <2>1, RedValue
<1> QED BY <1>1, <1>2

LEMMA AddCommutes ==
    ASSUME NEW a \in Values, NEW b \in Values
    PROVE  Add(a, b) = Add(b, a)
<1>1. a \in Int /\ b \in Int
  BY RedValue
<1>2. a + b = b + a
  BY <1>1
<1> QED BY <1>2 DEF Add

LEMMA Exchange ==
    ASSUME NEW a \in Values, NEW b \in Values, NEW c \in Values, NEW d \in Values
    PROVE  Add(Add(a, b), Add(c, d)) = Add(Add(a, c), Add(b, d))
BY RedSums, RedValue

LEMMA Unmask ==
    ASSUME NEW a \in Values, NEW b \in Values, NEW c \in Values, NEW d \in Values
    PROVE  Add(Add(c, d), Add(Sub(a, c), Sub(b, d))) = Add(a, b)
<1>1. /\ a \in Int /\ b \in Int /\ c \in Int /\ d \in Int
      /\ Red(a) = a /\ Red(b) = b /\ Red(c) = c /\ Red(d) = d
  BY RedValue
<1>2. /\ Add(c, d) = Red(c + d) /\ Sub(a, c) = Red(a - c) /\ Sub(b, d) = Red(b - d)
      /\ Add(a, b) = Red(a + b)
  BY <1>1, RedSums
<1>3. Add(Sub(a, c), Sub(b, d)) = Red((a - c) + (b - d))
  BY <1>1, <1>2, RedSums
<1>4. Add(Add(c, d), Add(Sub(a, c), Sub(b, d))) = Red((c + d) + ((a - c) + (b - d)))
  BY <1>1, <1>2, <1>3, RedSums
<1>5. (c + d) + ((a - c) + (b - d)) = a + b
  BY <1>1
<1> QED BY <1>2, <1>4, <1>5

SameSum(a, b, c, d, e, f) ==
    Add(Add(a, Add(b, e)), Add(c, Add(d, f))) = Add(Add(f, e), Add(Add(a, b), Add(d, c)))

LEMMA Regroup ==
    ASSUME NEW a \in Values, NEW b \in Values, NEW c \in Values, NEW d \in Values,
           NEW e \in Values, NEW f \in Values
    PROVE  SameSum(a, b, c, d, e, f)
<1>1. /\ a \in Int /\ b \in Int /\ c \in Int /\ d \in Int /\ e \in Int /\ f \in Int
      /\ Red(a) = a /\ Red(b) = b /\ Red(c) = c /\ Red(d) = d /\ Red(e) = e /\ Red(f) = f
  BY RedValue
<1>2. /\ Add(b, e) = Red(b + e) /\ Add(d, f) = Red(d + f) /\ Add(f, e) = Red(f + e)
      /\ Add(a, b) = Red(a + b) /\ Add(d, c) = Red(d + c)
  BY <1>1, RedSums
<1>3. /\ Add(a, Add(b, e)) = Red(a + (b + e)) /\ Add(c, Add(d, f)) = Red(c + (d + f))
      /\ Add(Add(a, b), Add(d, c)) = Red((a + b) + (d + c))
  BY <1>1, <1>2, RedSums
<1>4. /\ Add(Add(a, Add(b, e)), Add(c, Add(d, f))) = Red((a + (b + e)) + (c + (d + f)))
      /\ Add(Add(f, e), Add(Add(a, b), Add(d, c))) = Red((f + e) + ((a + b) + (d + c)))
  BY <1>1, <1>2, <1>3, RedSums
<1>5. (a + (b + e)) + (c + (d + f)) = (f + e) + ((a + b) + (d + c))
  BY <1>1
<1> QED BY <1>4, <1>5 DEF SameSum

\* Equal sums less what both have are equal; r cancels.
Rest(r, a, b, c, d, e, f, s) ==
    Add(Add(Sub(r, d), Sub(0, Add(r, f))), Add(Sub(a, c), Sub(b, e))) = s

LEMMA Cancels ==
    ASSUME NEW r \in Values, NEW a \in Values, NEW b \in Values, NEW c \in Values,
           NEW d \in Values, NEW e \in Values, NEW f \in Values, NEW s \in Values,
           Add(a, b) = Add(Add(Add(c, d), Add(e, f)), s)
    PROVE  Rest(r, a, b, c, d, e, f, s)
<1>1. /\ a \in Int /\ b \in Int /\ c \in Int /\ d \in Int /\ e \in Int /\ f \in Int
      /\ r \in Int /\ s \in Int
      /\ Red(a) = a /\ Red(b) = b /\ Red(c) = c /\ Red(d) = d /\ Red(e) = e /\ Red(f) = f
      /\ Red(r) = r /\ Red(s) = s /\ Red(0) = 0
  <2>1. 0 \in Values
    BY RingAssumption DEF Values
  <2> QED BY <2>1, RedValue
<1> DEFINE p == (a - c) + (b - e)
           q == (r - d) + (0 - (r + f))
           g == (c + d) + (e + f)
<1>2. Add(Sub(a, c), Sub(b, e)) = Red(p)
  <2>1. Sub(a, c) = Red(a - c) /\ Sub(b, e) = Red(b - e)
    BY <1>1, RedSums
  <2> QED BY <1>1, <2>1, RedSums
<1>3. Add(Sub(r, d), Sub(0, Add(r, f))) = Red(q)
  <2>1. Sub(r, d) = Red(r - d) /\ Add(r, f) = Red(r + f)
    BY <1>1, RedSums
  <2>2. Sub(0, Add(r, f)) = Red(0 - (r + f))
    BY <1>1, <2>1, RedSums
  <2> QED BY <1>1, <2>1, <2>2, RedSums
<1>4. Red(a + b) = Red(g + s)
  <2>1. Add(c, d) = Red(c + d) /\ Add(e, f) = Red(e + f) /\ Add(a, b) = Red(a + b)
    BY <1>1, RedSums
  <2>2. Add(Add(c, d), Add(e, f)) = Red(g)
    BY <1>1, <2>1, RedSums
  <2>3. g \in Int
    BY <1>1
  <2> HIDE DEF g
  <2>4. Add(Red(g), s) = Red(g + s)
    BY <1>1, <2>3, RedSums
  <2> QED BY <2>1, <2>2, <2>4
<1>5. Red(q + p) = Red((a + b) - g)
  <2>1. q + p = (a + b) - g
    BY <1>1
  <2> HIDE DEF p, q, g
  <2> QED BY <2>1
<1>6. Red((a + b) - g) = Red((g + s) - g)
  <2>1. g \in Int /\ a + b \in Int /\ g + s \in Int
    BY <1>1
  <2> DEFINE u == a + b
             v == g + s
  <2>2. Red(u) = Red(v) /\ u \in Int /\ v \in Int
    BY <1>4, <2>1
  <2> HIDE DEF u, v, g
  <2>3. Sub(Red(u), Red(g)) = Red(u - g) /\ Sub(Red(v), Red(g)) = Red(v - g)
    BY <2>1, <2>2, RedSums
  <2> QED BY <2>2, <2>3 DEF u, v
<1>7. (g + s) - g = s /\ p \in Int /\ q \in Int
  BY <1>1
<1> HIDE DEF p, q, g
<1> QED BY <1>1, <1>2, <1>3, <1>5, <1>6, <1>7, RedSums DEF Rest

LEMMA MulCommutes ==
    ASSUME NEW a \in Values, NEW b \in Values
    PROVE  Mul(a, b) = Mul(b, a)
BY RedOps, RedValue

LEMMA Distributes ==
    ASSUME NEW a \in Values, NEW b \in Values, NEW c \in Values
    PROVE  /\ Mul(a, Add(b, c)) = Add(Mul(a, b), Mul(a, c))
           /\ Mul(a, Sub(b, c)) = Sub(Mul(a, b), Mul(a, c))
           /\ Mul(Add(b, c), a) = Add(Mul(b, a), Mul(c, a))
<1>1. /\ Red(a) = a /\ Red(b) = b /\ Red(c) = c
      /\ a \in Int /\ b \in Int /\ c \in Int
  BY RedValue
<1> DEFINE p == b + c
           q == b - c
<1>p. p \in Int /\ q \in Int /\ Add(b, c) = Red(p) /\ Sub(b, c) = Red(q)
  BY <1>1, RedOps
<1> HIDE DEF p, q
<1>2. /\ Mul(a, Add(b, c)) = Red(a * p)
      /\ Mul(a, Sub(b, c)) = Red(a * q)
      /\ Mul(Add(b, c), a) = Red(p * a)
  BY <1>1, <1>p, RedOps
<1>3. /\ a * p = a * b + a * c /\ a * q = a * b - a * c
      /\ p * a = b * a + c * a
      /\ a * b \in Int /\ a * c \in Int /\ b * a \in Int /\ c * a \in Int
  BY <1>1 DEF p, q
<1>4. /\ Mul(a, b) = Red(a * b) /\ Mul(a, c) = Red(a * c)
      /\ Mul(b, a) = Red(b * a) /\ Mul(c, a) = Red(c * a)
  BY <1>1, RedOps
<1>5. /\ Add(Mul(a, b), Mul(a, c)) = Red(a * b + a * c)
      /\ Sub(Mul(a, b), Mul(a, c)) = Red(a * b - a * c)
      /\ Add(Mul(b, a), Mul(c, a)) = Red(b * a + c * a)
  BY <1>3, <1>4, RedOps
<1> QED BY <1>2, <1>3, <1>5

LEMMA MulUnit ==
    ASSUME NEW a \in Values
    PROVE  Mul(a, 1 % M) = a /\ Mul(a, 0) = 0
<1>1. Red(a) = a /\ a \in Int /\ Red(1) = 1 % M /\ Red(0) = 0
  <2>1. 0 \in Values
    BY RingAssumption DEF Values
  <2> QED BY <2>1, RedValue DEF Red, Residue
<1>2. Mul(Red(a), Red(1)) = Red(a * 1) /\ Mul(Red(a), Red(0)) = Red(a * 0)
  BY <1>1, RedOps
<1>3. a * 1 = a /\ a * 0 = 0
  BY <1>1
<1> QED BY <1>1, <1>2, <1>3

-----------------------------------------------------------------------------
(* Sums over the cells.                                                    *)

\* The partial sums of f.
PartialSums(g, f) ==
    /\ g \in [Nat -> Values] /\ g[0] = 0
    /\ \A i \in Nat : i < Size => g[i + 1] = Add(g[i], f[i])

LEMMA SumsExist ==
    ASSUME NEW f \in [Cells -> Values]
    PROVE  \E g : PartialSums(g, f)
<1> DEFINE S == Nat \X Values
           F == [p \in S |-> <<p[1] + 1, IF p[1] < Size THEN Add(p[2], f[p[1]]) ELSE p[2]>>]
<1>1. F \in [S -> S]
  <2> SUFFICES ASSUME NEW i \in Nat, NEW v \in Values
               PROVE  (IF i < Size THEN Add(v, f[i]) ELSE v) \in Values
    OBVIOUS
  <2>1. i < Size => i \in Cells
    BY SizeAssumption DEF Cells
  <2> QED BY <2>1, AddType
<1> DEFINE z == <<0, 0>>
<1>2. z \in S
  <2>1. 0 \in Values
    BY RingAssumption DEF Values
  <2> HIDE DEF F
  <2> QED BY <2>1
<1>3. PICK h \in [Nat -> S] : h[0] = z /\ \A i \in Nat : h[i + 1] = F[h[i]]
  <2> HIDE DEF S, F, z
  <2>1. HasOrbit(S, z, F)
    BY <1>1, <1>2, OrbitExists
  <2> QED BY <2>1 DEF HasOrbit
<1>3a. \A i \in Nat : /\ h[i][1] \in Nat /\ h[i][2] \in Values
                      /\ h[i + 1][1] = h[i][1] + 1
                      /\ h[i][1] < Size => h[i + 1][2] = Add(h[i][2], f[h[i][1]])
  <2> SUFFICES ASSUME NEW i \in Nat
               PROVE  /\ h[i][1] \in Nat /\ h[i][2] \in Values
                      /\ h[i + 1][1] = h[i][1] + 1
                      /\ h[i][1] < Size => h[i + 1][2] = Add(h[i][2], f[h[i][1]])
    OBVIOUS
  <2>1. h[i] \in S /\ h[i + 1] = F[h[i]]
    BY <1>3
  <2> HIDE <1>3
  <2>2. F[h[i]] = <<h[i][1] + 1,
                    IF h[i][1] < Size THEN Add(h[i][2], f[h[i][1]]) ELSE h[i][2]>>
    BY <2>1
  <2> QED BY <2>1, <2>2
<1> DEFINE T == {i \in Nat : h[i][1] = i}
<1>4. \A i \in Nat : i \in T
  <2>1. 0 \in T
    BY <1>3
  <2>2. ASSUME NEW i \in Nat, i \in T PROVE i + 1 \in T
    BY <1>3a, <2>2
  <2> HIDE DEF T
  <2> QED BY <2>1, <2>2, SetInduction
<1> DEFINE g == [i \in Nat |-> h[i][2]]
<1>5. g \in [Nat -> Values] /\ g[0] = 0
  BY <1>3, <1>3a
<1>6. ASSUME NEW i \in Nat, i < Size PROVE g[i + 1] = Add(g[i], f[i])
  <2>1. h[i][1] = i /\ h[i + 1][2] = Add(h[i][2], f[i])
    BY <1>3a, <1>4, <1>6
  <2> QED BY <2>1
<1> HIDE DEF g
<1> QED BY <1>5, <1>6 DEF PartialSums

LEMMA SumsUnique ==
    ASSUME NEW f, NEW g, NEW h, PartialSums(g, f),
           h[0] = 0, \A i \in Nat : i < Size => h[i + 1] = Add(h[i], f[i])
    PROVE  \A i \in Nat : i <= Size => g[i] = h[i]
<1> DEFINE T == {i \in Nat : i <= Size => g[i] = h[i]}
<1>1. 0 \in T
  BY DEF PartialSums
<1>2. ASSUME NEW i \in Nat, i \in T PROVE i + 1 \in T
  BY <1>2, SizeAssumption DEF PartialSums
<1> HIDE DEF T
<1>3. \A i \in Nat : i \in T
  BY <1>1, <1>2, SetInduction
<1> QED BY <1>3 DEF T

\* The recursive function in the definition of Total is what it says it is.
LEMMA TotalIs ==
    ASSUME NEW f \in [Cells -> Values], NEW g, PartialSums(g, f)
    PROVE  Total(f) = g[Size]
<1> DEFINE IsSum(s) ==
             s = [n \in 0 .. Size |-> IF n = 0 THEN 0 ELSE Add(s[n - 1], f[n - 1])]
           k == [n \in 0 .. Size |-> g[n]]
           c == CHOOSE s : IsSum(s)
<1>1. Size \in Nat
  BY SizeAssumption
<1>2. IsSum(k)
  <2>1. ASSUME NEW n \in 0 .. Size
        PROVE  g[n] = IF n = 0 THEN 0 ELSE Add(k[n - 1], f[n - 1])
    <3>1. CASE n = 0
      BY <3>1 DEF PartialSums
    <3>2. CASE n # 0
      <4>1. n - 1 \in Nat /\ n - 1 \in 0 .. Size /\ n - 1 < Size /\ (n - 1) + 1 = n
        BY <1>1, <3>2
      <4>2. g[n] = Add(g[n - 1], f[n - 1])
        BY <4>1 DEF PartialSums
      <4> QED BY <4>1, <4>2, <3>2
    <3> QED BY <3>1, <3>2
  <2> QED BY <2>1
<1>3. IsSum(c)
  <2> HIDE DEF IsSum, k
  <2> QED BY <1>2
<1>4. Total(f) = c[Size]
  BY DEF Total
<1>5. c[0] = 0 /\ \A i \in Nat : i < Size => c[i + 1] = Add(c[i], f[i])
  <2> HIDE DEF c
  <2>1. c[0] = 0
    BY <1>1, <1>3
  <2>2. ASSUME NEW i \in Nat, i < Size PROVE c[i + 1] = Add(c[i], f[i])
    <3>1. i + 1 \in 0 .. Size /\ i + 1 # 0 /\ (i + 1) - 1 = i
      BY <1>1, <2>2
    <3>2. c[i + 1] = Add(c[(i + 1) - 1], f[(i + 1) - 1])
      BY <1>3, <3>1
    <3> QED BY <3>1, <3>2
  <2> QED BY <2>1, <2>2
<1> HIDE DEF c
<1> QED BY <1>1, <1>4, <1>5, SumsUnique

\* The sum of the sums is the sum of the vectors' sum.
LEMMA TotalAdds ==
    ASSUME NEW e \in [Cells -> Values], NEW f \in [Cells -> Values]
    PROVE  /\ Total(e) \in Values
           /\ Add(Total(e), Total(f)) = Total(AddAll(e, f))
<1>1. PICK g : PartialSums(g, e)
  BY SumsExist
<1>2. PICK h : PartialSums(h, f)
  BY SumsExist
<1> DEFINE k == [i \in Nat |-> Add(g[i], h[i])]
<1>3. AddAll(e, f) \in [Cells -> Values]
  BY AddType DEF AddAll
<1>4. PartialSums(k, AddAll(e, f))
  <2>1. k \in [Nat -> Values]
    BY <1>1, <1>2, AddType DEF PartialSums
  <2>2. k[0] = 0
    <3>1. k[0] = Add(0, 0) /\ 0 \in Values
      BY <1>1, <1>2 DEF PartialSums
    <3> QED BY <3>1, RedSums, RedValue
  <2>3. ASSUME NEW i \in Nat, i < Size PROVE k[i + 1] = Add(k[i], AddAll(e, f)[i])
    <3>1. i \in Cells
      BY <2>3, SizeAssumption DEF Cells
    <3>2. k[i + 1] = Add(Add(g[i], e[i]), Add(h[i], f[i]))
      BY <1>1, <1>2, <2>3 DEF PartialSums
    <3>3. /\ g[i] \in Values /\ e[i] \in Values
          /\ h[i] \in Values /\ f[i] \in Values
      BY <1>1, <1>2, <3>1 DEF PartialSums
    <3>4. k[i + 1] = Add(Add(g[i], h[i]), Add(e[i], f[i]))
      BY <3>2, <3>3, Exchange
    <3> QED BY <3>1, <3>4 DEF AddAll
  <2> HIDE DEF k
  <2> QED BY <2>1, <2>2, <2>3 DEF PartialSums
<1>5. Total(e) = g[Size] /\ Total(f) = h[Size] /\ Total(AddAll(e, f)) = k[Size]
  <2> HIDE DEF k
  <2> QED BY <1>1, <1>2, <1>3, <1>4, TotalIs
<1>6. Size \in Nat
  BY SizeAssumption
<1> QED BY <1>1, <1>5, <1>6 DEF PartialSums

\* The sum of a vector that is 0 but for one cell.
LEMMA TotalSelects ==
    ASSUME NEW f \in [Cells -> Values], NEW x \in Cells,
           \A i \in Cells : i # x => f[i] = 0
    PROVE  Total(f) = f[x]
<1>1. PICK g : PartialSums(g, f)
  BY SumsExist
<1> DEFINE T == {i \in Nat : i <= Size => g[i] = IF i <= x THEN 0 ELSE f[x]}
<1>2. x \in Nat /\ x < Size /\ Size \in Nat /\ f[x] \in Values
  BY SizeAssumption DEF Cells
<1>3. 0 \in T
  BY <1>1, <1>2 DEF PartialSums
<1>4. ASSUME NEW i \in Nat, i \in T PROVE i + 1 \in T
  <2> SUFFICES ASSUME i + 1 <= Size PROVE g[i + 1] = IF i + 1 <= x THEN 0 ELSE f[x]
    OBVIOUS
  <2>1. i \in Cells /\ g[i + 1] = Add(g[i], f[i])
    BY <1>1, <1>2 DEF PartialSums, Cells
  <2>2. g[i] = IF i <= x THEN 0 ELSE f[x]
    BY <1>2, <1>4
  <2>3. Add(0, 0) = 0 /\ Add(0, f[x]) = f[x] /\ Add(f[x], 0) = f[x]
    <3>1. 0 \in Values
      BY RingAssumption DEF Values
    <3> QED BY <3>1, <1>2, RedSums, RedValue
  <2>4. CASE i < x
    BY <1>2, <2>1, <2>2, <2>3, <2>4
  <2>5. CASE i = x
    BY <1>2, <2>1, <2>2, <2>3, <2>5
  <2>6. CASE i > x
    BY <1>2, <2>1, <2>2, <2>3, <2>6
  <2> QED BY <1>2, <2>4, <2>5, <2>6
<1>5. \A i \in Nat : i \in T
  <2> HIDE DEF T
  <2> QED BY <1>3, <1>4, SetInduction
<1> QED BY <1>1, <1>2, <1>5, TotalIs


-----------------------------------------------------------------------------
(* Queues as windows of the log of a link.                                 *)

\* The entries a + 1 .. b of the log g.
Window(g, a, b) == [i \in 1 .. b - a |-> g[a + i]]

LEMMA SeqIsFunction ==
    ASSUME NEW X, NEW w \in Seq(X), NEW n, Len(w) = n
    PROVE  w = [i \in 1 .. n |-> w[i]]
BY LenProperties

LEMMA WindowIsSeq ==
    ASSUME NEW g, NEW a \in Nat, NEW b \in Nat, a <= b
    PROVE  /\ \E X : Window(g, a, b) \in Seq(X)
           /\ Len(Window(g, a, b)) = b - a
<1> DEFINE X == {g[a + i] : i \in 1 .. b - a}
<1>1. b - a \in Nat
  OBVIOUS
<1>2. Window(g, a, b) \in [1 .. b - a -> X]
  BY DEF Window
<1>3. Window(g, a, b) \in Seq(X)
  <2> HIDE DEF X
  <2> QED BY <1>1, <1>2
<1>4. DOMAIN Window(g, a, b) = 1 .. b - a
  BY DEF Window
<1>5. Len(Window(g, a, b)) = b - a
  <2> HIDE DEF X
  <2> QED BY <1>1, <1>3, <1>4
<1> QED BY <1>3, <1>5

LEMMA WindowEmpty ==
    ASSUME NEW g, NEW a \in Nat
    PROVE  Window(g, a, a) = <<>>
BY DEF Window

LEMMA WindowHead ==
    ASSUME NEW g, NEW a \in Nat, NEW b \in Nat, a <= b, Window(g, a, b) # <<>>
    PROVE  /\ a < b
           /\ Head(Window(g, a, b)) = g[a + 1]
           /\ Tail(Window(g, a, b)) = Window(g, a + 1, b)
<1>1. a < b
  BY WindowEmpty
<1>2. PICK X : Window(g, a, b) \in Seq(X)
  BY WindowIsSeq
<1>3. Len(Window(g, a, b)) = b - a
  BY WindowIsSeq
<1>4. Head(Window(g, a, b)) = g[a + 1]
  <2>1. Window(g, a, b)[1] = g[a + 1]
    BY <1>1 DEF Window
  <2> QED BY <1>1, <1>2, <1>3, <2>1
<1>5. Tail(Window(g, a, b)) = Window(g, a + 1, b)
  <2> DEFINE w == Window(g, a, b)
  <2>1. /\ Tail(w) = [i \in 1 .. (b - a) - 1 |-> Tail(w)[i]]
        /\ \A i \in 1 .. (b - a) - 1 : Tail(w)[i] = w[i + 1]
    <3> DEFINE n == (b - a) - 1
    <3>1. Len(w) - 1 = n
      BY <1>3
    <3> HIDE DEF n, w
    <3>2. w \in Seq(X) /\ w # <<>>
      BY <1>2 DEF w
    <3>3. /\ Tail(w) \in Seq(X) /\ Len(Tail(w)) = n
          /\ \A i \in 1 .. n : Tail(w)[i] = w[i + 1]
      BY <3>1, <3>2, HeadTailProperties
    <3> QED BY <3>3, SeqIsFunction DEF n
  <2>2. \A i \in 1 .. (b - a) - 1 : w[i + 1] = g[a + 1 + i]
    BY <1>1 DEF Window
  <2> HIDE DEF w
  <2>3. Tail(w) = [i \in 1 .. b - (a + 1) |-> g[a + 1 + i]]
    BY <2>1, <2>2
  <2> QED BY <2>3 DEF Window, w
<1> QED BY <1>1, <1>4, <1>5

Continues(h, g, b) == \A i \in 1 .. b : h[i] = g[i]

LEMMA WindowAppend ==
    ASSUME NEW g, NEW a \in Nat, NEW b \in Nat, a <= b, NEW h, Continues(h, g, b)
    PROVE  Append(Window(g, a, b), h[b + 1]) = Window(h, a, b + 1)
<1> DEFINE v == h[b + 1]
<1>1. \A i \in 1 .. b : h[i] = g[i]
  BY DEF Continues
<1> HIDE DEF v
<1>2. PICK X : Window(g, a, b) \in Seq(X)
  BY WindowIsSeq
<1> DEFINE w == Window(g, a, b)
           n == b - a
<1>3. Len(w) = n /\ n \in Nat
  BY WindowIsSeq
<1>4. Append(w, v) = [i \in 1 .. n + 1 |-> IF i \in 1 .. n THEN w[i] ELSE v]
  <2> DEFINE Y == X \cup {v}
  <2>1. w \in Seq(Y) /\ v \in Y
    BY <1>2
  <2> HIDE DEF w, n, Y
  <2>2. /\ Append(w, v) \in Seq(Y) /\ Len(Append(w, v)) = n + 1
        /\ \A i \in 1 .. n : Append(w, v)[i] = w[i]
        /\ Append(w, v)[n + 1] = v
    BY <1>3, <2>1, AppendProperties
  <2>3. Append(w, v) = [i \in 1 .. n + 1 |-> Append(w, v)[i]]
    BY <2>2, SeqIsFunction
  <2>4. \A i \in 1 .. n + 1 : i \in 1 .. n \/ (i = n + 1 /\ i \notin 1 .. n)
    BY <1>3
  <2>5. \A i \in 1 .. n + 1 : Append(w, v)[i] = IF i \in 1 .. n THEN w[i] ELSE v
    BY <2>2, <2>4
  <2> QED BY <2>3, <2>5
<1>5. ASSUME NEW i \in 1 .. n + 1
      PROVE  (IF i \in 1 .. n THEN w[i] ELSE v) = h[a + i]
  <2>1. CASE i \in 1 .. n
    BY <1>1, <2>1 DEF Window
  <2>2. CASE i = n + 1
    BY <2>2 DEF v
  <2> QED BY <2>1, <2>2, <1>3
<1>6. n + 1 = (b + 1) - a
  OBVIOUS
<1> HIDE DEF w, n
<1>7. Append(w, v) = [i \in 1 .. (b + 1) - a |-> h[a + i]]
  BY <1>4, <1>5, <1>6
<1> QED BY <1>7 DEF Window, w, v

LEMMA WindowConcat ==
    ASSUME NEW g, NEW a \in Nat, NEW b \in Nat, NEW c \in Nat, a <= b, b <= c
    PROVE  Window(g, a, b) \o Window(g, b, c) = Window(g, a, c)
<1> DEFINE v == Window(g, a, b)
           w == Window(g, b, c)
           n == b - a
           m == c - b
<1>1. PICK X, Y : v \in Seq(X) /\ w \in Seq(Y)
  BY WindowIsSeq
<1>2. Len(v) = n /\ Len(w) = m /\ n \in Nat /\ m \in Nat
  BY WindowIsSeq
<1>3. v \o w = [i \in 1 .. n + m |-> IF i <= n THEN v[i] ELSE w[i - n]]
  <2> DEFINE Z == X \cup Y
  <2>1. v \in Seq(Z) /\ w \in Seq(Z)
    BY <1>1
  <2> HIDE DEF v, w, n, m, Z
  <2>2. /\ v \o w \in Seq(Z) /\ Len(v \o w) = n + m
        /\ \A i \in 1 .. n + m : (v \o w)[i] = IF i <= n THEN v[i] ELSE w[i - n]
    BY <1>2, <2>1, ConcatProperties
  <2>3. v \o w = [i \in 1 .. n + m |-> (v \o w)[i]]
    BY <2>2, SeqIsFunction
  <2> QED BY <2>2, <2>3
<1>4. ASSUME NEW i \in 1 .. n + m
      PROVE  (IF i <= n THEN v[i] ELSE w[i - n]) = g[a + i]
  <2>1. CASE i <= n
    BY <2>1 DEF Window
  <2>2. CASE i > n
    <3>1. i - n \in 1 .. m /\ b + (i - n) = a + i
      BY <2>2
    <3>2. w[i - n] = g[b + (i - n)]
      BY <3>1 DEF Window
    <3> QED BY <2>2, <3>1, <3>2
  <2> QED BY <2>1, <2>2, <1>2
<1>5. n + m = c - a
  OBVIOUS
<1> HIDE DEF v, w, n, m
<1>6. v \o w = [i \in 1 .. c - a |-> g[a + i]]
  BY <1>3, <1>4, <1>5
<1> QED BY <1>6 DEF Window, v, w

LEMMA WindowSame ==
    ASSUME NEW g, NEW h, NEW a \in Nat, NEW b \in Nat, \A i \in 1 .. b : h[i] = g[i]
    PROVE  Window(h, a, b) = Window(g, a, b)
BY DEF Window


-----------------------------------------------------------------------------
(* What the parties' vectors of an RDPF add up to.                         *)

\* The offset that both parties and the server find for an operation.
Shift(op) == (IndOffset(0, op) + IndOffset(1, op)) % Width

LEMMA WidthFacts ==
    /\ Width \in Nat /\ Width > 0 /\ Size \in Nat
    /\ \A i \in Cells : i \in Leaves
    /\ \A i : i \in Leaves <=> i \in 0 .. Width - 1
    /\ \A j \in Leaves : j \in Nat /\ j < Width
BY SizeAssumption DEF Cells, Leaves

LEMMA LeafOfCell ==
    ASSUME NEW op, op.kind \in Oblivious, ValidOp(op)
    PROVE  /\ \A p \in Comp : IndOffset(p, op) \in Leaves
           /\ Shift(op) \in Leaves /\ Cell(op) \in Cells
           /\ \A i \in Cells :
                /\ Leaf(i, Shift(op)) \in Leaves
                /\ Leaf(i, Shift(op)) = (op.rdpf.target[0] + op.rdpf.target[1]) % Width
                     <=> i = Cell(op)
<1>1. /\ Width \in Nat /\ Width > 0
      /\ \A i : i \in Leaves <=> i \in 0 .. Width - 1
  BY WidthFacts
<1>2. /\ op.index \in [Comp -> Leaves] /\ op.rdpf.target \in [Comp -> Leaves]
      /\ Cell(op) \in Cells
  BY DEF ValidOp, ValidRDPF, Oblivious
<1> DEFINE t(p) == op.rdpf.target[p]
           x(p) == op.index[p]
           R(z) == Residue(z, Width)
<1>3. /\ t(0) \in Int /\ t(1) \in Int /\ x(0) \in Int /\ x(1) \in Int
      /\ \A p \in Comp : t(p) \in Leaves /\ x(p) \in Leaves
  BY <1>1, <1>2, WidthFacts DEF Comp
<1>4. \A z \in Int : R(z) \in Leaves
  BY <1>1, Residues
<1>5. \A j \in Leaves : R(j) = j /\ j \in Int
  <2> SUFFICES ASSUME NEW j \in Leaves PROVE R(j) = j /\ j \in Int
    OBVIOUS
  <2>1. j \in 0 .. Width - 1 /\ j \in Int /\ 0 \in Int
    BY <1>1
  <2>2. Apart(j, j, 0, Width)
    BY <2>1, <1>1 DEF Apart
  <2> QED BY <1>1, <2>1, <2>2, ResidueUnique
<1>6. /\ IndOffset(0, op) = R(t(0) - x(0))
      /\ IndOffset(1, op) = R(t(1) - x(1))
  <2>1. ASSUME NEW a \in Leaves, NEW b \in Leaves
        PROVE  (a + Width - b) % Width = R(a - b)
    <3>1. Residue(R(a) + Width - R(b), Width) = R(a - b)
      BY <1>1, <1>5, ResidueOps
    <3>2. R(a) = a /\ R(b) = b
      BY <1>5
    <3>3. Residue(a + Width - b, Width) = R(a - b)
      <4> HIDE DEF R
      <4> QED BY <3>1, <3>2
    <3> QED BY <3>3 DEF Residue
  <2>2. t(0) \in Leaves /\ x(0) \in Leaves /\ t(1) \in Leaves /\ x(1) \in Leaves
    BY <1>3 DEF Comp
  <2> HIDE DEF R
  <2> QED BY <2>1, <2>2 DEF IndOffset
<1> DEFINE u == t(0) + t(1)
           y == x(0) + x(1)
<1>7. u \in Int /\ y \in Int
  BY <1>3
<1>8. Shift(op) = R(u - y)
  <2>1. Shift(op) = Residue(R(t(0) - x(0)) + R(t(1) - x(1)), Width)
    <3> HIDE DEF R
    <3> QED BY <1>6 DEF Shift, Residue
  <2>2. Residue(R(t(0) - x(0)) + R(t(1) - x(1)), Width)
          = R((t(0) - x(0)) + (t(1) - x(1)))
    <3>1. t(0) - x(0) \in Int /\ t(1) - x(1) \in Int
      BY <1>3
    <3> HIDE DEF t, x
    <3> QED BY <1>1, <3>1, ResidueOps
  <2>3. (t(0) - x(0)) + (t(1) - x(1)) = u - y
    BY <1>3
  <2> HIDE DEF R
  <2> QED BY <2>1, <2>2, <2>3
<1>9. Cell(op) = R(y) /\ (op.rdpf.target[0] + op.rdpf.target[1]) % Width = R(u)
  BY DEF Cell, Residue
<1>10. \A p \in Comp : IndOffset(p, op) \in Leaves
  <2> HIDE DEF R, t, x
  <2>1. t(0) - x(0) \in Int /\ t(1) - x(1) \in Int
    BY <1>3
  <2> QED BY <2>1, <1>4, <1>6 DEF Comp
<1>11. Shift(op) \in Leaves
  <2> HIDE DEF R, u, y
  <2>1. u - y \in Int
    BY <1>7
  <2> QED BY <2>1, <1>4, <1>8
<1>12. ASSUME NEW i \in Cells
       PROVE  /\ Leaf(i, Shift(op)) \in Leaves
              /\ Leaf(i, Shift(op)) = R(u) <=> i = R(y)
  <2>1. i \in Int /\ R(i) = i
    BY <1>5, WidthFacts
  <2> DEFINE v == u - y
  <2>2. v \in Int
    BY <1>7
  <2>3. Leaf(i, Shift(op)) = R(i + v)
    <3>1. Leaf(i, Shift(op)) = Residue(R(i) + R(v), Width)
      <4> HIDE DEF R, v
      <4> QED BY <2>1, <1>8 DEF Leaf, Residue, v
    <3> HIDE DEF v
    <3> QED BY <3>1, <1>1, <2>1, <2>2, ResidueOps
  <2>4. ASSUME R(i + v) = R(u) PROVE i = R(y)
    <3>1. Residue(R(i + v) + Width - R(v), Width) = R((i + v) - v)
      <4> DEFINE w == i + v
      <4>1. w \in Int
        BY <2>1, <2>2
      <4>2. Residue(R(w) + Width - R(v), Width) = R(w - v)
        <5> HIDE DEF w, v
        <5> QED BY <4>1, <1>1, <2>2, ResidueOps
      <4> QED BY <4>2
    <3>2. Residue(R(u) + Width - R(v), Width) = R(u - v)
      <4> HIDE DEF v, u
      <4> QED BY <1>1, <1>7, <2>2, ResidueOps
    <3>3. (i + v) - v = i /\ u - v = y
      BY <1>7, <2>1, <2>2
    <3> HIDE DEF R, v, u, y
    <3> QED BY <3>1, <3>2, <3>3, <2>1, <2>4
  <2>5. ASSUME i = R(y) PROVE R(i + v) = R(u)
    <3>1. Residue(R(y) + R(v), Width) = R(y + v)
      <4> HIDE DEF v, y
      <4> QED BY <1>1, <1>7, <2>2, ResidueOps
    <3>2. Residue(R(i) + R(v), Width) = R(i + v)
      <4> HIDE DEF v
      <4> QED BY <1>1, <2>1, <2>2, ResidueOps
    <3>3. y + v = u
      BY <1>7
    <3> HIDE DEF R, v, u, y
    <3> QED BY <3>1, <3>2, <3>3, <2>1, <2>5
  <2>6. R(i + v) \in Leaves
    <3> DEFINE w == i + v
    <3>1. w \in Int
      BY <2>1, <2>2
    <3> HIDE DEF w, v, R
    <3> QED BY <3>1, <1>4 DEF w
  <2> HIDE DEF R, v, u, y
  <2> QED BY <2>3, <2>4, <2>5, <2>6
<1> HIDE DEF R, u, y
<1> QED BY <1>2, <1>9, <1>10, <1>11, <1>12


\* The parties' unit vectors share the one of the cell.
LEMMA UnitShares ==
    ASSUME NEW op, op.kind \in Oblivious, ValidOp(op), NEW k \in 0 .. 2
    PROVE  /\ \A p \in Comp : Unit(op, k, p, Shift(op)) \in [Cells -> Values]
           /\ \A i \in Cells :
                Add(Unit(op, k, 0, Shift(op))[i], Unit(op, k, 1, Shift(op))[i]) =
                  IF i = Cell(op) THEN 1 % M ELSE 0
<1>1. ValidRDPF(op.rdpf)
  BY DEF ValidOp, Oblivious
<1> DEFINE leaf(i) == Leaf(i, Shift(op))
<1>2. ASSUME NEW i \in Cells
      PROVE  /\ leaf(i) \in Leaves
             /\ leaf(i) = (op.rdpf.target[0] + op.rdpf.target[1]) % Width <=> i = Cell(op)
  BY LeafOfCell
<1>3. ASSUME NEW p \in Comp, NEW i \in Cells
      PROVE  /\ op.rdpf.unit[k][p][leaf(i)] \in Values
             /\ Unit(op, k, p, Shift(op))[i] = op.rdpf.unit[k][p][leaf(i)]
  <2>1. leaf(i) \in Leaves
    BY <1>2
  <2>2. Unit(op, k, p, Shift(op))[i] = op.rdpf.unit[k][p][leaf(i)]
    BY DEF Unit
  <2> HIDE DEF leaf
  <2> QED BY <1>1, <2>1, <2>2 DEF ValidRDPF
<1>4. ASSUME NEW p \in Comp PROVE Unit(op, k, p, Shift(op)) \in [Cells -> Values]
  BY <1>3 DEF Unit
<1>5. ASSUME NEW i \in Cells
      PROVE  Add(Unit(op, k, 0, Shift(op))[i], Unit(op, k, 1, Shift(op))[i]) =
               IF i = Cell(op) THEN 1 % M ELSE 0
  <2>1. Add(op.rdpf.unit[k][0][leaf(i)], op.rdpf.unit[k][1][leaf(i)]) =
          IF leaf(i) = (op.rdpf.target[0] + op.rdpf.target[1]) % Width THEN 1 % M ELSE 0
    <3> HIDE DEF leaf
    <3> QED BY <1>1, <1>2 DEF ValidRDPF
  <2>2. 0 \in Comp /\ 1 \in Comp
    BY DEF Comp
  <2> HIDE DEF leaf
  <2> QED BY <1>2, <1>3, <2>1, <2>2
<1> QED BY <1>4, <1>5

\* Party p's vector for DPF k of an update that the parties share as x and y;
\* the two share the vector that is the updating value at the cell, whichever
\* of the DPFs it is.
Vec(op, k, p, x, y) ==
    Scaled(op, k, p, Shift(op), Add(Sub(x, op.rdpf.scale[k][0]), Sub(y, op.rdpf.scale[k][1])))

VecsShare(op, k, x, y) ==
    /\ \A p \in Comp : Vec(op, k, p, x, y) \in [Cells -> Values]
    /\ \A i \in Cells : Add(Vec(op, k, 0, x, y)[i], Vec(op, k, 1, x, y)[i]) =
                          IF i = Cell(op) THEN Add(x, y) ELSE 0

LEMMA ScaledShares ==
    ASSUME NEW op, op.kind \in Oblivious, ValidOp(op), NEW k \in 0 .. 2,
           NEW x \in Values, NEW y \in Values
    PROVE  VecsShare(op, k, x, y)
<1>0. PICK m : m = Add(Sub(x, op.rdpf.scale[k][0]), Sub(y, op.rdpf.scale[k][1]))
  OBVIOUS
<1>1. ValidRDPF(op.rdpf)
  BY DEF ValidOp, Oblivious
<1> DEFINE leaf(i) == Leaf(i, Shift(op))
           u(p, i) == op.rdpf.unit[k][p][leaf(i)]
           v(p, i) == op.rdpf.scaled[k][p][leaf(i)]
           s(p) == op.rdpf.scale[k][p]
<1>2. ASSUME NEW i \in Cells
      PROVE  /\ leaf(i) \in Leaves
             /\ leaf(i) = (op.rdpf.target[0] + op.rdpf.target[1]) % Width <=> i = Cell(op)
  BY LeafOfCell
<1>3. ASSUME NEW p \in Comp, NEW i \in Cells
      PROVE  u(p, i) \in Values /\ v(p, i) \in Values
  <2>1. leaf(i) \in Leaves
    BY <1>2
  <2> HIDE DEF leaf
  <2> QED BY <1>1, <2>1 DEF ValidRDPF
<1>4. s(0) \in Values /\ s(1) \in Values
  BY <1>1 DEF ValidRDPF, Comp
<1>5. m \in Values
  BY <1>0, <1>4, AddType
<1>6. ASSUME NEW p \in Comp, NEW i \in Cells
      PROVE  /\ Scaled(op, k, p, Shift(op), m)[i] = Add(v(p, i), Mul(u(p, i), m))
             /\ Scaled(op, k, p, Shift(op), m)[i] \in Values
  <2>1. Scaled(op, k, p, Shift(op), m)[i] = Add(v(p, i), Mul(u(p, i), m))
    BY DEF Scaled
  <2> HIDE DEF u, v
  <2> QED BY <1>3, <1>5, <2>1, AddType
<1>7. ASSUME NEW p \in Comp PROVE Scaled(op, k, p, Shift(op), m) \in [Cells -> Values]
  BY <1>6 DEF Scaled
<1>8. ASSUME NEW i \in Cells
      PROVE  Add(Scaled(op, k, 0, Shift(op), m)[i], Scaled(op, k, 1, Shift(op), m)[i]) =
               IF i = Cell(op) THEN Add(x, y) ELSE 0
  <2>1. /\ Add(u(0, i), u(1, i)) = IF i = Cell(op) THEN 1 % M ELSE 0
        /\ Add(v(0, i), v(1, i)) = IF i = Cell(op) THEN Add(s(0), s(1)) ELSE 0
    <3> HIDE DEF leaf
    <3> QED BY <1>1, <1>2 DEF ValidRDPF
  <2>2. /\ u(0, i) \in Values /\ u(1, i) \in Values
        /\ v(0, i) \in Values /\ v(1, i) \in Values
    BY <1>3 DEF Comp
  <2>3. /\ Scaled(op, k, 0, Shift(op), m)[i] = Add(v(0, i), Mul(u(0, i), m))
        /\ Scaled(op, k, 1, Shift(op), m)[i] = Add(v(1, i), Mul(u(1, i), m))
    BY <1>6 DEF Comp
  <2>3a. m = Add(Sub(x, s(0)), Sub(y, s(1)))
    BY <1>0
  <2> HIDE DEF u, v, s, leaf
  <2> DEFINE a == Mul(u(0, i), m)
             b == Mul(u(1, i), m)
  <2>4. a \in Values /\ b \in Values
    BY <2>2, <1>5, AddType
  <2>5. Add(a, b) = Mul(Add(u(0, i), u(1, i)), m)
    BY <2>2, <1>5, Distributes
  <2>6. Add(a, b) = IF i = Cell(op) THEN m ELSE 0
    <3>1. 1 % M \in Values /\ 0 \in Values
      BY <1>5, AddType
    <3>2. Mul(1 % M, m) = m /\ Mul(0, m) = 0
      BY <3>1, <1>5, MulUnit, MulCommutes
    <3> HIDE DEF a, b
    <3> QED BY <2>1, <2>5, <3>2
  <2> HIDE DEF a, b
  <2>7. Add(Add(v(0, i), a), Add(v(1, i), b)) = Add(Add(v(0, i), v(1, i)), Add(a, b))
    BY <2>2, <2>4, Exchange
  <2>8. CASE i = Cell(op)
    <3>1. Add(Add(s(0), s(1)), m) = Add(x, y)
      BY <2>3a, <1>4, Unmask
    <3> QED BY <2>8, <2>1, <2>3, <2>6, <2>7, <3>1 DEF a, b
  <2>9. CASE i # Cell(op)
    <3>1. Add(0, 0) = 0
      BY <1>5, AddType, RedSums, RedValue
    <3> QED BY <2>9, <2>1, <2>3, <2>6, <2>7, <3>1 DEF a, b
  <2> QED BY <2>8, <2>9
<1>9. \A p : Vec(op, k, p, x, y) = Scaled(op, k, p, Shift(op), m)
  BY <1>0 DEF Vec
<1> QED BY <1>7, <1>8, <1>9 DEF VecsShare

\* The protocol of a read: what the parties' dot products and the server's
\* cross terms add up to.
Dot(d, pbd, b, u, v) ==
    Sub(Total([i \in Cells |-> Mul(Add(d[i], pbd[i]), u[i])]),
        Total([i \in Cells |-> Mul(b[i], Sub(v[i], u[i]))]))
Cross(b, w) == Total([i \in Cells |-> Mul(b[i], w[i])])
SharesOfUnit(x, f, g) == \A i \in Cells : Add(f[i], g[i]) = IF i = x THEN 1 % M ELSE 0

DotsShare(x, rho, D0, D1, B0, B1, u0, u1, v0, v1, w0, w1) ==
    LET h0 == Sub(rho, Cross(B0, w0))
        h1 == Sub(0, Add(rho, Cross(B1, w1)))
    IN  /\ h0 \in Values /\ h1 \in Values
        /\ Add(Add(h0, h1), Add(Dot(D0, AddAll(D1, B1), B0, u0, v0),
                               Dot(D1, AddAll(D0, B0), B1, u1, v1)))
             = Add(D0[x], D1[x])

LEMMA DotProductShares ==
    ASSUME NEW x \in Cells, NEW rho \in Values,
           NEW D0 \in [Cells -> Values], NEW D1 \in [Cells -> Values],
           NEW B0 \in [Cells -> Values], NEW B1 \in [Cells -> Values],
           NEW u0 \in [Cells -> Values], NEW u1 \in [Cells -> Values],
           NEW v0 \in [Cells -> Values], NEW v1 \in [Cells -> Values],
           NEW w0 \in [Cells -> Values], NEW w1 \in [Cells -> Values],
           SharesOfUnit(x, u0, u1), SharesOfUnit(x, v0, w0), SharesOfUnit(x, w1, v1)
    PROVE  DotsShare(x, rho, D0, D1, B0, B1, u0, u1, v0, v1, w0, w1)
<1>0. \A i \in Cells : LET e == IF i = x THEN 1 % M ELSE 0 IN
         Add(u0[i], u1[i]) = e /\ Add(v0[i], w0[i]) = e /\ Add(w1[i], v1[i]) = e
  BY DEF SharesOfUnit
<1> USE <1>0
<1> DEFINE P0 == AddAll(D1, B1)
           P1 == AddAll(D0, B0)
           a0 == [i \in Cells |-> Mul(Add(D0[i], P0[i]), u0[i])]
           b0 == [i \in Cells |-> Mul(B0[i], Sub(v0[i], u0[i]))]
           c0 == [i \in Cells |-> Mul(B0[i], w0[i])]
           a1 == [i \in Cells |-> Mul(Add(D1[i], P1[i]), u1[i])]
           b1 == [i \in Cells |-> Mul(B1[i], Sub(v1[i], u1[i]))]
           c1 == [i \in Cells |-> Mul(B1[i], w1[i])]
           sel == [i \in Cells |-> IF i = x THEN Add(D0[x], D1[x]) ELSE 0]
<1>1. \A a, b \in Values : /\ Add(a, b) \in Values /\ Sub(a, b) \in Values
                           /\ Mul(a, b) \in Values /\ 0 \in Values /\ 1 % M \in Values
  BY AddType
<1>2. P0 \in [Cells -> Values] /\ P1 \in [Cells -> Values]
  BY <1>1 DEF AddAll
<1> HIDE DEF P0, P1
<1>3. /\ a0 \in [Cells -> Values] /\ a1 \in [Cells -> Values]
      /\ b0 \in [Cells -> Values] /\ b1 \in [Cells -> Values]
      /\ c0 \in [Cells -> Values] /\ c1 \in [Cells -> Values]
      /\ sel \in [Cells -> Values]
  BY <1>1, <1>2
<1>4. ASSUME NEW i \in Cells
      PROVE  AddAll(a0, a1)[i] = AddAll(AddAll(AddAll(b0, c0), AddAll(b1, c1)), sel)[i]
  <2> DEFINE d0 == D0[i]  d1 == D1[i]  e0 == B0[i]  e1 == B1[i]
             s0 == u0[i]  s1 == u1[i]
  <2>1. /\ d0 \in Values /\ d1 \in Values /\ e0 \in Values /\ e1 \in Values
        /\ s0 \in Values /\ s1 \in Values
        /\ v0[i] \in Values /\ v1[i] \in Values /\ w0[i] \in Values /\ w1[i] \in Values
    OBVIOUS
  <2>2. a0[i] = Mul(Add(d0, Add(d1, e1)), s0) /\ a1[i] = Mul(Add(d1, Add(d0, e0)), s1)
    BY DEF P0, P1, AddAll
  <2>3. Add(b0[i], c0[i]) = Mul(e0, s1)
    <3>1. Add(Sub(v0[i], s0), w0[i]) = s1
      <4>1. Add(v0[i], w0[i]) = Add(s0, s1)
        OBVIOUS
      <4> HIDE DEF s0, s1
      <4> QED BY SMTT(30), <2>1, <4>1, RedSums, RedValue
    <3>2. b0[i] = Mul(e0, Sub(v0[i], s0)) /\ c0[i] = Mul(e0, w0[i])
      OBVIOUS
    <3>3. Sub(v0[i], s0) \in Values
      BY <2>1, <1>1
    <3> HIDE DEF e0, s0, s1, b0, c0
    <3> QED BY <2>1, <3>1, <3>2, <3>3, Distributes
  <2>4. Add(b1[i], c1[i]) = Mul(e1, s0)
    <3>1. Add(Sub(v1[i], s1), w1[i]) = s0
      <4>1. Add(w1[i], v1[i]) = Add(s0, s1)
        OBVIOUS
      <4> HIDE DEF s0, s1
      <4> QED BY SMTT(30), <2>1, <4>1, RedSums, RedValue
    <3>2. b1[i] = Mul(e1, Sub(v1[i], s1)) /\ c1[i] = Mul(e1, w1[i])
      OBVIOUS
    <3>3. Sub(v1[i], s1) \in Values
      BY <2>1, <1>1
    <3> HIDE DEF e1, s0, s1, b1, c1
    <3> QED BY <2>1, <3>1, <3>2, <3>3, Distributes
  <2>5. sel[i] = Mul(Add(d0, d1), Add(s0, s1))
    <3>1. Add(s0, s1) = IF i = x THEN 1 % M ELSE 0
      OBVIOUS
    <3>2. sel[i] = IF i = x THEN Add(d0, d1) ELSE 0
      OBVIOUS
    <3>3. Add(d0, d1) \in Values
      BY <2>1, <1>1
    <3> HIDE DEF d0, d1, s0, s1, sel
    <3> QED BY <3>1, <3>2, <3>3, MulUnit
  <2>6. /\ AddAll(a0, a1)[i] = Add(a0[i], a1[i])
        /\ AddAll(AddAll(AddAll(b0, c0), AddAll(b1, c1)), sel)[i] =
             Add(Add(Add(b0[i], c0[i]), Add(b1[i], c1[i])), sel[i])
    <3> HIDE DEF a0, a1, b0, b1, c0, c1, sel
    <3> QED BY DEF AddAll
  <2> HIDE DEF a0, a1, b0, b1, c0, c1, sel, d0, d1, e0, e1, s0, s1
  <2> DEFINE m00 == Mul(d0, s0)  m10 == Mul(d1, s0)  n1 == Mul(e1, s0)
             m01 == Mul(d0, s1)  m11 == Mul(d1, s1)  n0 == Mul(e0, s1)
  <2>7. /\ m00 \in Values /\ m10 \in Values /\ m01 \in Values /\ m11 \in Values
        /\ n0 \in Values /\ n1 \in Values
    BY <2>1, <1>1
  <2>8. /\ Mul(Add(d0, Add(d1, e1)), s0) = Add(m00, Add(m10, n1))
        /\ Mul(Add(d1, Add(d0, e0)), s1) = Add(m11, Add(m01, n0))
        /\ Mul(Add(d0, d1), Add(s0, s1)) = Add(Add(m00, m10), Add(m01, m11))
    <3>1. /\ Add(d1, e1) \in Values /\ Add(d0, e0) \in Values /\ Add(d0, d1) \in Values
      BY <2>1, <1>1
    <3>2. Mul(Add(d0, Add(d1, e1)), s0) = Add(m00, Add(m10, n1))
      BY <2>1, <3>1, Distributes
    <3>3. Mul(Add(d1, Add(d0, e0)), s1) = Add(m11, Add(m01, n0))
      BY <2>1, <3>1, Distributes
    <3>4. Mul(Add(d0, d1), Add(s0, s1)) = Add(Mul(Add(d0, d1), s0), Mul(Add(d0, d1), s1))
      BY <2>1, <3>1, Distributes
    <3>5. Mul(Add(d0, d1), s0) = Add(m00, m10) /\ Mul(Add(d0, d1), s1) = Add(m01, m11)
      BY <2>1, Distributes
    <3> QED BY <3>2, <3>3, <3>4, <3>5
  <2>9. Add(Add(m00, Add(m10, n1)), Add(m11, Add(m01, n0)))
          = Add(Add(n0, n1), Add(Add(m00, m10), Add(m01, m11)))
    <3> HIDE DEF m00, m10, m01, m11, n0, n1
    <3>1. SameSum(m00, m10, m11, m01, n1, n0)
      BY <2>7, Regroup
    <3> QED BY <3>1 DEF SameSum
  <2> QED BY <2>2, <2>3, <2>4, <2>5, <2>6, <2>8, <2>9
<1>5. AddAll(a0, a1) = AddAll(AddAll(AddAll(b0, c0), AddAll(b1, c1)), sel)
  <2> HIDE DEF a0, a1, b0, b1, c0, c1, sel
  <2>1. /\ DOMAIN AddAll(a0, a1) = Cells
        /\ AddAll(a0, a1) = [i \in Cells |-> AddAll(a0, a1)[i]]
        /\ AddAll(AddAll(AddAll(b0, c0), AddAll(b1, c1)), sel) =
             [i \in Cells |-> AddAll(AddAll(AddAll(b0, c0), AddAll(b1, c1)), sel)[i]]
    BY DEF AddAll
  <2> QED BY <1>4, <2>1
<1>6. Total(sel) = Add(D0[x], D1[x])
  <2>1. sel[x] = Add(D0[x], D1[x]) /\ \A i \in Cells : i # x => sel[i] = 0
    OBVIOUS
  <2> HIDE DEF sel
  <2> QED BY <1>3, <2>1, TotalSelects
<1> HIDE DEF a0, a1, b0, b1, c0, c1, sel
<1>7. \A e, f \in [Cells -> Values] : AddAll(e, f) \in [Cells -> Values]
  BY <1>1 DEF AddAll
<1>8. /\ Add(Total(a0), Total(a1)) = Total(AddAll(a0, a1))
      /\ Add(Total(b0), Total(c0)) = Total(AddAll(b0, c0))
      /\ Add(Total(b1), Total(c1)) = Total(AddAll(b1, c1))
      /\ Add(Total(AddAll(b0, c0)), Total(AddAll(b1, c1)))
           = Total(AddAll(AddAll(b0, c0), AddAll(b1, c1)))
      /\ Add(Total(AddAll(AddAll(b0, c0), AddAll(b1, c1))), Total(sel))
           = Total(AddAll(AddAll(AddAll(b0, c0), AddAll(b1, c1)), sel))
  BY <1>3, <1>7, TotalAdds
<1>9. /\ Total(a0) \in Values /\ Total(a1) \in Values /\ Total(b0) \in Values
      /\ Total(b1) \in Values /\ Total(c0) \in Values /\ Total(c1) \in Values
      /\ Total(sel) \in Values
  BY <1>3, TotalAdds
<1>10. Add(Total(a0), Total(a1)) =
         Add(Add(Add(Total(b0), Total(c0)), Add(Total(b1), Total(c1))), Total(sel))
  BY <1>5, <1>8
<1>11. Add(Add(Sub(rho, Total(c0)), Sub(0, Add(rho, Total(c1)))),
           Add(Sub(Total(a0), Total(b0)), Sub(Total(a1), Total(b1)))) = Total(sel)
  <2>1. PICK A0, A1, Y0, Y1, C0, C1, S \in Values :
           /\ A0 = Total(a0) /\ A1 = Total(a1) /\ Y0 = Total(b0) /\ Y1 = Total(b1)
           /\ C0 = Total(c0) /\ C1 = Total(c1) /\ S = Total(sel)
    BY <1>9
  <2>2. 0 \in Values
    BY <1>1
  <2>3. Add(A0, A1) = Add(Add(Add(Y0, C0), Add(Y1, C1)), S)
    BY <1>10, <2>1
  <2>4. Add(Add(Sub(rho, C0), Sub(0, Add(rho, C1))), Add(Sub(A0, Y0), Sub(A1, Y1))) = S
    <3>1. Rest(rho, A0, A1, Y0, C0, Y1, C1, S)
      BY <2>3, Cancels
    <3> QED BY <3>1 DEF Rest
  <2> QED BY <2>1, <2>4
<1>12. /\ Sub(Total(a0), Total(b0)) \in Values /\ Sub(Total(a1), Total(b1)) \in Values
       /\ Sub(rho, Total(c0)) \in Values /\ Sub(0, Add(rho, Total(c1))) \in Values
  BY <1>1, <1>9
<1> QED BY <1>6, <1>11, <1>12 DEF a0, a1, b0, b1, c0, c1, P0, P1, DotsShare, Dot, Cross

-----------------------------------------------------------------------------
(* The control of a player.                                                *)

\* Links are of two classes, 0 from the parties and 1 from the server.  A
\* coroutine that is about to run slice n awaits a message of class x.
Classes == {0, 1}
Class(q) == IF q = Server THEN 1 ELSE 0
Awaited(x, n) == IF x = 0 THEN n \in {0, 2, 4} ELSE n = 3

Slices == {0, 1, 2, 3, 4, Finished}

\* The slices that an operation may come to.
OpSlice(op, n) ==
    \/ n \in {1, Finished}
    \/ n = 0 /\ LeavesMode(op)
    \/ n = 2 /\ op.kind \in Explicit \cup Oblivious
    \/ n = 3 /\ op.kind \in Reading
    \/ n = 4 /\ op.kind = "oblivious_write"

\* The slice after slice n of an operation, in the mode m, and the mode.
NextSlice(op, n, m) ==
    CASE n = 1 -> (CASE op.kind = "explicitonly" -> Finished
                     [] op.kind = "reblind" -> (IF m THEN 0 ELSE Finished)
                     [] op.kind \in Explicit -> (IF m THEN Finished ELSE 2)
                     [] op.kind \in Oblivious -> (IF m THEN 0 ELSE 2))
      [] n = 0 -> (IF op.kind = "reblind" THEN Finished ELSE 1)
      [] n = 2 -> (IF op.kind \in Reading THEN 3 ELSE Finished)
      [] n = 3 -> (IF op.kind = "oblivious_read" THEN Finished ELSE 4)
      [] n = 4 -> Finished

NextMode(op, n, m) ==
    IF n # 1 THEN m ELSE op.kind = "explicitonly" \/ (m /\ ~ LeavesMode(op))

\* A control: the place in the script and the mode; of each class of links,
\* how many messages were received, queued and sent, and the number of the
\* message that each coroutine awaits.
First(s) ==
    [batch |-> 1, turn |-> 1, slice |-> Fresh(s[1]), mode |-> FALSE,
     rcv |-> [x \in Classes |-> 0], sent |-> [x \in Classes |-> 0],
     put |-> [x \in Classes |-> 0],
     idx |-> [x \in Classes |-> [c \in DOMAIN s[1] |-> 0]]]

AllFinished(C) == \A c \in DOMAIN C.slice : C.slice[c] = Finished

AfterPass(s, C) ==
    LET more == AllFinished(C) /\ C.batch < Len(s) IN
    [batch |-> IF AllFinished(C) THEN C.batch + 1 ELSE C.batch,
     turn  |-> 1,
     slice |-> IF more THEN Fresh(s[C.batch + 1]) ELSE C.slice,
     mode  |-> C.mode, rcv |-> C.rcv, sent |-> C.sent, put |-> C.sent,
     idx   |-> IF more THEN [x \in Classes |-> [c \in DOMAIN s[C.batch + 1] |-> 0]]
               ELSE C.idx]

AfterSkip(C) ==
    [batch |-> C.batch, turn |-> C.turn + 1, slice |-> C.slice, mode |-> C.mode,
     rcv |-> C.rcv, sent |-> C.sent, put |-> C.put, idx |-> C.idx]

AfterSlice(s, C) ==
    LET op == s[C.batch][C.turn]
        n  == C.slice[C.turn]
        n2 == NextSlice(op, n, C.mode)
    IN  [batch |-> C.batch,
         turn  |-> IF n = 0 /\ op.kind # "reblind" THEN C.turn ELSE C.turn + 1,
         slice |-> [C.slice EXCEPT ![C.turn] = n2],
         mode  |-> NextMode(op, n, C.mode),
         rcv   |-> [x \in Classes |-> IF Awaited(x, n) THEN C.rcv[x] + 1 ELSE C.rcv[x]],
         sent  |-> [x \in Classes |-> IF Awaited(x, n2) THEN C.sent[x] + 1 ELSE C.sent[x]],
         put   |-> C.put,
         idx   |-> [x \in Classes |->
                      IF Awaited(x, n2) THEN [C.idx[x] EXCEPT ![C.turn] = C.sent[x] + 1]
                      ELSE C.idx[x]]]

Ended(s, C)  == C.batch > Len(s)
AtEnd(s, C)  == ~ Ended(s, C) /\ C.turn > Len(s[C.batch])
AtSkip(s, C) == ~ Ended(s, C) /\ C.turn <= Len(s[C.batch]) /\ C.slice[C.turn] = Finished
AtSlice(s, C) == ~ Ended(s, C) /\ C.turn <= Len(s[C.batch]) /\ C.slice[C.turn] # Finished

Succ(s, C) ==
    IF Ended(s, C) THEN C
    ELSE IF C.turn > Len(s[C.batch]) THEN AfterPass(s, C)
    ELSE IF C.slice[C.turn] = Finished THEN AfterSkip(C)
    ELSE AfterSlice(s, C)

-----------------------------------------------------------------------------
(* The invariant of controls.                                              *)

\* The batch, or the last batch once the script is over.
BatchOf(s, C) == s[IF Ended(s, C) THEN Len(s) ELSE C.batch]

Lists(S) == UNION {[1 .. k -> S] : k \in Nat}
Controls ==
    [batch : Nat, turn : Nat, slice : Lists(Slices), mode : BOOLEAN,
     rcv : [Classes -> Nat], sent : [Classes -> Nat], put : [Classes -> Nat],
     idx : [Classes -> Lists(Nat)]]

ControlType(s, C) ==
    /\ C.batch \in 1 .. Len(s) + 1
    /\ C.turn \in 1 .. Len(BatchOf(s, C)) + 1
    /\ C.slice \in [DOMAIN BatchOf(s, C) -> Slices]
    /\ C.mode \in BOOLEAN
    /\ C.rcv \in [Classes -> Nat] /\ C.sent \in [Classes -> Nat]
    /\ C.put \in [Classes -> Nat]
    /\ C.idx \in [Classes -> [DOMAIN BatchOf(s, C) -> Nat]]
    /\ \A c \in DOMAIN C.slice : OpSlice(BatchOf(s, C)[c], C.slice[c])
    /\ Ended(s, C) => AllFinished(C) /\ C.put = C.sent
    /\ \A x \in Classes : C.put[x] <= C.sent[x]

\* In the turns of the coroutines from t on, c comes before d.
Before(t, c, d) == \/ c >= t /\ d < t
                   \/ c < d /\ (c >= t <=> d >= t)

\* The messages of class x on their way are those that coroutines await, in the
\* order of their turns.
InTurn(C, x) ==
    LET waiting == {c \in DOMAIN C.slice : Awaited(x, C.slice[c])} IN
    /\ C.rcv[x] <= C.sent[x]
    /\ \A c \in waiting : C.rcv[x] < C.idx[x][c] /\ C.idx[x][c] <= C.sent[x]
    /\ \A k \in Nat : C.rcv[x] < k /\ k <= C.sent[x] => \E c \in waiting : C.idx[x][c] = k
    /\ \A c, d \in waiting : Before(C.turn, c, d) => C.idx[x][c] < C.idx[x][d]

\* Explicit-only mode was turned on by an earlier batch, or by this one; where
\* it is turned off, no other coroutine is at work.
ModeOK(s, C) ==
    /\ C.mode => \E a \in 1 .. Len(s) :
          /\ a < C.batch \/ (a = C.batch /\ ~ TurnsOff(s[a]))
          /\ TurnsOn(s[a])
          /\ \A d \in a + 1 .. C.batch - 1 : ~ TurnsOff(s[d])
    /\ \A c \in DOMAIN C.slice :
          /\ C.mode /\ LeavesMode(BatchOf(s, C)[c]) => C.slice[c] = 1
          /\ C.slice[c] = 0 => Len(BatchOf(s, C)) = 1

ControlInv(s, C) ==
    ControlType(s, C) /\ (\A x \in Classes : InTurn(C, x)) /\ ModeOK(s, C)


\* What the assumption on scripts says of the batch of a control.
LEMMA ScriptFacts ==
    ASSUME NEW s \in Scripts
    PROVE  /\ Len(s) \in Nat /\ Len(s) > 0 /\ DOMAIN s = 1 .. Len(s)
           /\ \A b \in 1 .. Len(s) :
                 /\ Len(s[b]) \in Nat /\ DOMAIN s[b] = 1 .. Len(s[b])
                 /\ \A c \in 1 .. Len(s[b]) : ValidOp(s[b][c])
                 /\ TurnsOn(s[b]) => Len(s[b]) = 1
BY ScriptsAssumption

LEMMA FirstOK ==
    ASSUME NEW s \in Scripts
    PROVE  ControlInv(s, First(s))
<1> DEFINE C == First(s)
<1>1. /\ C.batch = 1 /\ C.turn = 1 /\ C.slice = Fresh(s[1]) /\ C.mode = FALSE
      /\ \A x \in Classes : C.rcv[x] = 0 /\ C.sent[x] = 0 /\ C.put[x] = 0
      /\ C.idx \in [Classes -> [DOMAIN s[1] -> Nat]]
      /\ C.rcv \in [Classes -> Nat] /\ C.sent \in [Classes -> Nat]
      /\ C.put \in [Classes -> Nat]
  BY DEF First
<1>2. /\ Len(s) \in Nat /\ Len(s) > 0 /\ 1 \in 1 .. Len(s)
      /\ Len(s[1]) \in Nat /\ ~ (1 > Len(s))
  BY ScriptFacts
<1> HIDE DEF C
<1>3. BatchOf(s, C) = s[1] /\ ~ Ended(s, C)
  BY <1>1, <1>2 DEF BatchOf, Ended
<1>4. /\ C.slice \in [DOMAIN s[1] -> Slices] /\ DOMAIN C.slice = DOMAIN s[1]
      /\ \A c \in DOMAIN C.slice : C.slice[c] = 1
  BY <1>1 DEF Fresh, Slices
<1>5. ControlType(s, C)
  <2>1. C.batch \in 1 .. Len(s) + 1 /\ C.turn \in 1 .. Len(s[1]) + 1
    BY <1>1, <1>2
  <2>2. \A c \in DOMAIN C.slice : OpSlice(BatchOf(s, C)[c], C.slice[c])
    BY <1>4 DEF OpSlice
  <2>3. \A x \in Classes : C.put[x] <= C.sent[x]
    BY <1>1
  <2> QED BY <1>1, <1>3, <1>4, <2>1, <2>2, <2>3 DEF ControlType
<1>6. \A x \in Classes : InTurn(C, x)
  BY <1>1, <1>4 DEF InTurn, Awaited
<1>7. ModeOK(s, C)
  BY <1>1, <1>4 DEF ModeOK
<1> QED BY <1>5, <1>6, <1>7 DEF ControlInv, C

LEMMA PassOK ==
    ASSUME NEW s \in Scripts, NEW C, ControlInv(s, C), AtEnd(s, C)
    PROVE  ControlInv(s, AfterPass(s, C))
<1> DEFINE E == AfterPass(s, C)
           b == s[C.batch]
           more == AllFinished(C) /\ C.batch < Len(s)
<1>1. /\ Len(s) \in Nat /\ C.batch \in 1 .. Len(s) /\ BatchOf(s, C) = b
      /\ Len(b) \in Nat /\ C.turn = Len(b) + 1 /\ DOMAIN b = 1 .. Len(b)
      /\ DOMAIN C.slice = 1 .. Len(b)
      /\ C.slice \in [1 .. Len(b) -> Slices]
  BY ScriptFacts DEF ControlInv, ControlType, AtEnd, Ended, BatchOf
<1>2. /\ E.batch = IF AllFinished(C) THEN C.batch + 1 ELSE C.batch
      /\ E.turn = 1 /\ E.mode = C.mode /\ E.rcv = C.rcv
      /\ E.sent = C.sent /\ E.put = C.sent
      /\ more => /\ E.slice = Fresh(s[C.batch + 1])
                 /\ E.idx = [x \in Classes |-> [c \in DOMAIN s[C.batch + 1] |-> 0]]
      /\ ~ more => E.slice = C.slice /\ E.idx = C.idx
  BY DEF AfterPass
<1> HIDE DEF E
<1>3. CASE more
  <2>1. /\ E.batch = C.batch + 1 /\ E.batch \in 1 .. Len(s)
        /\ BatchOf(s, E) = s[E.batch] /\ ~ Ended(s, E)
    BY <1>1, <1>2, <1>3 DEF BatchOf, Ended
  <2>2. /\ Len(s[E.batch]) \in Nat /\ DOMAIN s[E.batch] = 1 .. Len(s[E.batch])
    BY <2>1, ScriptFacts
  <2>3. /\ DOMAIN E.slice = DOMAIN s[E.batch] /\ E.slice \in [DOMAIN s[E.batch] -> Slices]
        /\ \A c \in DOMAIN E.slice : E.slice[c] = 1
    BY <1>2, <1>3, <2>1 DEF Fresh, Slices
  <2>4. E.idx \in [Classes -> [DOMAIN s[E.batch] -> Nat]]
    BY <1>2, <1>3, <2>1
  <2>5. ControlType(s, E)
    <3>1. /\ C.mode \in BOOLEAN /\ C.rcv \in [Classes -> Nat] /\ C.sent \in [Classes -> Nat]
      BY DEF ControlInv, ControlType
    <3>2. /\ E.mode \in BOOLEAN /\ E.rcv \in [Classes -> Nat] /\ E.sent \in [Classes -> Nat]
          /\ E.put \in [Classes -> Nat] /\ \A x \in Classes : E.put[x] <= E.sent[x]
      BY <1>2, <3>1
    <3>3. \A c \in DOMAIN E.slice : OpSlice(BatchOf(s, E)[c], E.slice[c])
      BY <2>3 DEF OpSlice
    <3>4. E.batch \in 1 .. Len(s) + 1 /\ E.turn \in 1 .. Len(BatchOf(s, E)) + 1
      BY <1>1, <1>2, <2>1, <2>2
    <3> QED BY <2>1, <2>3, <2>4, <3>2, <3>3, <3>4 DEF ControlType
  <2>6. ASSUME NEW x \in Classes PROVE InTurn(E, x)
    <3>1. InTurn(C, x)
      BY DEF ControlInv
    <3>2. \A c \in DOMAIN C.slice : ~ Awaited(x, C.slice[c])
      BY <1>3 DEF AllFinished, Awaited, Finished
    <3>3. C.rcv[x] = C.sent[x]
      <4>1. C.rcv[x] \in Nat /\ C.sent[x] \in Nat /\ C.rcv[x] <= C.sent[x]
        BY <3>1 DEF InTurn, ControlInv, ControlType
      <4>2. ~ (C.rcv[x] < C.sent[x])
        BY <3>1, <3>2, <4>1 DEF InTurn
      <4> QED BY <4>1, <4>2
    <3>4. \A c \in DOMAIN E.slice : ~ Awaited(x, E.slice[c])
      BY <2>3 DEF Awaited
    <3>5. C.rcv[x] \in Nat
      BY DEF ControlInv, ControlType
    <3> QED BY <1>2, <3>3, <3>4, <3>5 DEF InTurn
  <2>7. ModeOK(s, E)
    <3>0. E.mode = C.mode
      BY <1>2
    <3>1. ASSUME E.mode
          PROVE  \E a \in 1 .. Len(s) :
                    /\ a < E.batch \/ (a = E.batch /\ ~ TurnsOff(s[a]))
                    /\ TurnsOn(s[a])
                    /\ \A d \in a + 1 .. E.batch - 1 : ~ TurnsOff(s[d])
      <4>1. PICK a \in 1 .. Len(s) :
                    /\ a < C.batch \/ (a = C.batch /\ ~ TurnsOff(s[a]))
                    /\ TurnsOn(s[a])
                    /\ \A d \in a + 1 .. C.batch - 1 : ~ TurnsOff(s[d])
        BY <3>0, <3>1 DEF ControlInv, ModeOK
      <4>2. ~ TurnsOff(s[C.batch])
        <5>1. \A c \in DOMAIN C.slice : ~ LeavesMode(b[c])
          BY <1>1, <1>3, <3>0, <3>1 DEF ControlInv, ModeOK, AllFinished, Finished
        <5> QED BY <1>1, <5>1 DEF TurnsOff
      <4>3. /\ C.batch \in Int /\ a \in Int /\ a < E.batch /\ E.batch - 1 = C.batch
        BY <1>1, <2>1, <4>1
      <4>4. \A d \in a + 1 .. E.batch - 1 : d \in a + 1 .. C.batch - 1 \/ d = C.batch
        BY <4>3
      <4> QED BY <4>1, <4>2, <4>3, <4>4
    <3>2. \A c \in DOMAIN E.slice : E.slice[c] = 1
      BY <2>3
    <3> HIDE DEF b, more
    <3> QED BY <3>1, <3>2 DEF ModeOK
  <2> QED BY <2>5, <2>6, <2>7 DEF ControlInv, E
<1>4. CASE ~ more
  <2>1. BatchOf(s, E) = b /\ E.slice = C.slice /\ E.idx = C.idx
    BY <1>1, <1>2, <1>4 DEF BatchOf, Ended
  <2>2. E.batch \in 1 .. Len(s) + 1 /\ (Ended(s, E) => AllFinished(E))
    BY <1>1, <1>2, <1>4, <2>1 DEF Ended, AllFinished
  <2>3. ControlType(s, E)
    <3>1. /\ C.mode \in BOOLEAN /\ C.rcv \in [Classes -> Nat] /\ C.sent \in [Classes -> Nat]
          /\ C.idx \in [Classes -> [DOMAIN b -> Nat]]
          /\ \A c \in DOMAIN C.slice : OpSlice(b[c], C.slice[c])
      BY <1>1 DEF ControlInv, ControlType
    <3>2. /\ E.mode \in BOOLEAN /\ E.rcv \in [Classes -> Nat] /\ E.sent \in [Classes -> Nat]
          /\ E.put \in [Classes -> Nat] /\ \A x \in Classes : E.put[x] <= E.sent[x]
          /\ E.put = E.sent
      BY <1>2, <3>1
    <3>3. E.turn \in 1 .. Len(BatchOf(s, E)) + 1 /\ E.slice \in [DOMAIN BatchOf(s, E) -> Slices]
      <4>1. E.turn = 1 /\ Len(b) \in Nat /\ DOMAIN b = 1 .. Len(b)
        BY <1>1, <1>2
      <4>2. C.slice \in [1 .. Len(b) -> Slices]
        BY <1>1
      <4> HIDE DEF b, more
      <4> QED BY <2>1, <4>1, <4>2
    <3>4. E.idx \in [Classes -> [DOMAIN BatchOf(s, E) -> Nat]]
          /\ \A c \in DOMAIN E.slice : OpSlice(BatchOf(s, E)[c], E.slice[c])
      BY <2>1, <3>1
    <3> QED BY <2>2, <3>2, <3>3, <3>4 DEF ControlType
  <2>4. ASSUME NEW x \in Classes PROVE InTurn(E, x)
    <3>1. InTurn(C, x)
      BY DEF ControlInv
    <3>2. \A c, d \in DOMAIN C.slice : Before(E.turn, c, d) => Before(C.turn, c, d)
      BY <1>1, <1>2 DEF Before
    <3> HIDE DEF b, more
    <3> QED BY <1>2, <2>1, <3>1, <3>2 DEF InTurn
  <2>5. ModeOK(s, E)
    <3>0. E.mode = C.mode
      BY <1>2
    <3>1. ASSUME E.mode
          PROVE  \E a \in 1 .. Len(s) :
                    /\ a < E.batch \/ (a = E.batch /\ ~ TurnsOff(s[a]))
                    /\ TurnsOn(s[a])
                    /\ \A d \in a + 1 .. E.batch - 1 : ~ TurnsOff(s[d])
      <4>1. PICK a \in 1 .. Len(s) :
                    /\ a < C.batch \/ (a = C.batch /\ ~ TurnsOff(s[a]))
                    /\ TurnsOn(s[a])
                    /\ \A d \in a + 1 .. C.batch - 1 : ~ TurnsOff(s[d])
        BY <3>0, <3>1 DEF ControlInv, ModeOK
      <4>2. AllFinished(C) => ~ TurnsOff(s[C.batch])
        <5>1. AllFinished(C) => \A c \in DOMAIN C.slice : ~ LeavesMode(b[c])
          BY <1>1, <3>0, <3>1 DEF ControlInv, ModeOK, AllFinished, Finished
        <5> QED BY <1>1, <5>1 DEF TurnsOff
      <4>3. /\ C.batch \in Int /\ a \in Int
            /\ ~ AllFinished(C) => E.batch = C.batch
            /\ AllFinished(C) => E.batch - 1 = C.batch /\ a < E.batch
        BY <1>1, <1>2, <4>1
      <4>4. CASE AllFinished(C)
        <5>1. \A d \in a + 1 .. E.batch - 1 : d \in a + 1 .. C.batch - 1 \/ d = C.batch
          BY <4>3, <4>4
        <5> QED BY <4>1, <4>2, <4>3, <4>4, <5>1
      <4>5. CASE ~ AllFinished(C)
        BY <4>1, <4>3, <4>5
      <4> QED BY <4>4, <4>5
    <3>2. \A c \in DOMAIN E.slice :
              /\ E.mode /\ LeavesMode(BatchOf(s, E)[c]) => E.slice[c] = 1
              /\ E.slice[c] = 0 => Len(BatchOf(s, E)) = 1
      BY <1>1, <1>2, <2>1 DEF ControlInv, ModeOK
    <3> HIDE DEF b, more
    <3> QED BY <3>1, <3>2 DEF ModeOK
  <2> QED BY <2>3, <2>4, <2>5 DEF ControlInv, E
<1> QED BY <1>3, <1>4 DEF E

LEMMA SkipOK ==
    ASSUME NEW s \in Scripts, NEW C, ControlInv(s, C), AtSkip(s, C)
    PROVE  ControlInv(s, AfterSkip(C))
<1> DEFINE E == AfterSkip(C)
<1>1. /\ E.batch = C.batch /\ E.turn = C.turn + 1 /\ E.slice = C.slice
      /\ E.mode = C.mode /\ E.rcv = C.rcv /\ E.sent = C.sent /\ E.put = C.put
      /\ E.idx = C.idx
  BY DEF AfterSkip
<1> HIDE DEF E
<1>2. /\ BatchOf(s, E) = BatchOf(s, C) /\ (Ended(s, E) <=> Ended(s, C))
      /\ AllFinished(E) <=> AllFinished(C)
  BY <1>1 DEF BatchOf, Ended, AllFinished
<1>3. /\ Len(s) \in Nat /\ C.batch \in 1 .. Len(s) /\ BatchOf(s, C) = s[C.batch]
      /\ Len(BatchOf(s, C)) \in Nat /\ C.turn \in 1 .. Len(BatchOf(s, C))
      /\ DOMAIN C.slice = 1 .. Len(BatchOf(s, C)) /\ C.slice[C.turn] = Finished
  BY ScriptFacts DEF ControlInv, ControlType, AtSkip, Ended, BatchOf
<1>4. ControlType(s, E)
  <2>1. E.turn \in 1 .. Len(BatchOf(s, E)) + 1
    BY <1>1, <1>2, <1>3
  <2>2. ControlType(s, C)
    BY DEF ControlInv
  <2> QED BY <1>1, <1>2, <2>1, <2>2 DEF ControlType
<1>5. ASSUME NEW x \in Classes PROVE InTurn(E, x)
  <2>1. InTurn(C, x) /\ ~ Awaited(x, C.slice[C.turn])
    BY <1>3 DEF ControlInv, Awaited, Finished
  <2>2. \A c, d \in DOMAIN C.slice : c # C.turn /\ d # C.turn
           => (Before(E.turn, c, d) => Before(C.turn, c, d))
    BY <1>1, <1>3 DEF Before
  <2> QED BY <1>1, <2>1, <2>2 DEF InTurn
<1>6. ModeOK(s, E)
  BY <1>1, <1>2 DEF ControlInv, ModeOK
<1> QED BY <1>4, <1>5, <1>6 DEF ControlInv, E


\* What an operation does next.
LEMMA NextFacts ==
    ASSUME NEW op, ValidOp(op), NEW n \in Slices, n # Finished, OpSlice(op, n),
           NEW m \in BOOLEAN, m /\ LeavesMode(op) => n = 1
    PROVE  LET n2 == NextSlice(op, n, m)
               m2 == NextMode(op, n, m)
           IN  /\ n2 \in Slices /\ OpSlice(op, n2) /\ m2 \in BOOLEAN
               /\ m2 => ~ LeavesMode(op)
               /\ m2 => m \/ op.kind = "explicitonly"
               /\ n2 = 0 => m /\ LeavesMode(op) /\ n = 1
               /\ n = 0 /\ op.kind # "reblind" => n2 = 1
               /\ n2 = 1 => n = 0 /\ op.kind # "reblind"
               /\ \A x \in Classes : ~ (Awaited(x, n) /\ Awaited(x, n2))
<1>1. op.kind \in {"explicitonly", "reblind", "explicit_update", "explicit_write",
                   "oblivious_read", "oblivious_update", "oblivious_write"}
  BY DEF ValidOp, Explicit, Oblivious
<1>2. n \in {0, 1, 2, 3, 4}
  BY DEF Slices, Finished
<1>3. CASE n = 1
  BY <1>1, <1>3 DEF NextSlice, NextMode, OpSlice, LeavesMode, Explicit, Oblivious,
       Reading, Awaited, Slices, Finished, Classes
<1>4. CASE n = 0
  BY <1>1, <1>4 DEF NextSlice, NextMode, OpSlice, LeavesMode, Explicit, Oblivious,
       Reading, Awaited, Slices, Finished, Classes
<1>5. CASE n \in {2, 3, 4}
  BY <1>1, <1>5 DEF NextSlice, NextMode, OpSlice, LeavesMode, Explicit, Oblivious,
       Reading, Awaited, Slices, Finished, Classes
<1> QED BY <1>2, <1>3, <1>4, <1>5

\* C is a control at a slice, and E the next one, field by field.
IsSlice(s, C, E) ==
    LET b  == s[C.batch]
        op == b[C.turn]
        n  == C.slice[C.turn]
        n2 == NextSlice(op, n, C.mode)
    IN  /\ Len(s) \in Nat /\ C.batch \in 1 .. Len(s) /\ BatchOf(s, C) = b
        /\ Len(b) \in Nat /\ C.turn \in 1 .. Len(b) /\ DOMAIN b = 1 .. Len(b)
        /\ C.slice \in [1 .. Len(b) -> Slices] /\ DOMAIN C.slice = 1 .. Len(b)
        /\ C.idx \in [Classes -> [1 .. Len(b) -> Nat]]
        /\ ValidOp(op) /\ n \in Slices /\ n # Finished /\ OpSlice(op, n)
        /\ C.mode \in BOOLEAN /\ (C.mode /\ LeavesMode(op) => n = 1)
        /\ E.batch = C.batch
        /\ E.turn = IF n = 0 /\ op.kind # "reblind" THEN C.turn ELSE C.turn + 1
        /\ E.slice = [C.slice EXCEPT ![C.turn] = n2]
        /\ E.mode = NextMode(op, n, C.mode) /\ E.put = C.put
        /\ \A x \in Classes : E.rcv[x] = IF Awaited(x, n) THEN C.rcv[x] + 1 ELSE C.rcv[x]
        /\ \A x \in Classes : E.sent[x] = IF Awaited(x, n2) THEN C.sent[x] + 1 ELSE C.sent[x]
        /\ \A x \in Classes : E.idx[x] =
                      IF Awaited(x, n2) THEN [C.idx[x] EXCEPT ![C.turn] = C.sent[x] + 1]
                      ELSE C.idx[x]
        /\ E.rcv \in [Classes -> Nat] /\ E.sent \in [Classes -> Nat]
        /\ E.idx \in [Classes -> [1 .. Len(b) -> Nat]]
        /\ BatchOf(s, E) = b /\ ~ Ended(s, E) /\ DOMAIN E.slice = 1 .. Len(b)

LEMMA AtSliceFacts ==
    ASSUME NEW s \in Scripts, NEW C, ControlInv(s, C), AtSlice(s, C)
    PROVE  IsSlice(s, C, AfterSlice(s, C))
<1> DEFINE b  == s[C.batch]
           op == b[C.turn]
           n  == C.slice[C.turn]
           n2 == NextSlice(op, n, C.mode)
           E  == AfterSlice(s, C)
<1>1. /\ Len(s) \in Nat /\ C.batch \in 1 .. Len(s) /\ BatchOf(s, C) = b
      /\ ~ (C.batch > Len(s))
  BY ScriptFacts DEF ControlInv, ControlType, AtSlice, Ended, BatchOf
<1>2. /\ Len(b) \in Nat /\ DOMAIN b = 1 .. Len(b)
      /\ \A c \in 1 .. Len(b) : ValidOp(b[c])
  BY <1>1, ScriptFacts
<1>3. C.turn \in 1 .. Len(b)
  BY <1>1, <1>2 DEF ControlInv, ControlType, AtSlice
<1>4. /\ C.slice \in [1 .. Len(b) -> Slices] /\ DOMAIN C.slice = 1 .. Len(b)
      /\ C.idx \in [Classes -> [1 .. Len(b) -> Nat]] /\ C.mode \in BOOLEAN
      /\ \A c \in 1 .. Len(b) : OpSlice(b[c], C.slice[c])
  BY <1>1, <1>2 DEF ControlInv, ControlType
<1>5. C.mode /\ LeavesMode(op) => n = 1
  BY <1>1, <1>3, <1>4 DEF ControlInv, ModeOK
<1>6. n # Finished
  BY DEF AtSlice
<1>7. /\ E.batch = C.batch
      /\ E.turn = IF n = 0 /\ op.kind # "reblind" THEN C.turn ELSE C.turn + 1
      /\ E.slice = [C.slice EXCEPT ![C.turn] = n2]
      /\ E.mode = NextMode(op, n, C.mode) /\ E.put = C.put
      /\ \A x \in Classes : E.rcv[x] = IF Awaited(x, n) THEN C.rcv[x] + 1 ELSE C.rcv[x]
      /\ \A x \in Classes : E.sent[x] = IF Awaited(x, n2) THEN C.sent[x] + 1 ELSE C.sent[x]
      /\ \A x \in Classes : E.idx[x] =
                    IF Awaited(x, n2) THEN [C.idx[x] EXCEPT ![C.turn] = C.sent[x] + 1]
                    ELSE C.idx[x]
  BY DEF AfterSlice
<1>10. /\ E.rcv \in [Classes -> Nat] /\ E.sent \in [Classes -> Nat]
       /\ E.idx \in [Classes -> [1 .. Len(b) -> Nat]]
  <2>1. C.rcv \in [Classes -> Nat] /\ C.sent \in [Classes -> Nat]
    BY DEF ControlInv, ControlType
  <2>2. /\ E.rcv = [x \in Classes |-> IF Awaited(x, n) THEN C.rcv[x] + 1 ELSE C.rcv[x]]
        /\ E.sent = [x \in Classes |-> IF Awaited(x, n2) THEN C.sent[x] + 1 ELSE C.sent[x]]
        /\ E.idx = [x \in Classes |->
              IF Awaited(x, n2) THEN [C.idx[x] EXCEPT ![C.turn] = C.sent[x] + 1] ELSE C.idx[x]]
    BY DEF AfterSlice
  <2> HIDE DEF E, n, n2
  <2>3. E.rcv \in [Classes -> Nat] /\ E.sent \in [Classes -> Nat]
    BY <2>1, <2>2
  <2>4. \A x \in Classes : (IF Awaited(x, n2) THEN [C.idx[x] EXCEPT ![C.turn] = C.sent[x] + 1]
                            ELSE C.idx[x]) \in [1 .. Len(b) -> Nat]
    <3> SUFFICES ASSUME NEW x \in Classes
                 PROVE  /\ C.idx[x] \in [1 .. Len(b) -> Nat]
                        /\ [C.idx[x] EXCEPT ![C.turn] = C.sent[x] + 1] \in [1 .. Len(b) -> Nat]
      OBVIOUS
    <3>1. C.idx[x] \in [1 .. Len(b) -> Nat] /\ C.sent[x] + 1 \in Nat
      BY <1>4, <2>1
    <3> QED BY <3>1
  <2> QED BY <2>2, <2>3, <2>4
<1>8. BatchOf(s, E) = b /\ ~ Ended(s, E) /\ DOMAIN E.slice = 1 .. Len(b)
  <2>1. E.batch = C.batch /\ DOMAIN E.slice = DOMAIN C.slice
    BY <1>7
  <2> HIDE DEF E
  <2> QED BY <1>1, <1>4, <2>1 DEF BatchOf, Ended
<1> HIDE DEF b, op, n, n2, E
<1>9. ValidOp(op) /\ OpSlice(op, n) /\ n \in Slices
  BY <1>2, <1>3, <1>4 DEF op, n
<1> QED BY <1>1, <1>2, <1>3, <1>4, <1>5, <1>6, <1>7, <1>8, <1>9, <1>10
     DEF IsSlice, b, op, n, n2, E

\* At a slice that receives, the message it takes is the one it awaits.
LEMMA TakesItsOwn ==
    ASSUME NEW s \in Scripts, NEW C, ControlInv(s, C), AtSlice(s, C),
           NEW x \in Classes, Awaited(x, C.slice[C.turn])
    PROVE  C.idx[x][C.turn] = C.rcv[x] + 1 /\ C.rcv[x] < C.sent[x]
<1> DEFINE waiting == {c \in DOMAIN C.slice : Awaited(x, C.slice[c])}
           t == C.turn
<1>1. /\ t \in waiting /\ t \in Nat
      /\ \A c \in waiting : c \in Nat /\ C.idx[x][c] \in Nat
  <2> DEFINE E == AfterSlice(s, C)
  <2>1. IsSlice(s, C, E)
    BY AtSliceFacts
  <2> HIDE DEF E
  <2>2. /\ t \in 1 .. Len(s[C.batch]) /\ DOMAIN C.slice = 1 .. Len(s[C.batch])
        /\ C.idx[x] \in [1 .. Len(s[C.batch]) -> Nat]
    BY <2>1 DEF IsSlice
  <2> QED BY <2>2
<1>2. /\ C.rcv[x] \in Nat /\ C.sent[x] \in Nat
  BY DEF ControlInv, ControlType
<1>3. InTurn(C, x)
  BY DEF ControlInv
<1>4. C.rcv[x] < C.idx[x][t] /\ C.idx[x][t] <= C.sent[x]
  BY <1>1, <1>3 DEF InTurn
<1>5. PICK c \in waiting : C.idx[x][c] = C.rcv[x] + 1
  BY <1>1, <1>2, <1>3, <1>4 DEF InTurn
<1>6. CASE c = t
  BY <1>2, <1>4, <1>5, <1>6
<1>7. CASE c # t
  <2>1. Before(t, t, c)
    BY <1>1, <1>7 DEF Before
  <2>2. C.idx[x][t] < C.idx[x][c]
    BY <1>1, <1>3, <2>1 DEF InTurn
  <2> QED BY <1>1, <1>2, <1>4, <1>5, <2>2
<1> QED BY <1>6, <1>7

LEMMA SliceOK ==
    ASSUME NEW s \in Scripts, NEW C, ControlInv(s, C), AtSlice(s, C)
    PROVE  ControlInv(s, AfterSlice(s, C))
<1> DEFINE E == AfterSlice(s, C)
           b == s[C.batch]
           t == C.turn
           op == b[t]
           n  == C.slice[t]
           n2 == NextSlice(op, n, C.mode)
<1>0. IsSlice(s, C, E)
  BY AtSliceFacts
<1> HIDE DEF E
<1>1. /\ Len(s) \in Nat /\ C.batch \in 1 .. Len(s) /\ BatchOf(s, C) = b
      /\ Len(b) \in Nat /\ t \in 1 .. Len(b) /\ DOMAIN b = 1 .. Len(b)
      /\ C.slice \in [1 .. Len(b) -> Slices] /\ DOMAIN C.slice = 1 .. Len(b)
      /\ C.idx \in [Classes -> [1 .. Len(b) -> Nat]]
      /\ ValidOp(op) /\ n \in Slices /\ n # Finished /\ OpSlice(op, n)
      /\ C.mode \in BOOLEAN /\ (C.mode /\ LeavesMode(op) => n = 1)
  BY <1>0 DEF IsSlice
<1>2. /\ E.batch = C.batch
      /\ E.turn = IF n = 0 /\ op.kind # "reblind" THEN t ELSE t + 1
      /\ E.slice = [C.slice EXCEPT ![t] = n2]
      /\ E.mode = NextMode(op, n, C.mode) /\ E.put = C.put
      /\ \A x \in Classes : E.rcv[x] = IF Awaited(x, n) THEN C.rcv[x] + 1 ELSE C.rcv[x]
      /\ \A x \in Classes : E.sent[x] = IF Awaited(x, n2) THEN C.sent[x] + 1 ELSE C.sent[x]
      /\ \A x \in Classes : E.idx[x] =
                    IF Awaited(x, n2) THEN [C.idx[x] EXCEPT ![t] = C.sent[x] + 1]
                    ELSE C.idx[x]
      /\ E.rcv \in [Classes -> Nat] /\ E.sent \in [Classes -> Nat]
      /\ E.idx \in [Classes -> [1 .. Len(b) -> Nat]]
      /\ BatchOf(s, E) = b /\ ~ Ended(s, E) /\ DOMAIN E.slice = 1 .. Len(b)
  BY <1>0 DEF IsSlice
<1>3. LET m2 == NextMode(op, n, C.mode) IN
      /\ n2 \in Slices /\ OpSlice(op, n2) /\ m2 \in BOOLEAN
      /\ m2 => ~ LeavesMode(op)
      /\ m2 => C.mode \/ op.kind = "explicitonly"
      /\ n2 = 0 => C.mode /\ LeavesMode(op) /\ n = 1
      /\ n = 0 /\ op.kind # "reblind" => n2 = 1
      /\ \A x \in Classes : ~ (Awaited(x, n) /\ Awaited(x, n2))
  BY <1>1, NextFacts
<1>4. /\ C.rcv \in [Classes -> Nat] /\ C.sent \in [Classes -> Nat]
      /\ C.put \in [Classes -> Nat] /\ \A x \in Classes : C.put[x] <= C.sent[x]
      /\ \A c \in 1 .. Len(b) : OpSlice(b[c], C.slice[c])
  BY <1>1 DEF ControlInv, ControlType
<1> HIDE DEF n2
<1>5. ControlType(s, E)
  <2>1. E.turn \in 1 .. Len(b) + 1
    BY <1>1, <1>2
  <2>2. E.slice \in [1 .. Len(b) -> Slices]
    BY <1>1, <1>2, <1>3
  <2>3. E.put \in [Classes -> Nat] /\ \A x \in Classes : E.put[x] <= E.sent[x]
    <3> SUFFICES ASSUME NEW x \in Classes PROVE E.put[x] <= E.sent[x]
      BY <1>2, <1>4
    <3>1. /\ E.put[x] = C.put[x] /\ E.sent[x] \in {C.sent[x], C.sent[x] + 1}
          /\ C.put[x] <= C.sent[x] /\ C.put[x] \in Nat /\ C.sent[x] \in Nat
      BY <1>2, <1>4
    <3> QED BY <3>1
  <2>5. \A c \in 1 .. Len(b) : OpSlice(b[c], E.slice[c])
    BY <1>1, <1>2, <1>3, <1>4
  <2>6. /\ E.batch \in 1 .. Len(s) + 1 /\ E.mode \in BOOLEAN
    BY <1>1, <1>2, <1>3
  <2>7. DOMAIN BatchOf(s, E) = 1 .. Len(b) /\ Len(BatchOf(s, E)) = Len(b)
    BY <1>1, <1>2
  <2> HIDE DEF b, op, n, t
  <2>8. \A c \in DOMAIN E.slice : OpSlice(BatchOf(s, E)[c], E.slice[c])
    BY <1>2, <2>5
  <2> QED BY <1>2, <2>1, <2>2, <2>3, <2>6, <2>7, <2>8 DEF ControlType
<1>6. ASSUME NEW x \in Classes PROVE InTurn(E, x)
  <2> DEFINE w == {c \in 1 .. Len(b) : Awaited(x, C.slice[c])}
             v == {c \in 1 .. Len(b) : Awaited(x, E.slice[c])}
             r == C.rcv[x]
             z == C.sent[x]
             i == C.idx[x]
  <2>1. /\ r \in Nat /\ z \in Nat /\ r <= z
        /\ i \in [1 .. Len(b) -> Nat]
        /\ \A c \in w : r < i[c] /\ i[c] <= z
        /\ \A k \in Nat : r < k /\ k <= z => \E c \in w : i[c] = k
        /\ \A c, d \in w : Before(t, c, d) => i[c] < i[d]
    BY ZenonT(30), <1>1, <1>4 DEF ControlInv, InTurn
  <2>2. \A c \in 1 .. Len(b) : c # t => (c \in v <=> c \in w)
    BY <1>1, <1>2
  <2>3. t \in w <=> Awaited(x, n)
    BY <1>1
  <2>4. t \in v <=> Awaited(x, n2)
    BY <1>1, <1>2
  <2>5. \A c, d \in 1 .. Len(b) : c # t /\ d # t
           => (Before(E.turn, c, d) => Before(t, c, d))
    BY <1>1, <1>2 DEF Before
  <2>6. \A c \in w : c # t => c \in v
    BY <2>2
  <2>7. CASE Awaited(x, n)
    <3>1. i[t] = r + 1 /\ r < z
      BY <2>7, TakesItsOwn
    <3>2. ~ Awaited(x, n2)
      BY <1>3, <2>7
    <3>3. E.rcv[x] = r + 1 /\ E.sent[x] = z /\ E.idx[x] = i
      BY <1>2, <2>7, <3>2
    <3>4. t \in w /\ t \notin v
      BY <2>3, <2>4, <2>7, <3>2
    <3>5. \A c \in v : c \in w /\ c # t
      BY <2>2, <3>4
    <3>6. \A c \in v : r + 1 < i[c] /\ i[c] <= z
      <4> SUFFICES ASSUME NEW c \in v PROVE r + 1 < i[c] /\ i[c] <= z
        OBVIOUS
      <4>1. c \in w /\ c # t /\ c \in 1 .. Len(b)
        BY <3>5
      <4>2. Before(t, t, c)
        BY <1>1, <4>1 DEF Before
      <4>3. i[t] < i[c] /\ i[c] <= z
        BY <2>1, <3>4, <4>1, <4>2
      <4> QED BY <2>1, <3>1, <4>1, <4>3
    <3>7. \A k \in Nat : r + 1 < k /\ k <= z => \E c \in v : i[c] = k
      <4> SUFFICES ASSUME NEW k \in Nat, r + 1 < k, k <= z PROVE \E c \in v : i[c] = k
        OBVIOUS
      <4>1. PICK c \in w : i[c] = k
        BY <2>1
      <4>2. c # t
        BY <3>1, <4>1, <2>1
      <4> QED BY <2>6, <4>1, <4>2
    <3>8. \A c, d \in v : Before(E.turn, c, d) => i[c] < i[d]
      BY <2>1, <2>5, <3>5
    <3> HIDE DEF w, r, z, i
    <3>9. v = {c \in DOMAIN E.slice : Awaited(x, E.slice[c])}
      BY <1>2
    <3> HIDE DEF v
    <3> QED BY <2>1, <3>1, <3>3, <3>6, <3>7, <3>8, <3>9 DEF InTurn
  <2>8. CASE ~ Awaited(x, n) /\ Awaited(x, n2)
    <3>1. E.rcv[x] = r /\ E.sent[x] = z + 1 /\ E.idx[x] = [i EXCEPT ![t] = z + 1]
      BY <1>2, <2>8
    <3>2. E.turn = t + 1
      <4>1. n2 # 1
        BY <2>8 DEF Awaited
      <4> QED BY <1>2, <1>3, <4>1
    <3>3. t \in v /\ t \notin w
      BY <2>3, <2>4, <2>8
    <3>4. E.idx[x][t] = z + 1 /\ \A c \in 1 .. Len(b) : c # t => E.idx[x][c] = i[c]
      BY <1>1, <2>1, <3>1
    <3>5. \A c \in v : r < E.idx[x][c] /\ E.idx[x][c] <= z + 1
      BY <2>1, <2>2, <3>4
    <3>6. \A k \in Nat : r < k /\ k <= z + 1 => \E c \in v : E.idx[x][c] = k
      <4> SUFFICES ASSUME NEW k \in Nat, r < k, k <= z + 1
                   PROVE  \E c \in v : E.idx[x][c] = k
        OBVIOUS
      <4>1. CASE k = z + 1
        BY <3>3, <3>4, <4>1
      <4>2. CASE k # z + 1
        <5>1. PICK c \in w : i[c] = k
          BY <2>1, <4>2
        <5>2. c # t /\ c \in 1 .. Len(b)
          BY <3>3, <5>1
        <5> QED BY <2>6, <3>4, <5>1, <5>2
      <4> QED BY <4>1, <4>2
    <3>7. \A c, d \in v : Before(E.turn, c, d) => E.idx[x][c] < E.idx[x][d]
      <4> SUFFICES ASSUME NEW c \in v, NEW d \in v, Before(E.turn, c, d)
                   PROVE  E.idx[x][c] < E.idx[x][d]
        OBVIOUS
      <4>1. c \in 1 .. Len(b) /\ d \in 1 .. Len(b) /\ t \in 1 .. Len(b) /\ Len(b) \in Nat
        BY <1>1
      <4>2. c # t
        BY <3>2, <4>1 DEF Before
      <4>3. c \in w /\ E.idx[x][c] = i[c] /\ i[c] <= z /\ i[c] \in Nat
        BY <2>1, <2>2, <3>4, <4>1, <4>2
      <4>4. CASE d = t
        BY <2>1, <3>4, <4>3, <4>4
      <4>5. CASE d # t
        BY <2>1, <2>2, <2>5, <3>4, <4>1, <4>2, <4>3, <4>5
      <4> QED BY <4>4, <4>5
    <3> HIDE DEF w, r, z, i
    <3>9. v = {c \in DOMAIN E.slice : Awaited(x, E.slice[c])}
      BY <1>2
    <3> HIDE DEF v
    <3> QED BY <2>1, <3>1, <3>5, <3>6, <3>7, <3>9 DEF InTurn
  <2>9. CASE ~ Awaited(x, n) /\ ~ Awaited(x, n2)
    <3>1. E.rcv[x] = r /\ E.sent[x] = z /\ E.idx[x] = i
      BY <1>2, <2>9
    <3>2. v = w /\ t \notin v
      BY <2>2, <2>3, <2>4, <2>9
    <3>3. \A c, d \in v : Before(E.turn, c, d) => Before(t, c, d)
      BY <2>5, <3>2
    <3>9. v = {c \in DOMAIN E.slice : Awaited(x, E.slice[c])}
      BY <1>2
    <3> HIDE DEF v, w, r, z, i
    <3> QED BY <2>1, <3>1, <3>2, <3>3, <3>9 DEF InTurn
  <2> QED BY <2>7, <2>8, <2>9
<1>7. ModeOK(s, E)
  <2>1. ASSUME E.mode
        PROVE  \E a \in 1 .. Len(s) :
                  /\ a < E.batch \/ (a = E.batch /\ ~ TurnsOff(s[a]))
                  /\ TurnsOn(s[a])
                  /\ \A d \in a + 1 .. E.batch - 1 : ~ TurnsOff(s[d])
    <3>1. CASE C.mode
      BY <1>2, <3>1 DEF ControlInv, ModeOK
    <3>2. CASE op.kind = "explicitonly"
      <4>1. TurnsOn(b)
        BY <1>1, <3>2 DEF TurnsOn
      <4>2. Len(b) = 1
        BY <1>1, <4>1, ScriptFacts
      <4>3. ~ TurnsOff(b)
        BY <1>1, <4>2, <3>2 DEF TurnsOff, LeavesMode, Oblivious
      <4> QED BY <1>1, <1>2, <4>1, <4>3
    <3> QED BY <1>2, <1>3, <2>1, <3>1, <3>2
  <2>2. ASSUME NEW c \in 1 .. Len(b), E.mode, LeavesMode(b[c])
        PROVE  E.slice[c] = 1
    <3>1. c # t
      BY <1>2, <1>3, <2>2
    <3>2. E.slice[c] = C.slice[c]
      BY <1>1, <1>2, <3>1
    <3>3. CASE C.mode
      BY <1>1, <2>2, <3>2, <3>3 DEF ControlInv, ModeOK
    <3>4. CASE op.kind = "explicitonly"
      <4>1. TurnsOn(b)
        BY <1>1, <3>4 DEF TurnsOn
      <4>2. Len(b) = 1
        BY <1>1, <4>1, ScriptFacts
      <4> QED BY <1>1, <3>1, <4>2
    <3> QED BY <1>2, <1>3, <2>2, <3>3, <3>4
  <2>3. ASSUME NEW c \in 1 .. Len(b), E.slice[c] = 0
        PROVE  Len(b) = 1
    <3>1. CASE c # t
      <4>1. C.slice[c] = 0
        BY <1>1, <1>2, <2>3, <3>1
      <4> QED BY <1>1, <4>1 DEF ControlInv, ModeOK
    <3>2. CASE c = t
      <4>1. n2 = 0
        BY <1>1, <1>2, <2>3, <3>2
      <4>2. C.mode /\ LeavesMode(op)
        BY <1>3, <4>1
      <4>3. TurnsOff(b)
        BY <1>1, <4>2 DEF TurnsOff
      <4>4. PICK a \in 1 .. Len(s) :
                  /\ a < C.batch \/ (a = C.batch /\ ~ TurnsOff(s[a]))
                  /\ TurnsOn(s[a])
                  /\ \A d \in a + 1 .. C.batch - 1 : ~ TurnsOff(s[d])
        BY <4>2 DEF ControlInv, ModeOK
      <4>5. a \in 1 .. C.batch - 1
        BY <1>1, <4>3, <4>4
      <4> QED BY <1>1, <4>3, <4>4, <4>5, ScriptsAssumption
    <3> QED BY <3>1, <3>2
  <2> QED BY <1>2, <2>1, <2>2, <2>3 DEF ModeOK
<1> QED BY <1>5, <1>6, <1>7 DEF ControlInv, E


-----------------------------------------------------------------------------
(* The run of a script: the sequence of controls.                          *)

IsRun(s, G) ==
    /\ G \in [Nat -> Controls] /\ G[0] = First(s)
    /\ \A j \in Nat : G[j + 1] = Succ(s, G[j]) /\ ControlInv(s, G[j])

LEMMA SuccOK ==
    ASSUME NEW s \in Scripts, NEW C, ControlInv(s, C)
    PROVE  ControlInv(s, Succ(s, C))
<1>1. CASE Ended(s, C)
  BY <1>1 DEF Succ
<1>2. CASE AtEnd(s, C)
  BY <1>2, PassOK DEF Succ, AtEnd
<1>3. CASE AtSkip(s, C)
  <2>1. ~ (C.turn > Len(s[C.batch]))
    BY <1>3, ScriptFacts DEF AtSkip, ControlInv, ControlType, Ended
  <2> QED BY <1>3, <2>1, SkipOK DEF Succ, AtSkip
<1>4. CASE AtSlice(s, C)
  <2>1. ~ (C.turn > Len(s[C.batch]))
    BY <1>4, ScriptFacts DEF AtSlice, ControlInv, ControlType, Ended
  <2> QED BY <1>4, <2>1, SliceOK DEF Succ, AtSlice
<1>5. ~ Ended(s, C) => C.turn \in Nat /\ Len(s[C.batch]) \in Nat
  BY ScriptFacts DEF ControlInv, ControlType, Ended, BatchOf
<1> QED BY <1>1, <1>2, <1>3, <1>4, <1>5 DEF AtEnd, AtSkip, AtSlice

\* The four kinds of control, and the next one.
LEMMA SuccCases ==
    ASSUME NEW s \in Scripts, NEW C, ControlInv(s, C)
    PROVE  \/ Ended(s, C) /\ Succ(s, C) = C
           \/ AtEnd(s, C) /\ Succ(s, C) = AfterPass(s, C)
           \/ AtSkip(s, C) /\ Succ(s, C) = AfterSkip(C)
           \/ AtSlice(s, C) /\ Succ(s, C) = AfterSlice(s, C)
<1>5. ~ Ended(s, C) => C.turn \in Nat /\ Len(s[C.batch]) \in Nat
  BY ScriptFacts DEF ControlInv, ControlType, Ended, BatchOf
<1> QED BY <1>5 DEF AtEnd, AtSkip, AtSlice, Succ

LEMMA InControls ==
    ASSUME NEW s \in Scripts, NEW C \in Controls, ControlInv(s, C)
    PROVE  Succ(s, C) \in Controls
<1> DEFINE E == Succ(s, C)
           L == Len(BatchOf(s, E))
<1>1. ControlInv(s, E)
  BY SuccOK
<1>2. L \in Nat /\ DOMAIN BatchOf(s, E) = 1 .. L
  BY <1>1, ScriptFacts DEF ControlInv, ControlType, BatchOf, Ended
<1>3. \A S, f : f \in [1 .. L -> S] => f \in Lists(S)
  BY <1>2 DEF Lists
<1>4. E.slice \in Lists(Slices) /\ E.idx \in [Classes -> Lists(Nat)]
  BY <1>1, <1>2, <1>3 DEF ControlInv, ControlType
<1>5. E = [batch |-> E.batch, turn |-> E.turn, slice |-> E.slice, mode |-> E.mode,
           rcv |-> E.rcv, sent |-> E.sent, put |-> E.put, idx |-> E.idx]
  <2>1. CASE Ended(s, C)
    BY <2>1 DEF Succ, Controls
  <2>2. CASE E = AfterPass(s, C)
    BY <2>2 DEF AfterPass
  <2>3. CASE E = AfterSkip(C)
    BY <2>3 DEF AfterSkip
  <2>4. CASE E = AfterSlice(s, C)
    BY <2>4 DEF AfterSlice
  <2> QED BY <2>1, <2>2, <2>3, <2>4, SuccCases
<1>6. /\ E.batch \in Nat /\ E.turn \in Nat /\ E.mode \in BOOLEAN
      /\ E.rcv \in [Classes -> Nat] /\ E.sent \in [Classes -> Nat]
      /\ E.put \in [Classes -> Nat]
  BY <1>1, <1>2 DEF ControlInv, ControlType
<1> HIDE DEF E
<1>7. [batch |-> E.batch, turn |-> E.turn, slice |-> E.slice, mode |-> E.mode,
       rcv |-> E.rcv, sent |-> E.sent, put |-> E.put, idx |-> E.idx] \in Controls
  BY <1>4, <1>6 DEF Controls
<1> QED BY <1>5, <1>7 DEF E

LEMMA RunExists ==
    ASSUME NEW s \in Scripts
    PROVE  \E G : IsRun(s, G)
<1> DEFINE S == {C \in Controls : ControlInv(s, C)}
           F == [C \in S |-> Succ(s, C)]
<1>1. First(s) \in S
  <2>1. ControlInv(s, First(s))
    BY FirstOK
  <2>2. Len(s[1]) \in Nat /\ DOMAIN s[1] = 1 .. Len(s[1])
    BY ScriptFacts
  <2>3. First(s) \in Controls
    <3>1. Fresh(s[1]) \in [1 .. Len(s[1]) -> Slices]
      BY <2>2 DEF Fresh, Slices
    <3>2. [c \in DOMAIN s[1] |-> 0] \in [1 .. Len(s[1]) -> Nat]
      BY <2>2
    <3>3. Fresh(s[1]) \in Lists(Slices) /\ [c \in DOMAIN s[1] |-> 0] \in Lists(Nat)
      BY <2>2, <3>1, <3>2 DEF Lists
    <3> QED BY <3>3 DEF First, Controls
  <2> QED BY <2>1, <2>3
<1>2. F \in [S -> S]
  BY InControls, SuccOK
<1>3. PICK G \in [Nat -> S] : G[0] = First(s) /\ \A j \in Nat : G[j + 1] = F[G[j]]
  <2> HIDE DEF S, F
  <2>1. HasOrbit(S, First(s), F)
    BY <1>1, <1>2, OrbitExists
  <2> QED BY <2>1 DEF HasOrbit
<1>4. IsRun(s, G)
  <2>1. \A j \in Nat : G[j] \in S
    OBVIOUS
  <2>2. G \in [Nat -> Controls]
    BY <2>1
  <2> QED BY <1>3, <2>1, <2>2 DEF IsRun
<1> QED BY <1>4

\* Counters grow, and a control at the end of the script stays.
LEMMA CountersGrow ==
    ASSUME NEW s \in Scripts, NEW C, ControlInv(s, C)
    PROVE  LET E == Succ(s, C) IN
           /\ C.batch <= E.batch
           /\ \A x \in Classes : C.rcv[x] <= E.rcv[x] /\ C.sent[x] <= E.sent[x]
<1> DEFINE E == Succ(s, C)
<1>1. /\ C.batch \in Nat /\ C.rcv \in [Classes -> Nat] /\ C.sent \in [Classes -> Nat]
  BY ScriptFacts DEF ControlInv, ControlType
<1>2. CASE E = C
  BY <1>1, <1>2
<1>3. CASE E = AfterPass(s, C)
  BY <1>1, <1>3 DEF AfterPass
<1>4. CASE E = AfterSkip(C)
  BY <1>1, <1>4 DEF AfterSkip
<1>5. CASE E = AfterSlice(s, C)
  <2>1. /\ E.batch = C.batch
        /\ E.rcv = [x \in Classes |-> IF Awaited(x, C.slice[C.turn])
                                      THEN C.rcv[x] + 1 ELSE C.rcv[x]]
        /\ \E n2 : E.sent = [x \in Classes |-> IF Awaited(x, n2)
                                               THEN C.sent[x] + 1 ELSE C.sent[x]]
    BY SMTT(30), <1>5 DEF AfterSlice
  <2>2. PICK n2 : E.sent = [x \in Classes |-> IF Awaited(x, n2)
                                               THEN C.sent[x] + 1 ELSE C.sent[x]]
    BY <2>1
  <2> HIDE DEF E
  <2>3. ASSUME NEW x \in Classes PROVE C.rcv[x] <= E.rcv[x] /\ C.sent[x] <= E.sent[x]
    <3>1. C.rcv[x] \in Nat /\ C.sent[x] \in Nat
      BY <1>1
    <3>2. E.rcv[x] \in {C.rcv[x], C.rcv[x] + 1} /\ E.sent[x] \in {C.sent[x], C.sent[x] + 1}
      BY <2>1, <2>2
    <3> QED BY <3>1, <3>2
  <2> QED BY <1>1, <2>1, <2>3 DEF E
<1> QED BY <1>2, <1>3, <1>4, <1>5, SuccCases

LEMMA RunGrows ==
    ASSUME NEW s \in Scripts, NEW G, IsRun(s, G), NEW i \in Nat, NEW j \in Nat, i <= j
    PROVE  /\ G[i].batch <= G[j].batch
           /\ \A x \in Classes : G[i].rcv[x] <= G[j].rcv[x] /\ G[i].sent[x] <= G[j].sent[x]
           /\ Ended(s, G[i]) => G[j] = G[i]
<1> DEFINE T == {k \in Nat : /\ G[i].batch <= G[i + k].batch
                             /\ \A x \in Classes : /\ G[i].rcv[x] <= G[i + k].rcv[x]
                                                   /\ G[i].sent[x] <= G[i + k].sent[x]
                             /\ Ended(s, G[i]) => G[i + k] = G[i]}
<1>1. \A k \in Nat : /\ G[k].batch \in Nat /\ G[k].rcv \in [Classes -> Nat]
                     /\ G[k].sent \in [Classes -> Nat]
                     /\ G[k + 1] = Succ(s, G[k]) /\ ControlInv(s, G[k])
  BY DEF IsRun, Controls
<1>2. 0 \in T
  <2>1. i + 0 = i
    OBVIOUS
  <2> QED BY <1>1, <2>1
<1>3. ASSUME NEW k \in Nat, k \in T PROVE k + 1 \in T
  <2>1. i + k \in Nat /\ (i + k) + 1 \in Nat /\ i + (k + 1) = (i + k) + 1
    OBVIOUS
  <2> DEFINE m == i + k
             n == (i + k) + 1
  <2>2. /\ G[m].batch <= G[n].batch
        /\ \A x \in Classes : G[m].rcv[x] <= G[n].rcv[x] /\ G[m].sent[x] <= G[n].sent[x]
        /\ Ended(s, G[m]) => G[n] = G[m]
    BY <1>1, <2>1, CountersGrow DEF Succ
  <2>3. /\ G[i].batch <= G[m].batch
        /\ \A x \in Classes : G[i].rcv[x] <= G[m].rcv[x] /\ G[i].sent[x] <= G[m].sent[x]
        /\ Ended(s, G[i]) => G[m] = G[i]
    BY <1>3
  <2>4. m \in Nat /\ n \in Nat
    BY <2>1
  <2> HIDE DEF m, n
  <2>5. /\ G[i].batch <= G[n].batch
        /\ \A x \in Classes : G[i].rcv[x] <= G[n].rcv[x] /\ G[i].sent[x] <= G[n].sent[x]
        /\ Ended(s, G[i]) => G[n] = G[i]
    BY <1>1, <2>2, <2>3, <2>4
  <2> QED BY <2>1, <2>5 DEF n
<1> HIDE DEF T
<1>4. j - i \in T
  BY <1>2, <1>3, SetInduction
<1>5. i + (j - i) = j
  OBVIOUS
<1> QED BY <1>4, <1>5 DEF T


-----------------------------------------------------------------------------
(* No place comes back, but for the first one of a batch that turns        *)
(* explicit-only mode off.                                                 *)

\* How far coroutine c is.
Rank(C, c) == LET n == C.slice[c] IN
    CASE n = 1 /\ C.mode -> 0
      [] n = 0 -> 1
      [] n = 1 /\ ~ C.mode -> 2
      [] n \in {2, 3, 4} -> n + 1
      [] n = Finished -> 6

LEMMA RankIs ==
    ASSUME NEW C, NEW c, C.slice[c] \in Slices
    PROVE  /\ Rank(C, c) \in 0 .. 6
           /\ Rank(C, c) = 6 <=> C.slice[c] = Finished
BY DEF Rank, Slices, Finished

LEMMA RankGrows ==
    ASSUME NEW s \in Scripts, NEW C, ControlInv(s, C), AtSlice(s, C)
    PROVE  LET E == AfterSlice(s, C) IN
           /\ \A c \in DOMAIN C.slice : Rank(C, c) <= Rank(E, c)
           /\ Rank(C, C.turn) < Rank(E, C.turn)
           /\ E.mode # C.mode => Len(BatchOf(s, C)) = 1
<1> DEFINE E == AfterSlice(s, C)
           b == s[C.batch]
           t == C.turn
           op == b[t]
           n  == C.slice[t]
           n2 == NextSlice(op, n, C.mode)
<1>0. IsSlice(s, C, E)
  BY AtSliceFacts
<1> HIDE DEF E
<1>1. /\ C.batch \in 1 .. Len(s) /\ BatchOf(s, C) = b
      /\ Len(b) \in Nat /\ t \in 1 .. Len(b) /\ DOMAIN b = 1 .. Len(b)
      /\ C.slice \in [1 .. Len(b) -> Slices] /\ DOMAIN C.slice = 1 .. Len(b)
      /\ ValidOp(op) /\ n \in Slices /\ n # Finished /\ OpSlice(op, n)
      /\ C.mode \in BOOLEAN /\ (C.mode /\ LeavesMode(op) => n = 1)
      /\ E.slice = [C.slice EXCEPT ![t] = n2] /\ E.mode = NextMode(op, n, C.mode)
      /\ BatchOf(s, E) = b /\ DOMAIN E.slice = 1 .. Len(b)
  BY <1>0 DEF IsSlice
<1>2. E.mode # C.mode => Len(b) = 1
  <2>1. CASE op.kind = "explicitonly"
    <3>1. TurnsOn(b)
      BY <1>1, <2>1 DEF TurnsOn
    <3> QED BY <1>1, <3>1, ScriptFacts
  <2>2. CASE op.kind # "explicitonly" /\ C.mode # E.mode
    <3>1. n = 1 /\ C.mode /\ LeavesMode(op)
      BY <1>1, <2>2 DEF NextMode
    <3>2. n2 = 0
      BY <3>1 DEF NextSlice, LeavesMode, Oblivious, Explicit
    <3>3. ModeOK(s, E) /\ E.slice[t] = 0 /\ t \in DOMAIN E.slice
      BY <1>1, <3>2, SliceOK DEF ControlInv, E
    <3> QED BY <1>1, <3>3 DEF ModeOK
  <2> QED BY <2>1, <2>2
<1>3. Rank(C, t) < Rank(E, t)
  <2>1. E.slice[t] = n2
    BY <1>1
  <2>2. op.kind \in {"explicitonly", "reblind", "explicit_update", "explicit_write",
                     "oblivious_read", "oblivious_update", "oblivious_write"}
    BY <1>1 DEF ValidOp, Explicit, Oblivious
  <2>3. n \in {0, 1, 2, 3, 4}
    BY <1>1 DEF Slices, Finished
  <2>4. CASE n = 1
    <3>1. Rank(C, t) = IF C.mode THEN 0 ELSE 2
      BY <1>1, <2>4 DEF Rank, Finished
    <3>2. n2 = 0 => C.mode
      BY <1>1, NextFacts
    <3>3. n2 \in {0, 2, Finished}
      BY <2>2, <2>4 DEF NextSlice, Explicit, Oblivious
    <3>4. Rank(E, t) = IF n2 = 0 THEN 1 ELSE IF n2 = 2 THEN 3 ELSE 6
      BY <2>1, <3>3 DEF Rank, Finished
    <3> QED BY <3>1, <3>2, <3>3, <3>4
  <2>5. CASE n = 0
    <3>1. LeavesMode(op)
      BY <1>1, <2>5 DEF OpSlice, Finished
    <3>2. ~ C.mode /\ ~ E.mode
      BY <1>1, <2>5, <3>1 DEF NextMode
    <3> QED BY <2>1, <2>5, <3>2 DEF Rank, NextSlice, Finished
  <2>6. CASE n \in {2, 3, 4}
    <3>1. Rank(C, t) = n + 1
      BY <2>6 DEF Rank, Finished
    <3>2. n2 \in {3, 4, Finished} /\ (n2 # Finished => n2 = IF n = 2 THEN 3 ELSE 4)
          /\ (n = 4 => n2 = Finished)
      BY SMTT(30), <2>6 DEF NextSlice, Finished
    <3>3. Rank(E, t) = IF n2 = Finished THEN 6 ELSE n2 + 1
      BY <2>1, <3>2 DEF Rank, Finished
    <3> QED BY <2>6, <3>1, <3>2, <3>3 DEF Finished
  <2> QED BY <2>3, <2>4, <2>5, <2>6
<1>4. ASSUME NEW c \in DOMAIN C.slice PROVE Rank(C, c) <= Rank(E, c)
  <2>1. CASE c = t
    <3>1. Rank(C, t) \in Int /\ Rank(E, t) \in Int
      <4>1. C.slice[t] \in Slices /\ E.slice[t] \in Slices
        BY <1>1, NextFacts
      <4> QED BY <4>1, RankIs
    <3> QED BY <1>3, <2>1, <3>1
  <2>2. CASE c # t
    <3>1. E.slice[c] = C.slice[c] /\ E.mode = C.mode
      BY <1>1, <1>2, <2>2
    <3>2. Rank(E, c) = Rank(C, c) /\ Rank(C, c) \in 0 .. 6
      BY <1>1, <3>1, RankIs DEF Rank
    <3> QED BY <3>2
  <2> QED BY <2>1, <2>2
<1> QED BY <1>1, <1>2, <1>3, <1>4 DEF E

\* E comes after C in the same batch: it is further on in the same pass, or
\* in a later one, in which every coroutine that had not finished did more.
Later(s, C, E) ==
    /\ E.batch = C.batch
    /\ \A c \in DOMAIN C.slice : Rank(C, c) <= Rank(E, c)
    /\ E.mode # C.mode => Len(BatchOf(s, C)) = 1
    /\ \/ /\ C.turn <= E.turn
          /\ C.turn = E.turn => /\ C.turn \in DOMAIN C.slice
                                /\ Rank(C, C.turn) < Rank(E, C.turn)
          /\ \A c \in DOMAIN C.slice :
                C.turn <= c /\ c < E.turn /\ C.slice[c] # Finished => Rank(C, c) < Rank(E, c)
       \/ /\ \E c \in DOMAIN C.slice : C.slice[c] # Finished
          /\ \A c \in DOMAIN C.slice :
                (C.turn <= c \/ c < E.turn) /\ C.slice[c] # Finished => Rank(C, c) < Rank(E, c)

LEMMA LaterStep ==
    ASSUME NEW s \in Scripts, NEW C, ControlInv(s, C), NEW E, ControlInv(s, E),
           ~ Ended(s, C), E = C \/ Later(s, C, E), Succ(s, E).batch = C.batch
    PROVE  Later(s, C, Succ(s, E))
<1> DEFINE E2 == Succ(s, E)
           b == s[C.batch]
           L == Len(b)
<1>1. /\ C.batch \in 1 .. Len(s) /\ BatchOf(s, C) = b
      /\ L \in Nat /\ DOMAIN b = 1 .. L
  BY ScriptFacts DEF ControlInv, ControlType, Ended, BatchOf
<1>2. E.batch = C.batch /\ BatchOf(s, E) = b /\ ~ Ended(s, E)
  BY <1>1 DEF Later, BatchOf, Ended
<1>3. ControlInv(s, E2)
  BY SuccOK
<1>4. BatchOf(s, E2) = b
  <2>1. E2.batch = C.batch
    OBVIOUS
  <2> HIDE DEF E2
  <2> QED BY <1>1, <2>1 DEF BatchOf, Ended
<1>5. /\ C.slice \in [1 .. L -> Slices] /\ E.slice \in [1 .. L -> Slices]
      /\ E2.slice \in [1 .. L -> Slices]
      /\ C.turn \in 1 .. L + 1 /\ E.turn \in 1 .. L + 1 /\ E2.turn \in 1 .. L + 1
  BY <1>1, <1>2, <1>3, <1>4 DEF ControlInv, ControlType
<1>6. /\ DOMAIN C.slice = 1 .. L /\ DOMAIN E.slice = 1 .. L /\ DOMAIN E2.slice = 1 .. L
      /\ \A c \in 1 .. L :
            /\ Rank(C, c) \in Int /\ Rank(E, c) \in Int /\ Rank(E2, c) \in Int
            /\ Rank(C, c) <= 6 /\ Rank(E, c) <= 6
            /\ C.slice[c] = Finished <=> Rank(C, c) = 6
            /\ E.slice[c] = Finished <=> Rank(E, c) = 6
  <2>1. ASSUME NEW c \in 1 .. L
        PROVE  /\ Rank(C, c) \in 0 .. 6 /\ Rank(E, c) \in 0 .. 6 /\ Rank(E2, c) \in 0 .. 6
               /\ C.slice[c] = Finished <=> Rank(C, c) = 6
               /\ E.slice[c] = Finished <=> Rank(E, c) = 6
    <3>1. C.slice[c] \in Slices /\ E.slice[c] \in Slices /\ E2.slice[c] \in Slices
      BY <1>5
    <3> HIDE DEF E2
    <3> QED BY <3>1, RankIs
  <2>2. DOMAIN C.slice = 1 .. L /\ DOMAIN E.slice = 1 .. L /\ DOMAIN E2.slice = 1 .. L
    BY <1>5
  <2> HIDE DEF E2
  <2> QED BY <2>1, <2>2
<1>7. \A c \in 1 .. L : Rank(C, c) <= Rank(E, c)
  BY <1>6 DEF Later
<1>8. E.mode # C.mode => L = 1
  BY <1>1 DEF Later
<1>9. E2.batch = C.batch
  OBVIOUS
<1> HIDE DEF E2, b, L
<1>10. CASE AtEnd(s, E) /\ E2 = AfterPass(s, E)
  <2>1. ~ AllFinished(E)
    <3>1. AllFinished(E) => E2.batch = E.batch + 1
      BY <1>10 DEF AfterPass
    <3> QED BY <1>1, <1>2, <1>9, <3>1
  <2>2. E2.turn = 1 /\ E2.slice = E.slice /\ E2.mode = E.mode
    BY <1>10, <2>1 DEF AfterPass
  <2>3. \A c \in 1 .. L : Rank(E2, c) = Rank(E, c)
    BY <2>2 DEF Rank
  <2>4. E.turn = L + 1
    BY <1>1, <1>2, <1>5, <1>10 DEF AtEnd, b, L
  <2>5. PICK c \in 1 .. L : E.slice[c] # Finished
    BY <1>6, <2>1 DEF AllFinished
  <2>6. C.slice[c] # Finished
    BY <1>6, <1>7, <2>5
  <2>7. E = C => C.turn = L + 1
    BY <2>4
  <2>8. ASSUME NEW d \in 1 .. L, C.turn <= d \/ d < E2.turn, C.slice[d] # Finished
        PROVE  Rank(C, d) < Rank(E2, d)
    <3>1. C.turn <= d /\ d < E.turn
      <4>1. d \in Int /\ L \in Int /\ d <= L /\ d >= 1
        BY <1>1
      <4> QED BY <1>5, <2>2, <2>4, <2>8, <4>1
    <3>2. E # C
      BY <2>7, <3>1, <1>1, <1>5
    <3> QED BY <1>6, <2>3, <2>8, <3>1, <3>2 DEF Later
  <2> QED BY <1>1, <1>2, <1>6, <1>7, <1>8, <1>9, <2>2, <2>3, <2>6, <2>8 DEF Later, E2, L
<1>11. CASE AtSkip(s, E) /\ E2 = AfterSkip(E)
  <2>2. E2.turn = E.turn + 1 /\ E2.slice = E.slice /\ E2.mode = E.mode
    BY <1>11 DEF AfterSkip
  <2>3. \A c \in 1 .. L : Rank(E2, c) = Rank(E, c)
    BY <2>2 DEF Rank
  <2>4. E.turn \in 1 .. L /\ Rank(E, E.turn) = 6
    BY <1>1, <1>2, <1>5, <1>6, <1>11 DEF AtSkip, b, L
  <2>5. \A c \in 1 .. L : c = E.turn /\ C.slice[c] # Finished => Rank(C, c) < Rank(E2, c)
    BY <1>6, <2>3, <2>4
  <2>6. CASE E = C
    <3>1. \A c \in 1 .. L : C.turn <= c /\ c < E2.turn => c = E.turn
      BY <1>5, <2>2, <2>6
    <3>2. C.turn < E2.turn
      BY <1>5, <2>2, <2>6
    <3> QED BY <1>1, <1>6, <1>7, <1>8, <1>9, <1>5, <2>2, <2>3, <2>5, <3>1, <3>2 DEF Later, E2, L
  <2>7. CASE Later(s, C, E)
    <3>1. \A c \in 1 .. L : c < E2.turn => c < E.turn \/ c = E.turn
      BY <1>5, <2>2
    <3>2. CASE /\ C.turn <= E.turn
               /\ \A c \in 1 .. L : C.turn <= c /\ c < E.turn /\ C.slice[c] # Finished
                                      => Rank(C, c) < Rank(E, c)
      <4>1. C.turn < E2.turn
        BY <1>5, <2>2, <3>2
      <4>2. \A c \in 1 .. L : C.turn <= c /\ c < E2.turn /\ C.slice[c] # Finished
                                => Rank(C, c) < Rank(E2, c)
        BY <2>3, <2>5, <3>1, <3>2
      <4> QED BY <1>1, <1>5, <1>6, <1>7, <1>8, <1>9, <2>2, <2>3, <4>1, <4>2 DEF Later, E2, L
    <3>3. CASE /\ \E c \in 1 .. L : C.slice[c] # Finished
               /\ \A c \in 1 .. L : (C.turn <= c \/ c < E.turn) /\ C.slice[c] # Finished
                                      => Rank(C, c) < Rank(E, c)
      <4>1. \A c \in 1 .. L : (C.turn <= c \/ c < E2.turn) /\ C.slice[c] # Finished
                                => Rank(C, c) < Rank(E2, c)
        BY <2>3, <2>5, <3>1, <3>3
      <4> QED BY <1>1, <1>6, <1>7, <1>8, <1>9, <2>2, <2>3, <3>3, <4>1 DEF Later, E2, L
    <3> QED BY <1>6, <2>7, <3>2, <3>3 DEF Later
  <2> QED BY <2>6, <2>7
<1>12. CASE AtSlice(s, E) /\ E2 = AfterSlice(s, E)
  <2> DEFINE t == E.turn
  <2>1. t \in 1 .. L
    BY <1>1, <1>2, <1>5, <1>12 DEF AtSlice, b, L
  <2>2. E2.turn \in {t, t + 1}
    BY <1>12 DEF AfterSlice
  <2>3. /\ \A c \in 1 .. L : Rank(E, c) <= Rank(E2, c)
        /\ Rank(E, t) < Rank(E2, t)
        /\ E2.mode # E.mode => L = 1
    BY <1>2, <1>6, <1>12, RankGrows DEF L
  <2>4. /\ \A c \in 1 .. L : Rank(C, c) <= Rank(E2, c)
        /\ Rank(C, t) < Rank(E2, t)
        /\ E2.mode # C.mode => L = 1
    BY <1>6, <1>7, <1>8, <2>1, <2>3
  <2> HIDE DEF t
  <2>5. \A c \in 1 .. L : c < E2.turn => c < t \/ c = t
    BY <1>5, <2>1, <2>2
  <2>6. CASE E = C
    <3>1. C.turn = t /\ C.turn <= E2.turn
      BY <2>1, <2>2, <2>6 DEF t
    <3>2. \A c \in 1 .. L : C.turn <= c /\ c < E2.turn => c = t
      BY <2>1, <2>5, <3>1
    <3> QED BY <1>1, <1>6, <1>9, <2>1, <2>4, <3>1, <3>2 DEF Later, E2, L
  <2>7. CASE Later(s, C, E)
    <3>2. CASE /\ C.turn <= t
               /\ \A c \in 1 .. L : C.turn <= c /\ c < t /\ C.slice[c] # Finished
                                      => Rank(C, c) < Rank(E, c)
      <4>1. C.turn <= E2.turn /\ (C.turn = E2.turn => C.turn = t)
        BY <1>5, <2>1, <2>2, <3>2
      <4>2. \A c \in 1 .. L : C.turn <= c /\ c < E2.turn /\ C.slice[c] # Finished
                                => Rank(C, c) < Rank(E2, c)
        <5> SUFFICES ASSUME NEW c \in 1 .. L, C.turn <= c, c < E2.turn, C.slice[c] # Finished
                     PROVE  Rank(C, c) < Rank(E2, c)
          OBVIOUS
        <5>1. CASE c = t
          BY <2>4, <5>1
        <5>2. CASE c < t
          BY <1>6, <2>3, <3>2, <5>2
        <5> QED BY <2>5, <5>1, <5>2
      <4> QED BY <1>1, <1>6, <1>9, <2>1, <2>4, <4>1, <4>2 DEF Later, E2, L
    <3>3. CASE /\ \E c \in 1 .. L : C.slice[c] # Finished
               /\ \A c \in 1 .. L : (C.turn <= c \/ c < t) /\ C.slice[c] # Finished
                                      => Rank(C, c) < Rank(E, c)
      <4>1. \A c \in 1 .. L : (C.turn <= c \/ c < E2.turn) /\ C.slice[c] # Finished
                                => Rank(C, c) < Rank(E2, c)
        <5> SUFFICES ASSUME NEW c \in 1 .. L, C.turn <= c \/ c < E2.turn,
                            C.slice[c] # Finished
                     PROVE  Rank(C, c) < Rank(E2, c)
          OBVIOUS
        <5>1. CASE c = t
          BY <2>4, <5>1
        <5>2. CASE C.turn <= c \/ c < t
          BY <1>6, <2>3, <3>3, <5>2
        <5> QED BY <2>5, <5>1, <5>2
      <4> QED BY <1>1, <1>6, <1>9, <2>4, <3>3, <4>1 DEF Later, E2, L
    <3> QED BY <1>6, <2>7, <3>2, <3>3 DEF Later, t
  <2> QED BY <2>6, <2>7
<1> QED BY <1>2, <1>10, <1>11, <1>12, SuccCases DEF E2

LEMMA RunLater ==
    ASSUME NEW s \in Scripts, NEW G, IsRun(s, G), NEW i \in Nat, NEW j \in Nat, i < j,
           ~ Ended(s, G[i]), G[j].batch = G[i].batch
    PROVE  Later(s, G[i], G[j])
<1> DEFINE C == G[i]
           T == {k \in Nat : G[i + (k + 1)].batch = C.batch => Later(s, C, G[i + (k + 1)])}
<1>1. \A k \in Nat : /\ G[k].batch \in Nat
                     /\ G[k + 1] = Succ(s, G[k]) /\ ControlInv(s, G[k])
  BY DEF IsRun, Controls
<1> HIDE DEF C
<1>2. 0 \in T
  <2>1. i + (0 + 1) = i + 1
    OBVIOUS
  <2> QED BY <1>1, <2>1, LaterStep DEF C
<1>3. ASSUME NEW k \in Nat, k \in T PROVE k + 1 \in T
  <2> DEFINE m == i + (k + 1)
             n == i + ((k + 1) + 1)
  <2>1. m \in Nat /\ n \in Nat /\ n = m + 1 /\ i <= m /\ m <= n
    OBVIOUS
  <2>2. m \in Nat /\ (G[m].batch = C.batch => Later(s, C, G[m]))
    BY <1>3, <2>1
  <2> HIDE DEF m, n
  <2>3. C.batch <= G[m].batch /\ G[m].batch <= G[n].batch
    BY <2>1, RunGrows DEF C
  <2>4. G[n] = Succ(s, G[m]) /\ ControlInv(s, G[m]) /\ ControlInv(s, C)
    BY <1>1, <2>1 DEF C
  <2>5. G[n].batch = C.batch => Later(s, C, G[n])
    <3>1. G[n].batch = C.batch => G[m].batch = C.batch
      <4>1. C.batch \in Nat /\ G[m].batch \in Nat /\ G[n].batch \in Nat
        BY <1>1, <2>1 DEF C
      <4> QED BY <2>3, <4>1
    <3> QED BY <2>2, <2>4, <3>1, LaterStep DEF C
  <2> QED BY <2>5 DEF n
<1> HIDE DEF T
<1>4. j - i - 1 \in T
  <2>1. j - i - 1 \in Nat
    OBVIOUS
  <2> QED BY <1>2, <1>3, <2>1, SetInduction
<1>5. i + ((j - i - 1) + 1) = j
  OBVIOUS
<1> QED BY <1>4, <1>5 DEF T, C

\* Where a place comes back, the batch has one operation, at its first slice.
LEMMA SamePlace ==
    ASSUME NEW s \in Scripts, NEW G, IsRun(s, G), NEW i \in Nat, NEW j \in Nat, i < j,
           ~ Ended(s, G[i]), G[j].batch = G[i].batch, G[j].turn = G[i].turn,
           G[j].slice = G[i].slice
    PROVE  /\ G[i].mode /\ ~ G[j].mode
           /\ \A c \in DOMAIN G[i].slice : G[i].slice[c] = 1
<1> DEFINE C == G[i]
           E == G[j]
<1>1. ControlInv(s, C) /\ ControlInv(s, E) /\ Later(s, C, E)
  BY RunLater DEF IsRun
<1>2. C.mode \in BOOLEAN /\ E.mode \in BOOLEAN
  BY <1>1 DEF ControlInv, ControlType
<1>3. DOMAIN C.slice = 1 .. Len(BatchOf(s, C)) /\ C.slice \in [DOMAIN C.slice -> Slices]
  <2>1. C.slice \in [DOMAIN BatchOf(s, C) -> Slices]
    BY <1>1 DEF ControlInv, ControlType
  <2>2. DOMAIN BatchOf(s, C) = 1 .. Len(BatchOf(s, C))
    BY <1>1, ScriptFacts DEF BatchOf, Ended, ControlInv, ControlType
  <2> QED BY <2>1, <2>2
<1>4. E.batch = C.batch /\ E.turn = C.turn /\ E.slice = C.slice /\ C.turn \in Nat
  BY <1>1, ScriptFacts DEF ControlInv, ControlType, BatchOf, Ended, IsRun, Controls
<1> HIDE DEF C, E
<1>5. \A c \in DOMAIN C.slice : Rank(C, c) \in 0 .. 6 /\ Rank(E, c) \in 0 .. 6
  BY <1>3, <1>4, RankIs
<1>6. \E c \in DOMAIN C.slice : Rank(C, c) < Rank(E, c)
  <2>1. CASE /\ \E c \in DOMAIN C.slice : C.slice[c] # Finished
             /\ \A c \in DOMAIN C.slice :
                  (C.turn <= c \/ c < E.turn) /\ C.slice[c] # Finished => Rank(C, c) < Rank(E, c)
    BY <1>3, <1>4, <2>1
  <2>2. CASE C.turn = E.turn => /\ C.turn \in DOMAIN C.slice
                                /\ Rank(C, C.turn) < Rank(E, C.turn)
    BY <1>4, <2>2
  <2> QED BY <1>1, <2>1, <2>2 DEF Later
<1>7. PICK c \in DOMAIN C.slice : Rank(C, c) < Rank(E, c)
  BY <1>6
<1>8. C.slice[c] = 1 /\ C.mode /\ ~ E.mode
  <2>1. C.slice[c] \in Slices /\ E.slice[c] = C.slice[c]
    BY <1>3, <1>4
  <2>2. C.slice[c] # 1 => Rank(E, c) = Rank(C, c)
    BY <2>1 DEF Rank
  <2>3. Rank(C, c) \in Int
    BY <1>5
  <2>4. C.slice[c] = 1
    BY <1>7, <2>2, <2>3
  <2>5. /\ Rank(C, c) = IF C.mode THEN 0 ELSE 2
        /\ Rank(E, c) = IF E.mode THEN 0 ELSE 2
    BY <1>2, <2>1, <2>4 DEF Rank, Finished
  <2> QED BY <1>2, <1>7, <2>4, <2>5
<1>9. \A d \in DOMAIN C.slice : d = c
  <2>1. E.mode # C.mode
    BY <1>2, <1>8
  <2>2. Len(BatchOf(s, C)) = 1
    BY <1>1, <2>1 DEF Later
  <2>3. DOMAIN C.slice = 1 .. 1
    BY <1>3, <2>2
  <2> QED BY <2>3
<1> QED BY <1>8, <1>9 DEF C, E

-----------------------------------------------------------------------------
(* Slices, and the past of a state.                                        *)

\* What a slice of an operation does, in the mode m.
Job(op, n, m) ==
    CASE n = 0 -> "refresh"
      [] n = 1 -> (CASE op.kind = "explicitonly" -> "nothing"
                     [] op.kind = "reblind" -> (IF m THEN "reblind" ELSE "nothing")
                     [] op.kind \in Explicit -> (IF m THEN "local" ELSE "start")
                     [] op.kind \in Reading -> (IF m THEN "reblind" ELSE "ask")
                     [] op.kind = "oblivious_update" -> (IF m THEN "reblind" ELSE "offset"))
      [] n = 2 -> (CASE op.kind \in Explicit -> "finish"
                     [] op.kind \in Reading -> "dot"
                     [] op.kind = "oblivious_update" -> "update")
      [] n = 3 -> "answer"
      [] n = 4 -> "update"

LEMMA JobFacts ==
    ASSUME NEW op, ValidOp(op), NEW n \in Slices, n # Finished, OpSlice(op, n),
           NEW m \in BOOLEAN, m /\ LeavesMode(op) => n = 1
    PROVE  LET job == Job(op, n, m)
               n2  == NextSlice(op, n, m)
               m2  == NextMode(op, n, m)
           IN  \/ /\ job = "nothing" /\ n = 1 /\ n2 = Finished
                  /\ op.kind \in {"explicitonly", "reblind"}
               \/ /\ job = "reblind" /\ n = 1 /\ n2 = 0 /\ LeavesMode(op) /\ m /\ ~ m2
               \/ /\ job = "refresh" /\ n = 0 /\ n2 \in {1, Finished} /\ LeavesMode(op)
                  /\ ~ m /\ ~ m2
               \/ /\ job = "local" /\ n = 1 /\ n2 = Finished /\ op.kind \in Explicit
                  /\ m /\ m2
               \/ /\ job = "start" /\ n = 1 /\ n2 = 2 /\ op.kind \in Explicit /\ ~ m /\ ~ m2
               \/ /\ job = "finish" /\ n = 2 /\ n2 = Finished /\ op.kind \in Explicit
                  /\ m2 = m
               \/ /\ job = "ask" /\ n = 1 /\ n2 = 2 /\ op.kind \in Reading /\ ~ m /\ ~ m2
               \/ /\ job = "dot" /\ n = 2 /\ n2 = 3 /\ op.kind \in Reading /\ ~ m /\ ~ m2
               \/ /\ job = "answer" /\ n = 3 /\ op.kind \in Reading /\ ~ m /\ ~ m2
                  /\ n2 = IF op.kind = "oblivious_read" THEN Finished ELSE 4
               \/ /\ job = "offset" /\ n = 1 /\ n2 = 2 /\ op.kind = "oblivious_update"
                  /\ ~ m /\ ~ m2
               \/ /\ job = "update" /\ n2 = Finished /\ ~ m /\ ~ m2
                  /\ \/ n = 2 /\ op.kind = "oblivious_update"
                     \/ n = 4 /\ op.kind = "oblivious_write"
<1>1. op.kind \in {"explicitonly", "reblind", "explicit_update", "explicit_write",
                   "oblivious_read", "oblivious_update", "oblivious_write"}
  BY DEF ValidOp, Explicit, Oblivious
<1>2. n \in {0, 1, 2, 3, 4}
  BY DEF Slices, Finished
<1> USE DEF LeavesMode, Explicit, Oblivious, Reading, Finished, Slices
<1>3. CASE n = 1
  BY <1>1, <1>3 DEF Job, NextSlice, NextMode
<1>4. CASE n = 0
  BY <1>1, <1>4 DEF Job, NextSlice, NextMode, OpSlice
<1>5. CASE n = 2
  BY <1>1, <1>5 DEF Job, NextSlice, NextMode, OpSlice
<1>6. CASE n = 3
  BY <1>1, <1>6 DEF Job, NextSlice, NextMode, OpSlice
<1>7. CASE n = 4
  BY <1>1, <1>7 DEF Job, NextSlice, NextMode, OpSlice
<1> QED BY <1>2, <1>3, <1>4, <1>5, <1>6, <1>7

-----------------------------------------------------------------------------
(* The past of a state.                                                    *)

\* What party p, with the data v, says to r about an operation that is at a
\* slice that awaits its answer.
Says(p, op, n, v, c, r) ==
    CASE n = 0 -> (IF r = Server THEN v.bl ELSE AddAll(v.db, v.bl))
      [] n = 2 -> (CASE op.kind \in Explicit ->
                          (IF r = Server THEN v.loc[c].blind
                           ELSE Add(v.loc[c].upd, v.loc[c].blind))
                     [] op.kind \in Reading -> IndOffset(p, op)
                     [] op.kind = "oblivious_update" ->
                          Offsets(p, op, v.loc[c].upd, IF r = Server THEN 1 .. 2 ELSE 0 .. 2))
      [] n = 4 -> Offsets(p, op, v.loc[c].upd, IF r = Server THEN 1 .. 2 ELSE 0 .. 2)

\* The vectors of an update, of DPF k, with the peer's offsets or with both.
Vector(p, op, k, upd, msg) ==
    Scaled(op, k, p, (IndOffset(p, op) + msg.ind) % Width,
           Add(Sub(upd, op.rdpf.scale[k][p]), msg.off[k]))
TheirVector(p, op, msg0, msg1) ==
    Scaled(op, p + 1, p, (msg0.ind + msg1.ind) % Width,
           Add(msg0.off[p + 1], msg1.off[p + 1]))
Own(p) == IF p = 0 THEN 1 ELSE 2

Product(p, op, v, shift) ==
    LET V0 == Unit(op, 0, p, shift)
        V1 == Unit(op, 3 - Own(p), p, shift)
    IN  Sub(Total([i \in Cells |-> Mul(Add(v.db[i], v.pbd[i]), V0[i])]),
            Total([i \in Cells |-> Mul(v.bl[i], Sub(V1[i], V0[i]))]))
Gamma(p, op, v, shift) ==
    Total([i \in Cells |-> Mul(v.sbl[p][i], Unit(op, 2 - p, 1 - p, shift)[i])])

ShareOf(p, op, db) == IF IsWrite(op) THEN Sub(op.value[p], db[op.index]) ELSE op.value[p]

\* A slice of party p takes its data from v to w.
PartyRel(p, op, t, job, n2, v, w, got, gave) ==
    /\ w.db = CASE job = "local" -> [v.db EXCEPT ![op.index] = Add(@, ShareOf(p, op, v.db))]
                [] job = "finish" -> [v.db EXCEPT ![op.index] = Add(@, v.loc[t].upd)]
                [] job = "update" ->
                     AddAll(v.db, Vector(p, op, 0, v.loc[t].upd, got[1 - p]))
                [] OTHER -> v.db
    /\ CASE job = "reblind" -> w.bl \in [Cells -> Blinds]
         [] job = "finish" -> w.bl = [v.bl EXCEPT ![op.index] = Add(@, v.loc[t].blind)]
         [] job = "update" ->
              w.bl = SubAll(v.bl, Vector(p, op, Own(p), v.loc[t].upd, got[1 - p]))
         [] OTHER -> w.bl = v.bl
    /\ w.pbd = CASE job = "refresh" -> got[1 - p]
                 [] job = "finish" -> [v.pbd EXCEPT ![op.index] = Add(@, got[1 - p])]
                 [] job = "update" ->
                      AddAll(v.pbd, SubAll(Vector(p, op, 3 - Own(p), v.loc[t].upd, got[1 - p]),
                                           Vector(p, op, 0, v.loc[t].upd, got[1 - p])))
                 [] OTHER -> v.pbd
    /\ CASE job = "start" ->
              \E blind \in Blinds :
                 w.loc = [v.loc EXCEPT ![t] = [res |-> 0, upd |-> ShareOf(p, op, v.db),
                                               blind |-> blind]]
         [] job = "offset" ->
              w.loc = [v.loc EXCEPT ![t] = [res |-> 0, upd |-> op.value[p], blind |-> 0]]
         [] job = "dot" ->
              w.loc = [v.loc EXCEPT ![t] =
                         [res |-> Product(p, op, v, (IndOffset(p, op) + got[1 - p]) % Width),
                          upd |-> 0, blind |-> 0]]
         [] job = "answer" ->
              LET res == Add(v.loc[t].res, got[Server]) IN
              w.loc = [v.loc EXCEPT ![t] = [res |-> res, upd |-> Sub(op.value[p], res),
                                            blind |-> 0]]
         [] OTHER -> w.loc = v.loc
    /\ p = 0 =>
         /\ w.mem = CASE job = "local" ->
                           [v.mem EXCEPT ![op.index] =
                              IF IsWrite(op) THEN Meant(op) ELSE Add(@, Meant(op))]
                      [] job \in {"finish", "update"} ->
                           [v.mem EXCEPT ![Cell(op)] =
                              Add(@, IF IsWrite(op) THEN Sub(Meant(op), v.exp[t])
                                     ELSE Meant(op))]
                      [] OTHER -> v.mem
         /\ w.exp = IF job \in {"start", "dot"} THEN [v.exp EXCEPT ![t] = v.mem[Cell(op)]]
                    ELSE v.exp
    /\ Awaited(0, n2) => \A r \in Players \ {p} : gave[r] = Says(p, op, n2, w, t, r)

\* A slice of the server.
ServerRel(op, job, v, w, got, gave) ==
    /\ w.sbl = CASE job = "finish" ->
                      [p \in Comp |-> [v.sbl[p] EXCEPT ![op.index] = Add(@, got[p])]]
                 [] job = "update" ->
                      [p \in Comp |-> SubAll(v.sbl[p], TheirVector(p, op, got[0], got[1]))]
                 [] job = "refresh" -> [p \in Comp |-> got[p]]
                 [] OTHER -> v.sbl
    /\ job = "dot" =>
         LET shift == (got[0] + got[1]) % Width IN
         \E rho \in Blinds : /\ gave[0] = Sub(rho, Gamma(0, op, v, shift))
                             /\ gave[1] = Sub(0, Add(rho, Gamma(1, op, v, shift)))

\* The end of a pass.
PassRel(s, q, C, v, w) ==
    IF q = Server THEN w.sbl = v.sbl
    ELSE /\ w.db = v.db /\ w.bl = v.bl /\ w.pbd = v.pbd /\ (q = 0 => w.mem = v.mem)
         /\ IF AllFinished(C) /\ C.batch < Len(s)
              THEN /\ w.loc = Blank(s[C.batch + 1])
                   /\ q = 0 => w.exp = [c \in DOMAIN s[C.batch + 1] |-> 0]
              ELSE w.loc = v.loc /\ (q = 0 => w.exp = v.exp)

\* A step of player q at the control C.
StepRel(s, q, C, v, w, got, gave) ==
    LET op == s[C.batch][C.turn]
        n  == C.slice[C.turn]
    IN  /\ AtEnd(s, C) => PassRel(s, q, C, v, w)
        /\ AtSkip(s, C) => w = v
        /\ AtSlice(s, C) =>
             IF q = Server
             THEN ServerRel(op, Job(op, n, C.mode), v, w, got, gave)
             ELSE PartyRel(q, op, C.turn, Job(op, n, C.mode), NextSlice(op, n, C.mode),
                           v, w, got, gave)

\* Player q's j-th step, with the data D and the messages K of the links.
Happened(s, q, j, G, D, K) ==
    /\ ~ Ended(s, G[j])
    /\ \E got, gave :
          /\ StepRel(s, q, G[j], D[q][j], D[q][j + 1], got, gave)
          /\ \A r \in Players \ {q} :
                /\ G[j].rcv[Class(r)] < G[j + 1].rcv[Class(r)]
                     => got[r] = K[<<r, q>>][G[j + 1].rcv[Class(r)]]
                /\ G[j].sent[Class(q)] < G[j + 1].sent[Class(q)]
                     => gave[r] = K[<<q, r>>][G[j + 1].sent[Class(q)]]

\* In the beginning.
Start(s, q, v) ==
    IF q = Server THEN v.sbl = [p \in Comp |-> Zero]
    ELSE /\ v.db = Zero /\ v.bl = Zero /\ v.pbd = Zero /\ v.loc = Blank(s[1])
         /\ q = 0 => v.mem = Zero /\ v.exp = [c \in DOMAIN s[1] |-> 0]

Received(n, G, l) == G[n[l[2]]].rcv[Class(l[1])]
PutOut(n, G, l)   == G[n[l[1]]].put[Class(l[1])]
Queued(n, G, l)   == G[n[l[1]]].sent[Class(l[1])]

\* Each player q has taken the first n[q] steps.
Log(s, n, G, D, K) ==
    /\ s \in Scripts /\ n \in [Players -> Nat] /\ IsRun(s, G)
    /\ \A q \in Players : Start(s, q, D[q][0])
    /\ \A q \in Players : \A j \in Nat : j < n[q] => Happened(s, q, j, G, D, K)
    /\ \A l \in Links : Received(n, G, l) <= PutOut(n, G, l)

\* The data of a player.
View(q) ==
    CASE q = Server -> [sbl |-> SBL]
      [] q = 0 -> [db |-> DB[0], bl |-> BL[0], pbd |-> PBD[0], loc |-> local[0],
                   mem |-> mem, exp |-> expected]
      [] q = 1 -> [db |-> DB[1], bl |-> BL[1], pbd |-> PBD[1], loc |-> local[1]]

Domains ==
    /\ DB = [p \in Comp |-> DB[p]] /\ BL = [p \in Comp |-> BL[p]]
    /\ PBD = [p \in Comp |-> PBD[p]] /\ local = [q \in Players |-> local[q]]
    /\ \A p \in Comp : DOMAIN local[p] = DOMAIN slice[p]

\* The state is where the log ends.
Trace(n, G, D, K) ==
    /\ Log(script, n, G, D, K)
    /\ batch = [q \in Players |-> G[n[q]].batch]
    /\ turn = [q \in Players |-> G[n[q]].turn]
    /\ slice = [q \in Players |-> G[n[q]].slice]
    /\ explicitmode = [q \in Players |-> G[n[q]].mode]
    /\ Domains /\ \A q \in Players : View(q) = D[q][n[q]]
    /\ wire = [l \in Links |-> Window(K[l], Received(n, G, l), PutOut(n, G, l))]
    /\ outbox = [l \in Links |-> Window(K[l], PutOut(n, G, l), Queued(n, G, l))]

\* The inductive invariant.
HasPast == \E n, G, D, K : Trace(n, G, D, K)

-----------------------------------------------------------------------------
(* One more step makes the log longer.                                     *)

Ahead(n, q) == [n EXCEPT ![q] = @ + 1]
Record(n, D, q, v) ==
    [r \in Players |-> [j \in Nat |-> IF r = q /\ j = n[q] + 1 THEN v ELSE D[r][j]]]
Post(n, G, K, q, gave) ==
    [l \in Links |-> [i \in Nat |-> IF l[1] = q /\ i = Queued(n, G, l) + 1
                                    THEN gave[l[2]] ELSE K[l][i]]]

LEMMA Kinds ==
    ASSUME NEW s \in Scripts, NEW C, ControlInv(s, C)
    PROVE  /\ AtEnd(s, C) => /\ Succ(s, C) = AfterPass(s, C)
                             /\ ~ Ended(s, C) /\ ~ AtSkip(s, C) /\ ~ AtSlice(s, C)
           /\ AtSkip(s, C) => /\ Succ(s, C) = AfterSkip(C)
                              /\ ~ Ended(s, C) /\ ~ AtEnd(s, C) /\ ~ AtSlice(s, C)
           /\ AtSlice(s, C) => /\ Succ(s, C) = AfterSlice(s, C)
                               /\ ~ Ended(s, C) /\ ~ AtEnd(s, C) /\ ~ AtSkip(s, C)
<1>1. ~ Ended(s, C) => C.turn \in Nat /\ Len(s[C.batch]) \in Nat
  BY ScriptFacts DEF ControlInv, ControlType, Ended, BatchOf
<1>2. ~ (C.turn > Len(s[C.batch]) /\ C.turn <= Len(s[C.batch])) \/ Ended(s, C)
  BY <1>1
<1> QED BY <1>2, SuccCases DEF AtEnd, AtSkip, AtSlice

LEMMA OneAtATime ==
    ASSUME NEW s \in Scripts, NEW C, ControlInv(s, C), NEW x \in Classes
    PROVE  LET E == Succ(s, C) IN
           /\ C.rcv[x] \in Nat /\ C.sent[x] \in Nat /\ C.put[x] \in Nat
           /\ C.rcv[x] <= C.sent[x] /\ C.put[x] <= C.sent[x]
           /\ E.rcv[x] \in {C.rcv[x], C.rcv[x] + 1}
           /\ E.sent[x] \in {C.sent[x], C.sent[x] + 1}
           /\ E.put[x] \in {C.put[x], C.sent[x]}
<1> DEFINE E == Succ(s, C)
<1>1. /\ C.rcv[x] \in Nat /\ C.sent[x] \in Nat /\ C.put[x] \in Nat
      /\ C.rcv[x] <= C.sent[x] /\ C.put[x] <= C.sent[x]
  BY DEF ControlInv, ControlType, InTurn
<1>2. CASE E = C
  BY <1>1, <1>2
<1>3. CASE E = AfterPass(s, C)
  <2>1. E.rcv = C.rcv /\ E.sent = C.sent /\ E.put = C.sent
    BY <1>3 DEF AfterPass
  <2> QED BY <1>1, <2>1
<1>4. CASE E = AfterSkip(C)
  <2>1. E.rcv = C.rcv /\ E.sent = C.sent /\ E.put = C.put
    BY <1>4 DEF AfterSkip
  <2> QED BY <1>1, <2>1
<1>5. CASE AtSlice(s, C) /\ E = AfterSlice(s, C)
  <2>1. IsSlice(s, C, E)
    BY <1>5, AtSliceFacts
  <2> HIDE DEF E
  <2>2. /\ E.rcv[x] \in {C.rcv[x], C.rcv[x] + 1} /\ E.sent[x] \in {C.sent[x], C.sent[x] + 1}
        /\ E.put = C.put
    BY <2>1 DEF IsSlice
  <2> QED BY <1>1, <2>2 DEF E
<1> QED BY <1>2, <1>3, <1>4, <1>5, SuccCases

LEMMA ClassFacts ==
    /\ \A q \in Players : Class(q) \in Classes
    /\ \A l \in Links : l[1] \in Players /\ l[2] \in Players /\ l[1] # l[2]
    /\ \A q, r \in Players : q # r => <<q, r>> \in Links /\ <<q, r>>[1] = q /\ <<q, r>>[2] = r
    /\ Players = {0, 1, 2} /\ Comp = {0, 1} /\ Server = 2
    /\ Class(0) = 0 /\ Class(1) = 0 /\ Class(2) = 1
BY DEF Class, Classes, Players, Comp, Server, Links

\* The counters of the links of a log.
LEMMA LogCounts ==
    ASSUME NEW s, NEW n, NEW G, NEW D, NEW K, Log(s, n, G, D, K), NEW l \in Links
    PROVE  /\ Received(n, G, l) \in Nat /\ PutOut(n, G, l) \in Nat /\ Queued(n, G, l) \in Nat
           /\ Received(n, G, l) <= PutOut(n, G, l)
           /\ PutOut(n, G, l) <= Queued(n, G, l)
<1>1. l[1] \in Players /\ l[2] \in Players /\ Class(l[1]) \in Classes
  BY ClassFacts
<1>2. n[l[1]] \in Nat /\ n[l[2]] \in Nat
  BY <1>1 DEF Log
<1>3. ControlInv(s, G[n[l[1]]]) /\ ControlInv(s, G[n[l[2]]]) /\ s \in Scripts
  BY <1>2 DEF Log, IsRun
<1>4. Received(n, G, l) <= PutOut(n, G, l)
  BY DEF Log
<1> QED BY <1>1, <1>3, <1>4, OneAtATime DEF Received, PutOut, Queued

\* What is said of a step is still so with more data and more messages.
LEMMA StillHappened ==
    ASSUME NEW s, NEW n, NEW G, NEW D, NEW K, Log(s, n, G, D, K),
           NEW q \in Players, NEW v, NEW gave,
           NEW r \in Players, NEW j \in Nat, j < n[r]
    PROVE  Happened(s, r, j, G, Record(n, D, q, v), Post(n, G, K, q, gave))
<1> DEFINE D2 == Record(n, D, q, v)
           L  == Post(n, G, K, q, gave)
<1>1. Happened(s, r, j, G, D, K)
  BY DEF Log
<1>2. n[r] \in Nat /\ n[q] \in Nat /\ n \in [Players -> Nat] /\ s \in Scripts /\ IsRun(s, G)
  BY DEF Log
<1>3. D2[r][j] = D[r][j] /\ D2[r][j + 1] = D[r][j + 1]
  BY <1>2 DEF Record
<1>4. PICK got, gaves :
          /\ StepRel(s, r, G[j], D[r][j], D[r][j + 1], got, gaves)
          /\ \A o \in Players \ {r} :
                /\ G[j].rcv[Class(o)] < G[j + 1].rcv[Class(o)]
                     => got[o] = K[<<o, r>>][G[j + 1].rcv[Class(o)]]
                /\ G[j].sent[Class(r)] < G[j + 1].sent[Class(r)]
                     => gaves[o] = K[<<r, o>>][G[j + 1].sent[Class(r)]]
  BY <1>1 DEF Happened
<1>5. ASSUME NEW l \in Links, NEW i \in Nat, i <= Queued(n, G, l)
      PROVE  L[l][i] = K[l][i]
  <2>1. Queued(n, G, l) \in Nat
    BY LogCounts
  <2> QED BY <1>5, <2>1 DEF Post
<1> HIDE DEF L, D2
<1>6. ASSUME NEW o \in Players \ {r}
      PROVE  /\ L[<<o, r>>][G[j + 1].rcv[Class(o)]] = K[<<o, r>>][G[j + 1].rcv[Class(o)]]
             /\ L[<<r, o>>][G[j + 1].sent[Class(r)]] = K[<<r, o>>][G[j + 1].sent[Class(r)]]
  <2>1. /\ <<o, r>> \in Links /\ <<o, r>>[1] = o /\ <<o, r>>[2] = r
        /\ <<r, o>> \in Links /\ <<r, o>>[1] = r /\ <<r, o>>[2] = o
        /\ Class(o) \in Classes /\ Class(r) \in Classes
    BY ClassFacts
  <2>2. j + 1 \in Nat /\ j + 1 <= n[r]
    BY <1>2
  <2>3. /\ G[j + 1].rcv[Class(o)] <= G[n[r]].rcv[Class(o)]
        /\ G[j + 1].sent[Class(r)] <= G[n[r]].sent[Class(r)]
    BY <1>2, <2>1, <2>2, RunGrows
  <2>4. /\ G[j + 1].rcv[Class(o)] \in Nat /\ G[j + 1].sent[Class(r)] \in Nat
    BY <1>2, <2>1, <2>2 DEF IsRun, Controls
  <2>5. /\ Received(n, G, <<o, r>>) = G[n[r]].rcv[Class(o)]
        /\ Queued(n, G, <<r, o>>) = G[n[r]].sent[Class(r)]
    BY <2>1 DEF Received, Queued
  <2>6. /\ Received(n, G, <<o, r>>) \in Nat /\ PutOut(n, G, <<o, r>>) \in Nat
        /\ Queued(n, G, <<o, r>>) \in Nat /\ Queued(n, G, <<r, o>>) \in Nat
        /\ Received(n, G, <<o, r>>) <= PutOut(n, G, <<o, r>>)
        /\ PutOut(n, G, <<o, r>>) <= Queued(n, G, <<o, r>>)
    BY <2>1, LogCounts
  <2>7. /\ G[j + 1].rcv[Class(o)] <= Queued(n, G, <<o, r>>)
        /\ G[j + 1].sent[Class(r)] <= Queued(n, G, <<r, o>>)
    BY <2>3, <2>4, <2>5, <2>6
  <2> QED BY <1>5, <2>1, <2>4, <2>7
<1>7. ~ Ended(s, G[j])
  BY <1>1 DEF Happened
<1> QED BY <1>3, <1>4, <1>6, <1>7 DEF Happened, L, D2

LEMMA AheadFacts ==
    ASSUME NEW n \in [Players -> Nat], NEW q \in Players
    PROVE  /\ Ahead(n, q) \in [Players -> Nat]
           /\ Ahead(n, q)[q] = n[q] + 1
           /\ \A r \in Players : r # q => Ahead(n, q)[r] = n[r]
BY DEF Ahead

\* The counters of a longer log.
LEMMA CountsAhead ==
    ASSUME NEW s, NEW n, NEW G, NEW D, NEW K, Log(s, n, G, D, K), NEW q \in Players,
           NEW l \in Links
    PROVE  LET n2 == Ahead(n, q)
               C  == G[n[q]]
               E  == G[n[q] + 1]
           IN  /\ Received(n2, G, l) = IF l[2] = q THEN E.rcv[Class(l[1])] ELSE Received(n, G, l)
               /\ PutOut(n2, G, l) = IF l[1] = q THEN E.put[Class(q)] ELSE PutOut(n, G, l)
               /\ Queued(n2, G, l) = IF l[1] = q THEN E.sent[Class(q)] ELSE Queued(n, G, l)
               /\ l[2] = q => Received(n, G, l) = C.rcv[Class(l[1])]
               /\ l[1] = q => PutOut(n, G, l) = C.put[Class(q)] /\ Queued(n, G, l) = C.sent[Class(q)]
<1>1. n \in [Players -> Nat] /\ l[1] \in Players /\ l[2] \in Players
  BY ClassFacts DEF Log
<1> QED BY <1>1, AheadFacts DEF Received, PutOut, Queued

LEMMA LogGrows ==
    ASSUME NEW s, NEW n, NEW G, NEW D, NEW K, Log(s, n, G, D, K), NEW q \in Players,
           ~ Ended(s, G[n[q]]), NEW v, NEW got, NEW gave,
           StepRel(s, q, G[n[q]], D[q][n[q]], v, got, gave),
           \A r \in Players \ {q} :
              G[n[q]].rcv[Class(r)] < G[n[q] + 1].rcv[Class(r)]
                => /\ Received(n, G, <<r, q>>) < PutOut(n, G, <<r, q>>)
                   /\ got[r] = K[<<r, q>>][Received(n, G, <<r, q>>) + 1]
    PROVE  Log(s, Ahead(n, q), G, Record(n, D, q, v), Post(n, G, K, q, gave))
<1> DEFINE n2 == Ahead(n, q)
           D2 == Record(n, D, q, v)
           L  == Post(n, G, K, q, gave)
           m  == n[q]
           C  == G[m]
           E  == G[m + 1]
<1>1. /\ n \in [Players -> Nat] /\ s \in Scripts /\ IsRun(s, G) /\ m \in Nat /\ m + 1 \in Nat
  BY DEF Log
<1>2. /\ n2 \in [Players -> Nat] /\ n2[q] = m + 1 /\ \A r \in Players : r # q => n2[r] = n[r]
  BY <1>1, AheadFacts
<1>3. E = Succ(s, C) /\ ControlInv(s, C)
  BY <1>1 DEF IsRun
<1>4. \A r \in Players : Start(s, r, D2[r][0])
  <2>1. ASSUME NEW r \in Players PROVE D2[r][0] = D[r][0]
    BY <1>1 DEF Record
  <2> QED BY <2>1 DEF Log
<1>5. Happened(s, q, m, G, D2, L)
  <2>1. D2[q][m] = D[q][m] /\ D2[q][m + 1] = v
    BY <1>1 DEF Record
  <2>2. ASSUME NEW r \in Players \ {q}
        PROVE  /\ C.rcv[Class(r)] < E.rcv[Class(r)]
                    => got[r] = L[<<r, q>>][E.rcv[Class(r)]]
               /\ C.sent[Class(q)] < E.sent[Class(q)]
                    => gave[r] = L[<<q, r>>][E.sent[Class(q)]]
    <3>1. /\ <<r, q>> \in Links /\ <<r, q>>[1] = r /\ <<r, q>>[2] = q
          /\ <<q, r>> \in Links /\ <<q, r>>[1] = q /\ <<q, r>>[2] = r
          /\ Class(r) \in Classes /\ Class(q) \in Classes
      BY ClassFacts
    <3>2. /\ C.rcv[Class(r)] \in Nat /\ E.rcv[Class(r)] \in {C.rcv[Class(r)], C.rcv[Class(r)] + 1}
          /\ C.sent[Class(q)] \in Nat
          /\ E.sent[Class(q)] \in {C.sent[Class(q)], C.sent[Class(q)] + 1}
      BY <1>1, <1>3, <3>1, OneAtATime
    <3>3. /\ Received(n, G, <<r, q>>) = C.rcv[Class(r)]
          /\ Queued(n, G, <<q, r>>) = C.sent[Class(q)]
      BY <3>1 DEF Received, Queued
    <3>4. \A i \in Nat : L[<<r, q>>][i] = K[<<r, q>>][i]
      BY <3>1 DEF Post
    <3>5. L[<<q, r>>][C.sent[Class(q)] + 1] = gave[r]
      BY <3>1, <3>2, <3>3 DEF Post
    <3> HIDE DEF C, E, L
    <3> QED BY <3>2, <3>3, <3>4, <3>5 DEF C, E, m
  <2> HIDE DEF L, D2
  <2> QED BY <2>1, <2>2 DEF Happened
<1>6. ASSUME NEW r \in Players, NEW j \in Nat, j < n2[r]
      PROVE  Happened(s, r, j, G, D2, L)
  <2>1. CASE j < n[r]
    <3> HIDE DEF D2, L
    <3> QED BY <2>1, StillHappened DEF D2, L
  <2>2. CASE ~ (j < n[r])
    <3>1. n[r] \in Nat
      BY <1>1
    <3>2. r = q /\ j = m
      BY <1>1, <1>2, <1>6, <2>2, <3>1
    <3> QED BY <1>5, <3>2
  <2> QED BY <2>1, <2>2
<1>7. ASSUME NEW l \in Links PROVE Received(n2, G, l) <= PutOut(n2, G, l)
  <2>1. /\ l[1] \in Players /\ l[2] \in Players /\ l[1] # l[2]
        /\ Class(l[1]) \in Classes /\ Class(l[2]) \in Classes
    BY ClassFacts
  <2>2. /\ Received(n, G, l) \in Nat /\ PutOut(n, G, l) \in Nat /\ Queued(n, G, l) \in Nat
        /\ Received(n, G, l) <= PutOut(n, G, l) /\ PutOut(n, G, l) <= Queued(n, G, l)
    BY LogCounts
  <2>3. CASE l[1] = q
    <3>1. Received(n2, G, l) = Received(n, G, l) /\ PutOut(n2, G, l) = E.put[Class(q)]
      BY <2>1, <2>3, CountsAhead
    <3>2. PutOut(n, G, l) = C.put[Class(q)] /\ Queued(n, G, l) = C.sent[Class(q)]
      BY <2>1, <2>3, CountsAhead
    <3>3. E.put[Class(q)] \in {C.put[Class(q)], C.sent[Class(q)]}
      BY <1>1, <1>3, <2>1, <2>3, OneAtATime
    <3> QED BY <2>2, <3>1, <3>2, <3>3
  <2>4. CASE l[2] = q
    <3>1. Received(n2, G, l) = E.rcv[Class(l[1])] /\ PutOut(n2, G, l) = PutOut(n, G, l)
      BY <2>1, <2>4, CountsAhead
    <3>2. Received(n, G, l) = C.rcv[Class(l[1])]
      BY <2>1, <2>4, CountsAhead
    <3>3. E.rcv[Class(l[1])] \in {C.rcv[Class(l[1])], C.rcv[Class(l[1])] + 1}
      BY <1>1, <1>3, <2>1, OneAtATime
    <3>4. l = <<l[1], q>>
      BY <2>4 DEF Links
    <3>5. C.rcv[Class(l[1])] < E.rcv[Class(l[1])] => Received(n, G, l) < PutOut(n, G, l)
      BY <2>1, <2>4, <3>4
    <3> QED BY <2>2, <3>1, <3>2, <3>3, <3>5
  <2>5. CASE l[1] # q /\ l[2] # q
    BY <2>1, <2>2, <2>5, CountsAhead
  <2> QED BY <2>3, <2>4, <2>5
<1> QED BY <1>1, <1>2, <1>4, <1>6, <1>7 DEF Log

-----------------------------------------------------------------------------
(* A step of the protocol makes the past of the state longer.              *)

\* Player q comes to the control E.
Moves(q, E) ==
    /\ script' = script
    /\ batch' = [batch EXCEPT ![q] = E.batch]
    /\ turn' = [turn EXCEPT ![q] = E.turn]
    /\ slice' = [slice EXCEPT ![q] = E.slice]
    /\ explicitmode' = [explicitmode EXCEPT ![q] = E.mode]

\* The other players keep their data.
Others(q) == Domains' /\ \A r \in Players \ {q} : View(r)' = View(r)

\* Where a player is.
LEMMA Here ==
    ASSUME NEW n, NEW G, NEW D, NEW K, Trace(n, G, D, K), NEW q \in Players
    PROVE  LET C == G[n[q]] IN
           /\ script \in Scripts /\ IsRun(script, G) /\ n[q] \in Nat /\ n \in [Players -> Nat]
           /\ ControlInv(script, C) /\ ControlInv(script, G[n[q] + 1])
           /\ G[n[q] + 1] = Succ(script, C)
           /\ batch[q] = C.batch /\ turn[q] = C.turn /\ slice[q] = C.slice
           /\ explicitmode[q] = C.mode /\ View(q) = D[q][n[q]]
           /\ C.batch \in Nat /\ Len(script) \in Nat
           /\ Running(q) <=> ~ Ended(script, C)
           /\ Ops(q) = script[C.batch] /\ Op(q) = script[C.batch][C.turn]
<1> DEFINE C == G[n[q]]
<1>1. /\ script \in Scripts /\ IsRun(script, G) /\ n[q] \in Nat /\ n \in [Players -> Nat]
  BY DEF Trace, Log
<1>2. /\ ControlInv(script, C) /\ ControlInv(script, G[n[q] + 1]) /\ C.batch \in Nat
      /\ G[n[q] + 1] = Succ(script, C)
  <2>1. n[q] + 1 \in Nat
    BY <1>1
  <2> QED BY <1>1, <2>1 DEF IsRun, Controls
<1>3. /\ batch[q] = C.batch /\ turn[q] = C.turn /\ slice[q] = C.slice
      /\ explicitmode[q] = C.mode /\ View(q) = D[q][n[q]]
  BY DEF Trace
<1>4. Len(script) \in Nat
  BY <1>1, ScriptFacts
<1> HIDE DEF C
<1> QED BY <1>1, <1>2, <1>3, <1>4 DEF C, Running, Ended, Ops, Op

LEMMA TraceGrows ==
    ASSUME NEW n, NEW G, NEW D, NEW K, Trace(n, G, D, K), NEW q \in Players,
           ~ Ended(script, G[n[q]]), NEW v, v = View(q)', NEW got, NEW gave,
           StepRel(script, q, G[n[q]], View(q), v, got, gave),
           \A r \in Players \ {q} :
              G[n[q]].rcv[Class(r)] < G[n[q] + 1].rcv[Class(r)]
                => /\ Received(n, G, <<r, q>>) < PutOut(n, G, <<r, q>>)
                   /\ got[r] = K[<<r, q>>][Received(n, G, <<r, q>>) + 1],
           Moves(q, G[n[q] + 1]), Others(q),
           NEW n2, n2 = Ahead(n, q), NEW L, L = Post(n, G, K, q, gave),
           wire' = [l \in Links |-> Window(L[l], Received(n2, G, l), PutOut(n2, G, l))],
           outbox' = [l \in Links |-> Window(L[l], PutOut(n2, G, l), Queued(n2, G, l))]
    PROVE  HasPast'
<1> DEFINE D2 == Record(n, D, q, v)
           m  == n[q]
<1>1. Log(script, n, G, D, K) /\ View(q) = D[q][m] /\ n \in [Players -> Nat] /\ m \in Nat
  BY Here DEF Trace
<1>2. Log(script, n2, G, D2, L)
  BY <1>1, LogGrows
<1>3. /\ n2 \in [Players -> Nat] /\ n2[q] = m + 1 /\ \A r \in Players : r # q => n2[r] = n[r]
  BY <1>1, AheadFacts
<1>4. D2[q][m + 1] = v /\ \A r \in Players : r # q => D2[r][n[r]] = D[r][n[r]]
  BY <1>1 DEF Record
<1> HIDE DEF D2
<1>5. \A r \in Players : View(r)' = D2[r][n2[r]]
  <2>1. \A r \in Players : View(r) = D[r][n[r]]
    BY DEF Trace
  <2> QED BY <1>3, <1>4, <2>1 DEF Others
<1>6. /\ batch' = [r \in Players |-> G[n2[r]].batch]
      /\ turn' = [r \in Players |-> G[n2[r]].turn]
      /\ slice' = [r \in Players |-> G[n2[r]].slice]
      /\ explicitmode' = [r \in Players |-> G[n2[r]].mode]
  <2>1. /\ batch = [r \in Players |-> G[n[r]].batch]
        /\ turn = [r \in Players |-> G[n[r]].turn]
        /\ slice = [r \in Players |-> G[n[r]].slice]
        /\ explicitmode = [r \in Players |-> G[n[r]].mode]
    BY DEF Trace
  <2> QED BY <1>3, <2>1 DEF Moves
<1>7. script' = script /\ Domains'
  BY DEF Moves, Others
<1>8. Trace(n2, G, D2, L)'
  BY <1>2, <1>5, <1>6, <1>7 DEF Trace
<1> QED BY <1>8 DEF HasPast

\* Messages queued before are where they were; a new one comes after them.
LEMMA PostKeeps ==
    ASSUME NEW s, NEW n, NEW G, NEW D, NEW K, Log(s, n, G, D, K), NEW q \in Players, NEW gave,
           NEW l \in Links, NEW a \in Nat, NEW b \in Nat, b <= Queued(n, G, l)
    PROVE  Window(Post(n, G, K, q, gave)[l], a, b) = Window(K[l], a, b)
<1> DEFINE L == Post(n, G, K, q, gave)
<1>1. Queued(n, G, l) \in Nat
  BY LogCounts
<1>2. \A i \in 1 .. b : L[l][i] = K[l][i]
  BY <1>1 DEF Post
<1> HIDE DEF L
<1> QED BY <1>2, WindowSame DEF L

LEMMA PostAppends ==
    ASSUME NEW s, NEW n, NEW G, NEW D, NEW K, Log(s, n, G, D, K), NEW q \in Players, NEW gave,
           NEW l \in Links, l[1] = q, NEW a \in Nat, a <= Queued(n, G, l)
    PROVE  Append(Window(K[l], a, Queued(n, G, l)), gave[l[2]])
              = Window(Post(n, G, K, q, gave)[l], a, Queued(n, G, l) + 1)
<1> DEFINE L == Post(n, G, K, q, gave)
           b == Queued(n, G, l)
<1>1. b \in Nat
  BY LogCounts
<1>2. \A i \in 1 .. b : L[l][i] = K[l][i]
  BY <1>1 DEF Post
<1>3. L[l][b + 1] = gave[l[2]]
  BY <1>1 DEF Post
<1> HIDE DEF L, b
<1>4. a <= b
  BY DEF b
<1> DEFINE g == K[l]
           h == L[l]
<1>5. h[b + 1] = gave[l[2]] /\ Continues(h, g, b)
  BY <1>2, <1>3 DEF Continues
<1> HIDE DEF g, h
<1>6. Append(Window(g, a, b), h[b + 1]) = Window(h, a, b + 1)
  BY <1>1, <1>4, <1>5, WindowAppend
<1> QED BY <1>5, <1>6 DEF L, b, g, h

LEMMA SkipStep ==
    ASSUME NEW n, NEW G, NEW D, NEW K, Trace(n, G, D, K), NEW q \in Players, Skip(q)
    PROVE  HasPast'
<1> DEFINE C == G[n[q]]
           E == G[n[q] + 1]
           n2 == Ahead(n, q)
           gave == [r \in Players |-> 0]
           L == Post(n, G, K, q, gave)
<1>1. /\ script \in Scripts /\ ControlInv(script, C) /\ E = Succ(script, C)
      /\ batch[q] = C.batch /\ turn[q] = C.turn /\ slice[q] = C.slice
      /\ explicitmode[q] = C.mode
      /\ Running(q) <=> ~ Ended(script, C)
      /\ Ops(q) = script[C.batch]
  BY Here
<1>2. AtSkip(script, C)
  BY <1>1 DEF Skip, At, AtSkip
<1>3. E = AfterSkip(C)
  BY <1>1, <1>2, Kinds
<1>4. /\ E.batch = C.batch /\ E.turn = C.turn + 1 /\ E.slice = C.slice /\ E.mode = C.mode
      /\ E.rcv = C.rcv /\ E.sent = C.sent /\ E.put = C.put
  BY <1>3 DEF AfterSkip
<1> HIDE DEF C, E
<1>5. Moves(q, E)
  <2>1. /\ script' = script /\ batch' = batch /\ slice' = slice /\ explicitmode' = explicitmode
        /\ turn' = [turn EXCEPT ![q] = @ + 1]
    BY DEF Skip, memory
  <2>2. /\ batch = [r \in Players |-> G[n[r]].batch] /\ slice = [r \in Players |-> G[n[r]].slice]
        /\ explicitmode = [r \in Players |-> G[n[r]].mode]
    BY DEF Trace
  <2>3. /\ batch = [batch EXCEPT ![q] = C.batch] /\ slice = [slice EXCEPT ![q] = C.slice]
        /\ explicitmode = [explicitmode EXCEPT ![q] = C.mode]
    BY <2>2 DEF C
  <2> QED BY <1>1, <1>4, <2>1, <2>3 DEF Moves
<1>6. Domains' /\ \A r \in Players : View(r)' = View(r)
  <2>1. UNCHANGED <<DB, BL, PBD, SBL, local, mem, expected, slice>>
    BY DEF Skip, memory
  <2>2. Domains
    BY DEF Trace
  <2>3. Domains'
    BY <2>1, <2>2 DEF Domains
  <2>4. ASSUME NEW r \in Players PROVE View(r)' = View(r)
    BY <2>1 DEF View
  <2> QED BY <2>3, <2>4
<1>7. Log(script, n, G, D, K)
  BY DEF Trace
<1>8. ASSUME NEW l \in Links
      PROVE  /\ Received(n2, G, l) = Received(n, G, l) /\ PutOut(n2, G, l) = PutOut(n, G, l)
             /\ Queued(n2, G, l) = Queued(n, G, l)
  <2>1. l[1] \in Players /\ l[2] \in Players
    BY ClassFacts
  <2> QED BY <1>4, <1>7, <2>1, CountsAhead DEF C, E
<1> HIDE DEF n2
<1>9. ASSUME NEW l \in Links
      PROVE  /\ Window(K[l], Received(n, G, l), PutOut(n, G, l))
                  = Window(L[l], Received(n2, G, l), PutOut(n2, G, l))
             /\ Window(K[l], PutOut(n, G, l), Queued(n, G, l))
                  = Window(L[l], PutOut(n2, G, l), Queued(n2, G, l))
  <2>1. /\ Received(n, G, l) \in Nat /\ PutOut(n, G, l) \in Nat /\ Queued(n, G, l) \in Nat
        /\ PutOut(n, G, l) <= Queued(n, G, l) /\ Queued(n, G, l) <= Queued(n, G, l)
    BY <1>7, LogCounts
  <2> HIDE DEF gave
  <2> QED BY <1>7, <1>8, <2>1, PostKeeps
<1> HIDE DEF gave, L
<1>10. /\ wire' = [l \in Links |-> Window(L[l], Received(n2, G, l), PutOut(n2, G, l))]
       /\ outbox' = [l \in Links |-> Window(L[l], PutOut(n2, G, l), Queued(n2, G, l))]
  <2>1. wire' = wire /\ outbox' = outbox
    BY DEF Skip
  <2> QED BY <1>9, <2>1 DEF Trace
<1>11. PICK v : v = View(q)'
  OBVIOUS
<1>12. StepRel(script, q, C, View(q), v, gave, gave)
  <2>1. v = View(q)
    BY <1>6, <1>11
  <2>2. ~ AtEnd(script, C) /\ ~ AtSlice(script, C)
    BY <1>1, <1>2, Kinds
  <2> QED BY <2>1, <2>2 DEF StepRel
<1>13. ~ Ended(script, C) /\ \A r \in Players : ~ (C.rcv[Class(r)] < E.rcv[Class(r)])
  <2>1. ~ Ended(script, C)
    BY <1>2 DEF AtSkip
  <2>2. \A r \in Players : C.rcv[Class(r)] \in Nat
    BY <1>1, ClassFacts, OneAtATime
  <2> QED BY <1>4, <2>1, <2>2
<1>14. Others(q)
  BY <1>6 DEF Others
<1> QED BY <1>5, <1>10, <1>11, <1>12, <1>13, <1>14, TraceGrows DEF C, E, L, n2

LEMMA PassMoves ==
    ASSUME NEW n, NEW G, NEW D, NEW K, Trace(n, G, D, K), NEW q \in Players, SendAll(q)
    PROVE  /\ AtEnd(script, G[n[q]]) /\ G[n[q] + 1] = AfterPass(script, G[n[q]])
           /\ Moves(q, G[n[q] + 1]) /\ Others(q)
           /\ PassRel(script, q, G[n[q]], View(q), View(q)')
<1> DEFINE C == G[n[q]]
           E == G[n[q] + 1]
           last == \A c \in DOMAIN Ops(q) : slice[q][c] = Finished
           more == last /\ batch[q] < Len(script)
<1>1. /\ script \in Scripts /\ ControlInv(script, C) /\ E = Succ(script, C)
      /\ batch[q] = C.batch /\ turn[q] = C.turn /\ slice[q] = C.slice
      /\ explicitmode[q] = C.mode
      /\ Running(q) <=> ~ Ended(script, C)
      /\ Ops(q) = script[C.batch] /\ Len(script) \in Nat /\ C.batch \in Nat
  BY Here
<1> HIDE DEF C, E
<1>2. /\ ~ Ended(script, C) /\ C.turn = Len(script[C.batch]) + 1
      /\ C.batch \in 1 .. Len(script) /\ Len(script[C.batch]) \in Nat
      /\ DOMAIN C.slice = DOMAIN script[C.batch]
  <2>1. Running(q) /\ turn[q] = Len(Ops(q)) + 1
    BY DEF SendAll, EndOfPass
  <2>2. ~ Ended(script, C) /\ C.turn = Len(script[C.batch]) + 1
    BY <1>1, <2>1
  <2> QED BY <1>1, <2>2, ScriptFacts DEF ControlInv, ControlType, Ended, BatchOf
<1>3. AtEnd(script, C) /\ E = AfterPass(script, C)
  <2>1. AtEnd(script, C)
    BY <1>2 DEF AtEnd
  <2> QED BY <1>1, <2>1, Kinds
<1>4. (last <=> AllFinished(C)) /\ (more <=> AllFinished(C) /\ C.batch < Len(script))
  BY <1>1, <1>2 DEF AllFinished
<1>5. /\ script' = script /\ turn' = [turn EXCEPT ![q] = 1]
      /\ batch' = [batch EXCEPT ![q] = IF last THEN @ + 1 ELSE @]
      /\ more => /\ slice' = [slice EXCEPT ![q] = Fresh(script[batch[q] + 1])]
                 /\ local' = [local EXCEPT ![q] = Blank(script[batch[q] + 1])]
                 /\ expected' = IF q = 0 THEN [c \in DOMAIN script[batch[q] + 1] |-> 0]
                                ELSE expected
      /\ ~ more => slice' = slice /\ local' = local /\ expected' = expected
      /\ UNCHANGED <<DB, BL, PBD, SBL, explicitmode, mem>>
  BY DEF SendAll, EndOfPass, memory
<1> HIDE DEF last, more
<1>6. /\ batch = [r \in Players |-> batch[r]] /\ slice = [r \in Players |-> slice[r]]
      /\ explicitmode = [r \in Players |-> explicitmode[r]] /\ Domains
  BY DEF Trace
<1>7. Moves(q, E)
  <2>1. /\ E.batch = IF AllFinished(C) THEN C.batch + 1 ELSE C.batch
        /\ E.turn = 1 /\ E.mode = C.mode
        /\ E.slice = IF AllFinished(C) /\ C.batch < Len(script)
                     THEN Fresh(script[C.batch + 1]) ELSE C.slice
    BY <1>3 DEF AfterPass
  <2>2. batch' = [batch EXCEPT ![q] = E.batch]
    BY <1>1, <1>4, <1>5, <2>1
  <2>3. slice' = [slice EXCEPT ![q] = E.slice]
    BY <1>1, <1>4, <1>5, <1>6, <2>1
  <2>4. explicitmode' = [explicitmode EXCEPT ![q] = E.mode]
    BY <1>1, <1>5, <1>6, <2>1
  <2> QED BY <1>5, <2>1, <2>2, <2>3, <2>4 DEF Moves
<1>8. Others(q)
  <2>1. \A r \in Players : r # q => local'[r] = local[r]
    BY <1>5, <1>6 DEF Domains
  <2>2. local' = [r \in Players |-> local'[r]]
    BY <1>5, <1>6 DEF Domains
  <2>3. q # 0 => expected' = expected
    BY <1>5
  <2>6. \A p \in Comp : DOMAIN local'[p] = DOMAIN slice'[p]
    <3>1. CASE more
      <4>1. ASSUME NEW p \in Comp PROVE DOMAIN local'[p] = DOMAIN slice'[p]
        <5>1. p \in Players /\ DOMAIN local[p] = DOMAIN slice[p]
          BY <1>6, ClassFacts DEF Domains
        <5>2. CASE p = q
          <6>1. /\ slice'[p] = Fresh(script[batch[q] + 1])
                /\ local'[p] = Blank(script[batch[q] + 1])
            BY <1>5, <1>6, <3>1, <5>1, <5>2 DEF Domains
          <6> QED BY <6>1 DEF Fresh, Blank
        <5>3. CASE p # q
          BY <1>5, <1>6, <3>1, <5>1, <5>3 DEF Domains
        <5> QED BY <5>2, <5>3
      <4> QED BY <4>1
    <3>2. CASE ~ more
      BY <1>5, <1>6, <3>2 DEF Domains
    <3> QED BY <3>1, <3>2
  <2>4. Domains'
    BY <1>5, <1>6, <2>2, <2>6 DEF Domains
  <2>5. ASSUME NEW r \in Players, r # q PROVE View(r)' = View(r)
    BY <1>5, <2>1, <2>3, <2>5, ClassFacts DEF View
  <2> QED BY <2>4, <2>5 DEF Others
<1>9. PassRel(script, q, C, View(q), View(q)')
  <2>1. more => local'[q] = Blank(script[C.batch + 1])
    BY <1>1, <1>5, <1>6 DEF Domains
  <2>2. ~ more => local'[q] = local[q]
    BY <1>5
  <2>3. q = 0 /\ more => expected' = [c \in DOMAIN script[C.batch + 1] |-> 0]
    BY <1>1, <1>5
  <2>4. CASE q = Server
    BY <1>5, <2>4 DEF PassRel, View, Server
  <2>5. CASE q = 0
    BY <1>4, <1>5, <2>1, <2>2, <2>3, <2>5 DEF PassRel, View, Server
  <2>6. CASE q = 1
    BY <1>4, <1>5, <2>1, <2>2, <2>3, <2>6 DEF PassRel, View, Server
  <2> QED BY <2>4, <2>5, <2>6, ClassFacts
<1> QED BY <1>3, <1>7, <1>8, <1>9 DEF C, E

LEMMA PassStep ==
    ASSUME NEW n, NEW G, NEW D, NEW K, Trace(n, G, D, K), NEW q \in Players, SendAll(q)
    PROVE  HasPast'
<1> DEFINE C == G[n[q]]
           E == G[n[q] + 1]
           n2 == Ahead(n, q)
           gave == [r \in Players |-> 0]
           L == Post(n, G, K, q, gave)
<1>1. /\ AtEnd(script, C) /\ E = AfterPass(script, C) /\ Moves(q, E) /\ Others(q)
      /\ PassRel(script, q, C, View(q), View(q)')
      /\ script \in Scripts /\ ControlInv(script, C)
  BY PassMoves, Here
<1>2. E.rcv = C.rcv /\ E.sent = C.sent /\ E.put = C.sent
  BY <1>1 DEF AfterPass
<1> HIDE DEF C, E
<1>3. Log(script, n, G, D, K)
  BY DEF Trace
<1>4. ASSUME NEW l \in Links
      PROVE  /\ Received(n2, G, l) = Received(n, G, l)
             /\ PutOut(n2, G, l) = IF l[1] = q THEN Queued(n, G, l) ELSE PutOut(n, G, l)
             /\ Queued(n2, G, l) = Queued(n, G, l)
  <2>1. l[1] \in Players /\ l[2] \in Players
    BY ClassFacts
  <2> QED BY <1>2, <1>3, <2>1, CountsAhead DEF C, E
<1> HIDE DEF n2
<1>5. ASSUME NEW l \in Links
      PROVE  /\ wire'[l] = Window(L[l], Received(n2, G, l), PutOut(n2, G, l))
             /\ outbox'[l] = Window(L[l], PutOut(n2, G, l), Queued(n2, G, l))
  <2> DEFINE R == Received(n, G, l)
             P == PutOut(n, G, l)
             Q == Queued(n, G, l)
  <2>1. /\ R \in Nat /\ P \in Nat /\ Q \in Nat /\ R <= P /\ P <= Q /\ Q <= Q
    BY <1>3, LogCounts
  <2>2. wire[l] = Window(K[l], R, P) /\ outbox[l] = Window(K[l], P, Q)
    BY DEF Trace
  <2>3. /\ wire'[l] = IF l[1] = q THEN wire[l] \o outbox[l] ELSE wire[l]
        /\ outbox'[l] = IF l[1] = q THEN <<>> ELSE outbox[l]
    BY DEF SendAll, EndOfPass
  <2> HIDE DEF gave
  <2>4. /\ Window(L[l], R, P) = Window(K[l], R, P) /\ Window(L[l], R, Q) = Window(K[l], R, Q)
        /\ Window(L[l], P, Q) = Window(K[l], P, Q)
    BY <1>3, <2>1, PostKeeps
  <2>5. CASE l[1] = q
    <3>1. Received(n2, G, l) = R /\ PutOut(n2, G, l) = Q /\ Queued(n2, G, l) = Q
      BY <1>4, <2>5
    <3> HIDE DEF R, P, Q, L
    <3>2. Window(K[l], R, P) \o Window(K[l], P, Q) = Window(K[l], R, Q)
      BY <2>1, WindowConcat
    <3>3. Window(L[l], Q, Q) = <<>>
      BY <2>1, WindowEmpty
    <3> QED BY <2>2, <2>3, <2>4, <2>5, <3>1, <3>2, <3>3
  <2>6. CASE l[1] # q
    <3>1. Received(n2, G, l) = R /\ PutOut(n2, G, l) = P /\ Queued(n2, G, l) = Q
      BY <1>4, <2>6
    <3> HIDE DEF R, P, Q, L
    <3> QED BY <2>2, <2>3, <2>4, <2>6, <3>1
  <2> QED BY <2>5, <2>6
<1> HIDE DEF gave, L
<1>6. /\ wire' = [l \in Links |-> Window(L[l], Received(n2, G, l), PutOut(n2, G, l))]
      /\ outbox' = [l \in Links |-> Window(L[l], PutOut(n2, G, l), Queued(n2, G, l))]
  <2>1. wire' = [l \in Links |-> wire'[l]] /\ outbox' = [l \in Links |-> outbox'[l]]
    BY DEF SendAll, EndOfPass
  <2> QED BY <1>5, <2>1
<1>7. PICK v : v = View(q)'
  OBVIOUS
<1>8. StepRel(script, q, C, View(q), v, gave, gave)
  <2>1. ~ AtSkip(script, C) /\ ~ AtSlice(script, C)
    BY <1>1, Kinds
  <2> QED BY <1>1, <1>7, <2>1 DEF StepRel
<1>9. ~ Ended(script, C) /\ \A r \in Players : ~ (C.rcv[Class(r)] < E.rcv[Class(r)])
  <2>1. ~ Ended(script, C)
    BY <1>1 DEF AtEnd
  <2>2. \A r \in Players : C.rcv[Class(r)] \in Nat
    BY <1>1, ClassFacts, OneAtATime
  <2> QED BY <1>2, <2>1, <2>2
<1> QED BY <1>1, <1>6, <1>7, <1>8, <1>9, TraceGrows DEF C, E, L, n2

\* Slice n of player q takes what it awaits, and leaves got[r] to be told.
Takes(q, n, got) ==
    /\ \A r \in Players \ {q} :
          Awaited(Class(r), n) => wire[<<r, q>>] # <<>> /\ got[r] = Message(q, r)
    /\ wire' = [l \in Links |-> IF l[2] = q /\ Awaited(Class(l[1]), n)
                                THEN Tail(wire[l]) ELSE wire[l]]

\* A slice of player q that goes on to slice n says gave[r] to r.
Gives(q, n, gave) ==
    outbox' = [l \in Links |-> IF l[1] = q /\ Awaited(Class(q), n)
                               THEN Append(outbox[l], gave[l[2]]) ELSE outbox[l]]

\* Player q, with control C, takes a slice: it hears got and says gave.
Sliced(q, C, got, gave) ==
    /\ AtSlice(script, C)
    /\ Takes(q, C.slice[C.turn], got)
    /\ Gives(q, NextSlice(script[C.batch][C.turn], C.slice[C.turn], C.mode), gave)
    /\ Moves(q, AfterSlice(script, C))
    /\ Others(q)
    /\ StepRel(script, q, C, View(q), View(q)', got, gave)

LEMMA SliceStep ==
    ASSUME NEW n, NEW G, NEW D, NEW K, Trace(n, G, D, K), NEW q \in Players,
           NEW C, C = G[n[q]], NEW got, NEW gave, Sliced(q, C, got, gave)
    PROVE  HasPast'
<1>0. script \in Scripts /\ ControlInv(script, C) /\ G[n[q] + 1] = Succ(script, C)
  BY Here
<1> DEFINE E == G[n[q] + 1]
           n2 == Ahead(n, q)
           L == Post(n, G, K, q, gave)
           k == C.slice[C.turn]
           k2 == NextSlice(script[C.batch][C.turn], k, C.mode)
<1>1. /\ script \in Scripts /\ ControlInv(script, C) /\ E = Succ(script, C)
      /\ Log(script, n, G, D, K)
  BY <1>0 DEF Trace
<1>2. E = AfterSlice(script, C) /\ ~ Ended(script, C) /\ AtSlice(script, C)
  BY <1>1, Kinds DEF Sliced
<1>3. IsSlice(script, C, E)
  BY <1>1, <1>2, AtSliceFacts
<1> HIDE DEF E
<1>4. /\ \A x \in Classes : /\ E.rcv[x] = IF Awaited(x, k) THEN C.rcv[x] + 1 ELSE C.rcv[x]
                            /\ E.sent[x] = IF Awaited(x, k2) THEN C.sent[x] + 1 ELSE C.sent[x]
      /\ E.put = C.put
  BY <1>3 DEF IsSlice
<1> HIDE DEF k, k2
<1>5. ASSUME NEW l \in Links
      PROVE  /\ Received(n2, G, l) = IF l[2] = q /\ Awaited(Class(l[1]), k)
                                     THEN Received(n, G, l) + 1 ELSE Received(n, G, l)
             /\ PutOut(n2, G, l) = PutOut(n, G, l)
             /\ Queued(n2, G, l) = IF l[1] = q /\ Awaited(Class(q), k2)
                                   THEN Queued(n, G, l) + 1 ELSE Queued(n, G, l)
  <2> HIDE DEF L
  <2>1. /\ l[1] \in Players /\ l[2] \in Players /\ l[1] # l[2]
        /\ Class(l[1]) \in Classes /\ Class(q) \in Classes
    BY ClassFacts
  <2>2. /\ Received(n2, G, l) = IF l[2] = q THEN E.rcv[Class(l[1])] ELSE Received(n, G, l)
        /\ PutOut(n2, G, l) = IF l[1] = q THEN E.put[Class(q)] ELSE PutOut(n, G, l)
        /\ Queued(n2, G, l) = IF l[1] = q THEN E.sent[Class(q)] ELSE Queued(n, G, l)
        /\ l[2] = q => Received(n, G, l) = C.rcv[Class(l[1])]
        /\ l[1] = q => PutOut(n, G, l) = C.put[Class(q)] /\ Queued(n, G, l) = C.sent[Class(q)]
    BY <1>1, CountsAhead DEF E
  <2> QED BY <1>4, <2>1, <2>2
<1> HIDE DEF n2
<1>6. ASSUME NEW l \in Links
      PROVE  /\ l[2] = q /\ Awaited(Class(l[1]), k)
                  => /\ Received(n, G, l) < PutOut(n, G, l)
                     /\ got[l[1]] = K[l][Received(n, G, l) + 1]
             /\ wire'[l] = Window(L[l], Received(n2, G, l), PutOut(n2, G, l))
             /\ outbox'[l] = Window(L[l], PutOut(n2, G, l), Queued(n2, G, l))
  <2> DEFINE R == Received(n, G, l)
             P == PutOut(n, G, l)
             Q == Queued(n, G, l)
  <2>1. /\ R \in Nat /\ P \in Nat /\ Q \in Nat /\ R <= P /\ P <= Q /\ Q <= Q
    BY <1>1, LogCounts
  <2>2. wire[l] = Window(K[l], R, P) /\ outbox[l] = Window(K[l], P, Q)
    BY DEF Trace
  <2>3. /\ wire'[l] = IF l[2] = q /\ Awaited(Class(l[1]), k) THEN Tail(wire[l]) ELSE wire[l]
        /\ outbox'[l] = IF l[1] = q /\ Awaited(Class(q), k2)
                        THEN Append(outbox[l], gave[l[2]]) ELSE outbox[l]
    BY DEF Sliced, Takes, Gives, k, k2
  <2>4. (l[1] \in Players \ {q} /\ l = <<l[1], l[2]>>) \/ l[1] = q
    BY SMTT(30), ClassFacts DEF Links
  <2>5. /\ Window(L[l], R, P) = Window(K[l], R, P) /\ Window(L[l], P, Q) = Window(K[l], P, Q)
        /\ R + 1 \in Nat
        /\ Window(L[l], R + 1, P) = Window(K[l], R + 1, P)
    BY <1>1, <2>1, PostKeeps
  <2>6. l[1] = q => Append(Window(K[l], P, Q), gave[l[2]]) = Window(L[l], P, Q + 1)
    BY <1>1, <2>1, PostAppends
  <2> HIDE DEF L
  <2>7. outbox'[l] = Window(L[l], PutOut(n2, G, l), Queued(n2, G, l))
    BY <1>5, <2>2, <2>3, <2>5, <2>6
  <2>8. CASE l[2] = q /\ Awaited(Class(l[1]), k)
    <3>1. l[1] \in Players \ {q} /\ l = <<l[1], q>>
      BY <2>8, ClassFacts DEF Links
    <3>2. wire[l] # <<>> /\ got[l[1]] = Head(wire[l])
      <4>1. wire[<<l[1], q>>] # <<>> /\ got[l[1]] = Head(wire[<<l[1], q>>])
        BY <2>8, <3>1 DEF Sliced, Takes, k, Message
      <4> QED BY <3>1, <4>1
    <3>3. Received(n2, G, l) = R + 1 /\ PutOut(n2, G, l) = P
      BY <1>5, <2>8
    <3> DEFINE g == K[l]
    <3> HIDE DEF R, P, Q, g
    <3>4. R < P /\ Head(Window(g, R, P)) = g[R + 1] /\ Tail(Window(g, R, P)) = Window(g, R + 1, P)
      BY <2>1, <2>2, <3>2, WindowHead DEF g
    <3> QED BY <2>2, <2>3, <2>5, <2>7, <2>8, <3>2, <3>3, <3>4 DEF R, P, g
  <2>9. CASE ~ (l[2] = q /\ Awaited(Class(l[1]), k))
    <3>1. Received(n2, G, l) = R /\ PutOut(n2, G, l) = P
      BY <1>5, <2>9
    <3> QED BY <2>2, <2>3, <2>5, <2>7, <2>9, <3>1
  <2> QED BY <2>8, <2>9
<1> HIDE DEF L
<1>7. /\ wire' = [l \in Links |-> Window(L[l], Received(n2, G, l), PutOut(n2, G, l))]
      /\ outbox' = [l \in Links |-> Window(L[l], PutOut(n2, G, l), Queued(n2, G, l))]
  <2>1. wire' = [l \in Links |-> wire'[l]] /\ outbox' = [l \in Links |-> outbox'[l]]
    BY DEF Sliced, Takes, Gives
  <2> QED BY <1>6, <2>1
<1>8. PICK v : v = View(q)'
  OBVIOUS
<1>9. ASSUME NEW r \in Players \ {q}, C.rcv[Class(r)] < E.rcv[Class(r)]
      PROVE  /\ Received(n, G, <<r, q>>) < PutOut(n, G, <<r, q>>)
             /\ got[r] = K[<<r, q>>][Received(n, G, <<r, q>>) + 1]
  <2>1. /\ <<r, q>> \in Links /\ <<r, q>>[1] = r /\ <<r, q>>[2] = q /\ Class(r) \in Classes
    BY ClassFacts
  <2>2. C.rcv[Class(r)] \in Nat
    BY <1>1, <2>1, OneAtATime
  <2>3. Awaited(Class(r), k)
    BY SMTT(30), <1>4, <1>9, <2>1, <2>2
  <2> QED BY <1>6, <2>1, <2>3
<1>10. StepRel(script, q, C, View(q), v, got, gave)
  BY <1>8 DEF Sliced
<1>11. Moves(q, E) /\ Others(q)
  BY <1>2 DEF Sliced
<1>12. E = G[n[q] + 1] /\ n2 = Ahead(n, q) /\ L = Post(n, G, K, q, gave)
  BY DEF E, n2, L
<1> QED BY SMTT(30), <1>2, <1>7, <1>8, <1>9, <1>10, <1>11, <1>12, TraceGrows

-----------------------------------------------------------------------------
(* The actions of the players, one by one.                                 *)

\* Slice k of player q is followed by slice k2.
Goes(q, k, k2) ==
    /\ slice' = [slice EXCEPT ![q][turn[q]] = k2]
    /\ turn' = IF k = 0 /\ Op(q).kind # "reblind" THEN turn ELSE [turn EXCEPT ![q] = @ + 1]
    /\ script' = script /\ batch' = batch
    /\ explicitmode' = [explicitmode EXCEPT ![q] = NextMode(Op(q), k, explicitmode[q])]

LEMMA AtHere ==
    ASSUME NEW n, NEW G, NEW D, NEW K, Trace(n, G, D, K), NEW q \in Players,
           NEW C, C = G[n[q]], NEW k, At(q, k), k # Finished
    PROVE  /\ AtSlice(script, C) /\ C.slice[C.turn] = k /\ C.mode = explicitmode[q]
           /\ C.turn = turn[q] /\ script[C.batch][C.turn] = Op(q)
           /\ ValidOp(Op(q)) /\ OpSlice(Op(q), k) /\ k \in Slices
           /\ explicitmode[q] \in BOOLEAN
           /\ (explicitmode[q] /\ LeavesMode(Op(q)) => k = 1)
           /\ C.turn \in DOMAIN C.slice /\ slice[q] = C.slice
           /\ script \in Scripts /\ ControlInv(script, C) /\ batch[q] = C.batch
<1>1. /\ script \in Scripts /\ ControlInv(script, C)
      /\ batch[q] = C.batch /\ turn[q] = C.turn /\ slice[q] = C.slice
      /\ explicitmode[q] = C.mode
      /\ Running(q) <=> ~ Ended(script, C)
      /\ Ops(q) = script[C.batch] /\ Op(q) = script[C.batch][C.turn]
  BY Here
<1>2. AtSlice(script, C) /\ C.slice[C.turn] = k
  BY <1>1 DEF At, AtSlice
<1> DEFINE E == AfterSlice(script, C)
<1>3. IsSlice(script, C, E)
  BY <1>1, <1>2, AtSliceFacts
<1> HIDE DEF E
<1>4. /\ ValidOp(Op(q)) /\ OpSlice(Op(q), k) /\ k \in Slices /\ C.mode \in BOOLEAN
      /\ (C.mode /\ LeavesMode(Op(q)) => k = 1)
      /\ C.turn \in DOMAIN C.slice
  BY <1>1, <1>2, <1>3 DEF IsSlice
<1> QED BY <1>1, <1>2, <1>4

LEMMA Moved ==
    ASSUME NEW n, NEW G, NEW D, NEW K, Trace(n, G, D, K), NEW q \in Players,
           NEW C, C = G[n[q]], NEW k, At(q, k), k # Finished,
           Goes(q, k, NextSlice(Op(q), k, explicitmode[q]))
    PROVE  Moves(q, AfterSlice(script, C))
<1> DEFINE E == AfterSlice(script, C)
           op == Op(q)
           k2 == NextSlice(op, k, C.mode)
<1>1. /\ AtSlice(script, C) /\ C.slice[C.turn] = k /\ C.mode = explicitmode[q]
      /\ C.turn = turn[q] /\ script[C.batch][C.turn] = op /\ slice[q] = C.slice
      /\ script \in Scripts /\ ControlInv(script, C) /\ batch[q] = C.batch
  BY AtHere
<1>2. IsSlice(script, C, E)
  BY <1>1, AtSliceFacts
<1> HIDE DEF E, op
<1>3. /\ E.batch = C.batch
      /\ E.turn = IF k = 0 /\ op.kind # "reblind" THEN C.turn ELSE C.turn + 1
      /\ E.slice = [C.slice EXCEPT ![C.turn] = k2]
      /\ E.mode = NextMode(op, k, C.mode)
  BY <1>1, <1>2 DEF IsSlice
<1> HIDE DEF k2
<1>4. /\ slice' = [slice EXCEPT ![q][turn[q]] = k2]
      /\ turn' = IF k = 0 /\ op.kind # "reblind" THEN turn ELSE [turn EXCEPT ![q] = @ + 1]
      /\ script' = script /\ batch' = batch
      /\ explicitmode' = [explicitmode EXCEPT ![q] = NextMode(op, k, C.mode)]
  BY <1>1 DEF Goes, k2, op
<1>5. batch = [r \in Players |-> batch[r]] /\ turn = [r \in Players |-> turn[r]]
      /\ slice = [r \in Players |-> slice[r]]
  BY DEF Trace
<1>6. batch' = [batch EXCEPT ![q] = E.batch]
  BY <1>1, <1>3, <1>4, <1>5
<1>7. turn' = [turn EXCEPT ![q] = E.turn]
  BY <1>1, <1>3, <1>4, <1>5
<1>8. slice' = [slice EXCEPT ![q] = E.slice]
  BY <1>1, <1>3, <1>4, <1>5
<1> QED BY <1>3, <1>4, <1>6, <1>7, <1>8 DEF Moves, E

\* Receiving from whom slice k awaits a message.
LEMMA Took ==
    ASSUME NEW n, NEW G, NEW D, NEW K, Trace(n, G, D, K), NEW q \in Players, NEW k,
           NEW from, from = {r \in Players \ {q} : Awaited(Class(r), k)},
           Receive(q, from) \/ (from = {} /\ wire' = wire),
           NEW got, got = [r \in Players |-> Message(q, r)]
    PROVE  Takes(q, k, got)
<1>1. \A r \in from : wire[<<r, q>>] # <<>>
  BY DEF Receive
<1>2. wire = [l \in Links |-> wire[l]]
  BY DEF Trace
<1>3. \A l \in Links : l[2] = q => (l[1] \in from <=> Awaited(Class(l[1]), k))
  BY ClassFacts
<1>4. wire' = [l \in Links |-> IF l[2] = q /\ Awaited(Class(l[1]), k)
                               THEN Tail(wire[l]) ELSE wire[l]]
  <2>1. CASE Receive(q, from)
    <3>1. wire' = [l \in Links |-> IF l[2] = q /\ l[1] \in from THEN Tail(wire[l]) ELSE wire[l]]
      BY <2>1 DEF Receive
    <3> QED BY <1>3, <3>1
  <2>2. CASE from = {} /\ wire' = wire
    BY <1>2, <1>3, <2>2
  <2> QED BY <2>1, <2>2
<1> QED BY <1>1, <1>4 DEF Takes

LEMMA Gave ==
    ASSUME NEW n, NEW G, NEW D, NEW K, Trace(n, G, D, K), NEW q \in Players, NEW k2, NEW gave,
           \/ Awaited(Class(q), k2) /\ Queue(q, gave)
           \/ ~ Awaited(Class(q), k2) /\ outbox' = outbox
    PROVE  Gives(q, k2, gave)
<1>1. outbox = [l \in Links |-> outbox[l]]
  BY DEF Trace
<1>3. CASE Awaited(Class(q), k2) /\ Queue(q, gave)
  BY <1>3 DEF Gives, Queue
<1>4. CASE ~ Awaited(Class(q), k2) /\ outbox' = outbox
  BY <1>1, <1>4 DEF Gives
<1> QED BY <1>3, <1>4

\* Only the data of party p change.
Alone(p) ==
    /\ DB' = [DB EXCEPT ![p] = DB'[p]] /\ BL' = [BL EXCEPT ![p] = BL'[p]]
    /\ PBD' = [PBD EXCEPT ![p] = PBD'[p]] /\ local' = [local EXCEPT ![p] = local'[p]]
    /\ DOMAIN local'[p] = DOMAIN local[p]
    /\ SBL' = SBL /\ (p = 1 => mem' = mem /\ expected' = expected)

LEMMA SameSlices ==
    ASSUME NEW n, NEW G, NEW D, NEW K, Trace(n, G, D, K), NEW q, NEW k, NEW k2,
           Goes(q, k, k2)
    PROVE  \A p \in Players : DOMAIN slice'[p] = DOMAIN slice[p]
<1>1. slice = [r \in Players |-> slice[r]] /\ slice' = [slice EXCEPT ![q][turn[q]] = k2]
  BY DEF Trace, Goes
<1> QED BY <1>1

LEMMA AloneOthers ==
    ASSUME Domains, NEW p \in Comp, Alone(p),
           \A q \in Players : DOMAIN slice'[q] = DOMAIN slice[q]
    PROVE  Others(p)
<1>1. p \in {0, 1} /\ p \in Players
  BY ClassFacts
<1>2. Domains'
  <2>1. /\ DB' = [r \in Comp |-> DB'[r]] /\ BL' = [r \in Comp |-> BL'[r]]
        /\ PBD' = [r \in Comp |-> PBD'[r]] /\ local' = [r \in Players |-> local'[r]]
    BY DEF Domains, Alone
  <2>2. ASSUME NEW r \in Comp PROVE DOMAIN local'[r] = DOMAIN slice'[r]
    <3>1. r \in Players /\ DOMAIN slice'[r] = DOMAIN local[r]
      BY ClassFacts DEF Domains
    <3>2. CASE r = p
      BY <3>1, <3>2 DEF Alone
    <3>3. CASE r # p
      BY <3>1, <3>3 DEF Alone, Domains
    <3> QED BY <3>2, <3>3
  <2> QED BY <2>1, <2>2 DEF Domains
<1>3. ASSUME NEW r \in Players, r # p PROVE View(r)' = View(r)
  <2>1. /\ r \in Comp => DB'[r] = DB[r] /\ BL'[r] = BL[r] /\ PBD'[r] = PBD[r]
        /\ local'[r] = local[r]
    BY <1>3 DEF Domains, Alone
  <2>2. CASE r = Server
    BY <2>2 DEF View, Alone
  <2>3. CASE r = 0
    <3>1. p = 1 /\ mem' = mem /\ expected' = expected
      BY <1>1, <1>3, <2>3 DEF Alone
    <3> QED BY <2>1, <2>3, <3>1, ClassFacts DEF View
  <2>4. CASE r = 1
    BY <2>1, <2>4, ClassFacts DEF View
  <2> QED BY <2>2, <2>3, <2>4, ClassFacts
<1> QED BY <1>2, <1>3 DEF Others

\* A slice of party p that has the effect it should have.
LEMMA PartyStep ==
    ASSUME NEW n, NEW G, NEW D, NEW K, Trace(n, G, D, K), NEW p \in Comp,
           NEW k, At(p, k), k # Finished, NEW got, NEW gave,
           Takes(p, k, got), Gives(p, NextSlice(Op(p), k, explicitmode[p]), gave),
           Goes(p, k, NextSlice(Op(p), k, explicitmode[p])), Alone(p),
           PartyRel(p, Op(p), turn[p], Job(Op(p), k, explicitmode[p]),
                    NextSlice(Op(p), k, explicitmode[p]), View(p), View(p)', got, gave)
    PROVE  HasPast'
<1> DEFINE C == G[n[p]]
<1>1. p \in Players /\ p # Server
  BY ClassFacts
<1>2. /\ AtSlice(script, C) /\ C.slice[C.turn] = k /\ C.mode = explicitmode[p]
      /\ C.turn = turn[p] /\ script[C.batch][C.turn] = Op(p)
      /\ script \in Scripts /\ ControlInv(script, C)
  BY <1>1, AtHere
<1>3. Moves(p, AfterSlice(script, C))
  BY <1>1, Moved
<1>4. Others(p)
  BY AloneOthers, SameSlices DEF Trace
<1>5. ~ AtEnd(script, C) /\ ~ AtSkip(script, C)
  BY <1>2, Kinds
<1>6. PICK C0 : C0 = C
  OBVIOUS
<1>7. StepRel(script, p, C0, View(p), View(p)', got, gave)
  BY <1>1, <1>2, <1>5, <1>6 DEF StepRel
<1> HIDE DEF C
<1>8. Sliced(p, C0, got, gave)
  BY <1>2, <1>3, <1>4, <1>6, <1>7 DEF Sliced
<1>9. C0 = G[n[p]]
  BY <1>6 DEF C
<1> QED BY <1>1, <1>8, <1>9, SliceStep

LEMMA ServersStep ==
    ASSUME NEW n, NEW G, NEW D, NEW K, Trace(n, G, D, K),
           NEW k, At(Server, k), k # Finished, NEW got, NEW gave,
           Takes(Server, k, got),
           Gives(Server, NextSlice(Op(Server), k, explicitmode[Server]), gave),
           Goes(Server, k, NextSlice(Op(Server), k, explicitmode[Server])),
           UNCHANGED <<DB, BL, PBD, local, mem, expected>>,
           ServerRel(Op(Server), Job(Op(Server), k, explicitmode[Server]),
                     View(Server), View(Server)', got, gave)
    PROVE  HasPast'
<1> DEFINE C == G[n[Server]]
<1>1. Server \in Players
  BY ClassFacts
<1>2. /\ AtSlice(script, C) /\ C.slice[C.turn] = k /\ C.mode = explicitmode[Server]
      /\ C.turn = turn[Server] /\ script[C.batch][C.turn] = Op(Server)
      /\ script \in Scripts /\ ControlInv(script, C)
  BY <1>1, AtHere
<1>3. Moves(Server, AfterSlice(script, C))
  BY <1>1, Moved
<1>4. Others(Server)
  <2>1. Domains'
    BY SameSlices, ClassFacts DEF Trace, Domains
  <2>2. ASSUME NEW r \in Players, r # Server PROVE View(r)' = View(r)
    BY <2>2, ClassFacts DEF View
  <2> QED BY <2>1, <2>2 DEF Others
<1>5. ~ AtEnd(script, C) /\ ~ AtSkip(script, C)
  BY <1>2, Kinds
<1>6. PICK C0 : C0 = C
  OBVIOUS
<1>7. StepRel(script, Server, C0, View(Server), View(Server)', got, gave)
  BY <1>2, <1>5, <1>6 DEF StepRel
<1> HIDE DEF C
<1>8. Sliced(Server, C0, got, gave)
  BY <1>2, <1>3, <1>4, <1>6, <1>7 DEF Sliced
<1>9. C0 = G[n[Server]]
  BY <1>6 DEF C
<1> QED BY <1>1, <1>8, <1>9, SliceStep

\* Who is awaited where.
LEMMA AwaitedFrom ==
    /\ \A p \in Comp, k \in {0, 2, 4} : {r \in Players \ {p} : Awaited(Class(r), k)} = {1 - p}
    /\ \A p \in Comp : /\ {r \in Players \ {p} : Awaited(Class(r), 3)} = {Server}
                       /\ {r \in Players \ {p} : Awaited(Class(r), 1)} = {}
    /\ \A k \in {0, 2, 4} : {r \in Players \ {Server} : Awaited(Class(r), k)} = Comp
    /\ \A k \in {1, 3} : {r \in Players \ {Server} : Awaited(Class(r), k)} = {}
    /\ \A p \in Comp : \A k : Awaited(Class(p), k) <=> k \in {0, 2, 4}
    /\ \A k : Awaited(Class(Server), k) <=> k = 3
    /\ \A p \in Comp : p \in Players /\ 1 - p \in Comp /\ 1 - p # p /\ p # Server
                       /\ Players \ {p} = {1 - p, Server} /\ 1 - p # Server
    /\ Players \ {Server} = Comp
BY DEF Awaited, Class, Players, Comp, Server

\* The data of the players before and after a step.
LEMMA Views ==
    /\ \A p \in Comp :
          /\ View(p).db = DB[p] /\ View(p).bl = BL[p] /\ View(p).pbd = PBD[p]
          /\ View(p).loc = local[p]
          /\ View(p)'.db = DB'[p] /\ View(p)'.bl = BL'[p] /\ View(p)'.pbd = PBD'[p]
          /\ View(p)'.loc = local'[p]
          /\ p = 0 => /\ View(p).mem = mem /\ View(p).exp = expected
                      /\ View(p)'.mem = mem' /\ View(p)'.exp = expected'
    /\ View(Server).sbl = SBL /\ View(Server)'.sbl = SBL'
<1>1. ASSUME NEW p \in Comp
      PROVE  /\ View(p).db = DB[p] /\ View(p).bl = BL[p] /\ View(p).pbd = PBD[p]
             /\ View(p).loc = local[p]
             /\ View(p)'.db = DB'[p] /\ View(p)'.bl = BL'[p] /\ View(p)'.pbd = PBD'[p]
             /\ View(p)'.loc = local'[p]
             /\ p = 0 => /\ View(p).mem = mem /\ View(p).exp = expected
                         /\ View(p)'.mem = mem' /\ View(p)'.exp = expected'
  <2>1. CASE p = 0
    BY <2>1 DEF View, Server
  <2>2. CASE p = 1
    BY <2>2 DEF View, Server
  <2> QED BY <2>1, <2>2 DEF Comp
<1>2. View(Server).sbl = SBL /\ View(Server)'.sbl = SBL'
  BY DEF View, Server
<1> QED BY <1>1, <1>2

\* What a player leaves alone is as it was.
LEMMA Keeping ==
    ASSUME NEW n, NEW G, NEW D, NEW K, Trace(n, G, D, K)
    PROVE  /\ \A p \in Comp : /\ DB = [DB EXCEPT ![p] = DB[p]] /\ BL = [BL EXCEPT ![p] = BL[p]]
                              /\ PBD = [PBD EXCEPT ![p] = PBD[p]]
           /\ \A q \in Players : /\ local = [local EXCEPT ![q] = local[q]]
                                 /\ explicitmode = [explicitmode EXCEPT ![q] = explicitmode[q]]
           /\ Domains
<1>1. Domains /\ explicitmode = [q \in Players |-> explicitmode[q]]
  BY DEF Trace
<1> QED BY <1>1 DEF Domains

\* What happens in which slice, and which slice and mode come next.
Does(op, n, m, job, n2, m2) ==
    Job(op, n, m) = job /\ NextSlice(op, n, m) = n2 /\ NextMode(op, n, m) = m2

LEMMA JobTable ==
    ASSUME NEW op, NEW m \in BOOLEAN
    PROVE  /\ op.kind = "explicitonly" => Does(op, 1, m, "nothing", Finished, TRUE)
           /\ op.kind = "reblind" /\ ~ m => Does(op, 1, m, "nothing", Finished, m)
           /\ LeavesMode(op) /\ m => Does(op, 1, m, "reblind", 0, FALSE)
           /\ LeavesMode(op) => Does(op, 0, m, "refresh",
                                     IF op.kind = "reblind" THEN Finished ELSE 1, m)
           /\ op.kind \in Explicit =>
                 /\ m => Does(op, 1, m, "local", Finished, m)
                 /\ ~ m => Does(op, 1, m, "start", 2, m)
                 /\ Does(op, 2, m, "finish", Finished, m)
           /\ op.kind \in Reading =>
                 /\ ~ m => Does(op, 1, m, "ask", 2, m)
                 /\ Does(op, 2, m, "dot", 3, m)
                 /\ Does(op, 3, m, "answer", IF op.kind = "oblivious_read" THEN Finished ELSE 4, m)
           /\ op.kind = "oblivious_update" =>
                 /\ ~ m => Does(op, 1, m, "offset", 2, m)
                 /\ Does(op, 2, m, "update", Finished, m)
           /\ op.kind = "oblivious_write" => Does(op, 4, m, "update", Finished, m)
<1> USE DEF Does, Job, NextSlice, NextMode, LeavesMode, Explicit, Oblivious, Reading, Finished
<1>1. /\ op.kind = "explicitonly" => Does(op, 1, m, "nothing", Finished, TRUE)
      /\ op.kind = "reblind" /\ ~ m => Does(op, 1, m, "nothing", Finished, m)
  OBVIOUS
<1>2. LeavesMode(op) /\ m => Does(op, 1, m, "reblind", 0, FALSE)
  OBVIOUS
<1>3. LeavesMode(op) => Does(op, 0, m, "refresh", IF op.kind = "reblind" THEN Finished ELSE 1, m)
  OBVIOUS
<1>4. op.kind \in Explicit =>
                 /\ m => Does(op, 1, m, "local", Finished, m)
                 /\ ~ m => Does(op, 1, m, "start", 2, m)
                 /\ Does(op, 2, m, "finish", Finished, m)
  OBVIOUS
<1>5. op.kind \in Reading =>
                 /\ ~ m => Does(op, 1, m, "ask", 2, m)
                 /\ Does(op, 2, m, "dot", 3, m)
                 /\ Does(op, 3, m, "answer", IF op.kind = "oblivious_read" THEN Finished ELSE 4, m)
  OBVIOUS
<1>6. op.kind = "oblivious_update" =>
                 /\ ~ m => Does(op, 1, m, "offset", 2, m)
                 /\ Does(op, 2, m, "update", Finished, m)
  OBVIOUS
<1>7. op.kind = "oblivious_write" => Does(op, 4, m, "update", Finished, m)
  OBVIOUS
<1> QED BY <1>1, <1>2, <1>3, <1>4, <1>5, <1>6, <1>7

LEMMA ExplicitLocalStep ==
    ASSUME NEW n, NEW G, NEW D, NEW K, Trace(n, G, D, K), NEW p \in Comp, ExplicitLocal(p)
    PROVE  HasPast'
<1> DEFINE op == Op(p)
<1>1. At(p, 1) /\ 1 # Finished /\ op.kind \in Explicit /\ explicitmode[p]
  BY DEF ExplicitLocal, Finished
<1>2. p \in Players
  BY AwaitedFrom
<1>3. explicitmode[p] = TRUE
  BY <1>1, <1>2, AtHere
<1>4. /\ Job(op, 1, explicitmode[p]) = "local" /\ NextSlice(op, 1, explicitmode[p]) = Finished
      /\ NextMode(op, 1, explicitmode[p]) = explicitmode[p]
  BY <1>1, <1>3, JobTable DEF Does
<1>5. PICK got : got = [r \in Players |-> Message(p, r)]
  OBVIOUS
<1>6. /\ UNCHANGED <<outbox, wire, BL, PBD, SBL, explicitmode, local, expected>>
      /\ Then(p, Finished)
  BY DEF ExplicitLocal
<1>7. Takes(p, 1, got)
  BY <1>2, <1>5, <1>6, AwaitedFrom, Took
<1>8. Gives(p, Finished, got)
  BY <1>2, <1>6, AwaitedFrom, Gave DEF Finished
<1>9. Goes(p, 1, Finished)
  BY <1>2, <1>4, <1>6, Keeping DEF Goes, Then
<1>10. Alone(p)
  <2>1. DB' = [DB EXCEPT ![p] = DB'[p]]
    BY Keeping DEF ExplicitLocal, Domains
  <2>2. p = 1 => mem' = mem
    BY DEF ExplicitLocal
  <2> QED BY <1>2, <1>6, <2>1, <2>2, Keeping DEF Alone
<1>11. PartyRel(p, op, turn[p], "local", Finished, View(p), View(p)', got, got)
  BY <1>2, <1>6, Views, Keeping DEF ExplicitLocal, PartyRel, Share, ShareOf, Awaited, Finished, Domains
<1> QED BY <1>1, <1>4, <1>7, <1>8, <1>9, <1>10, <1>11, PartyStep

LEMMA ExplicitStartStep ==
    ASSUME NEW n, NEW G, NEW D, NEW K, Trace(n, G, D, K), NEW p \in Comp, ExplicitStart(p)
    PROVE  HasPast'
<1> DEFINE op == Op(p)
           t == turn[p]
<1>1. At(p, 1) /\ 1 # Finished /\ op.kind \in Explicit /\ ~ explicitmode[p]
  BY DEF ExplicitStart, Finished
<1>2. /\ p \in Players /\ explicitmode[p] \in BOOLEAN /\ t \in DOMAIN local[p]
      /\ (explicitmode[p] /\ LeavesMode(op) => 1 = 1)
  BY <1>1, AwaitedFrom, AtHere, Keeping DEF Domains
<1>3. /\ Job(op, 1, explicitmode[p]) = "start" /\ NextSlice(op, 1, explicitmode[p]) = 2
      /\ NextMode(op, 1, explicitmode[p]) = explicitmode[p]
  BY <1>1, <1>2, JobTable DEF Does, Reading
<1>4. PICK got : got = [r \in Players |-> Message(p, r)]
  OBVIOUS
<1>5. /\ UNCHANGED <<wire, DB, BL, PBD, SBL, explicitmode, mem>>
      /\ Then(p, 2)
  BY DEF ExplicitStart, memory
<1>6. Takes(p, 1, got)
  BY <1>2, <1>4, <1>5, AwaitedFrom, Took
<1>11. PICK blind \in Blinds :
          /\ Queue(p, Messages(p, Add(Share(p, op), blind), blind))
          /\ local' = [local EXCEPT ![p][t] = [res |-> 0, upd |-> Share(p, op), blind |-> blind]]
  BY DEF ExplicitStart, Keep
<1>12. PICK gave : gave = Messages(p, Add(Share(p, op), blind), blind)
  OBVIOUS
<1>7. Gives(p, 2, gave)
  BY <1>2, <1>11, <1>12, AwaitedFrom, Gave
<1>8. Goes(p, 1, 2)
  BY <1>2, <1>3, <1>5, Keeping DEF Goes, Then
<1>9. Alone(p)
  <2>1. local' = [local EXCEPT ![p] = local'[p]] /\ DOMAIN local'[p] = DOMAIN local[p]
    BY <1>2, <1>11, Keeping DEF Domains
  <2>2. p = 1 => expected' = expected
    BY DEF ExplicitStart, Observed
  <2> QED BY <1>2, <1>5, <2>1, <2>2, Keeping DEF Alone
<1>10. PartyRel(p, op, t, "start", 2, View(p), View(p)', got, gave)
  <2>1. local'[p] = [local[p] EXCEPT ![t] = [res |-> 0, upd |-> Share(p, op), blind |-> blind]]
    BY <1>2, <1>11, Keeping DEF Domains
  <2>2. /\ local'[p][t].upd = Share(p, op) /\ local'[p][t].blind = blind
    BY <1>2, <2>1
  <2>3. \A r \in Players \ {p} : gave[r] = Says(p, op, 2, View(p)', t, r)
    <3>1. /\ gave = Messages(p, Add(local'[p][t].upd, local'[p][t].blind), local'[p][t].blind)
          /\ View(p)'.loc = local'[p]
      BY <1>12, <2>2, Views
    <3> HIDE DEF op, t
    <3>4. op.kind \in Explicit /\ op.kind \notin Reading /\ op.kind # "oblivious_update"
      BY <1>1 DEF Explicit, Reading
    <3>5. PICK w : w = View(p)'
      OBVIOUS
    <3>6. \A r : Says(p, op, 2, w, t, r) =
                   IF r = Server THEN w.loc[t].blind ELSE Add(w.loc[t].upd, w.loc[t].blind)
      BY <3>4 DEF Says
    <3>2. \A r : Says(p, op, 2, View(p)', t, r) =
                   IF r = Server THEN View(p)'.loc[t].blind
                   ELSE Add(View(p)'.loc[t].upd, View(p)'.loc[t].blind)
      BY <3>5, <3>6
    <3>3. \A r \in Players \ {p} : gave[r] = IF r = Server THEN local'[p][t].blind
                   ELSE Add(local'[p][t].upd, local'[p][t].blind)
      BY <3>1 DEF Messages
    <3> QED BY <3>1, <3>2, <3>3
  <2>4. p = 0 => expected' = [expected EXCEPT ![t] = mem[Cell(op)]]
    BY DEF ExplicitStart, Observed
  <2>5. Share(p, op) = ShareOf(p, op, DB[p])
    BY DEF Share, ShareOf
  <2> HIDE DEF op, t
  <2> QED BY <1>5, <2>1, <2>3, <2>4, <2>5, Views DEF PartyRel
<1> QED BY <1>1, <1>3, <1>6, <1>7, <1>8, <1>9, <1>10, PartyStep

LEMMA ExplicitFinishStep ==
    ASSUME NEW n, NEW G, NEW D, NEW K, Trace(n, G, D, K), NEW p \in Comp, ExplicitFinish(p)
    PROVE  HasPast'
<1> DEFINE op == Op(p)
           t == turn[p]
<1>1. At(p, 2) /\ 2 # Finished /\ op.kind \in Explicit
  BY DEF ExplicitFinish, Finished
<1>2. /\ p \in Players /\ explicitmode[p] \in BOOLEAN /\ t \in DOMAIN local[p]
      /\ (explicitmode[p] /\ LeavesMode(op) => 2 = 1)
  BY <1>1, AwaitedFrom, AtHere, Keeping DEF Domains
<1>3. /\ Job(op, 2, explicitmode[p]) = "finish" /\ NextSlice(op, 2, explicitmode[p]) = Finished
      /\ NextMode(op, 2, explicitmode[p]) = explicitmode[p]
  BY <1>1, <1>2, JobTable DEF Does, Reading
<1>4. PICK got : got = [r \in Players |-> Message(p, r)]
  OBVIOUS
<1>5. /\ UNCHANGED <<outbox, SBL, explicitmode, local, expected>>
      /\ Then(p, Finished)
  BY DEF ExplicitFinish, memory
<1>6. Takes(p, 2, got)
  <2>1. Receive(p, {1 - p})
    BY DEF ExplicitFinish
  <2> QED BY <1>2, <1>4, <2>1, AwaitedFrom, Took
<1>7. Gives(p, Finished, got)
  BY <1>2, <1>5, AwaitedFrom, Gave DEF Finished
<1>8. Goes(p, 2, Finished)
  BY <1>2, <1>3, <1>5, Keeping DEF Goes, Then
<1>9. Alone(p)
  <2>1. /\ DB' = [DB EXCEPT ![p] = DB'[p]] /\ BL' = [BL EXCEPT ![p] = BL'[p]]
        /\ PBD' = [PBD EXCEPT ![p] = PBD'[p]]
    BY Keeping DEF ExplicitFinish, Domains
  <2>2. p = 1 => mem' = mem
    BY DEF ExplicitFinish, Written
  <2> QED BY <1>2, <1>5, <2>1, <2>2, Keeping DEF Alone
<1>10. PartyRel(p, op, t, "finish", Finished, View(p), View(p)', got, got)
  <2>1. /\ DB'[p] = [DB[p] EXCEPT ![op.index] = Add(@, local[p][t].upd)]
        /\ BL'[p] = [BL[p] EXCEPT ![op.index] = Add(@, local[p][t].blind)]
        /\ PBD'[p] = [PBD[p] EXCEPT ![op.index] = Add(@, got[1 - p])]
    BY <1>2, <1>4, AwaitedFrom, Keeping DEF ExplicitFinish, Domains, Kept
  <2>2. p = 0 => mem' = [mem EXCEPT ![Cell(op)] =
                           Add(@, IF IsWrite(op) THEN Sub(Meant(op), expected[t]) ELSE Meant(op))]
    BY DEF ExplicitFinish, Written
  <2>3. ~ Awaited(0, Finished)
    BY DEF Awaited, Finished
  <2> HIDE DEF op, t
  <2> QED BY <1>5, <2>1, <2>2, <2>3, Views DEF PartyRel
<1> QED BY <1>1, <1>3, <1>6, <1>7, <1>8, <1>9, <1>10, PartyStep

LEMMA ReadStartStep ==
    ASSUME NEW n, NEW G, NEW D, NEW K, Trace(n, G, D, K), NEW p \in Comp, ReadStart(p)
    PROVE  HasPast'
<1> DEFINE op == Op(p)
           t == turn[p]
<1>1. At(p, 1) /\ 1 # Finished /\ op.kind \in Reading /\ ~ explicitmode[p]
  BY DEF ReadStart, Finished
<1>2. /\ p \in Players /\ explicitmode[p] \in BOOLEAN /\ t \in DOMAIN local[p]
      /\ (explicitmode[p] /\ LeavesMode(op) => 1 = 1)
  BY <1>1, AwaitedFrom, AtHere, Keeping DEF Domains
<1>3. /\ Job(op, 1, explicitmode[p]) = "ask" /\ NextSlice(op, 1, explicitmode[p]) = 2
      /\ NextMode(op, 1, explicitmode[p]) = explicitmode[p]
  BY <1>1, <1>2, JobTable DEF Does, Reading
<1>4. PICK got : got = [r \in Players |-> Message(p, r)]
  OBVIOUS
<1>5. /\ UNCHANGED <<wire, DB, BL, PBD, SBL, explicitmode, local, mem, expected>>
      /\ Then(p, 2)
  BY DEF ReadStart, memory
<1>6. Takes(p, 1, got)
  BY <1>2, <1>4, <1>5, AwaitedFrom, Took
<1>12. PICK gave : gave = Messages(p, IndOffset(p, op), IndOffset(p, op))
  OBVIOUS
<1>7. Gives(p, 2, gave)
  <2>1. Queue(p, gave)
    BY <1>12 DEF ReadStart
  <2> QED BY <1>2, <2>1, AwaitedFrom, Gave
<1>8. Goes(p, 1, 2)
  BY <1>2, <1>3, <1>5, Keeping DEF Goes, Then
<1>9. Alone(p)
  BY <1>2, <1>5, Keeping DEF Alone
<1>10. PartyRel(p, op, t, "ask", 2, View(p), View(p)', got, gave)
  <2>1. \A r \in Players \ {p} : gave[r] = IndOffset(p, op)
    BY <1>12 DEF Messages
  <2>2. op.kind \in Reading /\ op.kind \notin Explicit
    BY <1>1 DEF Reading, Explicit
  <2>3. \A r \in Players \ {p} : gave[r] = Says(p, op, 2, View(p)', t, r)
    BY <2>1, <2>2 DEF Says, Reading
  <2> HIDE DEF op, t
  <2> QED BY <1>5, <2>3, Views DEF PartyRel
<1> QED BY <1>1, <1>3, <1>6, <1>7, <1>8, <1>9, <1>10, PartyStep

LEMMA UpdateStartStep ==
    ASSUME NEW n, NEW G, NEW D, NEW K, Trace(n, G, D, K), NEW p \in Comp, UpdateStart(p)
    PROVE  HasPast'
<1> DEFINE op == Op(p)
           t == turn[p]
<1>1. At(p, 1) /\ 1 # Finished /\ op.kind = "oblivious_update" /\ ~ explicitmode[p]
  BY DEF UpdateStart, Finished
<1>2. /\ p \in Players /\ explicitmode[p] \in BOOLEAN /\ t \in DOMAIN local[p]
      /\ (explicitmode[p] /\ LeavesMode(op) => 1 = 1)
  BY <1>1, AwaitedFrom, AtHere, Keeping DEF Domains
<1>3. /\ Job(op, 1, explicitmode[p]) = "offset" /\ NextSlice(op, 1, explicitmode[p]) = 2
      /\ NextMode(op, 1, explicitmode[p]) = explicitmode[p]
  BY <1>1, <1>2, JobTable DEF Does, Reading
<1>4. PICK got : got = [r \in Players |-> Message(p, r)]
  OBVIOUS
<1>5. /\ UNCHANGED <<wire, DB, BL, PBD, SBL, explicitmode, mem, expected>>
      /\ Then(p, 2)
  BY DEF UpdateStart, memory
<1>6. Takes(p, 1, got)
  BY <1>2, <1>4, <1>5, AwaitedFrom, Took
<1>12. PICK gave : gave = Messages(p, Offsets(p, op, op.value[p], 0 .. 2), Offsets(p, op, op.value[p], 1 .. 2))
  OBVIOUS
<1>7. Gives(p, 2, gave)
  <2>1. Queue(p, gave)
    BY <1>12 DEF UpdateStart, QueueOffsets
  <2> QED BY <1>2, <2>1, AwaitedFrom, Gave
<1>11. local' = [local EXCEPT ![p][t] = [res |-> 0, upd |-> op.value[p], blind |-> 0]]
  BY DEF UpdateStart, Keep
<1>8. Goes(p, 1, 2)
  BY <1>2, <1>3, <1>5, Keeping DEF Goes, Then
<1>9. Alone(p)
  <2>1. local' = [local EXCEPT ![p] = local'[p]] /\ DOMAIN local'[p] = DOMAIN local[p]
    BY <1>2, <1>11, Keeping DEF Domains
  <2> QED BY <1>2, <1>5, <2>1, Keeping DEF Alone
<1>10. PartyRel(p, op, t, "offset", 2, View(p), View(p)', got, gave)
  <2>1. local'[p] = [local[p] EXCEPT ![t] = [res |-> 0, upd |-> op.value[p], blind |-> 0]]
    BY <1>2, <1>11, Keeping DEF Domains
  <2>2. op.kind = "oblivious_update" /\ op.kind \notin Explicit /\ op.kind \notin Reading
    BY <1>1 DEF Explicit, Reading
  <2>3. local'[p][t].upd = op.value[p]
    BY <1>2, <2>1
  <2>4. \A r \in Players \ {p} : gave[r] = Says(p, op, 2, View(p)', t, r)
    BY <1>12, <2>2, <2>3, Views DEF Messages, Says
  <2> HIDE DEF op, t
  <2> QED BY <1>5, <2>1, <2>4, Views DEF PartyRel
<1> QED BY <1>1, <1>3, <1>6, <1>7, <1>8, <1>9, <1>10, PartyStep

LEMMA DotProductStep ==
    ASSUME NEW n, NEW G, NEW D, NEW K, Trace(n, G, D, K), NEW p \in Comp, DotProduct(p)
    PROVE  HasPast'
<1> DEFINE op == Op(p)
           t == turn[p]
<1>1. At(p, 2) /\ 2 # Finished /\ op.kind \in Reading
  BY DEF DotProduct, Finished, DotProductWith
<1>2. /\ p \in Players /\ explicitmode[p] \in BOOLEAN /\ t \in DOMAIN local[p]
      /\ (explicitmode[p] /\ LeavesMode(op) => 2 = 1)
  BY <1>1, AwaitedFrom, AtHere, Keeping DEF Domains
<1>3. /\ Job(op, 2, explicitmode[p]) = "dot" /\ NextSlice(op, 2, explicitmode[p]) = 3
      /\ NextMode(op, 2, explicitmode[p]) = explicitmode[p]
  BY <1>1, <1>2, JobTable DEF Does, Reading
<1>4. PICK got : got = [r \in Players |-> Message(p, r)]
  OBVIOUS
<1>5. /\ UNCHANGED <<outbox, DB, BL, PBD, SBL, explicitmode, mem>>
      /\ Then(p, 3)
  BY DEF DotProduct, memory, DotProductWith
<1>6. Takes(p, 2, got)
  <2>1. Receive(p, {1 - p})
    BY DEF DotProduct, DotProductWith
  <2> QED BY <1>2, <1>4, <2>1, AwaitedFrom, Took
<1>12. PICK gave : gave = got
  OBVIOUS
<1>7. Gives(p, 3, gave)
  BY <1>2, <1>5, AwaitedFrom, Gave
<1>11. local' = [local EXCEPT ![p][t] =
                  [res |-> Product(p, op, View(p), (IndOffset(p, op) + got[1 - p]) % Width),
                   upd |-> 0, blind |-> 0]]
  <2>1. /\ got[1 - p] = Message(p, 1 - p) /\ 3 - Own(p) = IF p = 0 THEN 2 ELSE 1
        /\ View(p).db = DB[p] /\ View(p).pbd = PBD[p] /\ View(p).bl = BL[p]
    BY <1>4, AwaitedFrom, Views DEF Own
  <2> QED BY <2>1 DEF DotProduct, DotProductWith, Keep, Product
<1>8. Goes(p, 2, 3)
  BY <1>2, <1>3, <1>5, Keeping DEF Goes, Then
<1>9. Alone(p)
  <2>1. local' = [local EXCEPT ![p] = local'[p]] /\ DOMAIN local'[p] = DOMAIN local[p]
    BY <1>2, <1>11, Keeping DEF Domains
  <2>2. p = 1 => expected' = expected
    BY DEF DotProduct, DotProductWith, Observed
  <2> QED BY <1>2, <1>5, <2>1, <2>2, Keeping DEF Alone
<1>10. PartyRel(p, op, t, "dot", 3, View(p), View(p)', got, gave)
  <2>1. local'[p] = [local[p] EXCEPT ![t] =
                       [res |-> Product(p, op, View(p), (IndOffset(p, op) + got[1 - p]) % Width),
                        upd |-> 0, blind |-> 0]]
    BY <1>2, <1>11, Keeping DEF Domains
  <2>2. p = 0 => expected' = [expected EXCEPT ![t] = mem[Cell(op)]]
    BY DEF DotProduct, DotProductWith, Observed
  <2>3. ~ Awaited(0, 3)
    BY DEF Awaited
  <2> HIDE DEF op, t
  <2> QED BY <1>5, <2>1, <2>2, <2>3, Views DEF PartyRel
<1> QED BY <1>1, <1>3, <1>6, <1>7, <1>8, <1>9, <1>10, PartyStep

LEMMA UpdateFinishStep ==
    ASSUME NEW n, NEW G, NEW D, NEW K, Trace(n, G, D, K), NEW p \in Comp, UpdateFinish(p)
    PROVE  HasPast'
<1> DEFINE op == Op(p)
           t == turn[p]
<1>1. PICK k \in {2, 4} : /\ At(p, k) /\ k # Finished
                           /\ op.kind = IF k = 2 THEN "oblivious_update" ELSE "oblivious_write"
  BY DEF UpdateFinish, AtUpdate, Finished
<1>2. /\ p \in Players /\ explicitmode[p] \in BOOLEAN /\ t \in DOMAIN local[p]
      /\ ~ (k = 0 /\ op.kind # "reblind")
  BY <1>1, AwaitedFrom, AtHere, Keeping DEF Domains
<1>3. /\ Job(op, k, explicitmode[p]) = "update" /\ NextSlice(op, k, explicitmode[p]) = Finished
      /\ NextMode(op, k, explicitmode[p]) = explicitmode[p]
  <2>1. CASE k = 2
    BY <1>1, <1>2, <2>1, JobTable DEF Does
  <2>2. CASE k = 4
    <3>1. op.kind = "oblivious_write" /\ explicitmode[p] \in BOOLEAN
      BY <1>1, <1>2, <2>2
    <3> HIDE DEF op
    <3>2. Does(op, 4, explicitmode[p], "update", Finished, explicitmode[p])
      BY <3>1, JobTable
    <3> QED BY <2>2, <3>2 DEF Does
  <2> QED BY <2>1, <2>2
<1>4. PICK got : got = [r \in Players |-> Message(p, r)]
  OBVIOUS
<1>5. /\ UNCHANGED <<outbox, SBL, explicitmode, local, expected>>
      /\ Then(p, Finished)
  BY DEF UpdateFinish, memory
<1>6. Takes(p, k, got)
  <2>1. Receive(p, {1 - p})
    BY DEF UpdateFinish
  <2> QED BY <1>1, <1>2, <1>4, <2>1, AwaitedFrom, Took
<1>7. Gives(p, Finished, got)
  BY <1>2, <1>5, AwaitedFrom, Gave DEF Finished
<1>8. Goes(p, k, Finished)
  BY <1>2, <1>3, <1>5, Keeping DEF Goes, Then
<1>9. Alone(p)
  <2>1. /\ DB' = [DB EXCEPT ![p] = DB'[p]] /\ BL' = [BL EXCEPT ![p] = BL'[p]]
        /\ PBD' = [PBD EXCEPT ![p] = PBD'[p]]
    BY Keeping DEF UpdateFinish, Domains
  <2>2. p = 1 => mem' = mem
    BY DEF UpdateFinish, Written
  <2> QED BY <1>2, <1>5, <2>1, <2>2, Keeping DEF Alone
<1>10. PartyRel(p, op, t, "update", Finished, View(p), View(p)', got, got)
  <2>1. /\ DB'[p] = AddAll(DB[p], Vector(p, op, 0, local[p][t].upd, got[1 - p]))
        /\ BL'[p] = SubAll(BL[p], Vector(p, op, Own(p), local[p][t].upd, got[1 - p]))
        /\ PBD'[p] = AddAll(PBD[p],
               SubAll(Vector(p, op, 3 - Own(p), local[p][t].upd, got[1 - p]),
                      Vector(p, op, 0, local[p][t].upd, got[1 - p])))
    <3>1. got[1 - p] = Message(p, 1 - p) /\ Kept(p) = local[p][t]
      BY <1>4, AwaitedFrom DEF Kept
    <3>2. Own(p) \in 0 .. 2 /\ 3 - Own(p) \in 0 .. 2 /\ 0 \in 0 .. 2
      BY DEF Own
    <3> DEFINE mine == Offsets(p, op, Kept(p).upd, 0 .. 2)
               indshift == (mine.ind + Message(p, 1 - p).ind) % Width
               V(j) == Scaled(op, j, p, indshift, Add(mine.off[j], Message(p, 1 - p).off[j]))
    <3>3. ASSUME NEW j \in 0 .. 2
          PROVE  V(j) = Vector(p, op, j, local[p][t].upd, got[1 - p])
      <4>1. mine.ind = IndOffset(p, op) /\ mine.off[j] = Sub(Kept(p).upd, op.rdpf.scale[j][p])
        BY DEF Offsets
      <4> HIDE DEF mine, op, t
      <4> QED BY <3>1, <4>1 DEF Vector
    <3>4. /\ DB' = [DB EXCEPT ![p] = AddAll(@, V(0))] /\ BL' = [BL EXCEPT ![p] = SubAll(@, V(Own(p)))]
          /\ PBD' = [PBD EXCEPT ![p] = AddAll(@, SubAll(V(3 - Own(p)), V(0)))]
      BY DEF UpdateFinish, Own
    <3> HIDE DEF V
    <3>5. /\ DB'[p] = AddAll(DB[p], V(0)) /\ BL'[p] = SubAll(BL[p], V(Own(p)))
          /\ PBD'[p] = AddAll(PBD[p], SubAll(V(3 - Own(p)), V(0)))
      BY <3>4, Keeping DEF Domains
    <3> QED BY <3>2, <3>3, <3>5
  <2>2. p = 0 => mem' = [mem EXCEPT ![Cell(op)] =
                           Add(@, IF IsWrite(op) THEN Sub(Meant(op), expected[t]) ELSE Meant(op))]
    BY DEF UpdateFinish, Written
  <2>3. ~ Awaited(0, Finished)
    BY DEF Awaited, Finished
  <2> HIDE DEF op, t
  <2> QED BY <1>5, <2>1, <2>2, <2>3, Views DEF PartyRel
<1> QED BY <1>1, <1>3, <1>6, <1>7, <1>8, <1>9, <1>10, PartyStep

LEMMA ReadFinishStep ==
    ASSUME NEW n, NEW G, NEW D, NEW K, Trace(n, G, D, K), NEW p \in Comp, ReadFinish(p)
    PROVE  HasPast'
<1> DEFINE op == Op(p)
           t == turn[p]
           res == Add(Kept(p).res, Message(p, Server))
           upd == Sub(op.value[p], res)
           n2 == IF op.kind = "oblivious_read" THEN Finished ELSE 4
<1>1. At(p, 3) /\ 3 # Finished /\ op.kind \in Reading
  BY DEF ReadFinish, Finished
<1>2. /\ p \in Players /\ explicitmode[p] \in BOOLEAN /\ t \in DOMAIN local[p]
      /\ (explicitmode[p] /\ LeavesMode(op) => 3 = 1)
  BY <1>1, AwaitedFrom, AtHere, Keeping DEF Domains
<1>3. /\ Job(op, 3, explicitmode[p]) = "answer" /\ NextSlice(op, 3, explicitmode[p]) = n2
      /\ NextMode(op, 3, explicitmode[p]) = explicitmode[p]
  BY <1>1, <1>2, JobTable DEF Does, Reading
<1>4. PICK got : got = [r \in Players |-> Message(p, r)]
  OBVIOUS
<1>5. /\ UNCHANGED <<DB, BL, PBD, SBL, explicitmode, mem, expected>>
      /\ Then(p, n2)
  BY DEF ReadFinish, memory
<1>6. Takes(p, 3, got)
  <2>1. Receive(p, {Server})
    BY DEF ReadFinish
  <2> QED BY <1>2, <1>4, <2>1, AwaitedFrom, Took
<1>11. local' = [local EXCEPT ![p][t] = [res |-> res, upd |-> upd, blind |-> 0]]
  BY DEF ReadFinish, Keep
<1>12. PICK gave :
          IF op.kind = "oblivious_read" THEN outbox' = outbox
          ELSE /\ gave = Messages(p, Offsets(p, op, upd, 0 .. 2), Offsets(p, op, upd, 1 .. 2))
               /\ Queue(p, gave)
  BY DEF ReadFinish, QueueOffsets
<1>7. Gives(p, n2, gave)
  <2>1. CASE op.kind = "oblivious_read"
    BY <1>2, <1>12, <2>1, AwaitedFrom, Gave DEF Finished
  <2>2. CASE op.kind # "oblivious_read"
    BY <1>2, <1>12, <2>2, AwaitedFrom, Gave
  <2> QED BY <2>1, <2>2
<1>8. Goes(p, 3, n2)
  BY <1>2, <1>3, <1>5, Keeping DEF Goes, Then
<1>9. Alone(p)
  <2>1. local' = [local EXCEPT ![p] = local'[p]] /\ DOMAIN local'[p] = DOMAIN local[p]
    BY <1>2, <1>11, Keeping DEF Domains
  <2> QED BY <1>2, <1>5, <2>1, Keeping DEF Alone
<1>10. PartyRel(p, op, t, "answer", n2, View(p), View(p)', got, gave)
  <2>1. local'[p] = [local[p] EXCEPT ![t] =
                       [res |-> res, upd |-> Sub(op.value[p], res), blind |-> 0]]
    BY <1>2, <1>11, Keeping DEF Domains
  <2>2. local'[p][t].upd = upd
    BY <1>2, <2>1
  <2>3. Awaited(0, n2) => \A r \in Players \ {p} : gave[r] = Says(p, op, n2, View(p)', t, r)
    <3>1. CASE op.kind = "oblivious_read"
      BY <3>1 DEF Awaited, Finished
    <3>2. CASE op.kind = "oblivious_write"
      <4>1. gave = Messages(p, Offsets(p, op, upd, 0 .. 2), Offsets(p, op, upd, 1 .. 2)) /\ n2 = 4
        BY <1>12, <3>2
      <4>2. PICK w : w = View(p)'
        OBVIOUS
      <4>3. w.loc[t].upd = upd
        BY <2>2, <4>2, Views
      <4> HIDE DEF op, t, upd, n2
      <4>4. \A r : Says(p, op, 4, w, t, r) =
                     Offsets(p, op, w.loc[t].upd, IF r = Server THEN 1 .. 2 ELSE 0 .. 2)
        BY DEF Says
      <4>5. \A r \in Players \ {p} : gave[r] =
                     Offsets(p, op, upd, IF r = Server THEN 1 .. 2 ELSE 0 .. 2)
        BY <4>1 DEF Messages
      <4> QED BY <4>1, <4>2, <4>3, <4>4, <4>5
    <3> QED BY <1>1, <3>1, <3>2 DEF Reading
  <2>4. res = Add(View(p).loc[t].res, got[Server])
    BY <1>4, ClassFacts, Views DEF Kept
  <2> HIDE DEF op, t, res, n2
  <2> QED BY <1>5, <2>1, <2>3, <2>4, Views DEF PartyRel, upd
<1> QED BY <1>1, <1>3, <1>6, <1>7, <1>8, <1>9, <1>10, PartyStep

LEMMA ReblindStep ==
    ASSUME NEW n, NEW G, NEW D, NEW K, Trace(n, G, D, K), NEW p \in Comp, Reblind(p)
    PROVE  HasPast'
<1> DEFINE op == Op(p)
           t == turn[p]
<1>1. At(p, 1) /\ 1 # Finished /\ LeavesMode(op) /\ explicitmode[p]
  BY DEF Reblind, Finished
<1>2. /\ p \in Players /\ explicitmode[p] = TRUE
  BY <1>1, AwaitedFrom, AtHere
<1>3. /\ Job(op, 1, explicitmode[p]) = "reblind" /\ NextSlice(op, 1, explicitmode[p]) = 0
  BY <1>1, <1>2, JobTable DEF Does
<1>4. PICK got : got = [r \in Players |-> Message(p, r)]
  OBVIOUS
<1>5. /\ UNCHANGED <<wire, DB, PBD, SBL, local, mem, expected>>
      /\ Then(p, 0) /\ explicitmode' = [explicitmode EXCEPT ![p] = FALSE]
  BY DEF Reblind
<1>6. Takes(p, 1, got)
  BY <1>2, <1>4, <1>5, AwaitedFrom, Took
<1>7. PICK f \in [Cells -> Blinds] :
         BL' = [BL EXCEPT ![p] = f] /\ Queue(p, Messages(p, AddAll(DB[p], f), f))
  BY DEF Reblind
<1>8. PICK gave : gave = Messages(p, AddAll(DB[p], f), f)
  OBVIOUS
<1>9. Gives(p, 0, gave)
  BY <1>2, <1>7, <1>8, AwaitedFrom, Gave
<1>10. Goes(p, 1, 0)
  <2>1. explicitmode' = [explicitmode EXCEPT ![p] = NextMode(op, 1, explicitmode[p])]
    BY <1>1, <1>2, <1>5, JobTable DEF Does
  <2>2. /\ slice' = [slice EXCEPT ![p][t] = 0] /\ turn' = [turn EXCEPT ![p] = @ + 1]
        /\ script' = script /\ batch' = batch
    BY <1>5 DEF Then
  <2>3. turn' = IF 1 = 0 /\ op.kind # "reblind" THEN turn ELSE [turn EXCEPT ![p] = @ + 1]
    BY <2>2
  <2> QED BY <2>1, <2>2, <2>3 DEF Goes
<1>11. BL'[p] = f /\ BL' = [BL EXCEPT ![p] = BL'[p]]
  BY <1>7, Keeping DEF Domains
<1>12. Alone(p)
  BY <1>2, <1>5, <1>11, Keeping DEF Alone
<1>13. PartyRel(p, op, t, "reblind", 0, View(p), View(p)', got, gave)
  <2>1. PICK w : w = View(p)'
    OBVIOUS
  <2>2. w.db = DB[p] /\ w.bl = f
    BY <1>5, <1>11, <2>1, Views
  <2>3. \A r \in Players \ {p} : gave[r] = Says(p, op, 0, View(p)', t, r)
    BY <1>8, <2>1, <2>2 DEF Messages, Says
  <2> HIDE DEF op, t
  <2> QED BY <1>5, <1>11, <2>3, Views DEF PartyRel
<1> QED BY <1>1, <1>3, <1>6, <1>9, <1>10, <1>12, <1>13, PartyStep

\* Where slice 0 leads to.
LEMMA AfterRefresh ==
    ASSUME NEW n, NEW G, NEW D, NEW K, Trace(n, G, D, K), NEW q \in Players, At(q, 0),
           explicitmode' = explicitmode, Reblinded(q)
    PROVE  /\ 0 # Finished /\ LeavesMode(Op(q)) /\ explicitmode[q] \in BOOLEAN
           /\ Job(Op(q), 0, explicitmode[q]) = "refresh"
           /\ NextSlice(Op(q), 0, explicitmode[q]) \in {1, Finished}
           /\ Goes(q, 0, NextSlice(Op(q), 0, explicitmode[q]))
<1> DEFINE n2 == IF Op(q).kind = "reblind" THEN Finished ELSE 1
<1>1. 0 # Finished
  BY DEF Finished
<1>2. OpSlice(Op(q), 0) /\ explicitmode[q] \in BOOLEAN
  BY <1>1, AtHere
<1>3. LeavesMode(Op(q))
  <2> DEFINE op == Op(q)
  <2>1. OpSlice(op, 0)
    BY <1>2
  <2> HIDE DEF op
  <2>2. LeavesMode(op)
    BY <2>1 DEF OpSlice, Finished
  <2> QED BY <2>2 DEF op
<1>4. /\ Job(Op(q), 0, explicitmode[q]) = "refresh" /\ NextSlice(Op(q), 0, explicitmode[q]) = n2
      /\ NextMode(Op(q), 0, explicitmode[q]) = explicitmode[q]
  BY <1>2, <1>3, JobTable DEF Does
<1>5. explicitmode' = [explicitmode EXCEPT ![q] = explicitmode[q]]
  BY Keeping
<1>6. Goes(q, 0, n2)
  <2>1. CASE Op(q).kind = "reblind"
    BY <1>4, <1>5, <2>1 DEF Goes, Reblinded, Then
  <2>2. CASE Op(q).kind # "reblind"
    BY <1>4, <1>5, <2>2 DEF Goes, Reblinded
  <2> QED BY <2>1, <2>2
<1> QED BY <1>1, <1>2, <1>3, <1>4, <1>6

LEMMA ReblindFinishStep ==
    ASSUME NEW n, NEW G, NEW D, NEW K, Trace(n, G, D, K), NEW p \in Comp, ReblindFinish(p)
    PROVE  HasPast'
<1> DEFINE op == Op(p)
           t == turn[p]
<1>1. At(p, 0) /\ Reblinded(p) /\ Receive(p, {1 - p}) /\ p \in Players
      /\ UNCHANGED <<outbox, DB, BL, SBL, explicitmode, local, mem, expected>>
      /\ PBD' = [PBD EXCEPT ![p] = Message(p, 1 - p)]
  BY AwaitedFrom DEF ReblindFinish
<1>2. PICK n2 : n2 = NextSlice(op, 0, explicitmode[p])
  OBVIOUS
<1>3. /\ 0 # Finished /\ Job(op, 0, explicitmode[p]) = "refresh" /\ n2 \in {1, Finished}
      /\ Goes(p, 0, n2)
  BY <1>1, <1>2, AfterRefresh
<1>4. PICK got : got = [r \in Players |-> Message(p, r)]
  OBVIOUS
<1>5. Takes(p, 0, got)
  BY <1>1, <1>4, AwaitedFrom, Took
<1>6. Gives(p, n2, got)
  BY <1>1, <1>3, AwaitedFrom, Gave DEF Finished
<1>7. PBD'[p] = got[1 - p] /\ PBD' = [PBD EXCEPT ![p] = PBD'[p]]
  BY <1>1, <1>4, AwaitedFrom, Keeping DEF Domains
<1>8. Alone(p)
  BY <1>1, <1>7, Keeping DEF Alone
<1>9. PartyRel(p, op, t, "refresh", n2, View(p), View(p)', got, got)
  <2>1. ~ Awaited(0, n2)
    BY <1>3 DEF Awaited, Finished
  <2> HIDE DEF op, t
  <2> QED BY <1>1, <1>7, <2>1, Views DEF PartyRel
<1> QED BY <1>1, <1>2, <1>3, <1>5, <1>6, <1>8, <1>9, PartyStep

LEMMA NothingStep ==
    ASSUME NEW n, NEW G, NEW D, NEW K, Trace(n, G, D, K), NEW q \in Players,
           ExplicitOnly(q) \/ ReblindNothing(q)
    PROVE  HasPast'
<1> DEFINE op == Op(q)
           t == turn[q]
<1>1. At(q, 1) /\ 1 # Finished /\ Then(q, Finished)
      /\ UNCHANGED <<outbox, wire, DB, BL, PBD, SBL, local, mem, expected>>
  BY DEF ExplicitOnly, ReblindNothing, Finished, memory
<1>2. explicitmode[q] \in BOOLEAN
  BY <1>1, AtHere
<1>3. /\ Job(op, 1, explicitmode[q]) = "nothing" /\ NextSlice(op, 1, explicitmode[q]) = Finished
      /\ explicitmode' = [explicitmode EXCEPT ![q] = NextMode(op, 1, explicitmode[q])]
  <2>1. CASE ExplicitOnly(q)
    <3>1. op.kind = "explicitonly" /\ explicitmode' = [explicitmode EXCEPT ![q] = TRUE]
      BY <2>1 DEF ExplicitOnly
    <3> QED BY <1>2, <3>1, JobTable DEF Does
  <2>2. CASE ReblindNothing(q)
    <3>1. op.kind = "reblind" /\ ~ explicitmode[q] /\ explicitmode' = explicitmode
      BY <2>2 DEF ReblindNothing, memory
    <3> QED BY <1>2, <3>1, JobTable, Keeping DEF Does
  <2> QED BY <2>1, <2>2
<1>4. PICK got : got = [r \in Players |-> Message(q, r)]
  OBVIOUS
<1>5. {r \in Players \ {q} : Awaited(Class(r), 1)} = {}
  BY AwaitedFrom, ClassFacts
<1>6. Takes(q, 1, got)
  BY <1>1, <1>4, <1>5, Took
<1>7. Gives(q, Finished, got)
  <2>1. ~ Awaited(Class(q), Finished)
    BY DEF Awaited, Finished
  <2> QED BY <1>1, <2>1, Gave
<1>8. Goes(q, 1, Finished)
  BY <1>1, <1>3 DEF Goes, Then
<1>9. CASE q \in Comp
  <2>1. Alone(q)
    BY <1>1, <1>9, Keeping DEF Alone
  <2>2. PartyRel(q, op, t, "nothing", Finished, View(q), View(q)', got, got)
    <3>1. ~ Awaited(0, Finished)
      BY DEF Awaited, Finished
    <3> HIDE DEF op, t
    <3> QED BY <1>1, <1>9, <3>1, Views DEF PartyRel
  <2> QED BY <1>1, <1>3, <1>6, <1>7, <1>8, <1>9, <2>1, <2>2, PartyStep
<1>10. CASE q = Server
  <2>1. ServerRel(op, "nothing", View(q), View(q)', got, got)
    BY <1>1, <1>10, Views DEF ServerRel
  <2> QED BY <1>1, <1>3, <1>6, <1>7, <1>8, <1>10, <2>1, ServersStep
<1> QED BY <1>9, <1>10, ClassFacts

LEMMA ServerStartStep ==
    ASSUME NEW n, NEW G, NEW D, NEW K, Trace(n, G, D, K), ServerStart
    PROVE  HasPast'
<1> DEFINE op == Op(Server)
           m  == explicitmode[Server]
           k2 == IF ~ m THEN 2 ELSE IF LeavesMode(op) THEN 0 ELSE Finished
<1>1. /\ At(Server, 1) /\ 1 # Finished /\ op.kind # "explicitonly" /\ ~ (op.kind = "reblind" /\ ~ m)
      /\ explicitmode' = [explicitmode EXCEPT ![Server] = @ /\ ~ LeavesMode(op)]
      /\ Then(Server, k2)
      /\ UNCHANGED <<outbox, wire, DB, BL, PBD, SBL, local, mem, expected>>
  BY DEF ServerStart, Finished
<1>2. m \in BOOLEAN /\ ValidOp(op) /\ Server \in Players
  BY <1>1, AtHere, ClassFacts
<1>3. op.kind \in {"reblind"} \cup Explicit \cup Oblivious
  BY <1>1, <1>2 DEF ValidOp
<1>4. PICK k3, job : k3 = NextSlice(op, 1, m) /\ job = Job(op, 1, m)
  OBVIOUS
<1>5. k3 = k2 /\ job \in {"reblind", "local", "start", "ask", "offset"}
  <2> HIDE DEF op, m
  <2>1. op.kind = "reblind" => m
    BY <1>1 DEF op, m
  <2>2. CASE op.kind = "reblind"
    BY <1>2, <1>4, <2>1, <2>2, JobTable DEF Does, LeavesMode
  <2>3. CASE op.kind \in Explicit
    <3>1. op.kind \notin Oblivious /\ op.kind # "reblind"
      BY <2>3 DEF Explicit, Oblivious
    <3>2. ~ LeavesMode(op)
      BY <3>1 DEF LeavesMode
    <3> QED BY <1>2, <1>4, <2>3, <3>2, JobTable DEF Does
  <2>4. CASE op.kind \in Oblivious
    <3>1. LeavesMode(op) /\ (op.kind \in Reading \/ op.kind = "oblivious_update")
      BY <2>4 DEF LeavesMode, Oblivious, Reading
    <3> QED BY <1>2, <1>4, <3>1, JobTable DEF Does
  <2> QED BY <1>3, <2>2, <2>3, <2>4
<1>6. PICK got : got = [r \in Players |-> Message(Server, r)]
  OBVIOUS
<1>7. Takes(Server, 1, got)
  BY <1>1, <1>2, <1>6, AwaitedFrom, Took
<1>8. Gives(Server, k3, got)
  <2>1. ~ Awaited(Class(Server), k3)
    BY <1>5, AwaitedFrom DEF Finished
  <2> QED BY <1>1, <1>2, <2>1, Gave
<1>9. Goes(Server, 1, k3)
  <2>1. explicitmode' = [explicitmode EXCEPT ![Server] = NextMode(op, 1, m)]
    <3>1. NextMode(op, 1, m) <=> (m /\ ~ LeavesMode(op))
      BY <1>1 DEF NextMode
    <3> QED BY <1>1, <3>1 DEF NextMode
  <2>2. /\ slice' = [slice EXCEPT ![Server][turn[Server]] = k2]
        /\ turn' = [turn EXCEPT ![Server] = @ + 1]
        /\ script' = script /\ batch' = batch
    BY <1>1 DEF Then
  <2>3. turn' = IF 1 = 0 /\ op.kind # "reblind" THEN turn ELSE [turn EXCEPT ![Server] = @ + 1]
    BY <2>2
  <2> QED BY <1>5, <2>1, <2>2, <2>3 DEF Goes
<1>10. ServerRel(op, job, View(Server), View(Server)', got, got)
  <2> HIDE DEF op
  <2> QED BY <1>1, <1>5, Views DEF ServerRel
<1> QED BY <1>1, <1>4, <1>7, <1>8, <1>9, <1>10, ServersStep

LEMMA ServerExplicitStep ==
    ASSUME NEW n, NEW G, NEW D, NEW K, Trace(n, G, D, K), ServerExplicit
    PROVE  HasPast'
<1> DEFINE op == Op(Server)
           m  == explicitmode[Server]
<1>1. /\ At(Server, 2) /\ 2 # Finished /\ op.kind \in Explicit
      /\ Receive(Server, Comp) /\ Then(Server, Finished)
      /\ SBL' = [p \in Comp |-> [SBL[p] EXCEPT ![op.index] = Add(@, Message(Server, p))]]
      /\ UNCHANGED <<outbox, DB, BL, PBD, explicitmode, local, mem, expected>>
  BY DEF ServerExplicit, Finished
<1>2. m \in BOOLEAN /\ Server \in Players
  BY <1>1, AtHere, ClassFacts
<1>3. /\ Job(op, 2, m) = "finish" /\ NextSlice(op, 2, m) = Finished /\ NextMode(op, 2, m) = m
  BY <1>1, <1>2, JobTable DEF Does
<1>4. PICK got : got = [r \in Players |-> Message(Server, r)]
  OBVIOUS
<1>5. Takes(Server, 2, got)
  BY <1>1, <1>2, <1>4, AwaitedFrom, Took
<1>6. Gives(Server, Finished, got)
  BY <1>1, <1>2, AwaitedFrom, Gave DEF Finished
<1>7. Goes(Server, 2, Finished)
  BY <1>1, <1>2, <1>3, Keeping DEF Goes, Then
<1>8. ServerRel(op, "finish", View(Server), View(Server)', got, got)
  <2>1. \A p \in Comp : got[p] = Message(Server, p)
    BY <1>4, AwaitedFrom
  <2> HIDE DEF op
  <2> QED BY <1>1, <2>1, Views DEF ServerRel
<1> QED BY <1>1, <1>3, <1>5, <1>6, <1>7, <1>8, ServersStep

LEMMA CrossTermsStep ==
    ASSUME NEW n, NEW G, NEW D, NEW K, Trace(n, G, D, K), CrossTerms
    PROVE  HasPast'
<1> DEFINE op == Op(Server)
           m  == explicitmode[Server]
           shift == (Message(Server, 0) + Message(Server, 1)) % Width
           gamma0 == Total([i \in Cells |-> Mul(SBL[0][i], Unit(op, 2, 1, shift)[i])])
           gamma1 == Total([i \in Cells |-> Mul(SBL[1][i], Unit(op, 1, 0, shift)[i])])
<1>1. /\ At(Server, 2) /\ 2 # Finished /\ op.kind \in Reading
      /\ Receive(Server, Comp) /\ Then(Server, 3)
      /\ UNCHANGED <<DB, BL, PBD, SBL, explicitmode, local, mem, expected>>
  BY DEF CrossTerms, Finished, memory
<1>2. m \in BOOLEAN /\ Server \in Players
  BY <1>1, AtHere, ClassFacts
<1>3. /\ Job(op, 2, m) = "dot" /\ NextSlice(op, 2, m) = 3 /\ NextMode(op, 2, m) = m
  BY <1>1, <1>2, JobTable DEF Does
<1>4. PICK got : got = [r \in Players |-> Message(Server, r)]
  OBVIOUS
<1>5. Takes(Server, 2, got)
  BY <1>1, <1>2, <1>4, AwaitedFrom, Took
<1>6. PICK rho \in Blinds :
         Queue(Server, [p \in Comp |-> IF p = 0 THEN Sub(rho, gamma0)
                                       ELSE Sub(0, Add(rho, gamma1))])
  BY DEF CrossTerms
<1>7. PICK gave : gave = [p \in Comp |-> IF p = 0 THEN Sub(rho, gamma0)
                                         ELSE Sub(0, Add(rho, gamma1))]
  OBVIOUS
<1>8. Gives(Server, 3, gave)
  BY <1>2, <1>6, <1>7, AwaitedFrom, Gave
<1>9. Goes(Server, 2, 3)
  BY <1>1, <1>2, <1>3, Keeping DEF Goes, Then
<1>10. ServerRel(op, "dot", View(Server), View(Server)', got, gave)
  <2>1. shift = (got[0] + got[1]) % Width
    BY <1>4, ClassFacts
  <2>2. gave[0] = Sub(rho, gamma0) /\ gave[1] = Sub(0, Add(rho, gamma1))
    BY <1>7, ClassFacts
  <2> HIDE DEF op, shift
  <2>3. gamma0 = Gamma(0, op, View(Server), shift) /\ gamma1 = Gamma(1, op, View(Server), shift)
    BY Views DEF Gamma
  <2> HIDE DEF gamma0, gamma1
  <2> QED BY <1>1, <2>1, <2>2, <2>3, Views DEF ServerRel
<1> QED BY <1>1, <1>3, <1>5, <1>8, <1>9, <1>10, ServersStep

LEMMA ServerReadFinishStep ==
    ASSUME NEW n, NEW G, NEW D, NEW K, Trace(n, G, D, K), ServerReadFinish
    PROVE  HasPast'
<1> DEFINE op == Op(Server)
           m  == explicitmode[Server]
           k2 == IF op.kind = "oblivious_read" THEN Finished ELSE 4
<1>1. /\ At(Server, 3) /\ 3 # Finished /\ op.kind \in Reading /\ Then(Server, k2)
      /\ UNCHANGED <<outbox, wire, DB, BL, PBD, SBL, explicitmode, local, mem, expected>>
  BY DEF ServerReadFinish, Finished, memory
<1>2. m \in BOOLEAN /\ Server \in Players
  BY <1>1, AtHere, ClassFacts
<1>3. /\ Job(op, 3, m) = "answer" /\ NextSlice(op, 3, m) = k2 /\ NextMode(op, 3, m) = m
  BY <1>1, <1>2, JobTable DEF Does
<1>4. PICK got : got = [r \in Players |-> Message(Server, r)]
  OBVIOUS
<1>5. Takes(Server, 3, got)
  BY <1>1, <1>2, <1>4, AwaitedFrom, Took
<1>6. Gives(Server, k2, got)
  BY <1>1, <1>2, AwaitedFrom, Gave DEF Finished
<1>7. Goes(Server, 3, k2)
  BY <1>1, <1>2, <1>3, Keeping DEF Goes, Then
<1>8. ServerRel(op, "answer", View(Server), View(Server)', got, got)
  BY <1>1, Views DEF ServerRel
<1> HIDE DEF k2
<1> QED BY <1>1, <1>3, <1>5, <1>6, <1>7, <1>8, ServersStep

LEMMA ServerUpdateStep ==
    ASSUME NEW n, NEW G, NEW D, NEW K, Trace(n, G, D, K), ServerUpdate
    PROVE  HasPast'
<1> DEFINE op == Op(Server)
           m  == explicitmode[Server]
<1>1. PICK k \in {2, 4} : /\ At(Server, k) /\ k # Finished
                          /\ op.kind = IF k = 2 THEN "oblivious_update" ELSE "oblivious_write"
  BY DEF ServerUpdate, ServerUpdateTo, AtUpdate, Finished
<1>2. m \in BOOLEAN /\ Server \in Players
  BY <1>1, AtHere, ClassFacts
<1>3. /\ Job(op, k, m) = "update" /\ NextSlice(op, k, m) = Finished /\ NextMode(op, k, m) = m
  <2> HIDE DEF op, m
  <2>1. CASE k = 2
    BY <1>1, <1>2, <2>1, JobTable DEF Does
  <2>2. CASE k = 4
    <3>1. op.kind = "oblivious_write"
      BY <1>1, <2>2
    <3>2. Does(op, 4, m, "update", Finished, m)
      BY <1>2, <3>1, JobTable
    <3> QED BY <2>2, <3>2 DEF Does
  <2> QED BY <2>1, <2>2
<1>4. PICK got : got = [r \in Players |-> Message(Server, r)]
  OBVIOUS
<1>5. /\ Receive(Server, Comp) /\ Then(Server, Finished)
      /\ SBL' = [p \in Comp |-> SubAll(SBL[p], ServerVector(p))]
      /\ UNCHANGED <<outbox, DB, BL, PBD, explicitmode, local, mem, expected>>
  BY DEF ServerUpdate, ServerUpdateTo
<1>6. Takes(Server, k, got)
  BY <1>1, <1>2, <1>4, <1>5, AwaitedFrom, Took
<1>7. Gives(Server, Finished, got)
  BY <1>2, <1>5, AwaitedFrom, Gave DEF Finished
<1>8. Goes(Server, k, Finished)
  BY <1>1, <1>2, <1>3, <1>5, Keeping DEF Goes, Then
<1>9. ServerRel(op, "update", View(Server), View(Server)', got, got)
  <2>1. got[0] = Message(Server, 0) /\ got[1] = Message(Server, 1)
    BY <1>4, ClassFacts
  <2>2. \A p \in Comp : ServerVector(p) = TheirVector(p, op, got[0], got[1])
    BY <2>1 DEF ServerVector, TheirVector
  <2> HIDE DEF op
  <2> QED BY <1>5, <2>2, Views DEF ServerRel
<1> QED BY <1>1, <1>3, <1>6, <1>7, <1>8, <1>9, <1>5, ServersStep

LEMMA ServerReblindStep ==
    ASSUME NEW n, NEW G, NEW D, NEW K, Trace(n, G, D, K), ServerReblind
    PROVE  HasPast'
<1> DEFINE op == Op(Server)
<1>1. /\ At(Server, 0) /\ Receive(Server, Comp) /\ Reblinded(Server) /\ Server \in Players
      /\ SBL' = [p \in Comp |-> Message(Server, p)]
      /\ UNCHANGED <<outbox, DB, BL, PBD, explicitmode, local, mem, expected>>
  BY ClassFacts DEF ServerReblind
<1>2. PICK n2 : n2 = NextSlice(op, 0, explicitmode[Server])
  OBVIOUS
<1>3. /\ 0 # Finished /\ Job(op, 0, explicitmode[Server]) = "refresh" /\ n2 \in {1, Finished}
      /\ Goes(Server, 0, n2)
  BY <1>1, <1>2, AfterRefresh
<1>4. PICK got : got = [r \in Players |-> Message(Server, r)]
  OBVIOUS
<1>5. Takes(Server, 0, got)
  BY <1>1, <1>4, AwaitedFrom, Took
<1>6. Gives(Server, n2, got)
  <2>1. ~ Awaited(Class(Server), n2)
    BY <1>3, AwaitedFrom DEF Finished
  <2> QED BY <1>1, <2>1, Gave
<1>7. ServerRel(op, "refresh", View(Server), View(Server)', got, got)
  <2>1. \A p \in Comp : got[p] = Message(Server, p)
    BY <1>4, AwaitedFrom
  <2> HIDE DEF op
  <2> QED BY <1>1, <2>1, Views DEF ServerRel
<1> QED BY <1>1, <1>2, <1>3, <1>5, <1>6, <1>7, ServersStep

-----------------------------------------------------------------------------
(* Every state has a past.                                                 *)

LEMMA InitPast ==
    ASSUME Init
    PROVE  HasPast
<1>1. script \in Scripts
  BY DEF Init
<1>2. PICK G : IsRun(script, G)
  BY <1>1, RunExists
<1>3. PICK n : n = [q \in Players |-> 0]
  OBVIOUS
<1>4. PICK D : D = [q \in Players |-> [j \in Nat |-> View(q)]]
  OBVIOUS
<1>5. PICK K : K = [l \in Links |-> 0]
  OBVIOUS
<1>6. /\ n \in [Players -> Nat] /\ \A q \in Players : n[q] = 0 /\ D[q][0] = View(q)
  BY <1>3, <1>4
<1>7. /\ G[0].batch = 1 /\ G[0].turn = 1 /\ G[0].slice = Fresh(script[1]) /\ G[0].mode = FALSE
      /\ \A x \in Classes : G[0].rcv[x] = 0 /\ G[0].sent[x] = 0 /\ G[0].put[x] = 0
  <2>1. G[0] = First(script)
    BY <1>2 DEF IsRun
  <2> QED BY <2>1 DEF First
<1>8. \A l \in Links : Received(n, G, l) = 0 /\ PutOut(n, G, l) = 0 /\ Queued(n, G, l) = 0
  BY <1>6, <1>7, ClassFacts DEF Received, PutOut, Queued
<1>9. Log(script, n, G, D, K)
  <2>1. ASSUME NEW q \in Players PROVE Start(script, q, D[q][0])
    <3>1. CASE q = Server
      BY <1>6, <3>1 DEF Init, Start, View, Server
    <3>2. CASE q = 0
      <4>1. /\ DB[0] = Zero /\ BL[0] = Zero /\ PBD[0] = Zero /\ local[0] = Blank(script[1])
            /\ mem = Zero /\ expected = [c \in DOMAIN script[1] |-> 0]
        BY ClassFacts DEF Init
      <4> QED BY <1>6, <3>2, <4>1, Views, ClassFacts DEF Start
    <3>3. CASE q = 1
      <4>1. DB[1] = Zero /\ BL[1] = Zero /\ PBD[1] = Zero /\ local[1] = Blank(script[1])
        BY ClassFacts DEF Init
      <4> QED BY <1>6, <3>3, <4>1, Views, ClassFacts DEF Start
    <3> QED BY <3>1, <3>2, <3>3, ClassFacts
  <2>2. \A q \in Players : \A j \in Nat : ~ (j < n[q])
    BY <1>6
  <2> QED BY <1>1, <1>2, <1>6, <1>8, <2>1, <2>2 DEF Log
<1>10. Domains
  <2>1. /\ DB = [p \in Comp |-> DB[p]] /\ BL = [p \in Comp |-> BL[p]]
        /\ PBD = [p \in Comp |-> PBD[p]] /\ local = [q \in Players |-> local[q]]
    BY DEF Init
  <2>2. ASSUME NEW p \in Comp PROVE DOMAIN local[p] = DOMAIN slice[p]
    <3>1. local[p] = Blank(script[1]) /\ slice[p] = Fresh(script[1])
      BY ClassFacts DEF Init
    <3> QED BY <3>1 DEF Blank, Fresh
  <2> QED BY <2>1, <2>2 DEF Domains
<1>11. /\ wire = [l \in Links |-> Window(K[l], Received(n, G, l), PutOut(n, G, l))]
       /\ outbox = [l \in Links |-> Window(K[l], PutOut(n, G, l), Queued(n, G, l))]
  <2>1. \A l \in Links : Window(K[l], 0, 0) = <<>>
    BY WindowEmpty
  <2> QED BY <1>8, <2>1 DEF Init
<1>12. /\ batch = [q \in Players |-> G[n[q]].batch] /\ turn = [q \in Players |-> G[n[q]].turn]
       /\ slice = [q \in Players |-> G[n[q]].slice]
       /\ explicitmode = [q \in Players |-> G[n[q]].mode]
  BY <1>6, <1>7 DEF Init
<1>13. \A q \in Players : View(q) = D[q][n[q]]
  BY <1>6
<1> QED BY <1>9, <1>10, <1>11, <1>12, <1>13 DEF HasPast, Trace

LEMMA StepPast ==
    ASSUME HasPast, NEW q \in Players, Step(q)
    PROVE  HasPast'
<1>1. PICK n, G, D, K : Trace(n, G, D, K)
  BY DEF HasPast
<1>2. CASE AnyStep(q)
  BY <1>1, <1>2, SkipStep, PassStep, NothingStep DEF AnyStep
<1>3. CASE q \in Comp /\ CompStep(q)
  BY <1>1, <1>3, ExplicitLocalStep, ExplicitStartStep, ExplicitFinishStep, ReadStartStep,
     DotProductStep, ReadFinishStep, UpdateStartStep, UpdateFinishStep, ReblindStep,
     ReblindFinishStep DEF CompStep
<1>4. CASE q = Server /\ ServerStep
  BY <1>1, <1>4, ServerStartStep, ServerExplicitStep, CrossTermsStep, ServerReadFinishStep,
     ServerUpdateStep, ServerReblindStep DEF ServerStep
<1> QED BY <1>2, <1>3, <1>4 DEF Step

LEMMA SamePast ==
    ASSUME HasPast, UNCHANGED vars
    PROVE  HasPast'
<1>1. PICK n, G, D, K : Trace(n, G, D, K)
  BY DEF HasPast
<1>2. UNCHANGED <<script, batch, turn, slice, outbox, wire, DB, BL, PBD, SBL, explicitmode,
                  local, mem, expected>>
  BY DEF vars, control, memory
<1>3. Domains' /\ \A q \in Players : View(q)' = View(q)
  <2>1. Domains
    BY <1>1 DEF Trace
  <2> QED BY <1>2, <2>1 DEF Domains, View
<1>4. Trace(n, G, D, K)'
  BY <1>1, <1>2, <1>3 DEF Trace
<1> QED BY <1>4 DEF HasPast

\* Every state that is reached has a past: the players have all come along the
\* one run of controls, and over each link the messages arrive that were queued
\* there, each once and in order (duoram.tcc:57-88, coroutine.hpp:27-63).
THEOREM PastAlways == Spec => []HasPast
<1>1. Init => HasPast
  BY InitPast
<1>2. HasPast /\ [Next]_vars => HasPast'
  BY StepPast, SamePast DEF Next, Stop
<1> QED BY <1>1, <1>2, PTL DEF Spec

\* When the script has ended for everybody, every message that was queued was
\* sent and received: the code has no receive that would take the message of
\* another operation.
THEOREM EveryMessageReceived == Spec => []NoLeftovers
<1>1. ASSUME HasPast, AllDone PROVE \A l \in Links : wire[l] = <<>> /\ outbox[l] = <<>>
  <2>1. PICK n, G, D, K : Trace(n, G, D, K)
    BY <1>1 DEF HasPast
  <2>2. script \in Scripts /\ IsRun(script, G) /\ n \in [Players -> Nat]
    BY <2>1 DEF Trace, Log
  <2>3. \A q \in Players : Ended(script, G[n[q]]) /\ ControlInv(script, G[n[q]])
    BY <1>1, <2>1, Here DEF AllDone
  <2>4. ASSUME NEW q \in Players, NEW r \in Players PROVE G[n[q]] = G[n[r]]
    <3>1. n[q] \in Nat /\ n[r] \in Nat
      BY <2>2
    <3>2. CASE n[q] <= n[r]
      BY <2>2, <2>3, <3>1, <3>2, RunGrows
    <3>3. CASE n[r] <= n[q]
      BY <2>2, <2>3, <3>1, <3>3, RunGrows
    <3> QED BY <3>1, <3>2, <3>3
  <2>5. ASSUME NEW l \in Links PROVE wire[l] = <<>> /\ outbox[l] = <<>>
    <3> DEFINE C == G[n[l[1]]]
               x == Class(l[1])
    <3>1. /\ l[1] \in Players /\ l[2] \in Players /\ x \in Classes
      BY ClassFacts
    <3>2. /\ Received(n, G, l) = C.rcv[x] /\ PutOut(n, G, l) = C.put[x]
          /\ Queued(n, G, l) = C.sent[x]
      BY <2>4, <3>1 DEF Received, PutOut, Queued
    <3>3. Ended(script, C) /\ ControlInv(script, C)
      BY <2>3, <3>1
    <3> HIDE DEF C, x
    <3>4. AllFinished(C) /\ C.put[x] = C.sent[x] /\ C.rcv[x] \in Nat /\ C.sent[x] \in Nat
      BY <3>1, <3>3 DEF ControlInv, ControlType
    <3>5. C.rcv[x] <= C.sent[x]
      BY <3>1, <3>3 DEF ControlInv, InTurn
    <3>6. \A c \in DOMAIN C.slice : ~ Awaited(x, C.slice[c])
      BY <3>4 DEF AllFinished, Awaited, Finished
    <3>7. ~ (C.rcv[x] < C.sent[x])
      <4>1. ASSUME C.rcv[x] < C.sent[x] PROVE FALSE
        <5>1. PICK c \in DOMAIN C.slice : Awaited(x, C.slice[c])
          BY <3>1, <3>3, <3>4, <4>1 DEF ControlInv, InTurn
        <5> QED BY <3>6, <5>1
      <4> QED BY <4>1
    <3>8. C.rcv[x] = C.sent[x]
      BY <3>4, <3>5, <3>7
    <3>9. Window(K[l], C.sent[x], C.sent[x]) = <<>>
      BY <3>4, WindowEmpty
    <3>10. /\ wire[l] = Window(K[l], Received(n, G, l), PutOut(n, G, l))
           /\ outbox[l] = Window(K[l], PutOut(n, G, l), Queued(n, G, l))
      BY <2>1 DEF Trace
    <3> QED BY <3>2, <3>4, <3>8, <3>9, <3>10
  <2> QED BY <2>5
<1>2. HasPast => NoLeftovers
  BY <1>1 DEF NoLeftovers
<1> QED BY <1>2, PastAlways, PTL

-----------------------------------------------------------------------------
(* What a player hears at a slice, and what it has said.                   *)

Heard(q, C, K)   == [r \in Players |-> K[<<r, q>>][C.idx[Class(r)][C.turn]]]
Told(q, t, E, K) == [r \in Players |-> K[<<q, r>>][E.idx[Class(q)][t]]]

\* The job of a control.
JobAt(s, C)  == Job(s[C.batch][C.turn], C.slice[C.turn], C.mode)
NextAt(s, C) == NextSlice(s[C.batch][C.turn], C.slice[C.turn], C.mode)

\* At a slice the turn of the control is a place of its slices and indices.
LEMMA SliceShape ==
    ASSUME NEW s, NEW C, NEW E, IsSlice(s, C, E)
    PROVE  /\ C.turn \in DOMAIN C.slice
           /\ \A x \in Classes : C.turn \in DOMAIN C.idx[x]
BY DEF IsSlice

\* A slice depends on the messages that it awaits, and on no other.
LEMMA SameMessages ==
    ASSUME NEW s, NEW q \in Players, NEW C, NEW E, IsSlice(s, C, E),
           ~ AtEnd(s, C), ~ AtSkip(s, C), NEW v, NEW w, NEW got, NEW gave,
           StepRel(s, q, C, v, w, got, gave), NEW got2, NEW gave2,
           \A r \in Players \ {q} : Awaited(Class(r), C.slice[C.turn]) => got2[r] = got[r],
           Awaited(Class(q), NextAt(s, C)) => \A r \in Players \ {q} : gave2[r] = gave[r]
    PROVE  StepRel(s, q, C, v, w, got2, gave2)
<1> DEFINE op == s[C.batch][C.turn]
           k  == C.slice[C.turn]
           job == JobAt(s, C)
           n2 == NextAt(s, C)
<1>1. /\ job \in {"finish", "update", "refresh", "dot"} => k \in {0, 2, 4}
      /\ job = "answer" => k = 3
      /\ job = "dot" => n2 = 3
  <2>1. /\ ValidOp(op) /\ k \in Slices /\ k # Finished /\ OpSlice(op, k)
        /\ C.mode \in BOOLEAN /\ (C.mode /\ LeavesMode(op) => k = 1)
    BY DEF IsSlice
  <2>2. job = Job(op, k, C.mode) /\ n2 = NextSlice(op, k, C.mode)
    BY DEF JobAt, NextAt
  <2> HIDE DEF op, k, job, n2
  <2> QED BY <2>1, <2>2, JobFacts
<1>2. CASE q = Server
  <2>1. job \in {"finish", "update", "refresh", "dot"} => got2[0] = got[0] /\ got2[1] = got[1]
    BY <1>1, <1>2, AwaitedFrom, ClassFacts
  <2>2. n2 = 3 => gave2[0] = gave[0] /\ gave2[1] = gave[1]
    BY <1>2, AwaitedFrom, ClassFacts
  <2>3. AtSlice(s, C) => ServerRel(op, job, v, w, got, gave)
    BY <1>2 DEF StepRel, JobAt
  <2> HIDE DEF op, k, job, n2
  <2>4. ServerRel(op, job, v, w, got, gave) => ServerRel(op, job, v, w, got2, gave2)
    <3>1. \A p \in Comp : p = 0 \/ p = 1
      BY ClassFacts
    <3>2. CASE job \in {"finish", "update", "refresh", "dot"}
      BY <1>1, <2>1, <2>2, <3>1, <3>2 DEF ServerRel
    <3>3. CASE job \notin {"finish", "update", "refresh", "dot"}
      BY <3>3 DEF ServerRel
    <3> QED BY <3>2, <3>3
  <2> QED BY <1>2, <2>3, <2>4 DEF StepRel, op, job, JobAt
<1>3. CASE q # Server
  <2>1. q \in Comp
    BY <1>3, ClassFacts
  <2>2. job \in {"finish", "update", "refresh", "dot"} => got2[1 - q] = got[1 - q]
    BY <1>1, <2>1, AwaitedFrom, ClassFacts
  <2>3. job = "answer" => got2[Server] = got[Server]
    BY <1>1, <2>1, AwaitedFrom, ClassFacts
  <2>4. Awaited(0, n2) => \A r \in Players \ {q} : gave2[r] = gave[r]
    BY <1>3 DEF Class
  <2>5. AtSlice(s, C) => PartyRel(q, op, C.turn, job, n2, v, w, got, gave)
    BY <1>3 DEF StepRel, JobAt, NextAt
  <2> HIDE DEF op, k, job, n2
  <2>6. PartyRel(q, op, C.turn, job, n2, v, w, got, gave)
          => PartyRel(q, op, C.turn, job, n2, v, w, got2, gave2)
    BY <2>2, <2>3, <2>4 DEF PartyRel
  <2> QED BY <1>3, <2>5, <2>6 DEF StepRel, op, job, n2, JobAt, NextAt
<1> QED BY <1>2, <1>3

\* The step that follows a control, with the messages it takes and puts out.
LEMMA StepTaken ==
    ASSUME NEW s, NEW n, NEW G, NEW D, NEW K, Log(s, n, G, D, K), NEW q \in Players,
           NEW j \in Nat, j < n[q], NEW C, C = G[j], NEW E, E = G[j + 1]
    PROVE  /\ s \in Scripts /\ ControlInv(s, C) /\ ControlInv(s, E) /\ ~ Ended(s, C)
           /\ E = Succ(s, C)
           /\ StepRel(s, q, C, D[q][j], D[q][j + 1], Heard(q, C, K), Told(q, C.turn, E, K))
           /\ AtSlice(s, C) =>
                /\ IsSlice(s, C, E)
                /\ \A r \in Players \ {q} :
                      Awaited(Class(r), C.slice[C.turn])
                        => C.idx[Class(r)][C.turn] <= Queued(n, G, <<r, q>>)
<1> DEFINE t == C.turn
           k == C.slice[t]
<1>1. /\ s \in Scripts /\ IsRun(s, G) /\ n \in [Players -> Nat] /\ j + 1 \in Nat
  BY DEF Log
<1>2. /\ ControlInv(s, C) /\ ControlInv(s, E) /\ E = Succ(s, C)
  BY <1>1 DEF IsRun
<1>3. PICK got, gave :
          /\ ~ Ended(s, C)
          /\ StepRel(s, q, C, D[q][j], D[q][j + 1], got, gave)
          /\ \A r \in Players \ {q} :
                /\ C.rcv[Class(r)] < E.rcv[Class(r)]
                     => got[r] = K[<<r, q>>][E.rcv[Class(r)]]
                /\ C.sent[Class(q)] < E.sent[Class(q)]
                     => gave[r] = K[<<q, r>>][E.sent[Class(q)]]
  BY DEF Log, Happened
<1>4. CASE ~ AtSlice(s, C)
  BY <1>1, <1>2, <1>3, <1>4 DEF StepRel
<1>5. CASE AtSlice(s, C)
  <2>1. E = AfterSlice(s, C) /\ ~ AtEnd(s, C) /\ ~ AtSkip(s, C)
    BY <1>1, <1>2, <1>5, Kinds
  <2>2. IsSlice(s, C, E)
    BY <1>1, <1>2, <1>5, <2>1, AtSliceFacts
  <2>3. /\ \A x \in Classes : E.rcv[x] = IF Awaited(x, k) THEN C.rcv[x] + 1 ELSE C.rcv[x]
        /\ \A x \in Classes : E.sent[x] =
              IF Awaited(x, NextAt(s, C)) THEN C.sent[x] + 1 ELSE C.sent[x]
        /\ \A x \in Classes : Awaited(x, NextAt(s, C)) => E.idx[x][t] = C.sent[x] + 1
    <3>1. /\ \A x \in Classes : E.rcv[x] = IF Awaited(x, k) THEN C.rcv[x] + 1 ELSE C.rcv[x]
          /\ \A x \in Classes : E.sent[x] =
                IF Awaited(x, NextAt(s, C)) THEN C.sent[x] + 1 ELSE C.sent[x]
      BY <2>2, Zenon DEF IsSlice, NextAt
    <3>2. ASSUME NEW x \in Classes, Awaited(x, NextAt(s, C)) PROVE E.idx[x][t] = C.sent[x] + 1
      <4>1. E.idx[x] = [C.idx[x] EXCEPT ![t] = C.sent[x] + 1]
        BY <2>2, <3>2, Zenon DEF IsSlice, NextAt
      <4>2. t \in DOMAIN C.idx[x]
        BY <2>2, SliceShape
      <4> QED BY <4>1, <4>2, Zenon
    <3>3. \A x \in Classes : Awaited(x, NextAt(s, C)) => E.idx[x][t] = C.sent[x] + 1
      BY <3>2, Zenon
    <3> QED BY <3>1, <3>3
  <2>4. ASSUME NEW r \in Players \ {q}, Awaited(Class(r), k)
        PROVE  /\ Heard(q, C, K)[r] = got[r]
               /\ C.idx[Class(r)][t] <= Queued(n, G, <<r, q>>)
    <3>1. Class(r) \in Classes /\ <<r, q>> \in Links /\ <<r, q>>[1] = r /\ <<r, q>>[2] = q
      BY ClassFacts
    <3>2. C.idx[Class(r)][t] = C.rcv[Class(r)] + 1 /\ C.rcv[Class(r)] \in Nat
      BY <1>1, <1>2, <1>5, <2>4, <3>1, TakesItsOwn, OneAtATime
    <3>3. E.rcv[Class(r)] = C.idx[Class(r)][t] /\ C.rcv[Class(r)] < E.rcv[Class(r)]
      BY <2>3, <2>4, <3>1, <3>2
    <3>4. E.rcv[Class(r)] <= G[n[q]].rcv[Class(r)]
      <4>1. j + 1 <= n[q] /\ n[q] \in Nat
        BY <1>1
      <4> QED BY <1>1, <3>1, <4>1, RunGrows
    <3>5. /\ Received(n, G, <<r, q>>) = G[n[q]].rcv[Class(r)]
          /\ Received(n, G, <<r, q>>) \in Nat /\ PutOut(n, G, <<r, q>>) \in Nat
          /\ Queued(n, G, <<r, q>>) \in Nat
          /\ Received(n, G, <<r, q>>) <= PutOut(n, G, <<r, q>>)
          /\ PutOut(n, G, <<r, q>>) <= Queued(n, G, <<r, q>>)
      BY <3>1, LogCounts DEF Received
    <3>6. C.idx[Class(r)][t] <= Queued(n, G, <<r, q>>)
      BY <3>2, <3>3, <3>4, <3>5
    <3>7. got[r] = K[<<r, q>>][C.idx[Class(r)][t]]
      BY <1>3, <3>3
    <3> QED BY <3>6, <3>7 DEF Heard
  <2>5. ASSUME Awaited(Class(q), NextAt(s, C)), NEW r \in Players \ {q}
        PROVE  Told(q, t, E, K)[r] = gave[r]
    <3>1. Class(q) \in Classes
      BY ClassFacts
    <3>2. C.sent[Class(q)] \in Nat
      BY <1>1, <1>2, <3>1, OneAtATime
    <3>3. E.sent[Class(q)] = E.idx[Class(q)][t] /\ C.sent[Class(q)] < E.sent[Class(q)]
      BY <2>3, <2>5, <3>1, <3>2
    <3> QED BY <1>3, <3>3 DEF Told
  <2>6. StepRel(s, q, C, D[q][j], D[q][j + 1], Heard(q, C, K), Told(q, t, E, K))
    <3>1. PICK got2, gave2 : got2 = Heard(q, C, K) /\ gave2 = Told(q, t, E, K)
      OBVIOUS
    <3>2. PICK v, w : v = D[q][j] /\ w = D[q][j + 1]
      OBVIOUS
    <3>3. \A r \in Players \ {q} : Awaited(Class(r), C.slice[C.turn]) => got2[r] = got[r]
      BY <2>4, <3>1
    <3>4. Awaited(Class(q), NextAt(s, C)) => \A r \in Players \ {q} : gave2[r] = gave[r]
      BY <2>5, <3>1
    <3>5. StepRel(s, q, C, v, w, got, gave)
      BY <1>3, <3>2
    <3>6. StepRel(s, q, C, v, w, got2, gave2)
      BY <2>1, <2>2, <3>3, <3>4, <3>5, SameMessages
    <3> QED BY <3>1, <3>2, <3>6
  <2> QED BY <1>1, <1>2, <1>3, <2>2, <2>4, <2>6
<1> QED BY <1>4, <1>5

-----------------------------------------------------------------------------
(* The types of the data and of the messages.                              *)

Datum == [res : Values, upd : Values, blind : Values]
Column == [Cells -> Values]

PartyData(p, C, v) ==
    /\ v.db \in Column /\ v.bl \in Column /\ v.pbd \in Column
    /\ v.loc \in [DOMAIN C.slice -> Datum]
    /\ p = 0 => v.mem \in Column /\ v.exp \in [DOMAIN C.slice -> Values]
ServerData(v) == v.sbl \in [Comp -> Column]

OffsetsOK(m, ks) == m.ind \in Leaves /\ \A k \in ks : m.off[k] \in Values
DPFsFor(r) == IF r = Server THEN 1 .. 2 ELSE 0 .. 2

\* What r may be told about an operation at slice k.
MessageOK(op, k, r, m) ==
    /\ k = 0 => m \in Column
    /\ k = 2 /\ op.kind \in Explicit => m \in Values
    /\ k = 2 /\ op.kind \in Reading => m \in Leaves
    /\ k = 4 \/ (k = 2 /\ op.kind = "oblivious_update") => OffsetsOK(m, DPFsFor(r))
    /\ k = 3 => m \in Values

\* An operation on a cell.
LEMMA OpFacts ==
    ASSUME NEW op, ValidOp(op), op.kind \in Explicit \cup Oblivious
    PROVE  /\ op.value \in [Comp -> Values] /\ op.value[0] \in Values /\ op.value[1] \in Values
           /\ Cell(op) \in Cells /\ Meant(op) \in Values
           /\ op.kind \in Explicit => op.index \in Cells /\ Cell(op) = op.index
                                      /\ op.kind \notin Oblivious
           /\ op.kind \in Oblivious =>
                /\ op.index \in [Comp -> Leaves] /\ ValidRDPF(op.rdpf)
                /\ \A p \in Comp : IndOffset(p, op) \in Leaves
                /\ op.kind \notin Explicit
           /\ op.kind \in Reading \/ op.kind = "oblivious_update" => op.kind \in Oblivious
<1>1. op.value \in [Comp -> Values] /\ Cell(op) \in Cells
  BY DEF ValidOp, Explicit, Oblivious
<1>2. op.value[0] \in Values /\ op.value[1] \in Values /\ Meant(op) \in Values
  BY <1>1, AddType, ClassFacts DEF Meant
<1>3. op.kind \in Explicit => op.kind \notin Oblivious
  BY DEF Explicit, Oblivious
<1>4. op.kind \in Explicit => op.index \in Cells /\ Cell(op) = op.index
  BY <1>1, <1>3 DEF Cell
<1>5. op.kind \in Oblivious =>
         /\ op.index \in [Comp -> Leaves] /\ ValidRDPF(op.rdpf)
         /\ \A p \in Comp : IndOffset(p, op) \in Leaves
  BY LeafOfCell DEF ValidOp, Oblivious
<1>6. op.kind \in Reading \/ op.kind = "oblivious_update" => op.kind \in Oblivious
  BY DEF Reading, Oblivious
<1> QED BY <1>1, <1>2, <1>3, <1>4, <1>5, <1>6

LEMMA ColumnOps ==
    /\ \A f, g \in Column : AddAll(f, g) \in Column /\ SubAll(f, g) \in Column
    /\ \A f \in Column, i \in Cells :
          f[i] \in Values
    /\ \A f \in Column : Total(f) \in Values
    /\ Zero \in Column /\ \A f \in [Cells -> Blinds] : f \in Column
<1>1. \A f, g \in Column : AddAll(f, g) \in Column /\ SubAll(f, g) \in Column
  BY AddType DEF Column, AddAll, SubAll
<1>2. \A f \in Column, i \in Cells :
          f[i] \in Values
  BY AddType DEF Column
<1>3. \A f \in Column : Total(f) \in Values
  BY TotalAdds DEF Column
<1>4. Zero \in Column
  BY AddType, RingAssumption DEF Column, Zero, Values
<1>5. \A f \in [Cells -> Blinds] : f \in Column
  BY RingAssumption DEF Column
<1> QED BY <1>1, <1>2, <1>3, <1>4, <1>5

LEMMA LeafType ==
    ASSUME NEW x \in Leaves, NEW y \in Leaves
    PROVE  (x + y) % Width \in Leaves /\ \A i \in Cells : Leaf(i, x) \in Leaves
BY WidthFacts DEF Leaf, Leaves

LEMMA VectorTypes ==
    ASSUME NEW op, ValidOp(op), op.kind \in Oblivious, NEW p \in Comp, NEW k \in 0 .. 2
    PROVE  /\ \A x \in Leaves : Unit(op, k, p, x) \in Column
           /\ \A x \in Leaves, m \in Values : Scaled(op, k, p, x, m) \in Column
           /\ \A x \in Values : Sub(x, op.rdpf.scale[k][p]) \in Values
<1>1. /\ op.rdpf.scale \in [0 .. 2 -> [Comp -> Values]]
      /\ op.rdpf.unit \in [0 .. 2 -> [Comp -> [Leaves -> Values]]]
      /\ op.rdpf.scaled \in [0 .. 2 -> [Comp -> [Leaves -> Values]]]
  BY OpFacts DEF ValidRDPF
<1>2. /\ op.rdpf.unit[k][p] \in [Leaves -> Values] /\ op.rdpf.scaled[k][p] \in [Leaves -> Values]
      /\ op.rdpf.scale[k][p] \in Values
  BY <1>1
<1>3. ASSUME NEW x \in Leaves PROVE Unit(op, k, p, x) \in Column
  BY <1>2, LeafType DEF Unit, Column
<1>4. ASSUME NEW x \in Leaves, NEW m \in Values PROVE Scaled(op, k, p, x, m) \in Column
  BY <1>2, LeafType, AddType DEF Scaled, Column
<1> QED BY <1>2, <1>3, <1>4, AddType

LEMMA OwnFacts ==
    \A p \in Comp : /\ Own(p) \in 1 .. 2 /\ 3 - Own(p) \in 1 .. 2 /\ Own(p) = p + 1
                    /\ Own(p) \in 0 .. 2 /\ 3 - Own(p) \in 0 .. 2 /\ 0 \in 0 .. 2
                    /\ Own(1 - p) = 3 - Own(p) /\ 2 - p \in 0 .. 2 /\ 1 - p \in Comp
BY ClassFacts DEF Own

LEMMA UpdateTypes ==
    ASSUME NEW op, ValidOp(op), op.kind \in Oblivious, NEW p \in Comp,
           NEW x \in Values
    PROVE  /\ \A r, ks : r \in Players /\ ks = DPFsFor(r) => OffsetsOK(Offsets(p, op, x, ks), ks)
           /\ \A k \in 0 .. 2 : \A msg : OffsetsOK(msg, 0 .. 2) => Vector(p, op, k, x, msg) \in Column
           /\ \A msg0, msg1 : OffsetsOK(msg0, 1 .. 2) /\ OffsetsOK(msg1, 1 .. 2)
                                => TheirVector(p, op, msg0, msg1) \in Column
<1>1. IndOffset(p, op) \in Leaves
  BY OpFacts
<1>2. ASSUME NEW ks, ks \subseteq 0 .. 2 PROVE OffsetsOK(Offsets(p, op, x, ks), ks)
  BY <1>1, <1>2, VectorTypes DEF Offsets, OffsetsOK
<1>3. \A r : DPFsFor(r) \subseteq 0 .. 2
  BY DEF DPFsFor
<1>4. ASSUME NEW k \in 0 .. 2, NEW msg, OffsetsOK(msg, 0 .. 2)
      PROVE  Vector(p, op, k, x, msg) \in Column
  <2>1. /\ (IndOffset(p, op) + msg.ind) % Width \in Leaves /\ msg.off[k] \in Values
    BY <1>1, <1>4, LeafType DEF OffsetsOK
  <2>2. Add(Sub(x, op.rdpf.scale[k][p]), msg.off[k]) \in Values
    BY <2>1, VectorTypes, AddType
  <2> QED BY <2>1, <2>2, VectorTypes DEF Vector
<1>5. ASSUME NEW msg0, NEW msg1, OffsetsOK(msg0, 1 .. 2), OffsetsOK(msg1, 1 .. 2)
      PROVE  TheirVector(p, op, msg0, msg1) \in Column
  <2>1. p + 1 \in 1 .. 2 /\ p + 1 \in 0 .. 2
    BY ClassFacts
  <2>2. /\ (msg0.ind + msg1.ind) % Width \in Leaves
        /\ Add(msg0.off[p + 1], msg1.off[p + 1]) \in Values
    BY <1>5, <2>1, LeafType, AddType DEF OffsetsOK
  <2> QED BY <2>1, <2>2, VectorTypes DEF TheirVector
<1> QED BY <1>2, <1>3, <1>4, <1>5

LEMMA ReadTypes ==
    ASSUME NEW op, ValidOp(op), op.kind \in Oblivious, NEW p \in Comp, NEW x \in Leaves
    PROVE  /\ \A C, v : PartyData(p, C, v) => Product(p, op, v, x) \in Values
           /\ \A v : ServerData(v) => Gamma(p, op, v, x) \in Values
<1>1. ASSUME NEW C, NEW v, PartyData(p, C, v) PROVE Product(p, op, v, x) \in Values
  <2> DEFINE V0 == Unit(op, 0, p, x)
             V1 == Unit(op, 3 - Own(p), p, x)
             a == [i \in Cells |-> Mul(Add(v.db[i], v.pbd[i]), V0[i])]
             b == [i \in Cells |-> Mul(v.bl[i], Sub(V1[i], V0[i]))]
  <2>1. V0 \in Column /\ V1 \in Column /\ v.db \in Column /\ v.pbd \in Column /\ v.bl \in Column
    BY <1>1, OwnFacts, VectorTypes DEF PartyData
  <2> HIDE DEF V0, V1
  <2>2. a \in Column /\ b \in Column
    BY <2>1, AddType DEF Column
  <2> HIDE DEF a, b
  <2>3. Sub(Total(a), Total(b)) \in Values
    BY <2>2, ColumnOps, AddType
  <2> QED BY <2>3 DEF Product, a, b, V0, V1
<1>2. ASSUME NEW v, ServerData(v) PROVE Gamma(p, op, v, x) \in Values
  <2> DEFINE V == Unit(op, 2 - p, 1 - p, x)
             a == [i \in Cells |-> Mul(v.sbl[p][i], V[i])]
  <2>1. V \in Column /\ v.sbl[p] \in Column
    BY <1>2, OwnFacts, VectorTypes DEF ServerData
  <2> HIDE DEF V
  <2>2. a \in Column
    BY <2>1, AddType DEF Column
  <2> HIDE DEF a
  <2>3. Total(a) \in Values
    BY <2>2, ColumnOps
  <2> QED BY <2>3 DEF Gamma, a, V
<1> QED BY <1>1, <1>2

\* What a slice does, from where it is.
LEMMA SliceJob ==
    ASSUME NEW s, NEW C, NEW E, IsSlice(s, C, E),
           NEW op, op = s[C.batch][C.turn], NEW k, k = C.slice[C.turn],
           NEW job, job = JobAt(s, C), NEW n2, n2 = NextAt(s, C)
    PROVE  /\ ValidOp(op) /\ C.turn \in DOMAIN C.slice /\ DOMAIN E.slice = DOMAIN C.slice
           /\ \/ /\ job = "nothing" /\ k = 1 /\ n2 = Finished
                 /\ op.kind \in {"explicitonly", "reblind"}
              \/ job = "reblind" /\ k = 1 /\ n2 = 0 /\ LeavesMode(op)
              \/ job = "refresh" /\ k = 0 /\ n2 \in {1, Finished} /\ LeavesMode(op)
              \/ job = "local" /\ k = 1 /\ n2 = Finished /\ op.kind \in Explicit
              \/ job = "start" /\ k = 1 /\ n2 = 2 /\ op.kind \in Explicit
              \/ job = "finish" /\ k = 2 /\ n2 = Finished /\ op.kind \in Explicit
              \/ job = "ask" /\ k = 1 /\ n2 = 2 /\ op.kind \in Reading
              \/ job = "dot" /\ k = 2 /\ n2 = 3 /\ op.kind \in Reading
              \/ /\ job = "answer" /\ k = 3 /\ op.kind \in Reading
                 /\ n2 = IF op.kind = "oblivious_read" THEN Finished ELSE 4
              \/ job = "offset" /\ k = 1 /\ n2 = 2 /\ op.kind = "oblivious_update"
              \/ /\ job = "update" /\ n2 = Finished
                 /\ \/ k = 2 /\ op.kind = "oblivious_update"
                    \/ k = 4 /\ op.kind = "oblivious_write"
           /\ job \in {"local", "start", "finish"} => op.kind \in Explicit
           /\ job \in {"ask", "dot", "answer", "offset", "update"} => op.kind \in Oblivious
<1>1. /\ ValidOp(op) /\ k \in Slices /\ k # Finished /\ OpSlice(op, k)
      /\ C.mode \in BOOLEAN /\ (C.mode /\ LeavesMode(op) => k = 1)
      /\ C.turn \in DOMAIN C.slice /\ DOMAIN E.slice = DOMAIN C.slice
  BY DEF IsSlice
<1>2. PICK m : m = C.mode
  OBVIOUS
<1>4. /\ job = Job(op, k, m) /\ n2 = NextSlice(op, k, m)
      /\ m \in BOOLEAN /\ (m /\ LeavesMode(op) => k = 1)
  BY <1>1, <1>2 DEF JobAt, NextAt
<1>3. op.kind \in Reading \/ op.kind = "oblivious_update" \/ op.kind = "oblivious_write"
        => op.kind \in Oblivious
  BY DEF Reading, Oblivious
<1> QED BY <1>1, <1>3, <1>4, JobFacts

\* What a party may hear at a slice, and say after it.
HearsRight(s, C, p, got) ==
    LET op == s[C.batch][C.turn]
        k  == C.slice[C.turn]
    IN  /\ k \in {0, 2, 4} => MessageOK(op, k, p, got[1 - p])
        /\ k = 3 => got[Server] \in Values
SpeaksRight(s, C, p, gave) ==
    NextAt(s, C) \in {0, 2, 4} =>
       \A r \in Players \ {p} : MessageOK(s[C.batch][C.turn], NextAt(s, C), r, gave[r])
PartyStepAt(s, C, p, v, w, got, gave) ==
    PartyRel(p, s[C.batch][C.turn], C.turn, JobAt(s, C), NextAt(s, C), v, w, got, gave)

LEMMA PartyKeepsTypes ==
    ASSUME NEW s, NEW C, NEW E, IsSlice(s, C, E), NEW p \in Comp, NEW v, PartyData(p, C, v),
           NEW w, NEW got, NEW gave, PartyStepAt(s, C, p, v, w, got, gave),
           HearsRight(s, C, p, got)
    PROVE  PartyData(p, E, w) /\ SpeaksRight(s, C, p, gave)
<1> DEFINE t == C.turn
<1>0. PICK op, k : op = s[C.batch][C.turn] /\ k = C.slice[C.turn]
  OBVIOUS
<1>1. PICK job, n2 : job = JobAt(s, C) /\ n2 = NextAt(s, C)
  OBVIOUS
<1>18. /\ k \in {0, 2, 4} => MessageOK(op, k, p, got[1 - p])
       /\ k = 3 => got[Server] \in Values
  BY <1>0 DEF HearsRight
<1>2. /\ ValidOp(op) /\ t \in DOMAIN C.slice /\ DOMAIN E.slice = DOMAIN C.slice
      /\ job \in {"local", "start", "finish"} => op.kind \in Explicit
      /\ job \in {"ask", "dot", "answer", "offset", "update"} => op.kind \in Oblivious
  BY <1>0, <1>1, SliceJob
<1>3. /\ job \in {"nothing", "reblind", "refresh", "local", "start", "finish", "ask", "dot", "answer",
                  "offset", "update"}
      /\ job = "refresh" => k = 0 /\ n2 \in {1, Finished}
      /\ job = "finish" => k = 2 /\ op.kind \in Explicit /\ n2 = Finished
      /\ job = "dot" => k = 2 /\ op.kind \in Reading /\ n2 = 3
      /\ job = "answer" => /\ k = 3 /\ op.kind \in Reading
                           /\ n2 = IF op.kind = "oblivious_read" THEN Finished ELSE 4
      /\ job = "update" => k = 4 \/ (k = 2 /\ op.kind = "oblivious_update")
      /\ job = "update" => n2 = Finished
      /\ job \in {"nothing", "local"} => n2 = Finished
      /\ job = "reblind" => n2 = 0
      /\ job = "start" => n2 = 2 /\ op.kind \in Explicit
      /\ job = "ask" => n2 = 2 /\ op.kind \in Reading
      /\ job = "offset" => n2 = 2 /\ op.kind = "oblivious_update"
  BY <1>0, <1>1, SliceJob
<1>4. PartyRel(p, op, t, job, n2, v, w, got, gave)
  BY <1>0, <1>1 DEF PartyStepAt
<1> HIDE DEF t
<1>5. /\ v.db \in Column /\ v.bl \in Column /\ v.pbd \in Column
      /\ v.loc \in [DOMAIN C.slice -> Datum]
      /\ v.loc[t].res \in Values /\ v.loc[t].upd \in Values /\ v.loc[t].blind \in Values
      /\ p = 0 => v.mem \in Column /\ v.exp \in [DOMAIN C.slice -> Values]
  BY <1>2 DEF PartyData, Datum
<1>6. op.kind \in Explicit =>
         op.index \in Cells /\ Cell(op) = op.index /\ op.value[p] \in Values /\ Meant(op) \in Values
  BY <1>2, OpFacts
<1>7. op.kind \in Oblivious =>
         Cell(op) \in Cells /\ op.value[p] \in Values /\ Meant(op) \in Values
         /\ IndOffset(p, op) \in Leaves
  BY <1>2, OpFacts
<1>8. op.kind \in Explicit => ShareOf(p, op, v.db) \in Values
  BY <1>5, <1>6, ColumnOps, AddType DEF ShareOf
<1>9. job = "update" =>
         \A j \in 0 .. 2 : Vector(p, op, j, v.loc[t].upd, got[1 - p]) \in Column
  <2>1. ASSUME job = "update" PROVE OffsetsOK(got[1 - p], 0 .. 2)
    <3>1. DPFsFor(p) = 0 .. 2
      BY AwaitedFrom DEF DPFsFor
    <3> QED BY <1>3, <1>18, <2>1, <3>1 DEF MessageOK
  <2> QED BY <1>2, <1>5, <2>1, UpdateTypes
<1>10. /\ job = "refresh" => got[1 - p] \in Column
       /\ job = "finish" => got[1 - p] \in Values
       /\ job = "dot" => got[1 - p] \in Leaves
       /\ job = "answer" => got[Server] \in Values
  BY <1>3, <1>18 DEF MessageOK
<1>11. w.db \in Column
  <2>1. CASE job = "local"
    <3>1. w.db = [v.db EXCEPT ![op.index] = Add(@, ShareOf(p, op, v.db))]
      BY <1>4, <2>1 DEF PartyRel
    <3> QED BY <1>2, <1>5, <1>6, <1>8, <2>1, <3>1, AddType DEF Column
  <2>2. CASE job = "finish"
    <3>1. w.db = [v.db EXCEPT ![op.index] = Add(@, v.loc[t].upd)]
      BY <1>4, <2>2 DEF PartyRel
    <3> QED BY <1>2, <1>5, <1>6, <2>2, <3>1, AddType DEF Column
  <2>3. CASE job = "update"
    <3>1. w.db = AddAll(v.db, Vector(p, op, 0, v.loc[t].upd, got[1 - p]))
      BY <1>4, <2>3 DEF PartyRel
    <3> QED BY <1>5, <1>9, <2>3, <3>1, ColumnOps
  <2>4. CASE job \notin {"local", "finish", "update"}
    BY <1>4, <1>5, <2>4 DEF PartyRel
  <2> QED BY <2>1, <2>2, <2>3, <2>4
<1>12. w.bl \in Column
  <2>1. CASE job = "reblind"
    BY <1>4, <2>1, ColumnOps DEF PartyRel
  <2>2. CASE job = "finish"
    <3>1. w.bl = [v.bl EXCEPT ![op.index] = Add(@, v.loc[t].blind)]
      BY <1>4, <2>2 DEF PartyRel
    <3> QED BY <1>2, <1>5, <1>6, <2>2, <3>1, AddType DEF Column
  <2>3. CASE job = "update"
    <3>1. w.bl = SubAll(v.bl, Vector(p, op, Own(p), v.loc[t].upd, got[1 - p]))
      BY <1>4, <2>3 DEF PartyRel
    <3> QED BY <1>5, <1>9, <2>3, <3>1, ColumnOps, OwnFacts
  <2>4. CASE job \notin {"reblind", "finish", "update"}
    BY <1>4, <1>5, <2>4 DEF PartyRel
  <2> QED BY <2>1, <2>2, <2>3, <2>4
<1>13. w.pbd \in Column
  <2>1. CASE job = "refresh"
    BY <1>4, <1>10, <2>1 DEF PartyRel
  <2>2. CASE job = "finish"
    <3>1. w.pbd = [v.pbd EXCEPT ![op.index] = Add(@, got[1 - p])]
      BY <1>4, <2>2 DEF PartyRel
    <3> QED BY <1>2, <1>5, <1>6, <1>10, <2>2, <3>1, AddType DEF Column
  <2>3. CASE job = "update"
    <3>1. w.pbd = AddAll(v.pbd, SubAll(Vector(p, op, 3 - Own(p), v.loc[t].upd, got[1 - p]),
                                       Vector(p, op, 0, v.loc[t].upd, got[1 - p])))
      BY <1>4, <2>3 DEF PartyRel
    <3> QED BY <1>5, <1>9, <2>3, <3>1, ColumnOps, OwnFacts
  <2>4. CASE job \notin {"refresh", "finish", "update"}
    BY <1>4, <1>5, <2>4 DEF PartyRel
  <2> QED BY <2>1, <2>2, <2>3, <2>4
<1>14. w.loc \in [DOMAIN C.slice -> Datum]
       /\ (job = "start" => w.loc[t].upd \in Values /\ w.loc[t].blind \in Values)
       /\ (job \in {"offset", "answer"} => w.loc[t].upd \in Values)
  <2>0. ASSUME NEW x \in Values, NEW y \in Values, NEW z \in Values,
               w.loc = [v.loc EXCEPT ![t] = [res |-> x, upd |-> y, blind |-> z]]
        PROVE  /\ w.loc \in [DOMAIN C.slice -> Datum]
               /\ w.loc[t].upd \in Values /\ w.loc[t].blind \in Values
    <3>1. [res |-> x, upd |-> y, blind |-> z] \in Datum
      BY DEF Datum
    <3> QED BY <1>2, <1>5, <2>0, <3>1
  <2>5. 0 \in Values
    BY AddType, RingAssumption DEF Values
  <2>1. CASE job = "start"
    <3>1. PICK blind \in Blinds :
             w.loc = [v.loc EXCEPT ![t] = [res |-> 0, upd |-> ShareOf(p, op, v.db),
                                           blind |-> blind]]
      BY <1>4, <2>1 DEF PartyRel
    <3> QED BY <1>2, <1>8, <2>0, <2>1, <2>5, <3>1, RingAssumption
  <2>2. CASE job = "offset"
    <3>1. w.loc = [v.loc EXCEPT ![t] = [res |-> 0, upd |-> op.value[p], blind |-> 0]]
      BY <1>4, <2>2 DEF PartyRel
    <3> QED BY <1>2, <1>7, <2>0, <2>2, <2>5, <3>1
  <2>3. CASE job = "dot"
    <3>1. w.loc = [v.loc EXCEPT ![t] =
                     [res |-> Product(p, op, v, (IndOffset(p, op) + got[1 - p]) % Width),
                      upd |-> 0, blind |-> 0]]
      BY <1>4, <2>3 DEF PartyRel
    <3>2. Product(p, op, v, (IndOffset(p, op) + got[1 - p]) % Width) \in Values
      BY <1>2, <1>7, <1>10, <2>3, LeafType, ReadTypes
    <3> QED BY <2>0, <2>3, <2>5, <3>1, <3>2
  <2>4. CASE job = "answer"
    <3> DEFINE res == Add(v.loc[t].res, got[Server])
    <3>1. w.loc = [v.loc EXCEPT ![t] = [res |-> res, upd |-> Sub(op.value[p], res),
                                        blind |-> 0]]
      BY <1>4, <2>4 DEF PartyRel
    <3>2. res \in Values /\ Sub(op.value[p], res) \in Values
      BY <1>2, <1>5, <1>7, <1>10, <2>4, AddType
    <3> HIDE DEF res
    <3> QED BY <2>0, <2>4, <2>5, <3>1, <3>2
  <2>6. CASE job \notin {"start", "offset", "dot", "answer"}
    BY <1>4, <1>5, <2>6 DEF PartyRel
  <2> QED BY <2>1, <2>2, <2>3, <2>4, <2>6
<1>15. p = 0 => w.mem \in Column /\ w.exp \in [DOMAIN C.slice -> Values]
  <2> SUFFICES ASSUME p = 0 PROVE w.mem \in Column /\ w.exp \in [DOMAIN C.slice -> Values]
    OBVIOUS
  <2>1. w.mem \in Column
    <3>1. CASE job = "local"
      <4>1. w.mem = [v.mem EXCEPT ![op.index] = IF IsWrite(op) THEN Meant(op) ELSE Add(@, Meant(op))]
        BY <1>4, <3>1 DEF PartyRel
      <4> QED BY <1>2, <1>5, <1>6, <3>1, <4>1, AddType DEF Column
    <3>2. CASE job \in {"finish", "update"}
      <4>1. w.mem = [v.mem EXCEPT ![Cell(op)] =
                       Add(@, IF IsWrite(op) THEN Sub(Meant(op), v.exp[t]) ELSE Meant(op))]
        BY <1>4, <3>2 DEF PartyRel
      <4>2. (IF IsWrite(op) THEN Sub(Meant(op), v.exp[t]) ELSE Meant(op)) \in Values
        BY <1>2, <1>5, <1>6, <1>7, <3>2, AddType
      <4>3. Cell(op) \in Cells
        BY <1>2, <1>6, <1>7, <3>2
      <4> QED BY <1>5, <4>1, <4>2, <4>3, AddType DEF Column
    <3>3. CASE job \notin {"local", "finish", "update"}
      BY <1>4, <1>5, <3>3 DEF PartyRel
    <3> QED BY <3>1, <3>2, <3>3
  <2>2. w.exp \in [DOMAIN C.slice -> Values]
    <3>1. CASE job \in {"start", "dot"}
      <4>1. w.exp = [v.exp EXCEPT ![t] = v.mem[Cell(op)]]
        BY <1>4, <3>1 DEF PartyRel
      <4>2. v.mem[Cell(op)] \in Values
        BY <1>2, <1>5, <1>6, <1>7, <3>1, ColumnOps
      <4> QED BY <1>2, <1>5, <4>1, <4>2
    <3>2. CASE job \notin {"start", "dot"}
      BY <1>4, <1>5, <3>2 DEF PartyRel
    <3> QED BY <3>1, <3>2
  <2> QED BY <2>1, <2>2
<1>16. PartyData(p, E, w)
  BY <1>2, <1>11, <1>12, <1>13, <1>14, <1>15 DEF PartyData
<1>17. ASSUME n2 \in {0, 2, 4}, NEW r \in Players \ {p} PROVE MessageOK(op, n2, r, gave[r])
  <2>1. gave[r] = Says(p, op, n2, w, t, r)
    BY <1>4, <1>17 DEF PartyRel, Awaited
  <2>2. CASE job = "reblind"
    <3>1. n2 = 0 /\ gave[r] = IF r = Server THEN w.bl ELSE AddAll(w.db, w.bl)
      BY <1>3, <2>1, <2>2 DEF Says
    <3> QED BY <1>11, <1>12, <3>1, ColumnOps DEF MessageOK
  <2>3. CASE job = "start"
    <3>1. /\ n2 = 2 /\ op.kind \in Explicit /\ op.kind \notin Reading /\ op.kind # "oblivious_update"
      BY <1>3, <2>3 DEF Explicit, Reading
    <3>2. gave[r] = IF r = Server THEN w.loc[t].blind ELSE Add(w.loc[t].upd, w.loc[t].blind)
      BY <2>1, <3>1 DEF Says
    <3> QED BY <1>14, <2>3, <3>1, <3>2, AddType DEF MessageOK
  <2>4. CASE job = "ask"
    <3>1. /\ n2 = 2 /\ op.kind \notin Explicit /\ op.kind \in Reading /\ op.kind # "oblivious_update"
      BY <1>3, <2>4 DEF Explicit, Reading
    <3>2. gave[r] = IndOffset(p, op)
      BY <2>1, <3>1 DEF Says
    <3> QED BY <1>2, <1>7, <2>4, <3>1, <3>2 DEF MessageOK
  <2>5. CASE job = "offset"
    <3>1. /\ n2 = 2 /\ op.kind \notin Explicit /\ op.kind \notin Reading /\ op.kind = "oblivious_update"
      BY <1>3, <2>5 DEF Explicit, Reading
    <3>2. gave[r] = Offsets(p, op, w.loc[t].upd, DPFsFor(r))
      BY <2>1, <3>1 DEF Says, DPFsFor
    <3>3. OffsetsOK(gave[r], DPFsFor(r))
      BY <1>2, <1>14, <2>5, <3>2, UpdateTypes
    <3> QED BY <3>1, <3>3 DEF MessageOK
  <2>6. CASE job = "answer"
    <3>1. n2 = 4
      BY <1>3, <1>17, <2>6 DEF Finished
    <3>2. gave[r] = Offsets(p, op, w.loc[t].upd, DPFsFor(r))
      BY <2>1, <3>1 DEF Says, DPFsFor
    <3>3. OffsetsOK(gave[r], DPFsFor(r))
      BY <1>2, <1>14, <2>6, <3>2, UpdateTypes
    <3> QED BY <3>1, <3>3 DEF MessageOK
  <2>7. job \notin {"nothing", "refresh", "local", "finish", "dot", "update"}
    BY <1>3, <1>17 DEF Finished
  <2> QED BY <1>3, <2>2, <2>3, <2>4, <2>5, <2>6, <2>7
<1>19. SpeaksRight(s, C, p, gave)
  BY <1>0, <1>1, <1>17 DEF SpeaksRight
<1> QED BY <1>16, <1>19

LEMMA ServerKeepsTypes ==
    ASSUME NEW s, NEW C, NEW E, IsSlice(s, C, E), NEW v, ServerData(v),
           NEW op, op = s[C.batch][C.turn], NEW k, k = C.slice[C.turn],
           NEW w, NEW got, NEW gave, ServerRel(op, JobAt(s, C), v, w, got, gave),
           k \in {0, 2, 4} => \A p \in Comp : MessageOK(op, k, Server, got[p])
    PROVE  /\ ServerData(w)
           /\ NextAt(s, C) = 3 => \A p \in Comp : gave[p] \in Values
<1>1. PICK job, n2 : job = JobAt(s, C) /\ n2 = NextAt(s, C)
  OBVIOUS
<1>2. /\ ValidOp(op)
      /\ job \in {"local", "start", "finish"} => op.kind \in Explicit
      /\ job \in {"ask", "dot", "answer", "offset", "update"} => op.kind \in Oblivious
      /\ job = "refresh" => k = 0
      /\ job = "finish" => k = 2 /\ op.kind \in Explicit
      /\ job = "dot" => k = 2 /\ op.kind \in Reading
      /\ job = "update" => k = 4 \/ (k = 2 /\ op.kind = "oblivious_update")
      /\ n2 = 3 => job = "dot"
  BY <1>1, SliceJob DEF Finished
<1>3. ServerRel(op, job, v, w, got, gave)
  BY <1>1
<1>4. /\ job = "refresh" => \A p \in Comp : got[p] \in Column
      /\ job = "finish" => \A p \in Comp : got[p] \in Values
      /\ job = "dot" => \A p \in Comp : got[p] \in Leaves
      /\ job = "update" => \A p \in Comp : OffsetsOK(got[p], 1 .. 2)
  BY <1>2 DEF MessageOK, DPFsFor
<1>5. ServerData(w)
  <2>1. CASE job = "finish"
    <3>1. w.sbl = [p \in Comp |-> [v.sbl[p] EXCEPT ![op.index] = Add(@, got[p])]]
      BY <1>3, <2>1, Zenon DEF ServerRel
    <3>2. op.index \in Cells
      BY <1>2, <2>1, OpFacts
    <3>3. ASSUME NEW p \in Comp PROVE [v.sbl[p] EXCEPT ![op.index] = Add(@, got[p])] \in Column
      BY <1>4, <2>1, <3>2, AddType DEF Column, ServerData
    <3> QED BY <3>1, <3>3, Zenon DEF ServerData
  <2>2. CASE job = "update"
    <3>1. w.sbl = [p \in Comp |-> SubAll(v.sbl[p], TheirVector(p, op, got[0], got[1]))]
      BY <1>3, <2>2, Zenon DEF ServerRel
    <3>2. 0 \in Values
      BY AddType, RingAssumption DEF Values
    <3>3. \A p \in Comp : TheirVector(p, op, got[0], got[1]) \in Column
      BY <1>2, <1>4, <2>2, <3>2, ClassFacts, UpdateTypes, Zenon
    <3> QED BY <3>1, <3>3, ColumnOps DEF ServerData
  <2>3. CASE job = "refresh"
    BY <1>3, <1>4, <2>3, Zenon DEF ServerRel, ServerData
  <2>4. CASE job \notin {"finish", "update", "refresh"}
    BY <1>3, <2>4, Zenon DEF ServerRel, ServerData
  <2> QED BY <2>1, <2>2, <2>3, <2>4, Zenon
<1>6. ASSUME n2 = 3 PROVE gave[0] \in Values /\ gave[1] \in Values
  <2> DEFINE shift == (got[0] + got[1]) % Width
  <2>1. job = "dot"
    BY <1>2, <1>6, Zenon
  <2>2. PICK rho \in Blinds : /\ gave[0] = Sub(rho, Gamma(0, op, v, shift))
                              /\ gave[1] = Sub(0, Add(rho, Gamma(1, op, v, shift)))
    BY <1>3, <2>1, Zenon DEF ServerRel
  <2>3. shift \in Leaves
    BY <1>4, <2>1, ClassFacts, LeafType
  <2> HIDE DEF shift
  <2>4. Gamma(0, op, v, shift) \in Values /\ Gamma(1, op, v, shift) \in Values
    BY <1>2, <2>1, <2>3, ClassFacts, ReadTypes
  <2>5. rho \in Values
    BY RingAssumption
  <2> QED BY <2>2, <2>4, <2>5, AddType
<1> QED BY <1>1, <1>5, <1>6, ClassFacts

LEMMA PassKeepsTypes ==
    ASSUME NEW s \in Scripts, NEW C, ControlInv(s, C), AtEnd(s, C),
           NEW E, E = AfterPass(s, C), NEW q \in Players, NEW v, NEW w,
           PassRel(s, q, C, v, w)
    PROVE  /\ q \in Comp /\ PartyData(q, C, v) => PartyData(q, E, w)
           /\ q = Server /\ ServerData(v) => ServerData(w)
<1>1. E.slice = IF AllFinished(C) /\ C.batch < Len(s) THEN Fresh(s[C.batch + 1]) ELSE C.slice
  BY DEF AfterPass
<1>2. 0 \in Values
  BY AddType, RingAssumption DEF Values
<1>3. ASSUME q \in Comp, PartyData(q, C, v) PROVE PartyData(q, E, w)
  <2>1. q # Server
    BY <1>3, ClassFacts
  <2>2. CASE AllFinished(C) /\ C.batch < Len(s)
    <3> DEFINE b == s[C.batch + 1]
    <3>1. DOMAIN E.slice = DOMAIN b
      BY <1>1, <2>2 DEF Fresh
    <3>2. w.loc = Blank(b) /\ (q = 0 => w.exp = [c \in DOMAIN b |-> 0])
      BY <2>1, <2>2 DEF PassRel
    <3>3. Blank(b) \in [DOMAIN b -> Datum]
      BY <1>2 DEF Blank, Datum
    <3>4. /\ w.db = v.db /\ w.bl = v.bl /\ w.pbd = v.pbd /\ (q = 0 => w.mem = v.mem)
      BY <2>1 DEF PassRel
    <3> HIDE DEF b
    <3> QED BY <1>2, <1>3, <3>1, <3>2, <3>3, <3>4 DEF PartyData
  <2>3. CASE ~ (AllFinished(C) /\ C.batch < Len(s))
    BY <1>1, <1>3, <2>1, <2>3 DEF PartyData, PassRel
  <2> QED BY <2>2, <2>3
<1>4. q = Server /\ ServerData(v) => ServerData(w)
  BY DEF PassRel, ServerData
<1> QED BY <1>3, <1>4

\* The data after j steps, and the messages awaited there, have their types.
Typed(s, n, G, D, K, j) ==
    /\ \A p \in Comp : j <= n[p] => PartyData(p, G[j], D[p][j])
    /\ j <= n[Server] => ServerData(D[Server][j])
    /\ \A q, r \in Players, c \in DOMAIN G[j].slice :
          (/\ q # r /\ Awaited(Class(q), G[j].slice[c])
           /\ G[j].idx[Class(q)][c] <= Queued(n, G, <<q, r>>))
            => MessageOK(s[G[j].batch][c], G[j].slice[c], r, K[<<q, r>>][G[j].idx[Class(q)][c]])

LEMMA StartTyped ==
    ASSUME NEW s, NEW n, NEW G, NEW D, NEW K, Log(s, n, G, D, K)
    PROVE  Typed(s, n, G, D, K, 0)
<1>1. G[0] = First(s)
  BY DEF Log, IsRun
<1>2. G[0].slice = Fresh(s[1])
  BY <1>1 DEF First
<1>3. \A c \in DOMAIN G[0].slice : G[0].slice[c] = 1
  BY <1>2 DEF Fresh
<1>4. \A x, c : c \in DOMAIN G[0].slice => ~ Awaited(x, G[0].slice[c])
  BY <1>3 DEF Awaited
<1>5. 0 \in Values /\ Zero \in Column
  BY AddType, ColumnOps, RingAssumption DEF Values
<1>6. ASSUME NEW p \in Comp PROVE PartyData(p, G[0], D[p][0])
  <2>1. Start(s, p, D[p][0]) /\ p # Server
    BY ClassFacts DEF Log
  <2>2. Blank(s[1]) \in [DOMAIN s[1] -> Datum] /\ DOMAIN G[0].slice = DOMAIN s[1]
    BY <1>2, <1>5 DEF Blank, Datum, Fresh
  <2> QED BY <1>5, <2>1, <2>2 DEF Start, PartyData
<1>7. ServerData(D[Server][0])
  <2>1. Start(s, Server, D[Server][0])
    BY ClassFacts, Zenon DEF Log
  <2> QED BY <1>5, <2>1 DEF Start, ServerData
<1> QED BY <1>4, <1>6, <1>7 DEF Typed

\* What a player has, and says, after a slice.
LEMMA TypedSlice ==
    ASSUME NEW s, NEW n, NEW G, NEW D, NEW K, Log(s, n, G, D, K),
           NEW j \in Nat, Typed(s, n, G, D, K, j), NEW q \in Players, j < n[q],
           NEW C, C = G[j], NEW E, E = G[j + 1], AtSlice(s, C)
    PROVE  /\ q \in Comp => PartyData(q, E, D[q][j + 1])
           /\ q = Server => ServerData(D[q][j + 1])
           /\ Awaited(Class(q), NextAt(s, C)) =>
                \A r \in Players \ {q} :
                   MessageOK(s[C.batch][C.turn], NextAt(s, C), r,
                             K[<<q, r>>][E.idx[Class(q)][C.turn]])
<1> DEFINE t == C.turn
           k == C.slice[t]
<1>1. /\ s \in Scripts /\ ControlInv(s, C) /\ IsSlice(s, C, E)
      /\ StepRel(s, q, C, D[q][j], D[q][j + 1], Heard(q, C, K), Told(q, t, E, K))
      /\ \A r \in Players \ {q} : Awaited(Class(r), k) =>
            C.idx[Class(r)][t] <= Queued(n, G, <<r, q>>)
  <2>1. s \in Scripts /\ ControlInv(s, C) /\ IsSlice(s, C, E)
    BY StepTaken
  <2>2. StepRel(s, q, C, D[q][j], D[q][j + 1], Heard(q, C, K), Told(q, t, E, K))
    BY StepTaken
  <2>3. \A r \in Players \ {q} : Awaited(Class(r), k) =>
           C.idx[Class(r)][t] <= Queued(n, G, <<r, q>>)
    BY StepTaken
  <2> QED BY <2>1, <2>2, <2>3
<1>2. t \in DOMAIN C.slice
  BY <1>1, Zenon DEF IsSlice
<1>7. j <= n[q]
  BY DEF Log
<1>3. PICK op, v, w, got, gave :
         /\ op = s[C.batch][t] /\ v = D[q][j] /\ w = D[q][j + 1]
         /\ got = Heard(q, C, K) /\ gave = Told(q, t, E, K)
  OBVIOUS
<1>4. /\ \A r \in Players \ {q} : Awaited(Class(r), k) => MessageOK(op, k, q, got[r])
      /\ \A r \in Players : gave[r] = K[<<q, r>>][E.idx[Class(q)][t]]
  <2>1. ASSUME NEW r \in Players \ {q}, Awaited(Class(r), k) PROVE MessageOK(op, k, q, got[r])
    <3>1. MessageOK(op, k, q, K[<<r, q>>][C.idx[Class(r)][t]])
      BY <1>1, <1>2, <1>3, <2>1 DEF Typed
    <3> QED BY <1>3, <3>1, Zenon DEF Heard
  <2> QED BY <1>3, <2>1, Zenon DEF Told
<1>5. CASE q \in Comp
  <2>1. q # Server /\ 1 - q \in Players \ {q} /\ Server \in Players \ {q} /\ Class(q) = 0
    BY <1>5, ClassFacts
  <2>2. PartyData(q, C, v)
    BY <1>3, <1>5, <1>7 DEF Typed
  <2>3. PartyRel(q, op, t, JobAt(s, C), NextAt(s, C), v, w, got, gave)
    BY <1>1, <1>3, <2>1 DEF StepRel, JobAt, NextAt
  <2>4. k \in {0, 2, 4} => MessageOK(op, k, q, got[1 - q])
    BY <1>4, <1>5, <2>1, AwaitedFrom
  <2>5. k = 3 => got[Server] \in Values
    <3>1. k = 3 => MessageOK(op, k, q, got[Server])
      BY <1>4, <2>1, AwaitedFrom
    <3> QED BY <3>1 DEF MessageOK
  <2> HIDE DEF t, k
  <2>6. /\ PartyData(q, E, w)
        /\ NextAt(s, C) \in {0, 2, 4} =>
             \A r \in Players \ {q} : MessageOK(op, NextAt(s, C), r, gave[r])
    <3>1. op = s[C.batch][C.turn] /\ IsSlice(s, C, E)
      BY <1>1, <1>3 DEF t
    <3>2. PartyStepAt(s, C, q, v, w, got, gave)
      BY <2>3, <3>1 DEF PartyStepAt, t
    <3>3. HearsRight(s, C, q, got)
      BY <2>4, <2>5, <3>1 DEF HearsRight, t, k
    <3>4. PartyData(q, E, w) /\ SpeaksRight(s, C, q, gave)
      BY <1>5, <2>2, <3>1, <3>2, <3>3, PartyKeepsTypes
    <3> QED BY <3>1, <3>4 DEF SpeaksRight
  <2> QED BY <1>3, <1>4, <2>1, <2>6 DEF Awaited, t
<1>6. CASE q = Server
  <2>1. Players \ {q} = Comp /\ Class(q) = 1 /\ q \notin Comp
    BY <1>6, AwaitedFrom, ClassFacts
  <2>2. ServerData(v)
    BY <1>3, <1>6, <1>7 DEF Typed
  <2>3. ServerRel(op, JobAt(s, C), v, w, got, gave)
    BY <1>1, <1>3, <1>6 DEF StepRel, JobAt
  <2>4. k \in {0, 2, 4} => \A p \in Comp : MessageOK(op, k, Server, got[p])
    BY <1>4, <1>6, <2>1, AwaitedFrom
  <2> HIDE DEF t, k
  <2>5. ServerData(w) /\ (NextAt(s, C) = 3 => \A p \in Comp : gave[p] \in Values)
    BY <1>1, <1>3, <2>2, <2>3, <2>4, ServerKeepsTypes DEF t, k
  <2>6. \A r, m : m \in Values => MessageOK(op, 3, r, m)
    BY DEF MessageOK
  <2> QED BY SMTT(30), <1>3, <1>4, <1>6, <2>1, <2>5, <2>6 DEF Awaited, t
<1> QED BY <1>5, <1>6, ClassFacts

LEMMA TypedStep ==
    ASSUME NEW s, NEW n, NEW G, NEW D, NEW K, Log(s, n, G, D, K),
           NEW j \in Nat, Typed(s, n, G, D, K, j)
    PROVE  Typed(s, n, G, D, K, j + 1)
<1> DEFINE C == G[j]
           E == G[j + 1]
<1>1. /\ s \in Scripts /\ IsRun(s, G) /\ n \in [Players -> Nat] /\ j + 1 \in Nat
  BY DEF Log
<1>2. /\ ControlInv(s, C) /\ ControlInv(s, E) /\ E = Succ(s, C)
  BY <1>1 DEF IsRun
<1> HIDE DEF C, E
<1>3. ASSUME NEW q \in Players, j + 1 <= n[q]
      PROVE  /\ q \in Comp => PartyData(q, E, D[q][j + 1])
             /\ q = Server => ServerData(D[q][j + 1])
  <2>1. j < n[q] /\ j <= n[q] /\ n[q] \in Nat
    BY <1>1, <1>3
  <2>2. /\ ~ Ended(s, C)
        /\ StepRel(s, q, C, D[q][j], D[q][j + 1], Heard(q, C, K), Told(q, C.turn, E, K))
    BY <2>1, StepTaken DEF C, E
  <2>3. /\ q \in Comp => PartyData(q, C, D[q][j])
        /\ q = Server => ServerData(D[q][j])
    BY <2>1 DEF Typed, C
  <2>4. CASE AtEnd(s, C)
    <3>1. E = AfterPass(s, C) /\ PassRel(s, q, C, D[q][j], D[q][j + 1])
      BY <1>1, <1>2, <2>2, <2>4, Kinds DEF StepRel
    <3>2. PICK v, w : v = D[q][j] /\ w = D[q][j + 1]
      OBVIOUS
    <3> QED BY <1>1, <1>2, <2>3, <2>4, <3>1, <3>2, PassKeepsTypes
  <2>5. CASE AtSkip(s, C)
    <3>1. E = AfterSkip(C) /\ D[q][j + 1] = D[q][j]
      BY <1>1, <1>2, <2>2, <2>5, Kinds DEF StepRel
    <3>2. E.slice = C.slice
      BY <3>1 DEF AfterSkip
    <3> QED BY <2>3, <3>1, <3>2 DEF PartyData
  <2>6. CASE AtSlice(s, C)
    BY <2>1, <2>6, TypedSlice DEF C, E
  <2> QED BY <1>1, <1>2, <2>2, <2>4, <2>5, <2>6, SuccCases
<1>4. ASSUME NEW q \in Players, NEW r \in Players, NEW c \in DOMAIN E.slice, q # r,
             Awaited(Class(q), E.slice[c]), E.idx[Class(q)][c] <= Queued(n, G, <<q, r>>)
      PROVE  MessageOK(s[E.batch][c], E.slice[c], r, K[<<q, r>>][E.idx[Class(q)][c]])
  <2> DEFINE x == Class(q)
  <2>0. x \in Classes
    BY ClassFacts
  <2>1. ASSUME c \in DOMAIN C.slice, E.batch = C.batch, E.slice[c] = C.slice[c],
               E.idx[x][c] = C.idx[x][c]
        PROVE  MessageOK(s[E.batch][c], E.slice[c], r, K[<<q, r>>][E.idx[x][c]])
    <3>1. MessageOK(s[C.batch][c], C.slice[c], r, K[<<q, r>>][C.idx[x][c]])
      BY <1>4, <2>1 DEF Typed, C
    <3> QED BY <2>1, <3>1
  <2>2. CASE Ended(s, C)
    <3>1. E = C
      BY <1>2, <2>2 DEF Succ
    <3> QED BY <1>4, <2>1, <3>1
  <2>3. CASE AtEnd(s, C)
    <3>1. E = AfterPass(s, C)
      BY <1>1, <1>2, <2>3, Kinds
    <3>2. CASE AllFinished(C)
      <4>1. E.slice = Fresh(s[C.batch + 1]) \/ E.slice = C.slice
        BY <3>1 DEF AfterPass
      <4>2. E.slice[c] \in {1, Finished}
        BY <1>4, <3>2, <4>1 DEF AllFinished, Fresh
      <4> QED BY <1>4, <4>2 DEF Awaited, Finished
    <3>3. CASE ~ AllFinished(C)
      <4>1. E.batch = C.batch /\ E.slice = C.slice /\ E.idx = C.idx
        BY <3>1, <3>3 DEF AfterPass
      <4> QED BY <1>4, <2>1, <4>1
    <3> QED BY <3>2, <3>3
  <2>4. CASE AtSkip(s, C)
    <3>1. E = AfterSkip(C)
      BY <1>1, <1>2, <2>4, Kinds
    <3>2. E.batch = C.batch /\ E.slice = C.slice /\ E.idx = C.idx
      BY <3>1 DEF AfterSkip
    <3> QED BY <1>4, <2>1, <3>2
  <2>5. CASE AtSlice(s, C)
    <3> DEFINE t == C.turn
               n2 == NextAt(s, C)
    <3>1. E = AfterSlice(s, C)
      BY <1>1, <1>2, <2>5, Kinds
    <3>2. IsSlice(s, C, E)
      BY <1>1, <1>2, <2>5, <3>1, AtSliceFacts
    <3>3. /\ E.batch = C.batch /\ E.slice = [C.slice EXCEPT ![t] = n2]
          /\ E.idx[x] = IF Awaited(x, n2) THEN [C.idx[x] EXCEPT ![t] = C.sent[x] + 1] ELSE C.idx[x]
          /\ t \in DOMAIN C.slice /\ DOMAIN C.slice = DOMAIN E.slice
          /\ DOMAIN C.idx[x] = DOMAIN C.slice
          /\ E.sent[x] = IF Awaited(x, n2) THEN C.sent[x] + 1 ELSE C.sent[x]
      BY <2>0, <3>2 DEF IsSlice, NextAt
    <3> HIDE DEF x, t, n2
    <3>4. CASE c # t
      <4>1. E.slice[c] = C.slice[c] /\ E.idx[x][c] = C.idx[x][c] /\ c \in DOMAIN C.slice
        BY <1>4, <3>3, <3>4
      <4> QED BY <2>1, <3>3, <4>1 DEF x
    <3>5. CASE c = t
      <4>1. E.slice[c] = n2 /\ Awaited(x, n2) /\ E.idx[x][c] = C.sent[x] + 1
        BY <1>4, <3>3, <3>5 DEF x
      <4>2. C.sent[x] + 1 <= G[n[q]].sent[x] /\ C.sent[x] \in Nat /\ n[q] \in Nat
        <5>1. Queued(n, G, <<q, r>>) = G[n[q]].sent[x]
          BY DEF Queued, x
        <5> QED BY <1>1, <1>2, <1>4, <2>0, <4>1, <5>1, OneAtATime DEF x
      <4>3. j < n[q]
        <5>1. CASE n[q] <= j
          <6>1. G[n[q]].sent[x] <= C.sent[x]
            BY <1>1, <2>0, <4>2, <5>1, RunGrows DEF C
          <6>2. G[n[q]].sent[x] \in Nat
            BY <1>1, <2>0, <4>2 DEF IsRun, ControlInv, ControlType
          <6> QED BY <4>2, <6>1, <6>2
        <5> QED BY <4>2, <5>1
      <4>4. MessageOK(s[C.batch][t], n2, r, K[<<q, r>>][E.idx[x][t]])
        BY <1>4, <2>5, <4>1, <4>3, TypedSlice DEF C, E, x, t, n2
      <4> QED BY <3>3, <3>5, <4>1, <4>4 DEF x
    <3> QED BY <3>4, <3>5
  <2> QED BY <1>1, <1>2, <2>2, <2>3, <2>4, <2>5, SuccCases
<1>5. (\A p \in Comp : p \in Players) /\ Server \in Players
  BY ClassFacts
<1> QED BY <1>3, <1>4, <1>5 DEF Typed, C, E

\* So they have at every step.
LEMMA AlwaysTyped ==
    ASSUME NEW s, NEW n, NEW G, NEW D, NEW K, Log(s, n, G, D, K)
    PROVE  \A j \in Nat : Typed(s, n, G, D, K, j)
<1> DEFINE S == {j \in Nat : Typed(s, n, G, D, K, j)}
<1>1. 0 \in S
  BY StartTyped
<1>2. \A j \in Nat : j \in S => j + 1 \in S
  BY TypedStep
<1> HIDE DEF S
<1>3. \A j \in Nat : j \in S
  BY <1>1, <1>2, SetInduction
<1> QED BY <1>3 DEF S

-----------------------------------------------------------------------------
(* What a step leaves alone.                                               *)

\* Coroutine c stays where it is.
Unmoved(C, E, c) ==
    /\ E.batch = C.batch /\ c \in DOMAIN C.slice /\ E.slice[c] = C.slice[c]
    /\ \A x \in Classes : E.idx[x][c] = C.idx[x][c]

\* A step either leaves a coroutine where it is, or is a slice of it, or ends
\* the batch.
LEMMA CoroutineCases ==
    ASSUME NEW s \in Scripts, NEW C, ControlInv(s, C), NEW E, E = Succ(s, C),
           NEW c \in DOMAIN E.slice
    PROVE  \/ Ended(s, E) \/ E.slice[c] = 1
           \/ AtSlice(s, C) /\ IsSlice(s, C, E) /\ c = C.turn
           \/ /\ Unmoved(C, E, c)
              /\ \/ AtEnd(s, C) /\ ~ AllFinished(C)
                 \/ AtSkip(s, C)
                 \/ AtSlice(s, C) /\ IsSlice(s, C, E) /\ c # C.turn /\ C.slice[c] # 0
<1>1. CASE Ended(s, C)
  BY <1>1 DEF Succ
<1>2. CASE AtEnd(s, C)
  <2>1. E = AfterPass(s, C)
    BY <1>2, Kinds
  <2>2. CASE ~ AllFinished(C)
    <3>1. E.batch = C.batch /\ E.slice = C.slice /\ E.idx = C.idx
      BY <2>1, <2>2 DEF AfterPass
    <3> QED BY <1>2, <2>2, <3>1 DEF Unmoved
  <2>3. CASE AllFinished(C) /\ C.batch < Len(s)
    <3>1. E.slice = Fresh(s[C.batch + 1])
      BY <2>1, <2>3 DEF AfterPass
    <3> QED BY <3>1 DEF Fresh
  <2>4. CASE AllFinished(C) /\ ~ (C.batch < Len(s))
    <3>1. E.batch = C.batch + 1
      BY <2>1, <2>4 DEF AfterPass
    <3>2. C.batch \in Nat /\ Len(s) \in Nat
      BY ScriptFacts DEF ControlInv, ControlType
    <3> QED BY <2>4, <3>1, <3>2 DEF Ended
  <2> QED BY <2>2, <2>3, <2>4
<1>3. CASE AtSkip(s, C)
  <2>1. E = AfterSkip(C)
    BY <1>3, Kinds
  <2>2. E.batch = C.batch /\ E.slice = C.slice /\ E.idx = C.idx
    BY <2>1 DEF AfterSkip
  <2> QED BY <1>3, <2>2 DEF Unmoved
<1>4. CASE AtSlice(s, C)
  <2>1. IsSlice(s, C, E)
    BY <1>4, Kinds, AtSliceFacts
  <2>2. /\ E.batch = C.batch /\ E.slice = [C.slice EXCEPT ![C.turn] = NextAt(s, C)]
        /\ DOMAIN C.slice = DOMAIN E.slice /\ DOMAIN C.slice = 1 .. Len(s[C.batch])
        /\ C.turn \in DOMAIN C.slice /\ BatchOf(s, C) = s[C.batch]
    BY <2>1 DEF IsSlice, NextAt
  <2>3. ASSUME c # C.turn PROVE Unmoved(C, E, c) /\ C.slice[c] # 0
    <3>3. ASSUME NEW x \in Classes PROVE E.idx[x][c] = C.idx[x][c]
      <4>1. E.idx[x] = IF Awaited(x, NextAt(s, C)) THEN [C.idx[x] EXCEPT ![C.turn] = C.sent[x] + 1]
                       ELSE C.idx[x]
        BY <2>1 DEF IsSlice, NextAt
      <4>2. DOMAIN C.idx[x] = 1 .. Len(s[C.batch])
        BY <2>1 DEF IsSlice
      <4> QED BY <2>2, <2>3, <4>1, <4>2
    <3>1. E.slice[c] = C.slice[c] /\ \A x \in Classes : E.idx[x][c] = C.idx[x][c]
      BY <2>2, <2>3, <3>3
    <3>2. ASSUME C.slice[c] = 0 PROVE FALSE
      <4>1. Len(BatchOf(s, C)) = 1
        BY <2>2, <3>2 DEF ControlInv, ModeOK
      <4>2. DOMAIN C.slice = 1 .. 1
        BY <2>2, <4>1
      <4> QED BY <2>2, <2>3, <4>2
    <3> QED BY <2>2, <3>1, <3>2 DEF Unmoved
  <2> QED BY <1>4, <2>1, <2>3
<1> QED BY <1>1, <1>2, <1>3, <1>4, SuccCases

\* A slice leaves what the other coroutines keep.
LEMMA OthersKept ==
    ASSUME NEW s, NEW C, NEW E, IsSlice(s, C, E), NEW p \in Comp, NEW v, PartyData(p, C, v),
           NEW w, NEW got, NEW gave, PartyStepAt(s, C, p, v, w, got, gave),
           NEW c \in DOMAIN C.slice, c # C.turn
    PROVE  w.loc[c] = v.loc[c] /\ (p = 0 => w.exp[c] = v.exp[c])
<1>1. PICK op, job, n2 : /\ op = s[C.batch][C.turn] /\ job = JobAt(s, C) /\ n2 = NextAt(s, C)
  OBVIOUS
<1>2. PartyRel(p, op, C.turn, job, n2, v, w, got, gave)
  BY <1>1 DEF PartyStepAt
<1>3. /\ DOMAIN v.loc = DOMAIN C.slice /\ (p = 0 => DOMAIN v.exp = DOMAIN C.slice)
  BY DEF PartyData
<1>4. w.loc = v.loc \/ \E d : w.loc = [v.loc EXCEPT ![C.turn] = d]
  BY <1>2 DEF PartyRel
<1>5. p = 0 => w.exp = v.exp \/ \E d : w.exp = [v.exp EXCEPT ![C.turn] = d]
  BY <1>2 DEF PartyRel
<1> QED BY <1>3, <1>4, <1>5

\* The steps between slices leave the memory.
LEMMA IdleStep ==
    ASSUME NEW s, NEW n, NEW G, NEW D, NEW K, Log(s, n, G, D, K), NEW q \in Players,
           NEW j \in Nat, j < n[q], ~ AtSlice(s, G[j])
    PROVE  /\ q = Server => D[q][j + 1].sbl = D[q][j].sbl
           /\ q \in Comp => /\ D[q][j + 1].db = D[q][j].db /\ D[q][j + 1].bl = D[q][j].bl
                            /\ D[q][j + 1].pbd = D[q][j].pbd
                            /\ q = 0 => D[q][j + 1].mem = D[q][j].mem
           /\ q \in Comp /\ ~ (AtEnd(s, G[j]) /\ AllFinished(G[j])) =>
                /\ D[q][j + 1].loc = D[q][j].loc
                /\ q = 0 => D[q][j + 1].exp = D[q][j].exp
<1>1. PICK C, v, w, got, gave :
         /\ C = G[j] /\ v = D[q][j] /\ w = D[q][j + 1]
         /\ got = Heard(q, C, K) /\ gave = Told(q, C.turn, G[j + 1], K)
  OBVIOUS
<1>2. /\ s \in Scripts /\ ControlInv(s, C) /\ ~ Ended(s, C) /\ StepRel(s, q, C, v, w, got, gave)
  BY <1>1, StepTaken
<1>3. CASE AtEnd(s, C)
  <2>1. PassRel(s, q, C, v, w)
    BY <1>2, <1>3 DEF StepRel
  <2>2. q \in Comp => q # Server
    BY ClassFacts
  <2> QED BY <1>1, <1>3, <2>1, <2>2 DEF PassRel
<1>4. CASE AtSkip(s, C)
  <2>1. w = v
    BY <1>2, <1>4 DEF StepRel
  <2> QED BY <1>1, <2>1
<1> QED BY <1>1, <1>2, <1>3, <1>4, SuccCases

\* A slice of a party, with the types of what it deals with.
LEMMA PartySlice ==
    ASSUME NEW s, NEW n, NEW G, NEW D, NEW K, Log(s, n, G, D, K), NEW p \in Comp,
           NEW j \in Nat, j < n[p], AtSlice(s, G[j])
    PROVE  /\ IsSlice(s, G[j], G[j + 1])
           /\ PartyStepAt(s, G[j], p, D[p][j], D[p][j + 1], Heard(p, G[j], K),
                          Told(p, G[j].turn, G[j + 1], K))
           /\ PartyData(p, G[j], D[p][j]) /\ PartyData(p, G[j + 1], D[p][j + 1])
<1>1. p \in Players /\ p # Server /\ j + 1 \in Nat /\ n[p] \in Nat
  BY ClassFacts DEF Log
<1>2. PartyData(p, G[j], D[p][j]) /\ PartyData(p, G[j + 1], D[p][j + 1])
  BY <1>1, AlwaysTyped DEF Typed
<1>3. PICK C, v, w, got, gave :
         /\ C = G[j] /\ v = D[p][j] /\ w = D[p][j + 1]
         /\ got = Heard(p, C, K) /\ gave = Told(p, C.turn, G[j + 1], K)
  OBVIOUS
<1>4. IsSlice(s, C, G[j + 1]) /\ StepRel(s, p, C, v, w, got, gave)
  BY <1>1, <1>3, StepTaken
<1>5. PartyStepAt(s, C, p, v, w, got, gave)
  BY <1>1, <1>3, <1>4 DEF StepRel, PartyStepAt, JobAt, NextAt
<1> QED BY <1>2, <1>3, <1>4, <1>5

\* What an unmoved coroutine keeps.
LEMMA Untouched ==
    ASSUME NEW s, NEW n, NEW G, NEW D, NEW K, Log(s, n, G, D, K), NEW p \in Comp,
           NEW j \in Nat, j < n[p], NEW c, Unmoved(G[j], G[j + 1], c),
           \/ AtEnd(s, G[j]) /\ ~ AllFinished(G[j])
           \/ AtSkip(s, G[j])
           \/ AtSlice(s, G[j]) /\ c # G[j].turn /\ G[j].slice[c] # 0
    PROVE  /\ D[p][j + 1].loc[c] = D[p][j].loc[c]
           /\ p = 0 => D[p][j + 1].exp[c] = D[p][j].exp[c]
           /\ G[j].slice[c] = 0 => /\ D[p][j + 1].db = D[p][j].db
                                   /\ D[p][j + 1].bl = D[p][j].bl
<1>1. p \in Players /\ s \in Scripts /\ ControlInv(s, G[j])
  BY ClassFacts DEF Log, IsRun
<1>2. CASE AtSlice(s, G[j])
  <2>1. PICK C, E, v, w, got, gave :
           /\ C = G[j] /\ E = G[j + 1] /\ v = D[p][j] /\ w = D[p][j + 1]
           /\ got = Heard(p, C, K) /\ gave = Told(p, C.turn, E, K)
    OBVIOUS
  <2>2. IsSlice(s, C, E) /\ PartyStepAt(s, C, p, v, w, got, gave) /\ PartyData(p, C, v)
    BY <1>2, <2>1, PartySlice
  <2>3. c \in DOMAIN C.slice /\ c # C.turn /\ C.slice[c] # 0
    BY <1>1, <1>2, <2>1, Kinds DEF Unmoved
  <2>4. w.loc[c] = v.loc[c] /\ (p = 0 => w.exp[c] = v.exp[c])
    BY <2>2, <2>3, OthersKept
  <2> QED BY <2>1, <2>3, <2>4
<1>3. CASE ~ AtSlice(s, G[j])
  <2>1. ~ (AtEnd(s, G[j]) /\ AllFinished(G[j]))
    BY <1>1, <1>3, Kinds
  <2>2. PICK v, w : v = D[p][j] /\ w = D[p][j + 1]
    OBVIOUS
  <2>3. /\ w.db = v.db /\ w.bl = v.bl /\ w.loc = v.loc
        /\ p = 0 => w.exp = v.exp
    BY <1>1, <1>3, <2>1, <2>2, IdleStep
  <2> QED BY <2>2, <2>3
<1> QED BY <1>2, <1>3

-----------------------------------------------------------------------------
(* The messages of the parties.                                            *)

\* The message that a coroutine of party p has put out is about what the party
\* holds now, although other coroutines of it have run since.
Said(s, n, G, D, K, j) ==
    \A p \in Comp : j <= n[p] =>
       \A c \in DOMAIN G[j].slice, r \in Players \ {p} :
          Awaited(0, G[j].slice[c]) =>
             K[<<p, r>>][G[j].idx[0][c]] = Says(p, s[G[j].batch][c], G[j].slice[c], D[p][j], c, r)

LEMMA SaysSame ==
    ASSUME NEW p, NEW op, NEW k, Awaited(0, k), OpSlice(op, k),
           NEW v, NEW w, NEW c, NEW r, w.loc[c] = v.loc[c],
           k = 0 => w.db = v.db /\ w.bl = v.bl
    PROVE  Says(p, op, k, w, c, r) = Says(p, op, k, v, c, r)
<1>1. CASE k = 0
  BY <1>1 DEF Says
<1>2. CASE k = 2
  <2>1. \/ op.kind \in Explicit
        \/ op.kind \in Reading /\ op.kind \notin Explicit
        \/ op.kind = "oblivious_update" /\ op.kind \notin Reading /\ op.kind \notin Explicit
    BY <1>2 DEF OpSlice, Explicit, Oblivious, Reading, Finished, LeavesMode
  <2> QED BY <1>2, <2>1 DEF Says
<1>3. CASE k = 4
  BY <1>3 DEF Says
<1> QED BY <1>1, <1>2, <1>3 DEF Awaited

LEMMA SaidStart ==
    ASSUME NEW s, NEW n, NEW G, NEW D, NEW K, Log(s, n, G, D, K)
    PROVE  Said(s, n, G, D, K, 0)
<1>1. G[0].slice = Fresh(s[1])
  BY DEF Log, IsRun, First
<1>2. \A c \in DOMAIN G[0].slice : ~ Awaited(0, G[0].slice[c])
  BY <1>1 DEF Fresh, Awaited
<1> QED BY <1>2 DEF Said

LEMMA SaidStep ==
    ASSUME NEW s, NEW n, NEW G, NEW D, NEW K, Log(s, n, G, D, K),
           NEW j \in Nat, Said(s, n, G, D, K, j)
    PROVE  Said(s, n, G, D, K, j + 1)
<1>1. /\ s \in Scripts /\ ControlInv(s, G[j]) /\ G[j + 1] = Succ(s, G[j])
      /\ n \in [Players -> Nat] /\ ControlInv(s, G[j + 1])
  BY DEF Log, IsRun
<1>2. SUFFICES ASSUME NEW p \in Comp, j + 1 <= n[p], NEW c \in DOMAIN G[j + 1].slice,
                      NEW r \in Players \ {p}, Awaited(0, G[j + 1].slice[c])
               PROVE  K[<<p, r>>][G[j + 1].idx[0][c]] =
                        Says(p, s[G[j + 1].batch][c], G[j + 1].slice[c], D[p][j + 1], c, r)
  BY DEF Said
<1>3. p \in Players /\ p # Server /\ j < n[p] /\ j <= n[p] /\ 0 \in Classes
  BY <1>1, <1>2, ClassFacts DEF Classes
<1>4. PICK C, E, v, w : C = G[j] /\ E = G[j + 1] /\ v = D[p][j] /\ w = D[p][j + 1]
  OBVIOUS
<1>5. CASE Ended(s, E) \/ E.slice[c] = 1
  <2>1. E.slice[c] \in {1, Finished}
    BY <1>1, <1>2, <1>4, <1>5 DEF ControlInv, ControlType, AllFinished
  <2> QED BY <1>2, <1>4, <2>1 DEF Awaited, Finished
<1>6. CASE AtSlice(s, C) /\ IsSlice(s, C, E) /\ c = C.turn
  <2>1. PICK op, job, n2, got, gave :
           /\ op = s[C.batch][C.turn] /\ job = JobAt(s, C) /\ n2 = NextAt(s, C)
           /\ got = Heard(p, C, K) /\ gave = Told(p, C.turn, E, K)
    OBVIOUS
  <2>2. PartyStepAt(s, C, p, v, w, got, gave)
    BY <1>3, <1>4, <1>6, <2>1, PartySlice
  <2>3. PartyRel(p, op, C.turn, job, n2, v, w, got, gave)
    BY <2>1, <2>2 DEF PartyStepAt
  <2>4. E.batch = C.batch /\ E.slice[c] = n2
    BY <1>6, <2>1, Zenon DEF IsSlice, NextAt
  <2>5. gave[r] = Says(p, op, n2, w, C.turn, r)
    BY <1>2, <1>4, <2>3, <2>4, Zenon DEF PartyRel
  <2>6. Class(p) = 0
    BY <1>3 DEF Class
  <2>7. gave[r] = K[<<p, r>>][E.idx[0][c]]
    BY <1>2, <1>6, <2>1, <2>6 DEF Told
  <2> QED BY <1>4, <1>6, <2>1, <2>4, <2>5, <2>7
<1>7. CASE /\ Unmoved(C, E, c)
           /\ \/ AtEnd(s, C) /\ ~ AllFinished(C)
              \/ AtSkip(s, C)
              \/ AtSlice(s, C) /\ IsSlice(s, C, E) /\ c # C.turn /\ C.slice[c] # 0
  <2>1. /\ w.loc[c] = v.loc[c]
        /\ C.slice[c] = 0 => w.db = v.db /\ w.bl = v.bl
    BY <1>3, <1>4, <1>7, Untouched
  <2>2. /\ E.batch = C.batch /\ c \in DOMAIN C.slice /\ E.slice[c] = C.slice[c]
        /\ E.idx[0][c] = C.idx[0][c]
    BY <1>3, <1>7 DEF Unmoved
  <2>3. K[<<p, r>>][C.idx[0][c]] = Says(p, s[C.batch][c], C.slice[c], v, c, r)
    BY <1>2, <1>3, <1>4, <2>2 DEF Said
  <2>4. Awaited(0, C.slice[c]) /\ OpSlice(s[C.batch][c], C.slice[c])
    <3>1. ~ Ended(s, C)
      BY <1>1, <1>4, <1>7, Kinds
    <3> QED BY <1>1, <1>2, <1>4, <2>2, <3>1 DEF ControlInv, ControlType, BatchOf
  <2>5. Says(p, s[C.batch][c], C.slice[c], w, c, r) = Says(p, s[C.batch][c], C.slice[c], v, c, r)
    BY <2>1, <2>4, SaysSame
  <2> QED BY <1>4, <2>2, <2>3, <2>5
<1> QED BY <1>1, <1>2, <1>4, <1>5, <1>6, <1>7, CoroutineCases

LEMMA AlwaysSaid ==
    ASSUME NEW s, NEW n, NEW G, NEW D, NEW K, Log(s, n, G, D, K)
    PROVE  \A j \in Nat : Said(s, n, G, D, K, j)
<1> DEFINE S == {j \in Nat : Said(s, n, G, D, K, j)}
<1>1. 0 \in S
  BY SaidStart
<1>2. \A j \in Nat : j \in S => j + 1 \in S
  BY SaidStep
<1> HIDE DEF S
<1>3. \A j \in Nat : j \in S
  BY <1>1, <1>2, SetInduction
<1> QED BY <1>3 DEF S

LEMMA HeardIsSaid ==
    ASSUME NEW s, NEW n, NEW G, NEW D, NEW K, Log(s, n, G, D, K),
           NEW p \in Comp, NEW q \in Players \ {p}, NEW j \in Nat, j <= n[p],
           AtSlice(s, G[j]), NEW C, C = G[j], NEW k, k = C.slice[C.turn], k \in {0, 2, 4}
    PROVE  Heard(q, C, K)[p] = Says(p, s[C.batch][C.turn], k, D[p][j], C.turn, q)
<1>1. s \in Scripts /\ ControlInv(s, C)
  BY DEF Log, IsRun
<1>2. C.turn \in DOMAIN C.slice
  <2>1. IsSlice(s, C, AfterSlice(s, C))
    BY <1>1, AtSliceFacts
  <2> QED BY <2>1 DEF IsSlice
<1>3. p \in Players /\ Class(p) = 0 /\ q \in Players \ {p}
  BY ClassFacts DEF Class
<1>4. Awaited(0, k)
  BY DEF Awaited
<1>5. K[<<p, q>>][C.idx[0][C.turn]] = Says(p, s[C.batch][C.turn], k, D[p][j], C.turn, q)
  BY <1>2, <1>3, <1>4, AlwaysSaid DEF Said
<1> QED BY <1>3, <1>5 DEF Heard

-----------------------------------------------------------------------------
(* The two parties at the same slice.                                      *)

\* Both parties run a slice: each has from the other what that one said.
Together(s, C, E, v, w, got, gave) ==
    \A p \in Comp :
       /\ PartyStepAt(s, C, p, v[p], w[p], got[p], gave[p])
       /\ PartyData(p, C, v[p]) /\ PartyData(p, E, w[p])
       /\ C.slice[C.turn] \in {0, 2, 4} =>
            got[p][1 - p] =
              Says(1 - p, s[C.batch][C.turn], C.slice[C.turn], v[1 - p], C.turn, p)

\* What the parties hold after j steps.
Pair(D, j) == [p \in Comp |-> D[p][j]]
Both(n, j) == j <= n[0] /\ j <= n[1]

LEMMA TogetherStep ==
    ASSUME NEW s, NEW n, NEW G, NEW D, NEW K, Log(s, n, G, D, K),
           NEW j \in Nat, Both(n, j + 1), AtSlice(s, G[j])
    PROVE  /\ IsSlice(s, G[j], G[j + 1])
           /\ \E got, gave :
                 /\ Together(s, G[j], G[j + 1], Pair(D, j), Pair(D, j + 1), got, gave)
                 /\ \A p \in Comp : got[p] = Heard(p, G[j], K)
<1>1. n \in [Players -> Nat]
  BY DEF Log
<1>2. ASSUME NEW p \in Comp PROVE j < n[p] /\ j <= n[p] /\ n[p] \in Nat
  BY <1>1, ClassFacts DEF Both
<1>3. PICK C, E, v, w, got, gave :
         /\ C = G[j] /\ E = G[j + 1] /\ v = Pair(D, j) /\ w = Pair(D, j + 1)
         /\ got = [p \in Comp |-> Heard(p, C, K)] /\ gave = [p \in Comp |-> Told(p, C.turn, E, K)]
  OBVIOUS
<1>4. ASSUME NEW p \in Comp
      PROVE  /\ PartyStepAt(s, C, p, v[p], w[p], got[p], gave[p])
             /\ PartyData(p, C, v[p]) /\ PartyData(p, E, w[p]) /\ IsSlice(s, C, E)
             /\ v[p] = D[p][j] /\ w[p] = D[p][j + 1] /\ got[p] = Heard(p, C, K)
  <2>1. /\ v[p] = D[p][j] /\ w[p] = D[p][j + 1] /\ got[p] = Heard(p, C, K)
        /\ gave[p] = Told(p, C.turn, E, K)
    BY <1>3 DEF Pair
  <2>2. PICK vp, wp, gotp, gavep :
           vp = v[p] /\ wp = w[p] /\ gotp = got[p] /\ gavep = gave[p]
    OBVIOUS
  <2>3. /\ PartyStepAt(s, C, p, vp, wp, gotp, gavep)
        /\ PartyData(p, C, vp) /\ PartyData(p, E, wp) /\ IsSlice(s, C, E)
    BY <1>2, <1>3, <2>1, <2>2, PartySlice
  <2> QED BY <2>1, <2>2, <2>3
<1>5. ASSUME NEW p \in Comp, C.slice[C.turn] \in {0, 2, 4}
      PROVE  got[p][1 - p] =
               Says(1 - p, s[C.batch][C.turn], C.slice[C.turn], v[1 - p], C.turn, p)
  <2>1. 1 - p \in Comp /\ p \in Players \ {1 - p} /\ AtSlice(s, C)
    BY <1>3, AwaitedFrom
  <2>2. PICK q, k, vq : q = 1 - p /\ k = C.slice[C.turn] /\ vq = v[q]
    OBVIOUS
  <2>3. vq = D[q][j] /\ j <= n[q] /\ q \in Comp /\ p \in Players \ {q}
    BY <1>2, <1>4, <2>1, <2>2
  <2>4. Heard(p, C, K)[q] = Says(q, s[C.batch][C.turn], k, D[q][j], C.turn, p)
    BY <1>3, <1>5, <2>2, <2>3, HeardIsSaid
  <2> QED BY <1>4, <2>2, <2>3, <2>4
<1>6. Together(s, C, E, v, w, got, gave)
  BY <1>4, <1>5 DEF Together
<1>7. 0 \in Comp
  BY ClassFacts
<1> QED BY <1>3, <1>4, <1>6, <1>7

\* The vectors of the parties and the server for an update.
LEMMA VectorIs ==
    ASSUME NEW op, ValidOp(op), op.kind \in Oblivious,
           NEW x \in Values, NEW y \in Values, NEW k \in 0 .. 2
    PROVE  /\ Vector(0, op, k, x, Offsets(1, op, y, 0 .. 2)) = Vec(op, k, 0, x, y)
           /\ Vector(1, op, k, y, Offsets(0, op, x, 0 .. 2)) = Vec(op, k, 1, x, y)
           /\ \A p \in Comp :
                TheirVector(p, op, Offsets(0, op, x, 1 .. 2), Offsets(1, op, y, 1 .. 2))
                  = Vec(op, p + 1, p, x, y)
<1> DEFINE a(h) == Sub(x, op.rdpf.scale[h][0])
           b(h) == Sub(y, op.rdpf.scale[h][1])
<1>1. \A p \in Comp : IndOffset(p, op) \in Leaves
  BY OpFacts
<1>2. IndOffset(0, op) \in Int /\ IndOffset(1, op) \in Int
  BY <1>1, ClassFacts, WidthFacts
<1>3. IndOffset(1, op) + IndOffset(0, op) = IndOffset(0, op) + IndOffset(1, op)
  BY <1>2
<1>4. a(k) \in Values /\ b(k) \in Values
  BY ClassFacts, VectorTypes
<1>5. Add(b(k), a(k)) = Add(a(k), b(k))
  <2> HIDE DEF a, b
  <2> QED BY <1>4, RedSums, RedValue
<1>6. \A p : \A u : \A ks : /\ Offsets(p, op, u, ks).ind = IndOffset(p, op)
                            /\ \A h \in ks : Offsets(p, op, u, ks).off[h] = Sub(u, op.rdpf.scale[h][p])
  BY DEF Offsets
<1>7. Vector(0, op, k, x, Offsets(1, op, y, 0 .. 2)) = Vec(op, k, 0, x, y)
  BY <1>6 DEF Vector, Vec, Shift
<1>8. Vector(1, op, k, y, Offsets(0, op, x, 0 .. 2)) = Vec(op, k, 1, x, y)
  <2>1. Vector(1, op, k, y, Offsets(0, op, x, 0 .. 2)) =
          Scaled(op, k, 1, (IndOffset(1, op) + IndOffset(0, op)) % Width, Add(b(k), a(k)))
    BY <1>6 DEF Vector
  <2>2. Vec(op, k, 1, x, y) =
          Scaled(op, k, 1, (IndOffset(0, op) + IndOffset(1, op)) % Width, Add(a(k), b(k)))
    BY DEF Vec, Shift
  <2> QED BY <1>3, <1>5, <2>1, <2>2
<1>9. ASSUME NEW p \in Comp
      PROVE  TheirVector(p, op, Offsets(0, op, x, 1 .. 2), Offsets(1, op, y, 1 .. 2))
                  = Vec(op, p + 1, p, x, y)
  <2>1. p + 1 \in 1 .. 2
    BY ClassFacts
  <2> QED BY <1>6, <2>1 DEF TheirVector, Vec, Shift
<1> QED BY <1>7, <1>8, <1>9

\* Where both parties add the vectors of an update.
UpdateDone(op, x, y, v, w) ==
    /\ ValidOp(op) /\ op.kind \in Oblivious /\ x \in Values /\ y \in Values
    /\ \A p \in Comp :
         /\ w[p].db = AddAll(v[p].db, Vec(op, 0, p, x, y))
         /\ w[p].bl = SubAll(v[p].bl, Vec(op, Own(p), p, x, y))
         /\ w[p].pbd = AddAll(v[p].pbd, SubAll(Vec(op, 3 - Own(p), p, x, y),
                                               Vec(op, 0, p, x, y)))
TellOffsets(op, k, t, v) ==
    \A p \in Comp : Says(p, op, k, v[p], t, Server) = Offsets(p, op, v[p].loc[t].upd, 1 .. 2)

LEMMA UpdateEffect ==
    ASSUME NEW s, NEW C, NEW E, IsSlice(s, C, E), NEW v, NEW w, NEW got, NEW gave,
           Together(s, C, E, v, w, got, gave), JobAt(s, C) = "update"
    PROVE  /\ UpdateDone(s[C.batch][C.turn], v[0].loc[C.turn].upd, v[1].loc[C.turn].upd, v, w)
           /\ TellOffsets(s[C.batch][C.turn], C.slice[C.turn], C.turn, v)
<1> DEFINE t == C.turn
           k == C.slice[t]
<1>0. PICK op, x, y : op = s[C.batch][t] /\ x = v[0].loc[t].upd /\ y = v[1].loc[t].upd
  OBVIOUS
<1>1. PICK job, n2 : job = JobAt(s, C) /\ n2 = NextAt(s, C)
  OBVIOUS
<1>2. /\ ValidOp(op) /\ op.kind \in Oblivious /\ t \in DOMAIN C.slice
      /\ k = 4 \/ (k = 2 /\ op.kind = "oblivious_update")
      /\ op.kind \notin Explicit /\ k \in {0, 2, 4}
  BY <1>0, SliceJob, OpFacts
<1>3. ASSUME NEW p \in Comp PROVE v[p].loc[t].upd \in Values
  <2>1. PartyData(p, C, v[p])
    BY DEF Together
  <2> QED BY <1>2, <2>1 DEF PartyData, Datum
<1>4. x \in Values /\ y \in Values
  BY <1>0, <1>3, ClassFacts
<1>5. ASSUME NEW p, NEW u, NEW r
      PROVE Says(p, op, k, u, t, r) = Offsets(p, op, u.loc[t].upd, DPFsFor(r))
  <2>1. CASE k = 4
    BY <2>1 DEF Says, DPFsFor
  <2>2. CASE k = 2 /\ op.kind = "oblivious_update"
    <3>1. op.kind \notin Reading
      BY <2>2 DEF Reading
    <3> QED BY <1>2, <2>2, <3>1 DEF Says, DPFsFor
  <2> QED BY <1>2, <2>1, <2>2
<1>6. ASSUME NEW p \in Comp PROVE got[p][1 - p] = Offsets(1 - p, op, v[1 - p].loc[t].upd, 0 .. 2)
  <2>1. got[p][1 - p] = Says(1 - p, op, k, v[1 - p], t, p)
    BY <1>0, <1>2 DEF Together
  <2>2. DPFsFor(p) = 0 .. 2
    BY ClassFacts DEF DPFsFor
  <2> QED BY <1>5, <2>1, <2>2
<1>7. ASSUME NEW p \in Comp, NEW h \in 0 .. 2
      PROVE  Vector(p, op, h, v[p].loc[t].upd, got[p][1 - p]) = Vec(op, h, p, x, y)
  <2>1. CASE p = 0
    <3>1. got[p][1 - p] = Offsets(1, op, y, 0 .. 2) /\ v[p].loc[t].upd = x
      BY <1>0, <1>6, <2>1
    <3> QED BY <1>2, <1>4, <2>1, <3>1, VectorIs
  <2>2. CASE p = 1
    <3>1. got[p][1 - p] = Offsets(0, op, x, 0 .. 2) /\ v[p].loc[t].upd = y
      BY <1>0, <1>6, <2>2
    <3> QED BY <1>2, <1>4, <2>2, <3>1, VectorIs
  <2> QED BY <2>1, <2>2, ClassFacts
<1>8. ASSUME NEW p \in Comp
      PROVE  /\ w[p].db = AddAll(v[p].db, Vec(op, 0, p, x, y))
             /\ w[p].bl = SubAll(v[p].bl, Vec(op, Own(p), p, x, y))
             /\ w[p].pbd = AddAll(v[p].pbd, SubAll(Vec(op, 3 - Own(p), p, x, y),
                                                   Vec(op, 0, p, x, y)))
  <2>1. PartyRel(p, op, t, job, n2, v[p], w[p], got[p], gave[p])
    BY <1>0, <1>1 DEF Together, PartyStepAt
  <2> HIDE DEF t
  <2>2. /\ w[p].db = AddAll(v[p].db, Vector(p, op, 0, v[p].loc[t].upd, got[p][1 - p]))
        /\ w[p].bl = SubAll(v[p].bl, Vector(p, op, Own(p), v[p].loc[t].upd, got[p][1 - p]))
        /\ w[p].pbd = AddAll(v[p].pbd, SubAll(Vector(p, op, 3 - Own(p), v[p].loc[t].upd, got[p][1 - p]),
                                              Vector(p, op, 0, v[p].loc[t].upd, got[p][1 - p])))
    BY <1>1, <2>1 DEF PartyRel
  <2> QED BY <1>7, <2>2, OwnFacts
<1>9. UpdateDone(op, x, y, v, w)
  BY <1>2, <1>4, <1>8 DEF UpdateDone
<1>10. TellOffsets(op, k, t, v)
  <2>1. DPFsFor(Server) = 1 .. 2
    BY DEF DPFsFor
  <2> QED BY <1>5, <2>1 DEF TellOffsets
<1> QED BY <1>0, <1>9, <1>10

\* Where both add a share to a cell.
FinishDone(op, t, v, w) ==
    /\ ValidOp(op) /\ op.kind \in Explicit /\ op.index \in Cells
    /\ \A p \in Comp :
         LET i == op.index
             l == v[p].loc[t]
             m == v[1 - p].loc[t]
         IN  /\ l.upd \in Values /\ l.blind \in Values
             /\ w[p].db = [v[p].db EXCEPT ![i] = Add(@, l.upd)]
             /\ w[p].bl = [v[p].bl EXCEPT ![i] = Add(@, l.blind)]
             /\ w[p].pbd = [v[p].pbd EXCEPT ![i] = Add(@, Add(m.upd, m.blind))]
TellBlinds(op, k, t, v) ==
    \A p \in Comp : Says(p, op, k, v[p], t, Server) = v[p].loc[t].blind

LEMMA FinishEffect ==
    ASSUME NEW s, NEW C, NEW E, IsSlice(s, C, E), NEW v, NEW w, NEW got, NEW gave,
           Together(s, C, E, v, w, got, gave), JobAt(s, C) = "finish"
    PROVE  /\ FinishDone(s[C.batch][C.turn], C.turn, v, w)
           /\ TellBlinds(s[C.batch][C.turn], C.slice[C.turn], C.turn, v)
<1> DEFINE t == C.turn
           k == C.slice[t]
<1>0. PICK op, i : op = s[C.batch][t] /\ i = op.index
  OBVIOUS
<1>1. PICK job, n2 : job = JobAt(s, C) /\ n2 = NextAt(s, C)
  OBVIOUS
<1>2. /\ ValidOp(op) /\ op.kind \in Explicit /\ t \in DOMAIN C.slice /\ k = 2
      /\ op.kind \notin Reading /\ op.kind # "oblivious_update"
  <2>1. ValidOp(op) /\ op.kind \in Explicit /\ t \in DOMAIN C.slice /\ k = 2
    BY <1>0, SliceJob
  <2> QED BY <2>1 DEF Explicit, Reading
<1>3. i \in Cells
  BY <1>0, <1>2, OpFacts
<1>4. ASSUME NEW p \in Comp PROVE v[p].loc[t].upd \in Values /\ v[p].loc[t].blind \in Values
  <2>1. PartyData(p, C, v[p])
    BY DEF Together
  <2> QED BY <1>2, <2>1 DEF PartyData, Datum
<1>5. ASSUME NEW p, NEW u, NEW r
      PROVE Says(p, op, k, u, t, r) =
              IF r = Server THEN u.loc[t].blind ELSE Add(u.loc[t].upd, u.loc[t].blind)
  <2> HIDE DEF t, k
  <2> QED BY <1>2 DEF Says
<1>6. ASSUME NEW p \in Comp
      PROVE  got[p][1 - p] = Add(v[1 - p].loc[t].upd, v[1 - p].loc[t].blind)
  <2>1. got[p][1 - p] = Says(1 - p, op, k, v[1 - p], t, p)
    BY <1>0, <1>2 DEF Together
  <2> QED BY <1>5, <2>1, AwaitedFrom
<1>7. ASSUME NEW p \in Comp
      PROVE  /\ w[p].db = [v[p].db EXCEPT ![i] = Add(@, v[p].loc[t].upd)]
             /\ w[p].bl = [v[p].bl EXCEPT ![i] = Add(@, v[p].loc[t].blind)]
             /\ w[p].pbd = [v[p].pbd EXCEPT ![i] = Add(@, got[p][1 - p])]
  <2>1. PartyRel(p, op, t, job, n2, v[p], w[p], got[p], gave[p])
    BY <1>0, <1>1 DEF Together, PartyStepAt
  <2> HIDE DEF t
  <2>2. job = "finish"
    BY <1>1
  <2>3. w[p].db = [v[p].db EXCEPT ![i] = Add(@, v[p].loc[t].upd)]
    BY <1>0, <2>1, <2>2 DEF PartyRel
  <2>4. w[p].bl = [v[p].bl EXCEPT ![i] = Add(@, v[p].loc[t].blind)]
    BY <1>0, <2>1, <2>2 DEF PartyRel
  <2>5. w[p].pbd = [v[p].pbd EXCEPT ![i] = Add(@, got[p][1 - p])]
    BY <1>0, <2>1, <2>2 DEF PartyRel
  <2> QED BY <2>3, <2>4, <2>5
<1>8. ASSUME NEW p \in Comp
      PROVE  w[p].pbd = [v[p].pbd EXCEPT ![i] = Add(@, Add(v[1 - p].loc[t].upd, v[1 - p].loc[t].blind))]
  BY <1>6, <1>7
<1>9. TellBlinds(op, k, t, v)
  BY <1>5 DEF TellBlinds
<1>10. FinishDone(op, t, v, w)
  <2> HIDE DEF t, k
  <2>1. ASSUME NEW p \in Comp
        PROVE  LET l == v[p].loc[t]
                   m == v[1 - p].loc[t]
               IN  /\ l.upd \in Values /\ l.blind \in Values
                   /\ w[p].db = [v[p].db EXCEPT ![op.index] = Add(@, l.upd)]
                   /\ w[p].bl = [v[p].bl EXCEPT ![op.index] = Add(@, l.blind)]
                   /\ w[p].pbd = [v[p].pbd EXCEPT ![op.index] = Add(@, Add(m.upd, m.blind))]
    BY <1>0, <1>4, <1>7, <1>8, Zenon
  <2>2. ValidOp(op) /\ op.kind \in Explicit /\ op.index \in Cells
    BY <1>0, <1>2, <1>3
  <2> QED BY <2>1, <2>2 DEF FinishDone
<1> QED BY <1>0, <1>9, <1>10

\* Where the memory is blinded anew.
RefreshDone(v, w) ==
    \A p \in Comp : /\ w[p].db = v[p].db /\ w[p].bl = v[p].bl
                    /\ w[p].pbd = AddAll(v[1 - p].db, v[1 - p].bl)
TellBlind(op, k, t, v) == \A p \in Comp : Says(p, op, k, v[p], t, Server) = v[p].bl

LEMMA RefreshEffect ==
    ASSUME NEW s, NEW C, NEW E, IsSlice(s, C, E), NEW v, NEW w, NEW got, NEW gave,
           Together(s, C, E, v, w, got, gave), JobAt(s, C) = "refresh"
    PROVE  RefreshDone(v, w) /\ TellBlind(s[C.batch][C.turn], C.slice[C.turn], C.turn, v)
<1> DEFINE t == C.turn
           k == C.slice[t]
<1>0. PICK op : op = s[C.batch][t]
  OBVIOUS
<1>1. PICK job, n2 : job = JobAt(s, C) /\ n2 = NextAt(s, C)
  OBVIOUS
<1>2. k = 0
  BY <1>0, SliceJob
<1>3. ASSUME NEW p, NEW u, NEW r
      PROVE Says(p, op, k, u, t, r) = IF r = Server THEN u.bl ELSE AddAll(u.db, u.bl)
  BY <1>2 DEF Says
<1>4. ASSUME NEW p \in Comp
      PROVE  /\ w[p].db = v[p].db /\ w[p].bl = v[p].bl
             /\ w[p].pbd = AddAll(v[1 - p].db, v[1 - p].bl)
  <2>1. PartyRel(p, op, t, job, n2, v[p], w[p], got[p], gave[p])
    BY <1>0, <1>1 DEF Together, PartyStepAt
  <2>2. got[p][1 - p] = Says(1 - p, op, k, v[1 - p], t, p)
    BY <1>0, <1>2 DEF Together
  <2>3. got[p][1 - p] = AddAll(v[1 - p].db, v[1 - p].bl)
    BY <1>3, <2>2, AwaitedFrom
  <2> QED BY <1>1, <2>1, <2>3 DEF PartyRel
<1>5. RefreshDone(v, w)
  BY <1>4 DEF RefreshDone
<1>6. TellBlind(op, k, t, v)
  BY <1>3 DEF TellBlind
<1> QED BY <1>0, <1>5, <1>6

\* Where the databases stay.
SameMemory(v, w) ==
    \A p \in Comp : /\ w[p].db = v[p].db /\ w[p].bl = v[p].bl /\ w[p].pbd = v[p].pbd

LEMMA OtherEffect ==
    ASSUME NEW s, NEW C, NEW E, NEW v, NEW w, NEW got, NEW gave,
           Together(s, C, E, v, w, got, gave),
           JobAt(s, C) \notin {"local", "finish", "update", "refresh", "reblind"}
    PROVE  SameMemory(v, w)
<1>1. PICK job, n2, op : job = JobAt(s, C) /\ n2 = NextAt(s, C) /\ op = s[C.batch][C.turn]
  BY Zenon
<1>2. ASSUME NEW p \in Comp
      PROVE  w[p].db = v[p].db /\ w[p].bl = v[p].bl /\ w[p].pbd = v[p].pbd
  <2>1. PartyRel(p, op, C.turn, job, n2, v[p], w[p], got[p], gave[p])
    BY <1>1 DEF Together, PartyStepAt
  <2> QED BY <1>1, <2>1, Zenon DEF PartyRel
<1> QED BY <1>2 DEF SameMemory

-----------------------------------------------------------------------------
(* Blinds and blinded databases.                                           *)

\* Not in explicit-only mode, nor about to receive new blinds.
Calm(C) == ~ C.mode /\ \A c \in DOMAIN C.slice : C.slice[c] # 0

LEMMA CalmBefore ==
    ASSUME NEW s, NEW C, NEW E, IsSlice(s, C, E), Calm(E)
    PROVE  /\ JobAt(s, C) \notin {"local", "reblind"}
           /\ JobAt(s, C) = "refresh" \/ Calm(C)
<1> DEFINE t == C.turn
           op == s[C.batch][t]
           k == C.slice[t]
<1>1. PICK job, n2, m2 : /\ job = Job(op, k, C.mode) /\ n2 = NextSlice(op, k, C.mode)
                         /\ m2 = NextMode(op, k, C.mode)
  OBVIOUS
<1>2. /\ ValidOp(op) /\ k \in Slices /\ k # Finished /\ OpSlice(op, k)
      /\ C.mode \in BOOLEAN /\ (C.mode /\ LeavesMode(op) => k = 1)
      /\ E.slice = [C.slice EXCEPT ![t] = n2] /\ E.mode = m2
      /\ t \in DOMAIN C.slice /\ DOMAIN E.slice = DOMAIN C.slice
  BY <1>1 DEF IsSlice
<1>3. E.slice[t] = n2 /\ \A c \in DOMAIN C.slice : c # t => E.slice[c] = C.slice[c]
  BY <1>2
<1>4. ~ m2 /\ n2 # 0 /\ \A c \in DOMAIN C.slice : c # t => C.slice[c] # 0
  BY <1>2, <1>3 DEF Calm
<1>5. JobAt(s, C) = job
  BY <1>1 DEF JobAt
<1> HIDE DEF op, k, t
<1>7. PICK o, l : o = op /\ l = k
  OBVIOUS
<1>6. job \notin {"local", "reblind"} /\ (job = "refresh" \/ (~ C.mode /\ k # 0))
  <2>1. CASE job = "nothing"
    <3>1. k = 1 /\ op.kind \in {"explicitonly", "reblind"}
      <4>1. PICK m : m = C.mode
        OBVIOUS
      <4>2. ValidOp(o) /\ l \in Slices /\ l # Finished /\ OpSlice(o, l) /\ m \in BOOLEAN
        BY <1>2, <1>7, <4>1
      <4>3. /\ job = Job(o, l, m) /\ n2 = NextSlice(o, l, m) /\ m2 = NextMode(o, l, m)
            /\ m /\ LeavesMode(o) => l = 1
        BY <1>1, <1>2, <1>7, <4>1
      <4>4. l = 1 /\ o.kind \in {"explicitonly", "reblind"}
        BY <2>1, <4>2, <4>3, JobFacts
      <4> QED BY <1>7, <4>4
    <3>2. op.kind = "reblind"
      BY <1>1, <1>4, <3>1 DEF NextMode
    <3>3. Job(o, 1, C.mode) = IF C.mode THEN "reblind" ELSE "nothing"
      <4>1. o.kind = "reblind"
        BY <1>7, <3>2
      <4> QED BY <4>1 DEF Job, Explicit, Reading
    <3>4. job = IF C.mode THEN "reblind" ELSE "nothing"
      BY <1>1, <1>7, <3>1, <3>3
    <3> QED BY <2>1, <3>1, <3>4
  <2>2. CASE job # "nothing"
    BY <1>1, <1>2, <1>4, <2>2, JobFacts
  <2> QED BY <2>1, <2>2
<1> QED BY <1>4, <1>5, <1>6 DEF Calm, k, t

StillBlinded(a, b, c, d, e, f) == Add(Add(a, b), Sub(c, d)) = Add(Add(a, e), Sub(b, f))

LEMMA Reblinds ==
    ASSUME NEW a \in Values, NEW b \in Values, NEW c \in Values, NEW d \in Values,
           NEW e \in Values, NEW f \in Values, Add(c, f) = Add(d, e)
    PROVE  StillBlinded(a, b, c, d, e, f)
<1>1. /\ a \in Int /\ b \in Int /\ c \in Int /\ d \in Int /\ e \in Int /\ f \in Int
      /\ Red(a) = a /\ Red(b) = b /\ Red(c) = c /\ Red(d) = d /\ Red(e) = e /\ Red(f) = f
  BY RedValue
<1>2. Sub(c, d) = Sub(e, f)
  <2>1. Add(c, f) = Red(c + f) /\ Add(d, e) = Red(d + e) /\ c + f \in Int /\ d + e \in Int
        /\ d + f \in Int
    BY <1>1, RedSums
  <2>2. Sub(Red(c + f), Red(d + f)) = Red((c + f) - (d + f))
        /\ Sub(Red(d + e), Red(d + f)) = Red((d + e) - (d + f))
    BY <2>1, RedSums
  <2>3. (c + f) - (d + f) = c - d /\ (d + e) - (d + f) = e - f
    BY <1>1
  <2>4. Sub(c, d) = Red(c - d) /\ Sub(e, f) = Red(e - f)
    BY <1>1, RedSums
  <2> QED BY <2>1, <2>2, <2>3, <2>4
<1>3. Add(a, b) = Red(a + b) /\ Sub(e, f) = Red(e - f) /\ Add(a, e) = Red(a + e)
      /\ Sub(b, f) = Red(b - f)
  BY <1>1, RedSums
<1>4. /\ Add(Add(a, b), Sub(e, f)) = Red((a + b) + (e - f))
      /\ Add(Add(a, e), Sub(b, f)) = Red((a + e) + (b - f))
  BY <1>1, <1>3, RedSums
<1>5. (a + b) + (e - f) = (a + e) + (b - f)
  BY <1>1
<1> QED BY <1>2, <1>4, <1>5 DEF StillBlinded

\* Each party's copy of its peer's blinded database.
PBDMatches(v) == \A p \in Comp : v[p].pbd = AddAll(v[1 - p].db, v[1 - p].bl)
SBLMatches(u, v) == \A p \in Comp : u.sbl[p] = v[p].bl

LEMMA PairBlinds ==
    ASSUME NEW s, NEW C, NEW E, IsSlice(s, C, E), NEW v, NEW w, NEW got, NEW gave,
           Together(s, C, E, v, w, got, gave), Calm(E), Calm(C) => PBDMatches(v)
    PROVE  PBDMatches(w)
<1>1. PICK job, op : job = JobAt(s, C) /\ op = s[C.batch][C.turn]
  OBVIOUS
<1>2. job \notin {"local", "reblind"} /\ (job # "refresh" => PBDMatches(v))
  BY <1>1, CalmBefore
<1>3. CASE job = "refresh"
  <2>1. RefreshDone(v, w)
    BY <1>1, <1>3, RefreshEffect
  <2> QED BY <2>1, AwaitedFrom DEF PBDMatches, RefreshDone
<1>4. CASE job = "finish"
  <2>1. PICK i : i = op.index
    OBVIOUS
  <2>2. FinishDone(op, C.turn, v, w) /\ i \in Cells
    <3>1. FinishDone(op, C.turn, v, w)
      BY <1>1, <1>4, FinishEffect
    <3> QED BY <2>1, <3>1 DEF FinishDone
  <2>3. ASSUME NEW p \in Comp PROVE w[p].pbd = AddAll(w[1 - p].db, w[1 - p].bl)
    <3>1. PICK q, l, m : q = 1 - p /\ l = v[p].loc[C.turn] /\ m = v[q].loc[C.turn]
      OBVIOUS
    <3>2. q \in Comp /\ 1 - q = p
      BY <3>1, ClassFacts
    <3>3. /\ m.upd \in Values /\ m.blind \in Values
          /\ w[q].db = [v[q].db EXCEPT ![i] = Add(@, m.upd)]
          /\ w[q].bl = [v[q].bl EXCEPT ![i] = Add(@, m.blind)]
      BY <2>1, <2>2, <3>1, <3>2 DEF FinishDone
    <3>4. w[p].pbd = [v[p].pbd EXCEPT ![i] = Add(@, Add(m.upd, m.blind))]
      BY <2>1, <2>2, <3>1, <3>2 DEF FinishDone
    <3>5. v[p].pbd = AddAll(v[q].db, v[q].bl) /\ v[q].db \in Column /\ v[q].bl \in Column
      BY <1>2, <1>4, <3>1, <3>2 DEF PBDMatches, Together, PartyData
    <3>6. PICK a, b : a = v[q].db /\ b = v[q].bl
      OBVIOUS
    <3>7. a[i] \in Values /\ b[i] \in Values
      BY <2>2, <3>5, <3>6 DEF Column
    <3>8. Add(Add(a[i], b[i]), Add(m.upd, m.blind)) = Add(Add(a[i], m.upd), Add(b[i], m.blind))
      BY <3>3, <3>7, Exchange
    <3>9. [AddAll(a, b) EXCEPT ![i] = Add(@, Add(m.upd, m.blind))]
            = AddAll([a EXCEPT ![i] = Add(@, m.upd)], [b EXCEPT ![i] = Add(@, m.blind)])
      BY <2>2, <3>5, <3>6, <3>8 DEF AddAll, Column
    <3> QED BY <3>1, <3>3, <3>4, <3>5, <3>6, <3>9
  <2> QED BY <2>3 DEF PBDMatches
<1>5. CASE job = "update"
  <2>1. PICK x, y : x = v[0].loc[C.turn].upd /\ y = v[1].loc[C.turn].upd
    OBVIOUS
  <2>2. /\ ValidOp(op) /\ op.kind \in Oblivious /\ x \in Values /\ y \in Values
        /\ \A p \in Comp :
                /\ w[p].db = AddAll(v[p].db, Vec(op, 0, p, x, y))
                /\ w[p].bl = SubAll(v[p].bl, Vec(op, Own(p), p, x, y))
                /\ w[p].pbd = AddAll(v[p].pbd, SubAll(Vec(op, 3 - Own(p), p, x, y),
                                                      Vec(op, 0, p, x, y)))
    <3>1. UpdateDone(op, x, y, v, w)
      BY <1>1, <1>5, <2>1, UpdateEffect
    <3> QED BY <3>1 DEF UpdateDone
  <2>3. ASSUME NEW p \in Comp PROVE w[p].pbd = AddAll(w[1 - p].db, w[1 - p].bl)
    <3>1. PICK q, k : q = 1 - p /\ k = Own(q)
      OBVIOUS
    <3>2. q \in Comp /\ 1 - q = p /\ 3 - Own(p) = k /\ k \in 0 .. 2
      BY <3>1, OwnFacts, ClassFacts
    <3>3. PICK a, b, c, d, e, f :
             /\ a = v[q].db /\ b = v[q].bl /\ c = Vec(op, k, p, x, y) /\ d = Vec(op, 0, p, x, y)
             /\ e = Vec(op, 0, q, x, y) /\ f = Vec(op, k, q, x, y)
      OBVIOUS
    <3>4. /\ w[q].db = AddAll(a, e) /\ w[q].bl = SubAll(b, f)
          /\ w[p].pbd = AddAll(v[p].pbd, SubAll(c, d))
      BY <2>2, <3>1, <3>2, <3>3
    <3>5. v[p].pbd = AddAll(a, b) /\ a \in Column /\ b \in Column
      BY <1>2, <1>5, <3>1, <3>2, <3>3 DEF PBDMatches, Together, PartyData
    <3>10. VecsShare(op, k, x, y) /\ VecsShare(op, 0, x, y)
      <4>1. 0 \in 0 .. 2
        OBVIOUS
      <4> QED BY <2>2, <3>2, <4>1, ScaledShares
    <3>6. c \in Column /\ d \in Column /\ e \in Column /\ f \in Column
      BY <3>2, <3>3, <3>10 DEF Column, VecsShare
    <3>7. ASSUME NEW i \in Cells PROVE Add(c[i], f[i]) = Add(d[i], e[i])
      <4>1. /\ Add(Vec(op, k, 0, x, y)[i], Vec(op, k, 1, x, y)[i]) =
                 IF i = Cell(op) THEN Add(x, y) ELSE 0
            /\ Add(Vec(op, 0, 0, x, y)[i], Vec(op, 0, 1, x, y)[i]) =
                 IF i = Cell(op) THEN Add(x, y) ELSE 0
        BY <3>10 DEF VecsShare
      <4>2. c[i] \in Values /\ d[i] \in Values /\ e[i] \in Values /\ f[i] \in Values
        BY <3>6 DEF Column
      <4>3. Add(c[i], f[i]) = Add(f[i], c[i]) /\ Add(d[i], e[i]) = Add(e[i], d[i])
        BY <4>2, AddCommutes
      <4>4. (p = 0 /\ q = 1) \/ (p = 1 /\ q = 0)
        BY <3>1, ClassFacts
      <4> QED BY <3>3, <4>1, <4>3, <4>4
    <3>8. ASSUME NEW i \in Cells
          PROVE  Add(Add(a[i], b[i]), Sub(c[i], d[i])) = Add(Add(a[i], e[i]), Sub(b[i], f[i]))
      <4>1. /\ a[i] \in Values /\ b[i] \in Values /\ c[i] \in Values /\ d[i] \in Values
            /\ e[i] \in Values /\ f[i] \in Values
        BY <3>5, <3>6 DEF Column
      <4>2. StillBlinded(a[i], b[i], c[i], d[i], e[i], f[i])
        BY <3>7, <4>1, Reblinds
      <4> QED BY <4>2 DEF StillBlinded
    <3>9. AddAll(AddAll(a, b), SubAll(c, d)) = AddAll(AddAll(a, e), SubAll(b, f))
      BY <3>8 DEF AddAll, SubAll
    <3> QED BY <3>1, <3>4, <3>5, <3>9
  <2> QED BY <2>3 DEF PBDMatches
<1>6. CASE job \notin {"local", "finish", "update", "refresh", "reblind"}
  <2>1. SameMemory(v, w)
    BY <1>1, <1>6, OtherEffect
  <2> QED BY <1>2, <1>6, <2>1, AwaitedFrom DEF PBDMatches, SameMemory
<1> QED BY <1>2, <1>3, <1>4, <1>5, <1>6

\* The server's copies of the blinds.
LEMMA ServersBlinds ==
    ASSUME NEW s, NEW C, NEW E, IsSlice(s, C, E), NEW v, NEW w, NEW got, NEW gave,
           Together(s, C, E, v, w, got, gave), Calm(E),
           NEW op, op = s[C.batch][C.turn], NEW u, ServerData(u), NEW z, NEW mine, NEW said,
           ServerRel(op, JobAt(s, C), u, z, mine, said),
           \A p \in Comp : C.slice[C.turn] \in {0, 2, 4} =>
              mine[p] = Says(p, op, C.slice[C.turn], v[p], C.turn, Server),
           Calm(C) => SBLMatches(u, v)
    PROVE  SBLMatches(z, w)
<1>1. PICK job, k : job = JobAt(s, C) /\ k = C.slice[C.turn]
  OBVIOUS
<1>2. job \notin {"local", "reblind"} /\ (job # "refresh" => SBLMatches(u, v))
  BY <1>1, CalmBefore
<1>3. ServerRel(op, job, u, z, mine, said)
  BY <1>1
<1>4. job \in {"refresh", "finish", "update"} => k \in {0, 2, 4}
  BY <1>1, SliceJob
<1>5. CASE job = "refresh"
  <2>1. z.sbl = [p \in Comp |-> mine[p]]
    BY <1>3, <1>5, Zenon DEF ServerRel
  <2>2. \A p \in Comp : w[p].bl = v[p].bl /\ Says(p, op, k, v[p], C.turn, Server) = v[p].bl
    <3>1. RefreshDone(v, w) /\ TellBlind(op, k, C.turn, v)
      BY <1>1, <1>5, RefreshEffect, Zenon
    <3> QED BY <3>1 DEF RefreshDone, TellBlind
  <2> QED BY <1>1, <1>4, <1>5, <2>1, <2>2, Zenon DEF SBLMatches
<1>6. CASE job = "finish"
  <2>1. z.sbl = [p \in Comp |-> [u.sbl[p] EXCEPT ![op.index] = Add(@, mine[p])]]
    BY <1>3, <1>6, Zenon DEF ServerRel
  <2>2. ASSUME NEW p \in Comp
        PROVE  /\ w[p].bl = [v[p].bl EXCEPT ![op.index] = Add(@, v[p].loc[C.turn].blind)]
               /\ mine[p] = v[p].loc[C.turn].blind
    <3>3. FinishDone(op, C.turn, v, w) /\ TellBlinds(op, k, C.turn, v)
      BY <1>1, <1>6, FinishEffect
    <3>1. Says(p, op, k, v[p], C.turn, Server) = v[p].loc[C.turn].blind
      BY <3>3 DEF TellBlinds
    <3>4. mine[p] = Says(p, op, k, v[p], C.turn, Server)
      BY <1>1, <1>4, <1>6, Zenon
    <3>2. w[p].bl = [v[p].bl EXCEPT ![op.index] = Add(@, v[p].loc[C.turn].blind)]
      BY <3>3, Zenon DEF FinishDone
    <3> QED BY <3>1, <3>2, <3>4
  <2>3. ASSUME NEW p \in Comp PROVE z.sbl[p] = w[p].bl
    <3>1. PICK i, a : i = op.index /\ a = mine[p]
      BY Zenon
    <3>2. z.sbl[p] = [u.sbl[p] EXCEPT ![i] = Add(@, a)]
      BY <2>1, <3>1, Zenon
    <3>3. u.sbl[p] = v[p].bl
      BY <1>2, <1>6 DEF SBLMatches
    <3>4. w[p].bl = [v[p].bl EXCEPT ![i] = Add(@, a)]
      BY <2>2, <3>1
    <3> QED BY <3>2, <3>3, <3>4
  <2> QED BY <2>3 DEF SBLMatches
<1>7. CASE job = "update"
  <2>1. z.sbl = [p \in Comp |-> SubAll(u.sbl[p], TheirVector(p, op, mine[0], mine[1]))]
    BY <1>3, <1>7, Zenon DEF ServerRel
  <2>2. PICK x, y : x = v[0].loc[C.turn].upd /\ y = v[1].loc[C.turn].upd
    OBVIOUS
  <2>3. /\ ValidOp(op) /\ op.kind \in Oblivious /\ x \in Values /\ y \in Values
        /\ \A p \in Comp : w[p].bl = SubAll(v[p].bl, Vec(op, Own(p), p, x, y))
    <3>1. UpdateDone(op, x, y, v, w)
      BY <1>1, <1>7, <2>2, UpdateEffect
    <3> QED BY <3>1 DEF UpdateDone
  <2>4. \A p \in Comp : mine[p] = Offsets(p, op, v[p].loc[C.turn].upd, 1 .. 2)
    <3>1. TellOffsets(op, k, C.turn, v)
      BY <1>1, <1>7, UpdateEffect
    <3> QED BY <1>1, <1>4, <1>7, <3>1 DEF TellOffsets
  <2>5. mine[0] = Offsets(0, op, x, 1 .. 2) /\ mine[1] = Offsets(1, op, y, 1 .. 2)
    BY <2>2, <2>4, ClassFacts
  <2>6. \A p \in Comp : TheirVector(p, op, mine[0], mine[1]) = Vec(op, Own(p), p, x, y)
    <3>1. 0 \in 0 .. 2
      OBVIOUS
    <3> QED BY <2>3, <2>5, <3>1, VectorIs, OwnFacts
  <2> QED BY <1>2, <1>7, <2>1, <2>3, <2>6 DEF SBLMatches
<1>8. CASE job \notin {"local", "finish", "update", "refresh", "reblind"}
  <2>1. \A p \in Comp : w[p].bl = v[p].bl
    <3>1. SameMemory(v, w)
      BY <1>1, <1>8, OtherEffect, Zenon
    <3> QED BY <3>1 DEF SameMemory
  <2>2. z.sbl = u.sbl
    BY <1>3, <1>8, Zenon DEF ServerRel
  <2> QED BY <1>2, <1>8, <2>1, <2>2 DEF SBLMatches
<1> QED BY <1>2, <1>5, <1>6, <1>7, <1>8

\* After j steps.
BlindsMatch(n, G, D, j) ==
    Calm(G[j]) =>
      /\ Both(n, j) => PBDMatches(Pair(D, j))
      /\ Both(n, j) /\ j <= n[Server] => SBLMatches(D[Server][j], Pair(D, j))

LEMMA ZeroSum == AddAll(Zero, Zero) = Zero
<1>1. Add(0, 0) = 0
  <2>1. M \in Nat /\ M > 0
    BY RingAssumption
  <2> QED BY <2>1 DEF Add
<1> QED BY <1>1 DEF AddAll, Zero

LEMMA BlindsStart ==
    ASSUME NEW s, NEW n, NEW G, NEW D, NEW K, Log(s, n, G, D, K)
    PROVE  BlindsMatch(n, G, D, 0)
<1>1. \A p \in Comp : /\ Start(s, p, D[p][0]) /\ p # Server /\ 1 - p \in Comp
                      /\ Pair(D, 0)[p] = D[p][0]
  BY ClassFacts, AwaitedFrom DEF Log, Pair
<1>2. Start(s, Server, D[Server][0])
  BY ClassFacts DEF Log
<1>3. \A p \in Comp : /\ Pair(D, 0)[p].db = Zero /\ Pair(D, 0)[p].bl = Zero
                      /\ Pair(D, 0)[p].pbd = Zero
  BY <1>1 DEF Start
<1>4. D[Server][0].sbl = [p \in Comp |-> Zero]
  BY <1>2 DEF Start
<1>5. PBDMatches(Pair(D, 0))
  BY <1>1, <1>3, ZeroSum DEF PBDMatches
<1>6. SBLMatches(D[Server][0], Pair(D, 0))
  BY <1>3, <1>4 DEF SBLMatches
<1> QED BY <1>5, <1>6 DEF BlindsMatch

\* Between slices.
LEMMA CalmIdle ==
    ASSUME NEW s \in Scripts, NEW C, ControlInv(s, C), ~ AtSlice(s, C), Calm(Succ(s, C))
    PROVE  Calm(C)
<1>1. CASE Succ(s, C) = AfterPass(s, C)
  <2>1. PICK E : E = Succ(s, C)
    OBVIOUS
  <2>2. E.mode = C.mode /\ (~ AllFinished(C) => E.slice = C.slice)
    BY <1>1, <2>1 DEF AfterPass
  <2>3. AllFinished(C) => \A c \in DOMAIN C.slice : C.slice[c] # 0
    BY DEF AllFinished, Finished
  <2>4. CASE AllFinished(C)
    BY <2>1, <2>2, <2>3, <2>4 DEF Calm
  <2>5. CASE ~ AllFinished(C)
    BY <2>1, <2>2, <2>5 DEF Calm
  <2> QED BY <2>4, <2>5
<1>2. CASE Succ(s, C) = AfterSkip(C)
  BY <1>2 DEF Calm, AfterSkip
<1>3. CASE Succ(s, C) = C
  BY <1>3
<1> QED BY <1>1, <1>2, <1>3, SuccCases

\* After a step that is not a slice the memory is what it was.
LEMMA PairIdle ==
    ASSUME NEW s, NEW n, NEW G, NEW D, NEW K, Log(s, n, G, D, K),
           NEW j \in Nat, Both(n, j + 1), ~ AtSlice(s, G[j])
    PROVE  /\ SameMemory(Pair(D, j), Pair(D, j + 1)) /\ Both(n, j)
           /\ D[0][j + 1].mem = D[0][j].mem
           /\ j + 1 <= n[Server] => j <= n[Server] /\ D[Server][j + 1].sbl = D[Server][j].sbl
<1>1. n \in [Players -> Nat]
  BY DEF Log
<1>2. ASSUME NEW p \in Comp PROVE j < n[p] /\ j <= n[p] /\ p \in Players
  BY <1>1, ClassFacts DEF Both
<1>3. j + 1 <= n[Server] => j < n[Server] /\ j <= n[Server]
  BY <1>1, ClassFacts
<1>4. \A p \in Comp : Pair(D, j)[p] = D[p][j] /\ Pair(D, j + 1)[p] = D[p][j + 1]
  BY DEF Pair
<1>5. SameMemory(Pair(D, j), Pair(D, j + 1))
  BY <1>2, <1>4, IdleStep DEF SameMemory
<1>6. 0 \in Comp /\ 1 \in Comp /\ Server \in Players
  BY ClassFacts
<1> QED BY <1>2, <1>3, <1>5, <1>6, IdleStep DEF Both

LEMMA BlindsStep ==
    ASSUME NEW s, NEW n, NEW G, NEW D, NEW K, Log(s, n, G, D, K),
           NEW j \in Nat, BlindsMatch(n, G, D, j)
    PROVE  BlindsMatch(n, G, D, j + 1)
<1>1. SUFFICES ASSUME Calm(G[j + 1]), Both(n, j + 1)
               PROVE  /\ PBDMatches(Pair(D, j + 1))
                      /\ j + 1 <= n[Server] => SBLMatches(D[Server][j + 1], Pair(D, j + 1))
  BY DEF BlindsMatch
<1>2. PICK C, E, v, w, u, z :
         /\ C = G[j] /\ E = G[j + 1] /\ v = Pair(D, j) /\ w = Pair(D, j + 1)
         /\ u = D[Server][j] /\ z = D[Server][j + 1]
  OBVIOUS
<1>3. /\ s \in Scripts /\ ControlInv(s, C) /\ E = Succ(s, C) /\ n \in [Players -> Nat]
      /\ Calm(E)
  BY <1>1, <1>2 DEF Log, IsRun
<1>4. Both(n, j) /\ (j + 1 <= n[Server] => j < n[Server] /\ j <= n[Server])
  BY <1>1, <1>3, ClassFacts DEF Both
<1>5. /\ Calm(C) => PBDMatches(v)
      /\ Calm(C) /\ j + 1 <= n[Server] => SBLMatches(u, v)
  BY <1>2, <1>4 DEF BlindsMatch
<1>6. CASE ~ AtSlice(s, C)
  <2>1. Calm(C)
    BY <1>3, <1>6, CalmIdle
  <2>2. SameMemory(v, w) /\ (j + 1 <= n[Server] => z.sbl = u.sbl)
    BY <1>1, <1>2, <1>6, PairIdle
  <2>3. PBDMatches(w)
    BY <1>5, <2>1, <2>2, AwaitedFrom DEF PBDMatches, SameMemory
  <2>4. j + 1 <= n[Server] => SBLMatches(z, w)
    BY <1>5, <2>1, <2>2 DEF SBLMatches, SameMemory
  <2> QED BY <1>2, <2>3, <2>4
<1>7. CASE AtSlice(s, C)
  <2>1. PICK got, gave : IsSlice(s, C, E) /\ Together(s, C, E, v, w, got, gave)
    BY <1>1, <1>2, <1>7, TogetherStep
  <2>2. PBDMatches(w)
    BY <1>3, <1>5, <2>1, PairBlinds
  <2>3. ASSUME j + 1 <= n[Server] PROVE SBLMatches(z, w)
    <3>1. PICK op, k, mine, said :
             /\ op = s[C.batch][C.turn] /\ k = C.slice[C.turn]
             /\ mine = Heard(Server, C, K) /\ said = Told(Server, C.turn, E, K)
      OBVIOUS
    <3>2. StepRel(s, Server, C, u, z, mine, said)
      BY <1>2, <1>4, <2>3, <3>1, StepTaken, ClassFacts
    <3>3. ServerRel(op, JobAt(s, C), u, z, mine, said)
      BY <1>7, <3>1, <3>2 DEF StepRel, JobAt
    <3>4. ServerData(u)
      BY <1>2, <1>4, <2>3, AlwaysTyped DEF Typed
    <3>5. ASSUME NEW p \in Comp, k \in {0, 2, 4}
          PROVE  mine[p] = Says(p, op, k, v[p], C.turn, Server)
      <4>1. Server \in Players \ {p} /\ j <= n[p] /\ v[p] = D[p][j]
        BY <1>2, <1>4, ClassFacts, AwaitedFrom DEF Both, Pair
      <4> QED BY <1>2, <1>7, <3>1, <3>5, <4>1, HeardIsSaid
    <3> QED BY <1>3, <1>5, <2>1, <2>3, <3>1, <3>3, <3>4, <3>5, ServersBlinds
  <2> QED BY <1>2, <2>2, <2>3
<1> QED BY <1>6, <1>7

LEMMA AlwaysBlinds ==
    ASSUME NEW s, NEW n, NEW G, NEW D, NEW K, Log(s, n, G, D, K)
    PROVE  \A j \in Nat : BlindsMatch(n, G, D, j)
<1> DEFINE S == {j \in Nat : BlindsMatch(n, G, D, j)}
<1>1. 0 \in S
  BY BlindsStart
<1>2. \A j \in Nat : j \in S => j + 1 \in S
  BY BlindsStep
<1> HIDE DEF S
<1>3. \A j \in Nat : j \in S
  BY <1>1, <1>2, SetInduction
<1> QED BY <1>3 DEF S

-----------------------------------------------------------------------------
(* Players at the same place have taken the same steps, but for one that   *)
(* comes to the first slice of its batch again, out of explicit-only mode. *)

Returned(s, C, E) ==
    /\ ~ Ended(s, C) /\ E.batch = C.batch /\ C.mode /\ ~ E.mode
    /\ E.turn = C.turn /\ E.slice = C.slice /\ \A c \in DOMAIN C.slice : C.slice[c] = 1

LEMMA AheadAt ==
    ASSUME NEW n, NEW G, NEW D, NEW K, Trace(n, G, D, K), NEW q \in Players, NEW r \in Players,
           Place(q) = Place(r), n[q] < n[r]
    PROVE  Returned(script, G[n[q]], G[n[r]])
<1>1. PICK i, j, C, E : i = n[q] /\ j = n[r] /\ C = G[i] /\ E = G[j]
  OBVIOUS
<1>2. /\ script \in Scripts /\ IsRun(script, G) /\ i \in Nat /\ j \in Nat /\ i < j
      /\ batch[q] = C.batch /\ turn[q] = C.turn /\ slice[q] = C.slice
      /\ batch[r] = E.batch /\ turn[r] = E.turn /\ slice[r] = E.slice
      /\ (Running(q) <=> ~ Ended(script, C))
  BY <1>1, Here
<1>3. ~ Ended(script, C)
  BY <1>1, <1>2 DEF Trace, Log, Happened
<1>4. batch[q] = batch[r] /\ turn[q] = turn[r] /\ slice[q] = slice[r]
  <2>1. batch[q] = batch[r] /\ turn[q] = turn[r]
        /\ (IF Running(q) THEN slice[q] ELSE 0) = (IF Running(r) THEN slice[r] ELSE 0)
    BY DEF Place
  <2>2. Running(q) /\ Running(r)
    BY <1>2, <1>3, <2>1 DEF Running
  <2> QED BY <2>1, <2>2
<1>5. E.batch = C.batch /\ E.turn = C.turn /\ E.slice = C.slice
  BY <1>2, <1>4
<1>6. C.mode /\ ~ E.mode /\ \A c \in DOMAIN C.slice : C.slice[c] = 1
  BY <1>1, <1>2, <1>3, <1>5, SamePlace
<1> QED BY <1>1, <1>3, <1>5, <1>6 DEF Returned

\* Out of explicit-only mode the same place means the same steps.
LEMMA TogetherAt ==
    ASSUME NEW n, NEW G, NEW D, NEW K, Trace(n, G, D, K), NEW q \in Players, NEW r \in Players,
           Place(q) = Place(r), ~ explicitmode[q], ~ explicitmode[r]
    PROVE  n[q] = n[r]
<1>1. n[q] \in Nat /\ n[r] \in Nat /\ explicitmode[q] = G[n[q]].mode
      /\ explicitmode[r] = G[n[r]].mode
  BY Here
<1>2. ~ (n[q] < n[r])
  BY <1>1, AheadAt DEF Returned
<1>3. ~ (n[r] < n[q])
  BY <1>1, AheadAt DEF Returned
<1> QED BY <1>1, <1>2, <1>3

LEMMA PastTypes ==
    ASSUME HasPast
    PROVE  TypeOK
<1>1. PICK n, G, D, K : Trace(n, G, D, K)
  BY DEF HasPast
<1>2. Log(script, n, G, D, K) /\ Domains
  BY <1>1 DEF Trace
<1>3. ASSUME NEW p \in Comp PROVE PartyData(p, G[n[p]], View(p))
  <2>1. p \in Players
    BY ClassFacts
  <2>2. n[p] \in Nat /\ View(p) = D[p][n[p]]
    BY <1>1, <2>1, Here
  <2> QED BY <1>2, <2>2, AlwaysTyped DEF Typed
<1>4. ServerData(View(Server))
  <2>1. n[Server] \in Nat /\ View(Server) = D[Server][n[Server]]
    BY <1>1, ClassFacts, Here
  <2> QED BY <1>2, <2>1, AlwaysTyped DEF Typed
<1>5. \A p \in Comp : DB[p] \in Column /\ BL[p] \in Column /\ PBD[p] \in Column
  BY <1>3, Views DEF PartyData
<1>6. /\ DB \in [Comp -> Column] /\ BL \in [Comp -> Column] /\ PBD \in [Comp -> Column]
      /\ SBL \in [Comp -> Column]
  BY <1>2, <1>4, <1>5, Views DEF Domains, ServerData
<1>7. mem \in Column
  <2>1. 0 \in Comp
    BY ClassFacts
  <2>2. PartyData(0, G[n[0]], View(0)) /\ View(0).mem = mem
    BY <1>3, <2>1, Views
  <2> QED BY <2>2 DEF PartyData
<1>8. \A q \in Players : explicitmode[q] = G[n[q]].mode /\ G[n[q]].mode \in BOOLEAN
  BY <1>1, Here DEF ControlInv, ControlType
<1>9. explicitmode \in [Players -> BOOLEAN]
  BY <1>1, <1>8 DEF Trace
<1>10. ASSUME NEW q \in Players
       PROVE  /\ batch[q] \in 1 .. Len(script) + 1
              /\ Running(q) => /\ turn[q] \in 1 .. Len(Ops(q)) + 1
                               /\ slice[q] \in [DOMAIN Ops(q) -> 0 .. 4 \cup {Finished}]
  <2>1. PICK C : C = G[n[q]]
    OBVIOUS
  <2>2. /\ ControlInv(script, C) /\ batch[q] = C.batch /\ turn[q] = C.turn
        /\ slice[q] = C.slice /\ (Running(q) <=> ~ Ended(script, C))
        /\ Ops(q) = script[C.batch]
    BY <1>1, <2>1, Here
  <2>3. /\ C.batch \in 1 .. Len(script) + 1
        /\ C.turn \in 1 .. Len(BatchOf(script, C)) + 1
        /\ C.slice \in [DOMAIN BatchOf(script, C) -> Slices]
    BY <2>2 DEF ControlInv, ControlType
  <2>4. ~ Ended(script, C) => BatchOf(script, C) = script[C.batch]
    BY DEF BatchOf
  <2>5. Slices = 0 .. 4 \cup {Finished}
    BY DEF Slices, Finished
  <2> QED BY <2>2, <2>3, <2>4, <2>5
<1> QED BY <1>6, <1>7, <1>9, <1>10 DEF TypeOK, Column

\* A player that is settled is calm.
LEMMA SettledCalm ==
    ASSUME NEW n, NEW G, NEW D, NEW K, Trace(n, G, D, K), NEW Q, Q \subseteq Players, Settled(Q),
           NEW q \in Q, NEW r \in Q
    PROVE  n[q] = n[r] /\ Calm(G[n[q]])
<1>1. /\ Place(q) = Place(r) /\ ~ explicitmode[q] /\ ~ explicitmode[r]
      /\ q \in Players /\ r \in Players
      /\ Running(q) => 0 \notin {slice[q][c] : c \in DOMAIN slice[q]}
  BY DEF Settled
<1>2. n[q] = n[r]
  BY <1>1, TogetherAt
<1>3. PICK C : C = G[n[q]]
  OBVIOUS
<1>4. /\ ControlInv(script, C) /\ slice[q] = C.slice /\ explicitmode[q] = C.mode
      /\ (Running(q) <=> ~ Ended(script, C))
  BY <1>1, <1>3, Here
<1>5. Ended(script, C) => \A c \in DOMAIN C.slice : C.slice[c] # 0
  BY <1>4 DEF ControlInv, ControlType, AllFinished, Finished
<1>6. ~ Ended(script, C) => \A c \in DOMAIN C.slice : C.slice[c] # 0
  BY <1>1, <1>4
<1>7. Calm(C)
  BY <1>1, <1>4, <1>5, <1>6 DEF Calm
<1> QED BY <1>2, <1>3, <1>7

LEMMA PastBlinds ==
    ASSUME HasPast
    PROVE  PeerBlindedDB /\ ServerBlinds
<1>1. PICK n, G, D, K : Trace(n, G, D, K)
  BY DEF HasPast
<1>2. Log(script, n, G, D, K)
  BY <1>1 DEF Trace
<1>3. Comp \subseteq Players /\ 0 \in Comp /\ 1 \in Comp /\ Server \in Players
  BY ClassFacts
<1>4. PICK j, v : j = n[0] /\ v = Pair(D, j)
  OBVIOUS
<1>5. j \in Nat /\ BlindsMatch(n, G, D, j)
  <2>1. j \in Nat
    BY <1>1, <1>3, <1>4, Here
  <2> QED BY <1>2, <2>1, AlwaysBlinds
<1>6. ASSUME n[0] = n[1], Calm(G[j])
      PROVE  /\ \A p \in Comp : v[p].db = DB[p] /\ v[p].bl = BL[p] /\ v[p].pbd = PBD[p]
             /\ Both(n, j)
  <2>1. ASSUME NEW p \in Comp PROVE v[p] = View(p)
    <3>1. n[p] = j /\ p \in Players
      BY <1>3, <1>4, <1>6, <2>1 DEF Comp
    <3>2. v[p] = D[p][j]
      BY <1>4 DEF Pair
    <3> QED BY <1>1, <3>1, <3>2, Here
  <2>2. Both(n, j)
    BY <1>4, <1>5, <1>6 DEF Both
  <2> QED BY <2>1, <2>2, Views
<1>7. ASSUME Settled(Comp), NEW p \in Comp PROVE PBD[p] = AddAll(DB[1 - p], BL[1 - p])
  <2>1. n[0] = n[1] /\ Calm(G[j])
    BY <1>1, <1>3, <1>4, <1>7, SettledCalm
  <2>2. PBDMatches(v)
    BY <1>4, <1>5, <1>6, <2>1 DEF BlindsMatch
  <2>3. v[p].pbd = AddAll(v[1 - p].db, v[1 - p].bl) /\ 1 - p \in Comp
    BY <1>7, <2>2, AwaitedFrom DEF PBDMatches
  <2> QED BY <1>6, <1>7, <2>1, <2>3
<1>8. ASSUME Settled(Players) PROVE SBL = BL
  <2>1. n[0] = n[1] /\ n[Server] = j /\ Calm(G[j])
    <3>1. 0 \in Players /\ 1 \in Players
      BY <1>3
    <3> QED BY <1>1, <1>3, <1>4, <1>8, <3>1, SettledCalm
  <2>2. PICK u : u = D[Server][j]
    OBVIOUS
  <2>3. SBLMatches(u, v)
    BY <1>4, <1>5, <1>6, <2>1, <2>2 DEF BlindsMatch
  <2>4. u.sbl = SBL
    <3>1. View(Server) = u
      BY <1>1, <1>3, <2>1, <2>2, Here
    <3> QED BY <3>1, Views
  <2>5. \A p \in Comp : SBL[p] = BL[p]
    BY <1>6, <2>1, <2>3, <2>4 DEF SBLMatches
  <2>6. SBL \in [Comp -> Column] /\ BL \in [Comp -> Column]
    BY PastTypes DEF TypeOK, Column
  <2> QED BY <2>5, <2>6
<1>9. Settled(Comp) => \A p \in Comp : PBD[p] = AddAll(DB[1 - p], BL[1 - p])
  BY <1>7
<1> QED BY <1>8, <1>9 DEF PeerBlindedDB, ServerBlinds

\* Whenever the parties have come to the same place, each one's copy of the
\* peer's blinded database is that database plus its blind, and the server's
\* copies of the blinds are the blinds (duoram.hpp:38-64), although the parties
\* got there by different interleavings.
THEOREM BlindsAlwaysAgree == Spec => []BlindsAgree
<1>1. HasPast => BlindsAgree
  BY PastTypes, PastBlinds DEF BlindsAgree
<1> QED BY <1>1, PastAlways, PTL

-----------------------------------------------------------------------------
(* Shares of the memory.                                                   *)

\* What an operation that should have read e adds to its cell.
Change(op, e) == IF IsWrite(op) THEN Sub(Meant(op), e) ELSE Meant(op)

LEMMA ShareSums ==
    ASSUME NEW a \in Values, NEW b \in Values, NEW c \in Values, NEW d \in Values
    PROVE  /\ Add(Sub(a, c), Sub(b, d)) = Sub(Add(a, b), Add(c, d))
           /\ Add(Add(c, Sub(a, c)), Add(d, Sub(b, d))) = Add(a, b)
           /\ Add(a, b) = Add(b, a) /\ Add(a, 0) = a
<1>1. /\ a \in Int /\ b \in Int /\ c \in Int /\ d \in Int /\ 0 \in Int
      /\ Red(a) = a /\ Red(b) = b /\ Red(c) = c /\ Red(d) = d
  BY RedValue
<1>2. /\ Sub(a, c) = Red(a - c) /\ Sub(b, d) = Red(b - d)
      /\ Add(a, b) = Red(a + b) /\ Add(c, d) = Red(c + d)
  BY <1>1, RedSums
<1>3. Add(Sub(a, c), Sub(b, d)) = Sub(Add(a, b), Add(c, d))
  <2>1. /\ Add(Red(a - c), Red(b - d)) = Red((a - c) + (b - d))
        /\ Sub(Red(a + b), Red(c + d)) = Red((a + b) - (c + d))
    BY <1>1, RedSums
  <2>2. (a - c) + (b - d) = (a + b) - (c + d)
    BY <1>1
  <2> QED BY <1>2, <2>1, <2>2
<1>4. Add(Add(c, Sub(a, c)), Add(d, Sub(b, d))) = Add(a, b)
  <2>1. Sub(a, c) \in Values /\ Sub(b, d) \in Values
    BY AddType
  <2>2. Add(Add(c, Sub(a, c)), Add(d, Sub(b, d))) = Add(Add(c, d), Add(Sub(a, c), Sub(b, d)))
    BY <2>1, Exchange
  <2> QED BY <2>2, Unmask
<1>5. Add(a, b) = Add(b, a)
  <2>1. Add(b, a) = Red(b + a) /\ a + b = b + a
    BY <1>1, RedSums
  <2> QED BY <1>2, <2>1
<1>6. Add(a, 0) = a
  <2>1. M \in Nat /\ M > 0 /\ a \in 0 .. M - 1
    BY RingAssumption DEF Values
  <2> QED BY <2>1 DEF Add
<1> QED BY <1>3, <1>4, <1>5, <1>6

\* The column f with z added at cell i.
Bump(f, i, z) == [f EXCEPT ![i] = Add(@, z)]

\* Both add their share at a cell.
LEMMA AddAtCell ==
    ASSUME NEW a \in Column, NEW b \in Column, NEW i \in Cells,
           NEW x \in Values, NEW y \in Values
    PROVE  AddAll(Bump(a, i, x), Bump(b, i, y)) = Bump(AddAll(a, b), i, Add(x, y))
<1>1. a[i] \in Values /\ b[i] \in Values
  BY DEF Column
<1>2. Add(Add(a[i], x), Add(b[i], y)) = Add(Add(a[i], b[i]), Add(x, y))
  BY <1>1, Exchange
<1> QED BY <1>2 DEF AddAll, Column, Bump

\* Both add their vector of an update.
LEMMA AddVectors ==
    ASSUME NEW a \in Column, NEW b \in Column, NEW f \in Column, NEW g \in Column,
           NEW i \in Cells, NEW z,
           \A c \in Cells : Add(f[c], g[c]) = IF c = i THEN z ELSE 0
    PROVE  AddAll(AddAll(a, f), AddAll(b, g)) = Bump(AddAll(a, b), i, z)
<1>1. ASSUME NEW c \in Cells
      PROVE  Add(Add(a[c], f[c]), Add(b[c], g[c]))
               = IF c = i THEN Add(Add(a[c], b[c]), z) ELSE Add(a[c], b[c])
  <2>1. a[c] \in Values /\ b[c] \in Values /\ f[c] \in Values /\ g[c] \in Values
    BY DEF Column
  <2>2. Add(Add(a[c], f[c]), Add(b[c], g[c])) = Add(Add(a[c], b[c]), Add(f[c], g[c]))
    BY <2>1, Exchange
  <2>3. Add(a[c], b[c]) \in Values
    BY <2>1, AddType
  <2>4. Add(Add(a[c], b[c]), 0) = Add(a[c], b[c])
    BY <2>3, ShareSums
  <2> QED BY <2>2, <2>4
<1> QED BY <1>1 DEF AddAll, Bump

\* What the parties hold adds up to the plain memory.
SumOfShares(v) == AddAll(v[0].db, v[1].db) = v[0].mem

\* A coroutine about to add its update holds shares of the change; one that
\* has read holds shares of what it read.
Updating(op, k) ==
    k = 4 \/ (k = 2 /\ op.kind \in Explicit \cup {"oblivious_update"})
HoldsChange(op, k, x, y, e) ==
    Updating(op, k) => Add(x.upd, y.upd) = Change(op, e)
HoldsRead(op, k, x, y, e) ==
    op.kind \in Reading /\ k \in {4, Finished} => Add(x.res, y.res) = e

LEMMA LocalSums ==
    ASSUME NEW op, ValidOp(op), op.kind \in Explicit, NEW a \in Column, NEW b \in Column
    PROVE  /\ ShareOf(0, op, a) \in Values /\ ShareOf(1, op, b) \in Values
           /\ Add(ShareOf(0, op, a), ShareOf(1, op, b))
                = Change(op, AddAll(a, b)[op.index])
           /\ IsWrite(op) =>
                Add(Add(a[op.index], ShareOf(0, op, a)), Add(b[op.index], ShareOf(1, op, b)))
                  = Meant(op)
<1>1. PICK i, x, y : i = op.index /\ x = op.value[0] /\ y = op.value[1]
  OBVIOUS
<1>2. i \in Cells /\ x \in Values /\ y \in Values
  BY <1>1, OpFacts
<1>3. a[i] \in Values /\ b[i] \in Values /\ AddAll(a, b)[i] = Add(a[i], b[i])
  BY <1>2 DEF Column, AddAll
<1>4. Meant(op) = Add(x, y)
  BY <1>1 DEF Meant
<1>5. ShareOf(0, op, a) = IF IsWrite(op) THEN Sub(x, a[i]) ELSE x
  BY <1>1 DEF ShareOf
<1>6. ShareOf(1, op, b) = IF IsWrite(op) THEN Sub(y, b[i]) ELSE y
  BY <1>1 DEF ShareOf
<1>7. Sub(x, a[i]) \in Values /\ Sub(y, b[i]) \in Values
  BY <1>2, <1>3, AddType
<1>8. /\ Add(Sub(x, a[i]), Sub(y, b[i])) = Sub(Add(x, y), Add(a[i], b[i]))
      /\ Add(Add(a[i], Sub(x, a[i])), Add(b[i], Sub(y, b[i]))) = Add(x, y)
  BY <1>2, <1>3, ShareSums
<1> QED BY <1>1, <1>2, <1>3, <1>4, <1>5, <1>6, <1>7, <1>8 DEF Change

\* A slice of both parties keeps the sum.
LEMMA PairShares ==
    ASSUME NEW s, NEW C, NEW E, IsSlice(s, C, E), NEW v, NEW w, NEW got, NEW gave,
           Together(s, C, E, v, w, got, gave), SumOfShares(v),
           HoldsChange(s[C.batch][C.turn], C.slice[C.turn], v[0].loc[C.turn], v[1].loc[C.turn],
                       v[0].exp[C.turn])
    PROVE  SumOfShares(w)
<1>1. PICK op, k, t, job, n2 :
         /\ op = s[C.batch][C.turn] /\ k = C.slice[C.turn] /\ t = C.turn
         /\ job = JobAt(s, C) /\ n2 = NextAt(s, C)
  OBVIOUS
<1>2. PICK a, b, m, x, y, e :
         /\ a = v[0].db /\ b = v[1].db /\ m = v[0].mem
         /\ x = v[0].loc[t].upd /\ y = v[1].loc[t].upd /\ e = v[0].exp[t]
  OBVIOUS
<1>3. 0 \in Comp /\ 1 \in Comp
  BY ClassFacts
<1>4. /\ ValidOp(op) /\ t \in DOMAIN C.slice
      /\ job = "local" => op.kind \in Explicit
      /\ job = "finish" => k = 2 /\ op.kind \in Explicit
      /\ job = "update" => k = 4 \/ (k = 2 /\ op.kind = "oblivious_update")
  BY <1>1, SliceJob
<1>5. /\ a \in Column /\ b \in Column /\ m \in Column /\ x \in Values /\ y \in Values
      /\ e \in Values
  <2>1. PartyData(0, C, v[0]) /\ PartyData(1, C, v[1])
    BY <1>3 DEF Together
  <2> QED BY <1>2, <1>4, <2>1 DEF PartyData, Datum
<1>6. m = AddAll(a, b)
  BY <1>2 DEF SumOfShares
<1>7. Updating(op, k) => Add(x, y) = Change(op, e)
  BY <1>1, <1>2 DEF HoldsChange
<1>8. /\ PartyRel(0, op, t, job, n2, v[0], w[0], got[0], gave[0])
      /\ PartyRel(1, op, t, job, n2, v[1], w[1], got[1], gave[1])
  BY <1>1, <1>3 DEF Together, PartyStepAt
<1>9. CASE job = "local"
  <2>1. PICK i, f, g : i = op.index /\ f = ShareOf(0, op, a) /\ g = ShareOf(1, op, b)
    OBVIOUS
  <2>2. /\ w[0].db = Bump(a, i, f)
        /\ w[0].mem = [m EXCEPT ![i] = IF IsWrite(op) THEN Meant(op) ELSE Add(@, Meant(op))]
    BY <1>2, <1>8, <1>9, <2>1 DEF PartyRel, Bump
  <2>3. w[1].db = Bump(b, i, g)
    BY <1>2, <1>8, <1>9, <2>1 DEF PartyRel, Bump
  <2>4. i \in Cells /\ a[i] \in Values /\ b[i] \in Values
    BY <1>4, <1>5, <1>9, <2>1, OpFacts DEF Column
  <2>5. /\ f \in Values /\ g \in Values /\ Add(f, g) = Change(op, AddAll(a, b)[i])
        /\ IsWrite(op) => Add(Add(a[i], f), Add(b[i], g)) = Meant(op)
    BY <1>4, <1>5, <1>9, <2>1, LocalSums
  <2>6. AddAll(w[0].db, w[1].db) = Bump(m, i, Add(f, g))
    BY <1>5, <1>6, <2>2, <2>3, <2>4, <2>5, AddAtCell
  <2>7. m[i] = Add(a[i], b[i])
    BY <1>6, <2>4 DEF AddAll
  <2>8. Add(m[i], Add(f, g)) = IF IsWrite(op) THEN Meant(op) ELSE Add(m[i], Meant(op))
    <3>1. CASE IsWrite(op)
      BY <2>4, <2>5, <2>7, <3>1, Exchange
    <3>2. CASE ~ IsWrite(op)
      BY <2>5, <3>2 DEF Change
    <3> QED BY <3>1, <3>2
  <2>9. AddAll(w[0].db, w[1].db) = w[0].mem
    BY <1>5, <2>2, <2>4, <2>6, <2>8 DEF Column, Bump
  <2> QED BY <2>9 DEF SumOfShares
<1>10. CASE job = "finish"
  <2>1. PICK i : i = op.index
    OBVIOUS
  <2>2. w[0].db = Bump(a, i, x) /\ w[0].mem = Bump(m, Cell(op), Change(op, e))
    BY <1>2, <1>8, <1>10, <2>1 DEF PartyRel, Change, Bump
  <2>3. w[1].db = Bump(b, i, y)
    BY <1>2, <1>8, <1>10, <2>1 DEF PartyRel, Bump
  <2>4. i \in Cells /\ Cell(op) = i
    BY <1>4, <1>10, <2>1, OpFacts
  <2>5. Add(x, y) = Change(op, e)
    BY <1>4, <1>7, <1>10 DEF Updating
  <2>6. AddAll(w[0].db, w[1].db) = Bump(m, i, Add(x, y))
    BY <1>5, <1>6, <2>2, <2>3, <2>4, AddAtCell
  <2> QED BY <2>2, <2>4, <2>5, <2>6 DEF SumOfShares
<1>11. CASE job = "update"
  <2>1. UpdateDone(op, x, y, v, w)
    BY <1>1, <1>2, <1>11, UpdateEffect
  <2>2. PICK f, g : f = Vec(op, 0, 0, x, y) /\ g = Vec(op, 0, 1, x, y)
    OBVIOUS
  <2>3. w[0].db = AddAll(a, f) /\ w[1].db = AddAll(b, g) /\ op.kind \in Oblivious
    BY <1>2, <1>3, <2>1, <2>2 DEF UpdateDone
  <2>4. w[0].mem = Bump(m, Cell(op), Change(op, e))
    BY <1>2, <1>8, <1>11 DEF PartyRel, Change, Bump
  <2>5. Add(x, y) = Change(op, e)
    BY <1>4, <1>7, <1>11 DEF Updating
  <2>6. VecsShare(op, 0, x, y)
    <3>1. 0 \in 0 .. 2
      OBVIOUS
    <3> QED BY <1>4, <1>5, <2>3, <3>1, ScaledShares
  <2>7. /\ f \in Column /\ g \in Column
        /\ \A c \in Cells : Add(f[c], g[c]) = IF c = Cell(op) THEN Add(x, y) ELSE 0
    BY <1>3, <2>2, <2>6 DEF VecsShare, Column
  <2>8. Cell(op) \in Cells
    BY <1>4, <2>3, OpFacts
  <2>9. PICK i, z : i = Cell(op) /\ z = Add(x, y)
    OBVIOUS
  <2>10. AddAll(w[0].db, w[1].db) = Bump(m, i, z)
    BY <1>5, <1>6, <2>3, <2>7, <2>8, <2>9, AddVectors
  <2> QED BY <2>4, <2>5, <2>9, <2>10 DEF SumOfShares
<1>12. CASE job \notin {"local", "finish", "update"}
  <2>1. w[0].db = a /\ w[0].mem = m
    BY <1>2, <1>8, <1>12 DEF PartyRel
  <2>2. w[1].db = b
    BY <1>2, <1>8, <1>12 DEF PartyRel
  <2> QED BY <1>6, <2>1, <2>2 DEF SumOfShares
<1> QED BY <1>9, <1>10, <1>11, <1>12

\* The server's answers make the parties' dot products shares of what is read.
Answers(x, y, e, h0, h1) ==
    h0 \in Values /\ h1 \in Values /\ Add(Add(h0, h1), Add(x.res, y.res)) = e

LEMMA AnswerIs ==
    ASSUME NEW p, NEW op, NEW t, NEW n2, NEW v, NEW w, NEW got, NEW gave,
           PartyRel(p, op, t, "answer", n2, v, w, got, gave), t \in DOMAIN v.loc
    PROVE  /\ w.loc[t].res = Add(v.loc[t].res, got[Server])
           /\ w.loc[t].upd = Sub(op.value[p], Add(v.loc[t].res, got[Server]))
           /\ p = 0 => w.exp = v.exp
BY DEF PartyRel

\* A slice of a coroutine leaves it with the shares it should hold.
LEMMA PairHolds ==
    ASSUME NEW s, NEW C, NEW E, IsSlice(s, C, E), NEW v, NEW w, NEW got, NEW gave,
           Together(s, C, E, v, w, got, gave), SumOfShares(v), NEW t, t = C.turn,
           HoldsRead(s[C.batch][t], C.slice[t], v[0].loc[t], v[1].loc[t], v[0].exp[t]),
           JobAt(s, C) = "answer" =>
             Answers(v[0].loc[t], v[1].loc[t], v[0].exp[t], got[0][Server], got[1][Server])
    PROVE  /\ HoldsChange(s[C.batch][t], NextAt(s, C), w[0].loc[t], w[1].loc[t], w[0].exp[t])
           /\ HoldsRead(s[C.batch][t], NextAt(s, C), w[0].loc[t], w[1].loc[t], w[0].exp[t])
<1>1. PICK op, k, job, n2, mo :
         /\ op = s[C.batch][t] /\ k = C.slice[t] /\ job = JobAt(s, C) /\ n2 = NextAt(s, C)
         /\ op = s[C.batch][C.turn] /\ k = C.slice[C.turn] /\ mo = C.mode
  OBVIOUS
<1>2. PICK a, b, m, x, y, e, x2, y2, e2, h0, h1 :
         /\ a = v[0].db /\ b = v[1].db /\ m = v[0].mem
         /\ x = v[0].loc[t] /\ y = v[1].loc[t] /\ e = v[0].exp[t]
         /\ x2 = w[0].loc[t] /\ y2 = w[1].loc[t] /\ e2 = w[0].exp[t]
         /\ h0 = got[0][Server] /\ h1 = got[1][Server]
  OBVIOUS
<1>3. 0 \in Comp /\ 1 \in Comp
  BY ClassFacts
<1>4. /\ ValidOp(op) /\ t \in DOMAIN C.slice /\ k \in Slices /\ k # Finished
      /\ OpSlice(op, k) /\ mo \in BOOLEAN /\ (mo /\ LeavesMode(op) => k = 1)
      /\ n2 = NextSlice(op, k, mo) /\ job = Job(op, k, mo)
  <2>1. t \in DOMAIN C.slice
    BY SliceJob
  <2> QED BY <1>1, <2>1 DEF IsSlice, NextAt, JobAt
<1>5. /\ a \in Column /\ b \in Column /\ m \in Column /\ x \in Datum /\ y \in Datum
      /\ e \in Values /\ t \in DOMAIN v[0].loc /\ t \in DOMAIN v[1].loc /\ t \in DOMAIN v[0].exp
  <2>1. PartyData(0, C, v[0]) /\ PartyData(1, C, v[1])
    BY <1>3 DEF Together
  <2> QED BY <1>2, <1>4, <2>1 DEF PartyData
<1>6. m = AddAll(a, b)
  BY <1>2 DEF SumOfShares
<1>7. /\ PartyRel(0, op, t, job, n2, v[0], w[0], got[0], gave[0])
      /\ PartyRel(1, op, t, job, n2, v[1], w[1], got[1], gave[1])
  BY <1>1, <1>3 DEF Together, PartyStepAt
<1>8. HoldsRead(op, k, x, y, e) /\ (job = "answer" => Answers(x, y, e, h0, h1))
  BY <1>1, <1>2
<1>9. CASE job = "start"
  <2>1. n2 = 2 /\ op.kind \in Explicit /\ op.kind \notin Reading
    <3>1. n2 = 2 /\ op.kind \in Explicit
      BY ZenonT(30), <1>4, <1>9, JobFacts
    <3> QED BY <3>1 DEF Explicit, Reading
  <2>2. x2.upd = ShareOf(0, op, a)
    <3>1. PICK z : w[0].loc = [v[0].loc EXCEPT ![t] =
                                 [res |-> 0, upd |-> ShareOf(0, op, v[0].db), blind |-> z]]
      BY <1>7, <1>9 DEF PartyRel
    <3> QED BY <1>2, <1>5, <3>1
  <2>6. e2 = m[Cell(op)]
    <3>1. w[0].exp = [v[0].exp EXCEPT ![t] = v[0].mem[Cell(op)]]
      BY <1>7, <1>9 DEF PartyRel
    <3> QED BY <1>2, <1>5, <3>1
  <2>3. y2.upd = ShareOf(1, op, b)
    <3>1. PICK z : w[1].loc = [v[1].loc EXCEPT ![t] =
                                 [res |-> 0, upd |-> ShareOf(1, op, v[1].db), blind |-> z]]
      BY <1>7, <1>9 DEF PartyRel
    <3> QED BY <1>2, <1>5, <3>1
  <2>4. Cell(op) = op.index
    BY <1>4, <2>1, OpFacts
  <2>5. Add(x2.upd, y2.upd) = Change(op, e2)
    BY <1>4, <1>5, <1>6, <2>1, <2>2, <2>3, <2>4, <2>6, LocalSums
  <2> QED BY <1>1, <1>2, <2>1, <2>5 DEF HoldsChange, HoldsRead
<1>10. CASE job = "offset"
  <2>1. n2 = 2 /\ op.kind = "oblivious_update" /\ op.kind \notin Reading /\ ~ IsWrite(op)
    <3>1. n2 = 2 /\ op.kind = "oblivious_update"
      BY ZenonT(30), <1>4, <1>10, JobFacts
    <3> QED BY <3>1 DEF IsWrite, Reading
  <2>2. x2.upd = op.value[0]
    BY <1>2, <1>5, <1>7, <1>10 DEF PartyRel
  <2>3. y2.upd = op.value[1]
    BY <1>2, <1>5, <1>7, <1>10 DEF PartyRel
  <2>4. Add(x2.upd, y2.upd) = Change(op, e2)
    BY <2>1, <2>2, <2>3 DEF Change, Meant
  <2> QED BY <1>1, <1>2, <2>1, <2>4 DEF HoldsChange, HoldsRead
<1>11. CASE job = "answer"
  <2>1. PICK f, g : f = Add(x.res, h0) /\ g = Add(y.res, h1)
    OBVIOUS
  <2>2. x2.res = f /\ x2.upd = Sub(op.value[0], f) /\ e2 = e
    BY <1>2, <1>5, <1>7, <1>11, <2>1, AnswerIs
  <2>3. y2.res = g /\ y2.upd = Sub(op.value[1], g)
    BY <1>2, <1>5, <1>7, <1>11, <2>1, AnswerIs
  <2>4. /\ h0 \in Values /\ h1 \in Values /\ x.res \in Values /\ y.res \in Values
        /\ Add(Add(h0, h1), Add(x.res, y.res)) = e
    BY <1>5, <1>8, <1>11 DEF Answers, Datum
  <2>5. f \in Values /\ g \in Values /\ Add(f, g) = e
    <3>1. Add(f, g) = Add(Add(x.res, y.res), Add(h0, h1))
      BY <2>1, <2>4, Exchange
    <3>2. Add(x.res, y.res) \in Values /\ Add(h0, h1) \in Values /\ f \in Values /\ g \in Values
      BY <2>1, <2>4, AddType
    <3> QED BY <2>4, <3>1, <3>2, ShareSums
  <2>6. op.kind \in Reading /\ (n2 = Finished \/ (n2 = 4 /\ op.kind # "oblivious_read"))
    BY ZenonT(30), <1>4, <1>11, JobFacts
  <2>7. op.value[0] \in Values /\ op.value[1] \in Values
    BY <1>4, <2>6, OpFacts DEF Reading, Oblivious
  <2>8. Add(x2.upd, y2.upd) = Sub(Meant(op), e2)
    BY <2>2, <2>3, <2>5, <2>7, ShareSums DEF Meant
  <2>9. op.kind # "oblivious_read" => IsWrite(op)
    BY <2>6 DEF Reading, IsWrite
  <2>10. Updating(op, n2) => n2 = 4
    BY <2>6 DEF Updating, Finished
  <2>11. n2 = 4 => Add(x2.upd, y2.upd) = Change(op, e2)
    BY <2>6, <2>8, <2>9 DEF Change, Finished
  <2>12. Add(x2.res, y2.res) = e2
    BY <2>2, <2>3, <2>5
  <2> QED BY <1>1, <1>2, <2>10, <2>11, <2>12 DEF HoldsChange, HoldsRead
<1>12. CASE job \notin {"start", "offset", "answer"}
  <2>1. ~ Updating(op, n2)
    <3>3. ASSUME n2 = 2 PROVE job \in {"start", "offset", "ask"}
      <4>1. k = 1
        BY <1>4, <3>3 DEF NextSlice, Slices, Finished
      <4>2. job \notin {"refresh", "finish", "dot", "answer"} /\ n2 # Finished /\ n2 # 0
        BY <1>4, <3>3, <4>1, JobFacts DEF Finished
      <4> QED BY <1>4, <3>3, <4>1, <4>2, JobFacts
    <3>4. job = "ask" => op.kind \in Reading
      BY <1>4, JobFacts
    <3>1. n2 = 2 => op.kind \in Reading
      BY <1>12, <3>3, <3>4
    <3>2. n2 # 4
      BY <1>4, <1>12, JobFacts DEF Finished
    <3> QED BY <3>1, <3>2 DEF Updating, Explicit, Reading
  <2>2. ASSUME op.kind \in Reading, n2 \in {4, Finished}
        PROVE  Add(x2.res, y2.res) = e2
    <3>1. n2 # 1
      BY <2>2 DEF Finished
    <3>2. job = "update" /\ k = 4
      BY <1>4, <1>12, <2>2, <3>1, JobFacts, NextFacts DEF Reading, Explicit, Finished
    <3>3. x2 = x /\ e2 = e
      BY <1>2, <1>7, <3>2 DEF PartyRel
    <3>4. y2 = y
      BY <1>2, <1>7, <3>2 DEF PartyRel
    <3> QED BY <1>8, <2>2, <3>2, <3>3, <3>4 DEF HoldsRead
  <2> QED BY <1>1, <1>2, <2>1, <2>2 DEF HoldsChange, HoldsRead
<1> QED BY <1>9, <1>10, <1>11, <1>12

\* What the parties and the server compute for a read adds up to the cell.
Columns(v) == \A p \in Comp : v[p].db \in Column /\ v[p].bl \in Column
AddsUp(op, v, u, rho, h) ==
    LET h0 == Sub(rho, Gamma(0, op, u, h))
        h1 == Sub(0, Add(rho, Gamma(1, op, u, h)))
    IN  /\ h0 \in Values /\ h1 \in Values
        /\ Add(Add(h0, h1), Add(Product(0, op, v[0], h), Product(1, op, v[1], h)))
             = AddAll(v[0].db, v[1].db)[Cell(op)]

LEMMA ReadAddsUp ==
    ASSUME NEW op, ValidOp(op), op.kind \in Oblivious, NEW v, NEW u, NEW rho \in Values,
           Columns(v), PBDMatches(v), SBLMatches(u, v), NEW h, h = Shift(op)
    PROVE  AddsUp(op, v, u, rho, h)
<1>1. PICK x, D0, D1, B0, B1 :
         /\ x = Cell(op) /\ D0 = v[0].db /\ D1 = v[1].db /\ B0 = v[0].bl /\ B1 = v[1].bl
  OBVIOUS
<1>2. PICK u0, u1, v0, v1, w0, w1 :
         /\ u0 = Unit(op, 0, 0, h) /\ u1 = Unit(op, 0, 1, h)
         /\ v0 = Unit(op, 2, 0, h) /\ w0 = Unit(op, 2, 1, h)
         /\ w1 = Unit(op, 1, 0, h) /\ v1 = Unit(op, 1, 1, h)
  OBVIOUS
<1>3. 0 \in Comp /\ 1 \in Comp /\ 0 \in 0 .. 2 /\ 1 \in 0 .. 2 /\ 2 \in 0 .. 2
  BY ClassFacts
<1>4. x \in Cells
  BY <1>1, OpFacts
<1>5. /\ D0 \in [Cells -> Values] /\ D1 \in [Cells -> Values]
      /\ B0 \in [Cells -> Values] /\ B1 \in [Cells -> Values]
  BY <1>1, <1>3 DEF Column, Columns
<1>6. /\ u0 \in [Cells -> Values] /\ u1 \in [Cells -> Values] /\ SharesOfUnit(x, u0, u1)
  BY <1>1, <1>2, <1>3, UnitShares DEF SharesOfUnit
<1>7. /\ v0 \in [Cells -> Values] /\ w0 \in [Cells -> Values] /\ SharesOfUnit(x, v0, w0)
  BY <1>1, <1>2, <1>3, UnitShares DEF SharesOfUnit
<1>8. /\ w1 \in [Cells -> Values] /\ v1 \in [Cells -> Values] /\ SharesOfUnit(x, w1, v1)
  BY <1>1, <1>2, <1>3, UnitShares DEF SharesOfUnit
<1>9. DotsShare(x, rho, D0, D1, B0, B1, u0, u1, v0, v1, w0, w1)
  BY <1>4, <1>5, <1>6, <1>7, <1>8, DotProductShares
<1>10. v[0].pbd = AddAll(D1, B1) /\ v[1].pbd = AddAll(D0, B0) /\ u.sbl[0] = B0 /\ u.sbl[1] = B1
  <2>1. 1 - 0 = 1 /\ 1 - 1 = 0
    OBVIOUS
  <2>2. v[0].pbd = AddAll(v[1 - 0].db, v[1 - 0].bl) /\ v[1].pbd = AddAll(v[1 - 1].db, v[1 - 1].bl)
    BY <1>3 DEF PBDMatches
  <2> QED BY <1>1, <1>3, <2>1, <2>2 DEF SBLMatches
<1>11. Product(0, op, v[0], h) = Dot(D0, AddAll(D1, B1), B0, u0, v0)
  <2>1. 3 - Own(0) = 2
    BY DEF Own
  <2> QED BY <1>1, <1>2, <1>10, <2>1 DEF Product, Dot
<1>12. Product(1, op, v[1], h) = Dot(D1, AddAll(D0, B0), B1, u1, v1)
  <2>1. 3 - Own(1) = 1
    BY DEF Own
  <2> QED BY <1>1, <1>2, <1>10, <2>1 DEF Product, Dot
<1>13. Gamma(0, op, u, h) = Cross(B0, w0) /\ Gamma(1, op, u, h) = Cross(B1, w1)
  <2>1. 2 - 0 = 2 /\ 1 - 0 = 1 /\ 2 - 1 = 1 /\ 1 - 1 = 0
    OBVIOUS
  <2> QED BY <1>2, <1>10, <2>1 DEF Gamma, Cross
<1>14. AddAll(D0, D1)[x] = Add(D0[x], D1[x])
  BY <1>4 DEF AddAll
<1> QED BY <1>1, <1>9, <1>11, <1>12, <1>13, <1>14 DEF DotsShare, AddsUp

\* A slice of a read comes when no blinds are on their way.
LEMMA DotCalm ==
    ASSUME NEW s \in Scripts, NEW C, ControlInv(s, C), AtSlice(s, C), JobAt(s, C) = "dot"
    PROVE  /\ Calm(C) /\ C.slice[C.turn] = 2 /\ s[C.batch][C.turn].kind \in Reading
<1>1. PICK op, k, m, t, job, n2 :
         /\ op = s[C.batch][C.turn] /\ k = C.slice[C.turn] /\ m = C.mode /\ t = C.turn
         /\ job = JobAt(s, C) /\ n2 = NextAt(s, C)
  OBVIOUS
<1>2. /\ ValidOp(op) /\ k \in Slices /\ k # Finished /\ OpSlice(op, k)
      /\ m \in BOOLEAN /\ (m /\ LeavesMode(op) => k = 1)
      /\ job = Job(op, k, m) /\ t \in DOMAIN C.slice
      /\ BatchOf(s, C) = s[C.batch] /\ DOMAIN C.slice = 1 .. Len(s[C.batch])
  <2>1. IsSlice(s, C, AfterSlice(s, C))
    BY AtSliceFacts
  <2> QED BY <1>1, <2>1 DEF IsSlice, JobAt
<1>3. k = 2 /\ op.kind \in Reading /\ ~ m
  BY <1>1, <1>2, JobFacts
<1>4. ASSUME NEW c \in DOMAIN C.slice, C.slice[c] = 0 PROVE FALSE
  <2>1. Len(s[C.batch]) = 1
    BY <1>2, <1>4 DEF ControlInv, ModeOK
  <2>2. c = t
    BY <1>2, <1>4, <2>1
  <2>3. C.slice[c] = k
    BY <1>1, <2>2
  <2> QED BY <1>3, <1>4, <2>3
<1> QED BY <1>1, <1>3, <1>4 DEF Calm

LEMMA ToDot ==
    ASSUME NEW s, NEW C, NEW E, IsSlice(s, C, E), NextAt(s, C) = 3
    PROVE  JobAt(s, C) = "dot"
<1>1. PICK op, k, m : op = s[C.batch][C.turn] /\ k = C.slice[C.turn] /\ m = C.mode
  OBVIOUS
<1>2. NextSlice(op, k, m) = 3 /\ k \in {0, 1, 2, 3, 4} /\ ValidOp(op)
  BY <1>1 DEF NextAt, IsSlice, Slices, Finished
<1>3. k = 2 /\ op.kind \in Reading
  <2>1. k # 1
    BY <1>2 DEF NextSlice, ValidOp, Explicit, Oblivious, Finished
  <2>2. k = 2
    BY <1>2, <2>1 DEF NextSlice, Finished
  <2> QED BY <1>2, <2>2 DEF NextSlice, Finished
<1>4. op.kind \notin Explicit /\ op.kind # "oblivious_update"
  BY <1>3 DEF Reading, Explicit
<1> QED BY <1>1, <1>3, <1>4 DEF JobAt, Job

\* Party p's part of it.
LEMMA PartyDots ==
    ASSUME NEW s, NEW C, NEW E, IsSlice(s, C, E), NEW v, NEW w, NEW got, NEW gave,
           Together(s, C, E, v, w, got, gave), JobAt(s, C) = "dot",
           NEW t, t = C.turn, NEW op, op = s[C.batch][t]
    PROVE  /\ \A p \in Comp : w[p].loc[t].res = Product(p, op, v[p], Shift(op))
           /\ w[0].exp[t] = v[0].mem[Cell(op)]
<1>1. PICK k, job, n2 : k = C.slice[t] /\ job = JobAt(s, C) /\ n2 = NextAt(s, C)
                        /\ op = s[C.batch][C.turn]
  OBVIOUS
<1>2. /\ t \in DOMAIN C.slice /\ k = 2 /\ op.kind \in Reading /\ op.kind \notin Explicit
      /\ op.kind # "oblivious_update"
  <2>1. t \in DOMAIN C.slice /\ k = 2 /\ op.kind \in Reading
    BY <1>1, SliceJob
  <2> QED BY <2>1 DEF Reading, Explicit
<1>3. ASSUME NEW p \in Comp
      PROVE  /\ PartyRel(p, op, t, job, n2, v[p], w[p], got[p], gave[p])
             /\ t \in DOMAIN v[p].loc /\ (p = 0 => t \in DOMAIN v[p].exp)
             /\ got[p][1 - p] = IndOffset(1 - p, op)
  <2>1. PartyRel(p, op, t, job, n2, v[p], w[p], got[p], gave[p])
    BY <1>1 DEF Together, PartyStepAt
  <2>2. t \in DOMAIN v[p].loc /\ (p = 0 => t \in DOMAIN v[p].exp)
    <3>1. PartyData(p, C, v[p])
      BY DEF Together
    <3> QED BY <1>2, <3>1 DEF PartyData
  <2>3. got[p][1 - p] = Says(1 - p, op, k, v[1 - p], t, p)
    BY <1>1, <1>2 DEF Together
  <2>4. Says(1 - p, op, k, v[1 - p], t, p) = IndOffset(1 - p, op)
    BY <1>2 DEF Says
  <2> QED BY <2>1, <2>2, <2>3, <2>4
<1>4. ASSUME NEW p \in Comp
      PROVE  w[p].loc[t].res = Product(p, op, v[p], Shift(op))
  <2>1. PICK sh : sh = (IndOffset(p, op) + got[p][1 - p]) % Width
    OBVIOUS
  <2>2. w[p].loc = [v[p].loc EXCEPT ![t] = [res |-> Product(p, op, v[p], sh),
                                            upd |-> 0, blind |-> 0]]
    BY <1>1, <1>3, <2>1 DEF PartyRel
  <2>3. sh = Shift(op)
    <3>1. IndOffset(0, op) \in Nat /\ IndOffset(1, op) \in Nat
      <4>1. IndOffset(0, op) \in Leaves /\ IndOffset(1, op) \in Leaves
        <5>1. ValidOp(op)
          BY <1>1, SliceJob
        <5> QED BY <1>2, <5>1, OpFacts, ClassFacts DEF Reading, Oblivious
      <4> QED BY <4>1, WidthFacts
    <3>2. CASE p = 0
      <4>1. sh = (IndOffset(0, op) + IndOffset(1, op)) % Width
        <5>1. got[p][1 - p] = IndOffset(1 - p, op) /\ 1 - p = 1
          BY <1>3, <3>2
        <5> QED BY <2>1, <3>2, <5>1
      <4> QED BY <4>1 DEF Shift
    <3>3. CASE p = 1
      <4>1. sh = (IndOffset(1, op) + IndOffset(0, op)) % Width
        <5>1. got[p][1 - p] = IndOffset(1 - p, op) /\ 1 - p = 0
          BY <1>3, <3>3
        <5> QED BY <2>1, <3>3, <5>1
      <4> QED BY <3>1, <4>1 DEF Shift
    <3> QED BY <3>2, <3>3 DEF Comp
  <2> QED BY <1>3, <2>2, <2>3
<1>5. w[0].exp[t] = v[0].mem[Cell(op)]
  <2>1. 0 \in Comp
    BY ClassFacts
  <2>2. w[0].exp = [v[0].exp EXCEPT ![t] = v[0].mem[Cell(op)]]
    BY <1>1, <1>3, <2>1 DEF PartyRel
  <2> QED BY <1>3, <2>1, <2>2
<1> QED BY <1>4, <1>5

LEMMA ServerHears ==
    ASSUME NEW s, NEW n, NEW G, NEW D, NEW K, Log(s, n, G, D, K), NEW p \in Comp,
           NEW j \in Nat, j <= n[p], NEW C, C = G[j], AtSlice(s, C), C.slice[C.turn] = 2,
           NEW op, op = s[C.batch][C.turn], op.kind \in Reading
    PROVE  Heard(Server, C, K)[p] = IndOffset(p, op)
<1>1. Server \in Players \ {p}
  BY ClassFacts, AwaitedFrom
<1>2. PICK k, q : k = C.slice[C.turn] /\ k = 2 /\ k \in {0, 2, 4} /\ q = Server
                  /\ q \in Players \ {p}
  BY <1>1
<1>3. Heard(q, C, K)[p] = Says(p, s[C.batch][C.turn], k, D[p][j], C.turn, q)
  BY <1>2, HeardIsSaid
<1>4. op.kind \notin Explicit
  BY Zenon DEF Reading, Explicit
<1> QED BY <1>2, <1>3, <1>4 DEF Says, Reading

\* After the dot product of a read, the answers that the server has queued make
\* its shares those of the cell.
LEMMA DotHolds ==
    ASSUME NEW s, NEW n, NEW G, NEW D, NEW K, Log(s, n, G, D, K),
           NEW j \in Nat, Both(n, j + 1), AtSlice(s, G[j]), SumOfShares(Pair(D, j)),
           NEW C, C = G[j], NEW E, E = G[j + 1], NEW t, t = C.turn, JobAt(s, C) = "dot",
           \A r \in Comp : E.idx[1][t] <= Queued(n, G, <<Server, r>>),
           NEW w, w = Pair(D, j + 1)
    PROVE  Answers(w[0].loc[t], w[1].loc[t], w[0].exp[t],
                   K[<<Server, 0>>][E.idx[1][t]], K[<<Server, 1>>][E.idx[1][t]])
<1>1. /\ s \in Scripts /\ IsRun(s, G) /\ n \in [Players -> Nat] /\ ControlInv(s, C)
      /\ E = Succ(s, C) /\ ControlInv(s, E)
  BY DEF Log, IsRun
<1>2. 0 \in Comp /\ 1 \in Comp /\ 1 \in Classes /\ Server \in Players /\ Class(Server) = 1
      /\ Comp \subseteq Players /\ Players \ {Server} = Comp
  BY ClassFacts, AwaitedFrom DEF Class, Classes
<1>3. PICK op, v, u, z, mine, said, h :
         /\ op = s[C.batch][C.turn] /\ v = Pair(D, j) /\ u = D[Server][j]
         /\ z = D[Server][j + 1] /\ mine = Heard(Server, C, K)
         /\ said = Told(Server, C.turn, E, K) /\ h = Shift(op)
  OBVIOUS
<1>4. Calm(C) /\ C.slice[t] = 2 /\ op.kind \in Reading
  <2>1. Calm(C) /\ C.slice[C.turn] = 2 /\ s[C.batch][C.turn].kind \in Reading
    BY <1>1, DotCalm
  <2> QED BY <1>3, <2>1
<1>5. PICK got, gave : IsSlice(s, C, E) /\ Together(s, C, E, v, w, got, gave)
  BY <1>3, TogetherStep
<1>6. ValidOp(op) /\ op.kind \in Oblivious /\ t \in DOMAIN C.slice
      /\ op.kind \notin Explicit /\ op.kind # "oblivious_update"
  <2>1. ValidOp(op) /\ t \in DOMAIN C.slice
    BY <1>3, <1>5, SliceJob
  <2> QED BY <1>4, <2>1 DEF Reading, Oblivious, Explicit
<1>7. j < n[Server]
  <2>1. E.idx[1][t] = C.sent[1] + 1 /\ C.sent[1] \in Nat
    <3>1. NextAt(s, C) = 3
      BY <1>4, <1>5, <1>3 DEF NextAt, NextSlice
    <3>2. E.idx[1] = [C.idx[1] EXCEPT ![C.turn] = C.sent[1] + 1]
      BY ZenonT(30), <1>2, <1>5, <3>1 DEF IsSlice, NextAt, Awaited
    <3>3. C.idx[1] \in [DOMAIN C.slice -> Nat]
      BY <1>2, <1>5, Zenon DEF IsSlice
    <3>4. C.sent[1] \in Nat
      BY <1>1, <1>2 DEF ControlInv, ControlType
    <3> QED BY <1>6, <3>2, <3>3, <3>4
  <2>2. Queued(n, G, <<Server, 0>>) = G[n[Server]].sent[1]
    BY <1>2 DEF Queued
  <2>3. n[Server] \in Nat
    BY <1>1, <1>2
  <2>4. ASSUME n[Server] <= j PROVE FALSE
    <3>1. G[n[Server]].sent[1] <= C.sent[1]
      BY <1>1, <1>2, <2>3, <2>4, RunGrows
    <3>2. E.idx[1][t] <= G[n[Server]].sent[1]
      BY <1>2, <2>2
    <3>3. G[n[Server]].sent[1] \in Nat
      <4>1. ControlInv(s, G[n[Server]])
        BY <1>1, <2>3 DEF IsRun
      <4> QED BY <1>2, <4>1 DEF ControlInv, ControlType
    <3> QED BY <2>1, <3>1, <3>2, <3>3
  <2> QED BY <2>3, <2>4
<1>8. j <= n[Server] /\ n[Server] \in Nat /\ Both(n, j)
  BY <1>1, <1>2, <1>7 DEF Both
<1>9. ServerRel(op, "dot", u, z, mine, said)
  <2>1. StepRel(s, Server, C, u, z, mine, said)
    BY <1>2, <1>3, <1>7, StepTaken
  <2> QED BY <1>3, <2>1 DEF StepRel, JobAt
<1>10. mine[0] = IndOffset(0, op) /\ mine[1] = IndOffset(1, op)
  <2>1. ASSUME NEW p \in Comp PROVE mine[p] = IndOffset(p, op)
    <3>1. j <= n[p]
      BY <1>8, <2>1 DEF Both, Comp
    <3>2. Heard(Server, C, K)[p] = IndOffset(p, op)
      BY <1>3, <1>4, <3>1, ServerHears
    <3> QED BY <1>3, <3>2
  <2> QED BY <1>2, <2>1
<1>11. PICK rho \in Values :
          /\ said[0] = Sub(rho, Gamma(0, op, u, h))
          /\ said[1] = Sub(0, Add(rho, Gamma(1, op, u, h)))
  <2>1. h = (mine[0] + mine[1]) % Width
    BY <1>3, <1>10 DEF Shift
  <2>2. Blinds \subseteq Values
    BY RingAssumption
  <2> QED BY <1>9, <2>1, <2>2 DEF ServerRel
<1>12. PBDMatches(v) /\ SBLMatches(u, v)
  BY <1>3, <1>4, <1>8, AlwaysBlinds DEF BlindsMatch
<1>13. Columns(v)
  BY <1>5 DEF Together, PartyData, Columns
<1>14. PICK h0, h1 : h0 = said[0] /\ h1 = said[1]
  OBVIOUS
<1>15. /\ h0 \in Values /\ h1 \in Values
       /\ Add(Add(h0, h1), Add(Product(0, op, v[0], h), Product(1, op, v[1], h)))
            = AddAll(v[0].db, v[1].db)[Cell(op)]
  <2>1. AddsUp(op, v, u, rho, h)
    BY <1>3, <1>6, <1>12, <1>13, ReadAddsUp, Zenon
  <2> QED BY <1>11, <1>14, <2>1 DEF AddsUp
<1>16. /\ w[0].loc[t].res = Product(0, op, v[0], h)
       /\ w[1].loc[t].res = Product(1, op, v[1], h)
       /\ w[0].exp[t] = v[0].mem[Cell(op)]
  <2>1. /\ \A p \in Comp : w[p].loc[t].res = Product(p, op, v[p], Shift(op))
        /\ w[0].exp[t] = v[0].mem[Cell(op)]
    <3>1. op = s[C.batch][t] /\ IsSlice(s, C, E) /\ Together(s, C, E, v, w, got, gave)
      BY <1>3, <1>5
    <3> QED BY <3>1, PartyDots
  <2> QED BY <1>2, <1>3, <2>1, Zenon
<1>17. v[0].mem = AddAll(v[0].db, v[1].db)
  BY <1>3, Zenon DEF SumOfShares
<1>18. h0 = K[<<Server, 0>>][E.idx[1][t]] /\ h1 = K[<<Server, 1>>][E.idx[1][t]]
  BY <1>2, <1>3, <1>14, Zenon DEF Told
<1> QED BY <1>15, <1>16, <1>17, <1>18, Zenon DEF Answers

\* What coroutine c holds, and is owed, after j steps of both parties.
CoroutineHolds(s, n, G, C, v, K, c) ==
    LET op == s[C.batch][c]
        k  == C.slice[c]
        x  == v[0].loc[c]
        y  == v[1].loc[c]
        e  == v[0].exp[c]
        i  == C.idx[1][c]
    IN  /\ HoldsChange(op, k, x, y, e) /\ HoldsRead(op, k, x, y, e)
        /\ k = 3 /\ (\A r \in Comp : i <= Queued(n, G, <<Server, r>>))
             => Answers(x, y, e, K[<<Server, 0>>][i], K[<<Server, 1>>][i])

Shared(s, n, G, D, K, j) ==
    Both(n, j) =>
      /\ SumOfShares(Pair(D, j))
      /\ ~ Ended(s, G[j]) =>
           \A c \in DOMAIN G[j].slice : CoroutineHolds(s, n, G, G[j], Pair(D, j), K, c)

LEMMA SharedStart ==
    ASSUME NEW s, NEW n, NEW G, NEW D, NEW K, Log(s, n, G, D, K)
    PROVE  Shared(s, n, G, D, K, 0)
<1>1. G[0].slice = Fresh(s[1])
  BY DEF Log, IsRun, First
<1>2. \A c \in DOMAIN G[0].slice : G[0].slice[c] = 1
  BY <1>1 DEF Fresh
<1>3. \A c \in DOMAIN G[0].slice : CoroutineHolds(s, n, G, G[0], Pair(D, 0), K, c)
  BY <1>2 DEF CoroutineHolds, HoldsChange, HoldsRead, Updating, Finished
<1>4. /\ Start(s, 0, D[0][0]) /\ Start(s, 1, D[1][0]) /\ 0 # Server /\ 1 # Server
      /\ Pair(D, 0)[0] = D[0][0] /\ Pair(D, 0)[1] = D[1][0]
  BY ClassFacts DEF Log, Pair
<1>5. SumOfShares(Pair(D, 0))
  BY <1>4, ZeroSum DEF Start, SumOfShares
<1> QED BY <1>3, <1>5 DEF Shared

\* A coroutine that a step leaves where it is holds what it held.
LEMMA KeepsHolding ==
    ASSUME NEW s, NEW n, NEW G, NEW D, NEW K, Log(s, n, G, D, K),
           NEW j \in Nat, Both(n, j + 1), NEW C, C = G[j], NEW E, E = G[j + 1],
           NEW c, Unmoved(C, E, c),
           \/ AtEnd(s, C) /\ ~ AllFinished(C)
           \/ AtSkip(s, C)
           \/ AtSlice(s, C) /\ c # C.turn /\ C.slice[c] # 0,
           CoroutineHolds(s, n, G, C, Pair(D, j), K, c)
    PROVE  CoroutineHolds(s, n, G, E, Pair(D, j + 1), K, c)
<1>1. n \in [Players -> Nat]
  BY DEF Log
<1>2. ASSUME NEW p \in Comp
      PROVE  /\ D[p][j + 1].loc[c] = D[p][j].loc[c]
             /\ p = 0 => D[p][j + 1].exp[c] = D[p][j].exp[c]
  <2>1. j < n[p]
    BY <1>1, ClassFacts DEF Both
  <2> QED BY <2>1, Untouched
<1>3. /\ Pair(D, j + 1)[0].loc[c] = Pair(D, j)[0].loc[c]
      /\ Pair(D, j + 1)[1].loc[c] = Pair(D, j)[1].loc[c]
      /\ Pair(D, j + 1)[0].exp[c] = Pair(D, j)[0].exp[c]
  BY <1>2, ClassFacts DEF Pair
<1>4. /\ E.batch = C.batch /\ E.slice[c] = C.slice[c] /\ E.idx[1][c] = C.idx[1][c]
  BY Zenon DEF Unmoved, Classes
<1> QED BY <1>3, <1>4 DEF CoroutineHolds

\* A coroutine that has run a slice holds what it should.
LEMMA SliceHolds ==
    ASSUME NEW s, NEW n, NEW G, NEW D, NEW K, Log(s, n, G, D, K),
           NEW j \in Nat, Both(n, j + 1), AtSlice(s, G[j]), SumOfShares(Pair(D, j)),
           NEW C, C = G[j], NEW E, E = G[j + 1], NEW t, t = C.turn,
           CoroutineHolds(s, n, G, C, Pair(D, j), K, t)
    PROVE  CoroutineHolds(s, n, G, E, Pair(D, j + 1), K, t)
<1>1. PICK op, k, n2, v, w, job :
         /\ op = s[C.batch][t] /\ k = C.slice[t] /\ n2 = NextAt(s, C) /\ job = JobAt(s, C)
         /\ v = Pair(D, j) /\ w = Pair(D, j + 1)
  OBVIOUS
<1>2. PICK got, gave :
         /\ IsSlice(s, C, E) /\ Together(s, C, E, v, w, got, gave)
         /\ \A p \in Comp : got[p] = Heard(p, C, K)
  <2>1. /\ IsSlice(s, C, E)
        /\ \E got, gave : /\ Together(s, C, E, Pair(D, j), Pair(D, j + 1), got, gave)
                          /\ \A p \in Comp : got[p] = Heard(p, C, K)
    BY TogetherStep
  <2> QED BY <1>1, <2>1, Zenon
<1>3. t \in DOMAIN C.slice /\ E.batch = C.batch /\ E.slice[t] = n2
      /\ (job = "answer" => k = 3) /\ (n2 = 3 => job = "dot")
  <2>1. t \in DOMAIN C.slice /\ (job = "answer" => k = 3)
    BY <1>1, <1>2, SliceJob
  <2>2. n2 = 3 => job = "dot"
    BY <1>1, <1>2, ToDot, Zenon
  <2> QED BY <1>1, <1>2, <2>1, <2>2, Zenon DEF IsSlice, NextAt
<1>4. HoldsRead(op, k, v[0].loc[t], v[1].loc[t], v[0].exp[t])
  BY <1>1, Zenon DEF CoroutineHolds
<1>5. ASSUME job = "answer"
      PROVE  Answers(v[0].loc[t], v[1].loc[t], v[0].exp[t], got[0][Server], got[1][Server])
  <2>1. PICK i : i = C.idx[1][t]
    OBVIOUS
  <2>2. 0 \in Comp /\ 1 \in Comp /\ Server \in Players /\ Class(Server) = 1
    BY ClassFacts DEF Class
  <2>3. got[0][Server] = K[<<Server, 0>>][i] /\ got[1][Server] = K[<<Server, 1>>][i]
    <3>1. got[0] = Heard(0, C, K) /\ got[1] = Heard(1, C, K)
      BY <1>2, <2>2
    <3>2. \A r : Heard(r, C, K)[Server] = K[<<Server, r>>][C.idx[1][C.turn]]
      BY <2>2 DEF Heard
    <3> QED BY <2>1, <3>1, <3>2
  <2>4. ASSUME NEW r \in Comp PROVE i <= Queued(n, G, <<Server, r>>)
    <3>1. r \in Players /\ Server \in Players \ {r} /\ j < n[r] /\ Awaited(1, k)
      <4>1. n \in [Players -> Nat]
        BY DEF Log
      <4>2. r \in Players /\ Server \in Players \ {r} /\ j < n[r]
        BY <4>1, ClassFacts, AwaitedFrom DEF Both
      <4>3. Awaited(1, k)
        BY <1>3, <1>5 DEF Awaited
      <4> QED BY <4>2, <4>3
    <3>2. C.idx[Class(Server)][C.turn] <= Queued(n, G, <<Server, r>>)
      BY <1>1, <2>2, <3>1, StepTaken
    <3> QED BY <2>1, <2>2, <3>2
  <2> QED BY <1>1, <1>3, <1>5, <2>1, <2>3, <2>4, Zenon DEF CoroutineHolds
<1>6. /\ HoldsChange(op, n2, w[0].loc[t], w[1].loc[t], w[0].exp[t])
      /\ HoldsRead(op, n2, w[0].loc[t], w[1].loc[t], w[0].exp[t])
  BY <1>1, <1>2, <1>4, <1>5, PairHolds
<1>7. ASSUME n2 = 3, \A r \in Comp : E.idx[1][t] <= Queued(n, G, <<Server, r>>)
      PROVE  Answers(w[0].loc[t], w[1].loc[t], w[0].exp[t],
                     K[<<Server, 0>>][E.idx[1][t]], K[<<Server, 1>>][E.idx[1][t]])
  BY ZenonT(30), <1>1, <1>3, <1>7, DotHolds
<1> QED BY <1>1, <1>3, <1>6, <1>7, Zenon DEF CoroutineHolds

LEMMA SharedStep ==
    ASSUME NEW s, NEW n, NEW G, NEW D, NEW K, Log(s, n, G, D, K),
           NEW j \in Nat, Shared(s, n, G, D, K, j)
    PROVE  Shared(s, n, G, D, K, j + 1)
<1>1. SUFFICES ASSUME Both(n, j + 1)
               PROVE  /\ SumOfShares(Pair(D, j + 1))
                      /\ ~ Ended(s, G[j + 1]) =>
                           \A c \in DOMAIN G[j + 1].slice :
                              CoroutineHolds(s, n, G, G[j + 1], Pair(D, j + 1), K, c)
  BY DEF Shared
<1>2. PICK C, E, v, w : C = G[j] /\ E = G[j + 1] /\ v = Pair(D, j) /\ w = Pair(D, j + 1)
  OBVIOUS
<1>3. s \in Scripts /\ ControlInv(s, C) /\ E = Succ(s, C) /\ n \in [Players -> Nat]
  BY <1>2 DEF Log, IsRun
<1>4. Both(n, j) /\ j < n[0]
  BY <1>1, <1>3, ClassFacts DEF Both
<1>5. ~ Ended(s, C)
  BY <1>2, <1>4, StepTaken, ClassFacts
<1>6. SumOfShares(v) /\ \A c \in DOMAIN C.slice : CoroutineHolds(s, n, G, C, v, K, c)
  BY <1>2, <1>4, <1>5 DEF Shared
<1>7. SumOfShares(w)
  <2>1. CASE ~ AtSlice(s, C)
    <3>1. SameMemory(v, w) /\ D[0][j + 1].mem = D[0][j].mem
      BY <1>1, <1>2, <2>1, PairIdle
    <3>2. v[0] = D[0][j] /\ w[0] = D[0][j + 1] /\ 0 \in Comp /\ 1 \in Comp
      BY <1>2, ClassFacts DEF Pair
    <3> QED BY <1>6, <3>1, <3>2 DEF SameMemory, SumOfShares
  <2>2. CASE AtSlice(s, C)
    <3>1. PICK got, gave : IsSlice(s, C, E) /\ Together(s, C, E, v, w, got, gave)
      BY <1>1, <1>2, <2>2, TogetherStep
    <3>2. C.turn \in DOMAIN C.slice
      BY <3>1 DEF IsSlice
    <3>3. HoldsChange(s[C.batch][C.turn], C.slice[C.turn], v[0].loc[C.turn],
                      v[1].loc[C.turn], v[0].exp[C.turn])
      BY <1>6, <3>2 DEF CoroutineHolds
    <3> QED BY <1>6, <3>1, <3>3, PairShares
  <2> QED BY <2>1, <2>2
<1>8. ASSUME NEW c \in DOMAIN E.slice, ~ Ended(s, E)
      PROVE  CoroutineHolds(s, n, G, E, w, K, c)
  <2>1. CASE E.slice[c] = 1
    BY <2>1 DEF CoroutineHolds, HoldsChange, HoldsRead, Updating, Finished
  <2>2. CASE AtSlice(s, C) /\ IsSlice(s, C, E) /\ c = C.turn
    <3>1. c \in DOMAIN C.slice
      BY <2>2 DEF IsSlice
    <3> QED BY <1>1, <1>2, <1>6, <2>2, <3>1, SliceHolds
  <2>3. CASE /\ Unmoved(C, E, c)
             /\ \/ AtEnd(s, C) /\ ~ AllFinished(C)
                \/ AtSkip(s, C)
                \/ AtSlice(s, C) /\ IsSlice(s, C, E) /\ c # C.turn /\ C.slice[c] # 0
    <3>1. c \in DOMAIN C.slice
      BY <2>3 DEF Unmoved
    <3> QED BY <1>1, <1>2, <1>6, <2>3, <3>1, KeepsHolding
  <2> QED BY <1>3, <1>8, <2>1, <2>2, <2>3, CoroutineCases
<1> QED BY <1>2, <1>7, <1>8

LEMMA AlwaysShared ==
    ASSUME NEW s, NEW n, NEW G, NEW D, NEW K, Log(s, n, G, D, K)
    PROVE  \A j \in Nat : Shared(s, n, G, D, K, j)
<1> DEFINE S == {j \in Nat : Shared(s, n, G, D, K, j)}
<1>1. 0 \in S
  BY SharedStart
<1>2. \A j \in Nat : j \in S => j + 1 \in S
  BY SharedStep
<1> HIDE DEF S
<1>3. \A j \in Nat : j \in S
  BY <1>1, <1>2, SetInduction
<1> QED BY <1>3 DEF S

\* A batch that has come to its first slice again has only changed blinds.
LEMMA QuietStep ==
    ASSUME NEW s, NEW n, NEW G, NEW D, NEW K, Log(s, n, G, D, K), NEW p \in Comp,
           NEW m \in Nat, m < n[p], NEW j \in Nat, m < j, ~ Ended(s, G[m]),
           G[j].batch = G[m].batch, \A c \in DOMAIN G[j].slice : G[j].slice[c] = 1
    PROVE  /\ D[p][m + 1].db = D[p][m].db
           /\ p = 0 => D[p][m + 1].mem = D[p][m].mem
<1>1. p \in Players /\ p # Server
  BY ClassFacts, AwaitedFrom
<1>2. CASE ~ AtSlice(s, G[m])
  BY <1>1, <1>2, IdleStep
<1>3. CASE AtSlice(s, G[m])
  <2>1. PICK C, E, v, w, got, gave, job, op, t, n2 :
           /\ C = G[m] /\ E = G[m + 1] /\ v = D[p][m] /\ w = D[p][m + 1]
           /\ got = Heard(p, G[m], K) /\ gave = Told(p, G[m].turn, G[m + 1], K)
           /\ job = JobAt(s, C) /\ op = s[C.batch][C.turn] /\ t = C.turn /\ n2 = NextAt(s, C)
    OBVIOUS
  <2>2. IsSlice(s, C, E) /\ PartyStepAt(s, C, p, v, w, got, gave)
    BY <1>3, <2>1, PartySlice, Zenon
  <2>3. t \in DOMAIN E.slice /\ E.slice[t] = n2 /\ ~ Ended(s, E) /\ E.batch = C.batch
        /\ n2 = NextSlice(op, C.slice[t], C.mode) /\ job = Job(op, C.slice[t], C.mode)
    BY <2>1, <2>2, Zenon DEF IsSlice, NextAt, JobAt
  <2>4. n2 \in {0, 1}
    <3>1. s \in Scripts /\ IsRun(s, G) /\ ControlInv(s, E) /\ ControlInv(s, G[j])
          /\ m + 1 \in Nat
      BY <2>1 DEF Log, IsRun
    <3>2. E.slice[t] \in Slices
      BY <2>3, <3>1 DEF ControlInv, ControlType
    <3>3. CASE m + 1 = j
      BY <2>1, <2>3, <3>3
    <3>4. CASE m + 1 # j
      <4>1. m + 1 < j
        BY <3>4
      <4>2. Later(s, E, G[j])
        BY <2>1, <2>3, <3>1, <4>1, RunLater
      <4>3. Rank(E, t) <= Rank(G[j], t)
        BY <2>3, <4>2 DEF Later
      <4>4. t \in DOMAIN G[j].slice
        <5>1. DOMAIN E.slice = DOMAIN BatchOf(s, E)
              /\ DOMAIN G[j].slice = DOMAIN BatchOf(s, G[j])
          BY <3>1 DEF ControlInv, ControlType
        <5>2. BatchOf(s, G[j]) = BatchOf(s, E)
          BY <2>1, <2>3 DEF BatchOf, Ended
        <5> QED BY <2>3, <5>1, <5>2
      <4>5. G[j].slice[t] = 1
        BY <4>4
      <4>6. Rank(G[j], t) \in {0, 2}
        <5>1. G[j].mode \in BOOLEAN
          BY <3>1 DEF ControlInv, ControlType
        <5>2. CASE G[j].mode
          BY <4>5, <5>2 DEF Rank, Finished
        <5>3. CASE ~ G[j].mode
          BY <4>5, <5>3 DEF Rank, Finished
        <5> QED BY <5>1, <5>2, <5>3
      <4>7. Rank(E, t) <= 2 /\ Rank(E, t) \in 0 .. 6
        BY <3>2, <4>3, <4>6, RankIs
      <4>8. E.slice[t] \in {2, 3, 4} => Rank(E, t) = E.slice[t] + 1
        BY DEF Rank, Finished
      <4>9. E.slice[t] = Finished => Rank(E, t) = 6
        BY <3>2, RankIs
      <4> QED BY <2>3, <3>2, <4>7, <4>8, <4>9 DEF Slices, Finished
    <3> QED BY <3>3, <3>4
  <2>5. job \in {"reblind", "refresh"}
    <3>1. PICK k : k = C.slice[t]
      OBVIOUS
    <3> QED BY <2>1, <2>2, <2>4, <3>1, SliceJob DEF Finished
  <2>6. PartyRel(p, op, t, job, n2, v, w, got, gave)
    BY <2>1, <2>2 DEF PartyStepAt
  <2>7. w.db = v.db /\ (p = 0 => w.mem = v.mem)
    BY <2>5, <2>6 DEF PartyRel
  <2> QED BY <2>1, <2>7
<1> QED BY <1>2, <1>3

LEMMA QuietRun ==
    ASSUME NEW s, NEW n, NEW G, NEW D, NEW K, Log(s, n, G, D, K), NEW p \in Comp,
           NEW i \in Nat, NEW j \in Nat, i <= j, j <= n[p], Returned(s, G[i], G[j])
    PROVE  /\ D[p][j].db = D[p][i].db
           /\ p = 0 => D[p][j].mem = D[p][i].mem
<1> DEFINE S == {m \in Nat : i <= m /\ m <= j => /\ D[p][m].db = D[p][i].db
                                                 /\ p = 0 => D[p][m].mem = D[p][i].mem}
<1>1. 0 \in S
  BY DEF S
<1>2. ASSUME NEW m \in Nat, m \in S PROVE m + 1 \in S
  <2>1. SUFFICES ASSUME i <= m, m < j
                 PROVE  /\ D[p][m + 1].db = D[p][i].db
                        /\ p = 0 => D[p][m + 1].mem = D[p][i].mem
    BY DEF S
  <2>2. /\ s \in Scripts /\ IsRun(s, G) /\ n[p] \in Nat
    BY ClassFacts DEF Log
  <2>3. /\ G[i].batch <= G[m].batch /\ G[m].batch <= G[j].batch
    BY <2>1, <2>2, RunGrows
  <2>4. G[j].batch = G[i].batch /\ ~ Ended(s, G[i])
        /\ \A c \in DOMAIN G[j].slice : G[j].slice[c] = 1
    BY DEF Returned
  <2>5. G[i].batch \in Nat /\ G[m].batch \in Nat
    <3>1. G[i] \in Controls /\ G[m] \in Controls
      BY <2>2 DEF IsRun
    <3> QED BY <3>1 DEF Controls
  <2>6. G[m].batch = G[j].batch
    BY <2>3, <2>4, <2>5
  <2>7. ~ Ended(s, G[m])
    BY <2>4, <2>6 DEF Ended
  <2>8. m < n[p]
    BY <2>1, <2>2
  <2>9. /\ D[p][m + 1].db = D[p][m].db
        /\ p = 0 => D[p][m + 1].mem = D[p][m].mem
    BY <2>1, <2>4, <2>6, <2>7, <2>8, QuietStep
  <2> QED BY <1>2, <2>1, <2>9 DEF S
<1> HIDE DEF S
<1>3. \A m \in Nat : m \in S
  BY <1>1, <1>2, SetInduction
<1> QED BY <1>3 DEF S

LEMMA PastShares ==
    ASSUME HasPast
    PROVE  SharesOfMemory
<1>1. SUFFICES ASSUME Place(0) = Place(1) PROVE AddAll(DB[0], DB[1]) = mem
  BY DEF SharesOfMemory
<1>2. PICK n, G, D, K : Trace(n, G, D, K)
  BY DEF HasPast
<1>3. Log(script, n, G, D, K)
  BY <1>2 DEF Trace
<1>4. PICK i, j : i = n[0] /\ j = n[1]
  OBVIOUS
<1>5. /\ 0 \in Players /\ 1 \in Players /\ 0 \in Comp /\ 1 \in Comp
      /\ i \in Nat /\ j \in Nat /\ View(0) = D[0][i] /\ View(1) = D[1][j]
  BY <1>2, <1>4, ClassFacts, Here
<1>6. DB[0] = D[0][i].db /\ DB[1] = D[1][j].db /\ mem = D[0][i].mem
  BY <1>5, Views
<1>7. ASSUME NEW m \in Nat, m <= i, m <= j
      PROVE  AddAll(D[0][m].db, D[1][m].db) = D[0][m].mem
  <2>1. Shared(script, n, G, D, K, m)
    BY <1>3, AlwaysShared
  <2> QED BY <1>4, <1>5, <1>7, <2>1 DEF Shared, Both, SumOfShares, Pair
<1>8. CASE i = j
  BY <1>5, <1>6, <1>7, <1>8
<1>9. CASE i < j
  <2>1. Returned(script, G[i], G[j])
    BY <1>1, <1>2, <1>4, <1>5, <1>9, AheadAt
  <2>2. D[1][j].db = D[1][i].db
    BY <1>3, <1>4, <1>5, <1>9, <2>1, QuietRun
  <2> QED BY <1>5, <1>6, <1>7, <1>9, <2>2
<1>10. CASE j < i
  <2>1. Returned(script, G[j], G[i])
    BY <1>1, <1>2, <1>4, <1>5, <1>10, AheadAt
  <2>2. D[0][i].db = D[0][j].db /\ D[0][i].mem = D[0][j].mem
    BY <1>3, <1>4, <1>5, <1>10, <2>1, QuietRun
  <2> QED BY <1>5, <1>6, <1>7, <1>10, <2>2
<1> QED BY <1>5, <1>8, <1>9, <1>10

\* The shares of the parties add up to the memory on which the same operations
\* were done in the same order (duoram.tcc:301-561), whatever the interleaving
\* of the parties and of their coroutines.
THEOREM SharesAlwaysAddUp == Spec => []SharesOfMemory
<1>1. HasPast => SharesOfMemory
  BY PastShares
<1> QED BY <1>1, PastAlways, PTL

-----------------------------------------------------------------------------
(* What reads get.                                                         *)

\* A read that has its result keeps it to the end of the batch.
LEMMA KeepsResult ==
    ASSUME NEW s, NEW n, NEW G, NEW D, NEW K, Log(s, n, G, D, K), NEW p \in Comp,
           NEW m \in Nat, m < n[p], NEW C, C = G[m], NEW E, E = G[m + 1],
           E.batch = C.batch, NEW c \in DOMAIN C.slice, C.slice[c] \in {4, Finished}
    PROVE  /\ c \in DOMAIN E.slice /\ E.slice[c] \in {4, Finished}
           /\ D[p][m + 1].loc[c] = D[p][m].loc[c]
           /\ p = 0 => D[p][m + 1].exp[c] = D[p][m].exp[c]
<1>1. p \in Players /\ p # Server
  BY ClassFacts, AwaitedFrom
<1>2. /\ s \in Scripts /\ IsRun(s, G) /\ ControlInv(s, C) /\ ControlInv(s, E)
      /\ ~ Ended(s, C) /\ E = Succ(s, C)
  <2>1. s \in Scripts /\ IsRun(s, G)
    BY DEF Log
  <2>2. /\ ControlInv(s, C) /\ ControlInv(s, E) /\ ~ Ended(s, C) /\ E = Succ(s, C)
    BY <1>1, StepTaken
  <2> QED BY <2>1, <2>2
<1>3. ~ Ended(s, E) /\ BatchOf(s, E) = BatchOf(s, C)
  BY <1>2 DEF Ended, BatchOf
<1>4. c \in DOMAIN E.slice
  BY <1>2, <1>3 DEF ControlInv, ControlType
<1>5. E.slice[c] \in {4, Finished}
  <2>1. C.slice[c] \in Slices /\ E.slice[c] \in Slices
    BY <1>2, <1>3, <1>4 DEF ControlInv, ControlType
  <2>2. Later(s, C, E)
    <3>1. m + 1 \in Nat /\ m < m + 1
      OBVIOUS
    <3> QED BY <1>2, <3>1, RunLater
  <2>3. Rank(C, c) <= Rank(E, c)
    BY <2>2 DEF Later
  <2>4. Rank(C, c) \in {5, 6}
    <3>1. C.slice[c] = 4 => Rank(C, c) = 5
      BY DEF Rank, Finished
    <3> QED BY <2>1, <3>1, RankIs
  <2>5. E.slice[c] \in {2, 3} => Rank(E, c) = E.slice[c] + 1
    BY DEF Rank, Finished
  <2>6. E.slice[c] = 0 => Rank(E, c) = 1
    BY DEF Rank, Finished
  <2>7. E.slice[c] = 1 => Rank(E, c) \in {0, 2}
    <3>1. E.mode \in BOOLEAN
      BY <1>2 DEF ControlInv, ControlType
    <3>2. E.slice[c] = 1 /\ E.mode => Rank(E, c) = 0
      BY DEF Rank, Finished
    <3>3. E.slice[c] = 1 /\ ~ E.mode => Rank(E, c) = 2
      BY DEF Rank, Finished
    <3> QED BY <3>1, <3>2, <3>3
  <2> QED BY <2>1, <2>3, <2>4, <2>5, <2>6, <2>7 DEF Slices
<1>6. CASE AtSlice(s, C) /\ IsSlice(s, C, E) /\ c = C.turn
  <2>1. PICK v, w, got, gave, job, op, k, n2 :
           /\ v = D[p][m] /\ w = D[p][m + 1]
           /\ got = Heard(p, C, K) /\ gave = Told(p, C.turn, E, K)
           /\ job = JobAt(s, C) /\ op = s[C.batch][C.turn] /\ k = C.slice[C.turn]
           /\ n2 = NextAt(s, C)
    OBVIOUS
  <2>2. PartyStepAt(s, C, p, v, w, got, gave)
    BY <1>6, <2>1, PartySlice
  <2>3. k = 4
    BY <1>6, <2>1 DEF AtSlice
  <2>4. job = "update"
    <3>1. job = Job(op, 4, C.mode)
      BY <2>1, <2>3 DEF JobAt
    <3> QED BY <3>1 DEF Job
  <2>5. PartyRel(p, op, C.turn, job, n2, v, w, got, gave)
    BY <2>1, <2>2 DEF PartyStepAt
  <2>6. w.loc = v.loc /\ (p = 0 => w.exp = v.exp)
    BY <2>4, <2>5 DEF PartyRel
  <2> QED BY <1>4, <1>5, <2>1, <2>6
<1>7. CASE /\ Unmoved(C, E, c)
           /\ \/ AtEnd(s, C) /\ ~ AllFinished(C)
              \/ AtSkip(s, C)
              \/ AtSlice(s, C) /\ IsSlice(s, C, E) /\ c # C.turn /\ C.slice[c] # 0
  BY <1>4, <1>5, <1>7, Untouched
<1>8. E.slice[c] # 1
  BY <1>5 DEF Finished
<1> QED BY <1>2, <1>3, <1>4, <1>6, <1>7, <1>8, CoroutineCases

LEMMA ResultStays ==
    ASSUME NEW s, NEW n, NEW G, NEW D, NEW K, Log(s, n, G, D, K), NEW p \in Comp,
           NEW i \in Nat, NEW j \in Nat, i <= j, j <= n[p], G[j].batch = G[i].batch,
           NEW c \in DOMAIN G[i].slice, G[i].slice[c] \in {4, Finished}
    PROVE  /\ D[p][j].loc[c] = D[p][i].loc[c]
           /\ p = 0 => D[p][j].exp[c] = D[p][i].exp[c]
<1> DEFINE Same(m) == /\ c \in DOMAIN G[m].slice /\ G[m].slice[c] \in {4, Finished}
                      /\ D[p][m].loc[c] = D[p][i].loc[c]
                      /\ p = 0 => D[p][m].exp[c] = D[p][i].exp[c]
           S == {m \in Nat : i <= m /\ m <= j => Same(m)}
<1>1. 0 \in S
  BY DEF S
<1>2. ASSUME NEW m \in Nat, m \in S PROVE m + 1 \in S
  <2>1. CASE m + 1 = i
    BY <2>1
  <2>2. CASE i <= m /\ m < j
    <3>1. /\ s \in Scripts /\ IsRun(s, G) /\ n[p] \in Nat
      BY ClassFacts DEF Log
    <3>2. /\ G[i].batch <= G[m].batch /\ G[m].batch <= G[m + 1].batch
          /\ G[m + 1].batch <= G[j].batch
      BY <2>2, <3>1, RunGrows
    <3>3. G[i].batch \in Nat /\ G[m].batch \in Nat /\ G[m + 1].batch \in Nat
      <4>1. G[i] \in Controls /\ G[m] \in Controls /\ G[m + 1] \in Controls
        BY <3>1 DEF IsRun
      <4> QED BY <4>1 DEF Controls
    <3>4. G[m + 1].batch = G[m].batch
      BY <3>2, <3>3
    <3>5. m < n[p]
      BY <2>2, <3>1
    <3>6. Same(m)
      BY <1>2, <2>2
    <3>7. /\ c \in DOMAIN G[m + 1].slice /\ G[m + 1].slice[c] \in {4, Finished}
          /\ D[p][m + 1].loc[c] = D[p][m].loc[c]
          /\ p = 0 => D[p][m + 1].exp[c] = D[p][m].exp[c]
      BY <3>4, <3>5, <3>6, KeepsResult
    <3>8. Same(m + 1)
      BY <3>6, <3>7
    <3> QED BY <3>8
  <2>3. CASE m + 1 < i \/ j < m + 1
    BY <2>3
  <2> QED BY <2>1, <2>2, <2>3
<1> HIDE DEF S
<1>3. \A m \in Nat : m \in S
  BY <1>1, <1>2, SetInduction
<1> QED BY <1>3 DEF S

LEMMA PastReads ==
    ASSUME HasPast
    PROVE  ReadsTheMemory
<1>1. PICK n, G, D, K : Trace(n, G, D, K)
  BY DEF HasPast
<1>2. Log(script, n, G, D, K)
  BY <1>1 DEF Trace
<1>3. SUFFICES ASSUME NEW c \in DOMAIN expected, Running(0), batch[0] = batch[1],
                      Ops(0)[c].kind \in Reading, slice[0][c] \in {4, Finished},
                      slice[1][c] \in {4, Finished}
               PROVE  Add(local[0][c].res, local[1][c].res) = expected[c]
  BY DEF ReadsTheMemory
<1>4. PICK i, j : i = n[0] /\ j = n[1]
  OBVIOUS
<1>5. /\ 0 \in Players /\ 1 \in Players /\ 0 \in Comp /\ 1 \in Comp
      /\ i \in Nat /\ j \in Nat /\ View(0) = D[0][i] /\ View(1) = D[1][j]
      /\ batch[0] = G[i].batch /\ batch[1] = G[j].batch
      /\ slice[0] = G[i].slice /\ slice[1] = G[j].slice
      /\ ~ Ended(script, G[i]) /\ Ops(0) = script[G[i].batch]
      /\ ControlInv(script, G[i]) /\ ControlInv(script, G[j])
  BY <1>1, <1>3, <1>4, ClassFacts, Here
<1>6. local[0] = D[0][i].loc /\ local[1] = D[1][j].loc /\ expected = D[0][i].exp
  BY <1>5, Views
<1>7. G[i].batch = G[j].batch /\ ~ Ended(script, G[j])
  BY <1>3, <1>5 DEF Ended
<1>8. c \in DOMAIN G[i].slice /\ c \in DOMAIN G[j].slice
  <2>1. PartyData(0, G[i], D[0][i])
    BY <1>2, <1>4, <1>5, AlwaysTyped DEF Typed
  <2>2. DOMAIN D[0][i].exp = DOMAIN G[i].slice
    BY <2>1 DEF PartyData
  <2>3. BatchOf(script, G[i]) = BatchOf(script, G[j])
    BY <1>7 DEF Ended, BatchOf
  <2> QED BY <1>3, <1>5, <1>6, <2>2, <2>3 DEF ControlInv, ControlType
\* The parties have the result, where the one that is behind is.
<1>9. ASSUME NEW m \in Nat, m <= i, m <= j, ~ Ended(script, G[m]),
             c \in DOMAIN G[m].slice, G[m].slice[c] \in {4, Finished},
             G[m].batch = G[i].batch
      PROVE  Add(D[0][m].loc[c].res, D[1][m].loc[c].res) = D[0][m].exp[c]
  <2>1. Shared(script, n, G, D, K, m)
    BY <1>2, AlwaysShared
  <2>2. CoroutineHolds(script, n, G, G[m], Pair(D, m), K, c)
    BY <1>4, <1>5, <1>9, <2>1 DEF Shared, Both
  <2>3. HoldsRead(script[G[m].batch][c], G[m].slice[c], Pair(D, m)[0].loc[c],
                  Pair(D, m)[1].loc[c], Pair(D, m)[0].exp[c])
    BY <2>2 DEF CoroutineHolds
  <2>4. script[G[m].batch][c].kind \in Reading
    BY <1>3, <1>5, <1>9
  <2>5. Pair(D, m)[0] = D[0][m] /\ Pair(D, m)[1] = D[1][m]
    BY <1>5 DEF Pair
  <2> QED BY <1>9, <2>3, <2>4, <2>5 DEF HoldsRead
<1>10. CASE i <= j
  <2>1. D[1][j].loc[c] = D[1][i].loc[c]
    BY <1>2, <1>3, <1>4, <1>5, <1>7, <1>8, <1>10, ResultStays
  <2> QED BY <1>3, <1>5, <1>6, <1>8, <1>9, <1>10, <2>1
<1>11. CASE j <= i
  <2>1. D[0][i].loc[c] = D[0][j].loc[c] /\ D[0][i].exp[c] = D[0][j].exp[c]
    BY <1>2, <1>3, <1>4, <1>5, <1>7, <1>8, <1>11, ResultStays
  <2> QED BY <1>3, <1>5, <1>6, <1>7, <1>8, <1>9, <1>11, <2>1
<1> QED BY <1>5, <1>10, <1>11

\* An oblivious read yields shares of the cell at its index, as it was when the
\* read took its dot product, although other coroutines of the batch update the
\* memory between its slices (duoram.tcc:301-399); and no message is left over.
THEOREM ReadsAlwaysInOrder == Spec => []ReadsInOrder
<1>1. HasPast => ReadsTheMemory
  BY PastReads
<1> QED BY <1>1, PastAlways, EveryMessageReceived, PTL DEF ReadsInOrder

-----------------------------------------------------------------------------
(* What writes leave.                                                      *)

\* A write that has read its cell, and has not added the difference.
Pending(op, k) == k \in {3, 4} \/ (k = 2 /\ op.kind \in Explicit)

\* Its cell, z, is what it has read, e, until it is what was to be written.
Wrote(op, k, e, z) ==
    /\ Pending(op, k) => e = z
    /\ k = Finished => z = Meant(op)

LEMMA AddsRest ==
    ASSUME NEW a \in Values, NEW b \in Values
    PROVE  Add(a, Sub(b, a)) = b
<1>1. a \in Int /\ b \in Int /\ a = Red(a) /\ b = Red(b)
  BY RedValue
<1>2. Sub(b, a) = Red(b - a)
  BY <1>1, RedSums
<1>3. Add(a, Sub(b, a)) = Red(a + (b - a))
  BY <1>1, <1>2, RedSums
<1>4. a + (b - a) = b
  BY <1>1
<1> QED BY <1>1, <1>3, <1>4

\* A slice of the write itself.
LEMMA WriteSlice ==
    ASSUME NEW s, NEW C, NEW E, IsSlice(s, C, E), NEW v, PartyData(0, C, v),
           NEW w, NEW got, NEW gave, PartyStepAt(s, C, 0, v, w, got, gave),
           NEW t, t = C.turn, NEW op, op = s[C.batch][t], IsWrite(op), NEW i, i = Cell(op),
           Wrote(op, C.slice[t], v.exp[t], v.mem[i])
    PROVE  Wrote(op, NextAt(s, C), w.exp[t], w.mem[i])
<1>1. PICK k, job, n2, m, e :
         /\ k = C.slice[C.turn] /\ job = JobAt(s, C) /\ n2 = NextAt(s, C)
         /\ m = v.mem /\ e = v.exp
  OBVIOUS
<1>2. PartyRel(0, op, t, job, n2, v, w, got, gave)
  BY <1>1 DEF PartyStepAt
<1>3. /\ ValidOp(op) /\ t \in DOMAIN C.slice
      /\ \/ job = "nothing" /\ op.kind \in {"explicitonly", "reblind"}
         \/ job = "reblind" /\ n2 = 0
         \/ job = "refresh" /\ n2 \in {1, Finished} /\ k = 0
         \/ job = "local" /\ n2 = Finished /\ op.kind \in Explicit
         \/ job = "start" /\ n2 = 2 /\ op.kind \in Explicit
         \/ job = "finish" /\ k = 2 /\ n2 = Finished /\ op.kind \in Explicit
         \/ job = "ask" /\ n2 = 2 /\ op.kind \in Reading
         \/ job = "dot" /\ n2 = 3 /\ op.kind \in Reading
         \/ job = "answer" /\ k = 3 /\ n2 \in {4, Finished}
            /\ (op.kind # "oblivious_read" => n2 = 4)
         \/ job = "offset" /\ op.kind = "oblivious_update"
         \/ job = "update" /\ n2 = Finished /\ (k = 4 \/ op.kind = "oblivious_update")
  BY <1>1, SliceJob
<1>4. op.kind \in {"explicit_write", "oblivious_write"}
  BY DEF IsWrite
<1>5. m \in Column /\ e \in [DOMAIN C.slice -> Values] /\ e[t] \in Values
  BY <1>1, <1>3 DEF PartyData
<1>6. /\ i \in Cells /\ Meant(op) \in Values /\ m[i] \in Values
      /\ op.kind \in Explicit => op.index = i /\ op.kind \notin Oblivious
      /\ op.kind \in Reading => op.kind \notin Explicit
  <2>1. op.kind \in Explicit \cup Oblivious
    BY <1>4 DEF Explicit, Oblivious
  <2>2. i \in Cells /\ Meant(op) \in Values /\ (op.kind \in Explicit => op.index = i)
    BY <1>3, <2>1, OpFacts
  <2>3. (op.kind \in Explicit => op.kind \notin Oblivious)
        /\ (op.kind \in Reading => op.kind \notin Explicit)
    BY DEF Explicit, Oblivious, Reading
  <2> QED BY <1>5, <2>2, <2>3 DEF Column
<1>7. CASE job = "local"
  <2>1. w.mem = [m EXCEPT ![op.index] = Meant(op)]
    BY <1>1, <1>2, <1>7 DEF PartyRel
  <2>2. op.index = i /\ n2 = Finished
    BY <1>3, <1>6, <1>7
  <2>3. w.mem[i] = Meant(op)
    BY <1>5, <1>6, <2>1, <2>2 DEF Column
  <2> QED BY <1>1, <2>2, <2>3 DEF Wrote, Pending, Finished
<1>8. CASE job \in {"finish", "update"}
  <2>1. w.mem = [m EXCEPT ![i] = Add(@, Sub(Meant(op), e[t]))]
    BY <1>1, <1>2, <1>8, Zenon DEF PartyRel
  <2>2. w.mem[i] = Add(m[i], Sub(Meant(op), e[t]))
    BY <1>5, <1>6, <2>1 DEF Column
  <2>3. e[t] = m[i] /\ n2 = Finished
    <3>1. Pending(op, k) /\ n2 = Finished
      BY <1>3, <1>4, <1>8 DEF Pending
    <3> QED BY <1>1, <3>1 DEF Wrote
  <2>4. w.mem[i] = Meant(op)
    BY <1>6, <2>2, <2>3, AddsRest
  <2> QED BY <1>1, <2>3, <2>4 DEF Wrote, Pending, Finished
<1>9. CASE job \in {"start", "dot"}
  <2>1. w.mem = m /\ w.exp = [e EXCEPT ![t] = m[i]]
    BY <1>1, <1>2, <1>9, Zenon DEF PartyRel
  <2>2. w.exp[t] = m[i]
    BY <1>3, <1>5, <2>1
  <2>3. n2 \in {2, 3}
    BY <1>3, <1>9
  <2>4. w.exp[t] = w.mem[i]
    BY <2>1, <2>2, Zenon
  <2>5. n2 # Finished
    BY <2>3 DEF Finished
  <2>6. Wrote(op, n2, w.exp[t], w.mem[i])
    BY <2>4, <2>5, Zenon DEF Wrote
  <2> QED BY <1>1, <2>6, Zenon
<1>10. CASE job = "answer"
  <2>1. w.mem = m /\ w.exp = e
    BY <1>1, <1>2, <1>10 DEF PartyRel
  <2>2. k = 3 /\ n2 = 4
    BY <1>3, <1>4, <1>10
  <2>3. e[t] = m[i]
    BY <1>1, <2>2 DEF Wrote, Pending
  <2> QED BY <1>1, <2>1, <2>2, <2>3 DEF Wrote, Finished
<1>11. CASE job = "ask"
  <2>1. n2 = 2 /\ op.kind \notin Explicit
    BY <1>3, <1>6, <1>11
  <2> QED BY <1>1, <2>1 DEF Wrote, Pending, Finished
<1>12. CASE job \in {"reblind", "refresh"}
  <2>1. n2 \in {0, 1}
    <3>1. k = 0 => n2 # Finished
      BY <1>1, <1>4 DEF NextAt, NextSlice, Finished
    <3> QED BY <1>3, <1>12, <3>1
  <2> QED BY <1>1, <2>1 DEF Wrote, Pending, Finished
<1> QED BY <1>3, <1>4, <1>7, <1>8, <1>9, <1>10, <1>11, <1>12

\* A slice of an operation on another cell.
LEMMA OtherCell ==
    ASSUME NEW s, NEW C, NEW E, IsSlice(s, C, E), NEW v, PartyData(0, C, v),
           NEW w, NEW got, NEW gave, PartyStepAt(s, C, 0, v, w, got, gave),
           NEW op, op = s[C.batch][C.turn], NEW i \in Cells,
           op.kind \in Explicit \cup Oblivious => Cell(op) # i
    PROVE  w.mem[i] = v.mem[i]
<1>1. PICK t, k, job, n2 :
         t = C.turn /\ k = C.slice[C.turn] /\ job = JobAt(s, C) /\ n2 = NextAt(s, C)
  OBVIOUS
<1>2. PartyRel(0, op, t, job, n2, v, w, got, gave)
  BY <1>1 DEF PartyStepAt
<1>3. ValidOp(op) /\ (job \in {"local", "finish"} => op.kind \in Explicit)
      /\ (job = "update" => op.kind \in Oblivious)
  BY <1>1, SliceJob
<1>4. v.mem \in Column
  BY DEF PartyData
<1>5. CASE job = "local"
  <2>1. op.index # i
    BY <1>3, <1>5, OpFacts
  <2>2. \E x : w.mem = [v.mem EXCEPT ![op.index] = x]
    BY <1>2, <1>5 DEF PartyRel
  <2> QED BY <1>4, <2>1, <2>2 DEF Column
<1>6. CASE job \in {"finish", "update"}
  <2>1. Cell(op) # i
    BY <1>3, <1>6, Zenon
  <2>2. \E x : w.mem = [v.mem EXCEPT ![Cell(op)] = x]
    BY <1>2, <1>6, Zenon DEF PartyRel
  <2> QED BY <1>4, <2>1, <2>2 DEF Column
<1>7. CASE job \notin {"local", "finish", "update"}
  <2>1. w.mem = v.mem
    BY <1>2, <1>7, Zenon DEF PartyRel
  <2> QED BY <2>1, Zenon
<1> QED BY <1>5, <1>6, <1>7

\* A write to a cell that no other operation of the batch touches.
Independent(b, c) ==
    /\ IsWrite(b[c])
    /\ \A d \in DOMAIN b \ {c} :
          b[d].kind \in Explicit \cup Oblivious => Cell(b[d]) # Cell(b[c])

WroteAt(s, C, v, c) ==
    Wrote(s[C.batch][c], C.slice[c], v.exp[c], v.mem[Cell(s[C.batch][c])])

Wrought(s, n, G, D, j) ==
    j <= n[0] /\ ~ Ended(s, G[j]) =>
      \A c \in DOMAIN G[j].slice :
         Independent(s[G[j].batch], c) => WroteAt(s, G[j], D[0][j], c)

LEMMA WroughtStep ==
    ASSUME NEW s, NEW n, NEW G, NEW D, NEW K, Log(s, n, G, D, K),
           NEW j \in Nat, Wrought(s, n, G, D, j)
    PROVE  Wrought(s, n, G, D, j + 1)
<1>1. PICK C, E, v, w, b : /\ C = G[j] /\ E = G[j + 1] /\ v = D[0][j] /\ w = D[0][j + 1]
                           /\ b = s[E.batch]
  OBVIOUS
<1>2. SUFFICES ASSUME j + 1 <= n[0], ~ Ended(s, E), NEW c \in DOMAIN E.slice,
                      Independent(b, c)
               PROVE  WroteAt(s, E, w, c)
  BY <1>1 DEF Wrought
<1>3. 0 \in Players /\ 0 \in Comp /\ 0 # Server /\ n[0] \in Nat
  BY ClassFacts DEF Log
<1>4. j < n[0] /\ j <= n[0]
  BY <1>2, <1>3
<1>5. /\ s \in Scripts /\ ControlInv(s, C) /\ ControlInv(s, E) /\ ~ Ended(s, C)
      /\ E = Succ(s, C)
  BY <1>1, <1>3, <1>4, StepTaken
<1>6. \A d \in DOMAIN C.slice : Independent(s[C.batch], d) => WroteAt(s, C, v, d)
  BY <1>1, <1>4, <1>5 DEF Wrought
<1>7. PICK op, i : op = b[c] /\ i = Cell(op)
  OBVIOUS
<1>8. i \in Cells
  <2>1. E.batch \in 1 .. Len(s) /\ DOMAIN E.slice = DOMAIN b
    <3>1. BatchOf(s, E) = b
      BY <1>1, <1>2 DEF BatchOf
    <3>2. Len(s) \in Nat
      BY <1>5, ScriptFacts
    <3> QED BY <1>2, <1>5, <3>1, <3>2 DEF ControlInv, ControlType, Ended
  <2>2. ValidOp(op)
    BY <1>1, <1>5, <1>7, <2>1, ScriptFacts
  <2>3. op.kind \in Explicit \cup Oblivious
    BY <1>2, <1>7 DEF Independent, IsWrite, Explicit, Oblivious
  <2> QED BY <1>7, <2>2, <2>3, OpFacts
<1>9. CASE E.slice[c] = 1
  BY <1>9 DEF WroteAt, Wrote, Pending, Finished
<1>10. CASE AtSlice(s, C) /\ IsSlice(s, C, E) /\ c = C.turn
  <2>1. PICK got, gave : /\ PartyStepAt(s, C, 0, v, w, got, gave) /\ PartyData(0, C, v)
    BY <1>1, <1>3, <1>4, <1>10, PartySlice
  <2>2. E.batch = C.batch /\ c \in DOMAIN C.slice /\ E.slice[c] = NextAt(s, C)
    BY <1>10 DEF IsSlice, NextAt
  <2>3. Wrote(op, C.slice[c], v.exp[c], v.mem[i])
    BY <1>1, <1>2, <1>6, <1>7, <2>2 DEF WroteAt
  <2>4. IsWrite(op) /\ op = s[C.batch][c]
    BY <1>1, <1>2, <1>7, <2>2 DEF Independent
  <2>5. Wrote(op, NextAt(s, C), w.exp[c], w.mem[i])
    BY <1>7, <1>10, <2>1, <2>3, <2>4, WriteSlice, Zenon
  <2> QED BY <1>1, <1>7, <2>2, <2>5, Zenon DEF WroteAt
<1>11. CASE /\ Unmoved(C, E, c)
            /\ \/ AtEnd(s, C) /\ ~ AllFinished(C)
               \/ AtSkip(s, C)
               \/ AtSlice(s, C) /\ IsSlice(s, C, E) /\ c # C.turn /\ C.slice[c] # 0
  <2>1. E.batch = C.batch /\ c \in DOMAIN C.slice /\ E.slice[c] = C.slice[c]
    BY <1>11 DEF Unmoved
  <2>2. w.exp[c] = v.exp[c]
    BY <1>1, <1>3, <1>4, <1>11, Untouched
  <2>3. w.mem[i] = v.mem[i]
    <3>1. CASE ~ AtSlice(s, C)
      BY <1>1, <1>3, <1>4, <3>1, IdleStep
    <3>2. CASE AtSlice(s, C) /\ IsSlice(s, C, E) /\ c # C.turn
      <4>1. PICK got, gave : /\ PartyStepAt(s, C, 0, v, w, got, gave) /\ PartyData(0, C, v)
        BY <1>1, <1>3, <1>4, <3>2, PartySlice
      <4>2. PICK o : o = s[C.batch][C.turn]
        BY Zenon
      <4>3. C.turn \in DOMAIN b \ {c}
        BY <1>1, <2>1, <3>2, Zenon DEF IsSlice
      <4>4. o.kind \in Explicit \cup Oblivious => Cell(o) # i
        BY <1>1, <1>2, <1>7, <2>1, <4>2, <4>3 DEF Independent
      <4>5. IsSlice(s, C, E) /\ PartyStepAt(s, C, 0, v, w, got, gave) /\ PartyData(0, C, v)
        BY <3>2, <4>1
      <4>6. PICK x : x = i /\ x \in Cells
        BY <1>8
      <4>7. o.kind \in Explicit \cup Oblivious => Cell(o) # x
        BY <4>4, <4>6
      <4>8. w.mem[x] = v.mem[x]
        BY <4>2, <4>5, <4>6, <4>7, OtherCell
      <4> QED BY <4>6, <4>8
    <3> QED BY <1>5, <1>11, <3>1, <3>2, Kinds
  <2>4. WroteAt(s, C, v, c)
    BY <1>1, <1>2, <1>6, <2>1
  <2> QED BY <1>1, <1>7, <2>1, <2>2, <2>3, <2>4, Zenon DEF WroteAt
<1> QED BY <1>2, <1>5, <1>9, <1>10, <1>11, CoroutineCases

LEMMA AlwaysWrought ==
    ASSUME NEW s, NEW n, NEW G, NEW D, NEW K, Log(s, n, G, D, K)
    PROVE  \A j \in Nat : Wrought(s, n, G, D, j)
<1> DEFINE S == {j \in Nat : Wrought(s, n, G, D, j)}
<1>1. 0 \in S
  <2>1. G[0].slice = Fresh(s[1])
    BY DEF Log, IsRun, First
  <2>2. \A c \in DOMAIN G[0].slice : G[0].slice[c] = 1
    BY <2>1 DEF Fresh
  <2>3. \A c \in DOMAIN G[0].slice : WroteAt(s, G[0], D[0][0], c)
    BY <2>2 DEF WroteAt, Wrote, Pending, Finished
  <2> QED BY <2>3 DEF Wrought
<1>2. \A j \in Nat : j \in S => j + 1 \in S
  BY WroughtStep
<1> HIDE DEF S
<1>3. \A j \in Nat : j \in S
  BY <1>1, <1>2, SetInduction
<1> QED BY <1>3 DEF S

LEMMA PastWrites ==
    ASSUME HasPast
    PROVE  WritesTakeEffect
<1>1. PICK n, G, D, K : Trace(n, G, D, K)
  BY DEF HasPast
<1>2. Log(script, n, G, D, K)
  BY <1>1 DEF Trace
<1>a. /\ 0 \in Players /\ 0 \in Comp
      /\ n[0] \in Nat /\ View(0) = D[0][n[0]] /\ slice[0] = G[n[0]].slice
      /\ (Running(0) <=> ~ Ended(script, G[n[0]])) /\ Ops(0) = script[G[n[0]].batch]
      /\ ControlInv(script, G[n[0]]) /\ script \in Scripts
  <2>1. 0 \in Players /\ 0 \in Comp
    BY ClassFacts
  <2> QED BY <1>1, <2>1, Here
<1>3. SUFFICES ASSUME NEW c \in DOMAIN expected, Running(0), Place(0) = Place(1),
                      \A d \in DOMAIN expected : slice[0][d] = Finished,
                      IsWrite(Ops(0)[c]),
                      \A d \in DOMAIN expected \ {c} :
                         Ops(0)[d].kind \in Explicit \cup Oblivious
                           => Cell(Ops(0)[d]) # Cell(Ops(0)[c])
               PROVE  LET i == Cell(Ops(0)[c]) IN Add(DB[0][i], DB[1][i]) = Meant(Ops(0)[c])
  BY DEF WritesTakeEffect
<1>4. PICK j, C, b, op, i :
         j = n[0] /\ C = G[j] /\ b = script[C.batch] /\ op = b[c] /\ i = Cell(op)
  OBVIOUS
<1>5. /\ 0 \in Players /\ 0 \in Comp /\ j \in Nat /\ View(0) = D[0][j]
      /\ slice[0] = C.slice /\ ~ Ended(script, C) /\ Ops(0) = b
      /\ ControlInv(script, C) /\ script \in Scripts
  BY <1>a, <1>3, <1>4
<1>6. mem = D[0][j].mem /\ expected = D[0][j].exp
  BY <1>5, Views
<1>7. DOMAIN expected = DOMAIN C.slice /\ DOMAIN C.slice = DOMAIN b
  <2>1. PartyData(0, C, D[0][j])
    BY <1>2, <1>4, <1>5, AlwaysTyped DEF Typed
  <2>2. BatchOf(script, C) = b
    BY <1>4, <1>5 DEF BatchOf
  <2>3. DOMAIN C.slice = DOMAIN b
    BY <1>5, <2>2 DEF ControlInv, ControlType
  <2>4. DOMAIN D[0][j].exp = DOMAIN C.slice
    BY <2>1 DEF PartyData
  <2> QED BY <1>6, <2>3, <2>4
<1>8. Independent(b, c)
  BY <1>3, <1>5, <1>7 DEF Independent
<1>9. WroteAt(script, C, D[0][j], c)
  <2>1. Wrought(script, n, G, D, j)
    BY <1>2, <1>5, AlwaysWrought
  <2> QED BY <1>3, <1>4, <1>5, <1>7, <1>8, <2>1 DEF Wrought
<1>10. mem[i] = Meant(op)
  BY <1>3, <1>4, <1>5, <1>6, <1>9 DEF WroteAt, Wrote
<1>11. i \in Cells
  <2>1. C.batch \in 1 .. Len(script)
    <3>1. Len(script) \in Nat
      BY <1>5, ScriptFacts
    <3> QED BY <1>5, <3>1 DEF ControlInv, ControlType, Ended
  <2>2. ValidOp(op)
    BY <1>3, <1>4, <1>5, <1>7, <2>1, ScriptFacts
  <2>3. op.kind \in Explicit \cup Oblivious
    BY <1>8, <1>4 DEF Independent, IsWrite, Explicit, Oblivious
  <2> QED BY <1>4, <2>2, <2>3, OpFacts
<1>12. AddAll(DB[0], DB[1]) = mem
  BY <1>3, PastShares DEF SharesOfMemory
<1>13. Add(DB[0][i], DB[1][i]) = mem[i]
  BY <1>11, <1>12 DEF AddAll
<1> QED BY <1>4, <1>5, <1>10, <1>13

\* A write to a cell that no other operation of its batch touches leaves shares
\* of the written value there (duoram.tcc:435-561), although it is done by
\* reading and adding the difference, beside the other coroutines.
THEOREM WritesAlwaysTakeEffect == Spec => []WritesTakeEffect
<1>1. HasPast => WritesTakeEffect
  BY PastWrites
<1> QED BY <1>1, PastAlways, PTL
=============================================================================
