---------------------------------- MODULE RDPF ----------------------------------
(***************************************************************************)
(* The oblivious indices of the computational parties: an RDPF is made     *)
(* level by level by both parties from their expanded layers and a shared  *)
(* bit of the target (rdpf.tcc:648-925), stored and read back, expanded,   *)
(* and evaluated from any start with any XOR offset by several threads     *)
(* (rdpf.tcc:30-200, 950-1015).  The messages and coroutines of the        *)
(* creation are in Preproc.tla; here a level is one step of both parties.  *)
(***************************************************************************)
EXTENDS DPF

CONSTANTS
    MaxDepth,   \* depths of the RDPFs made
    Width,      \* values an RDPF can update (WIDTH)
    Gens,       \* a sequence of generators
    Seeds,      \* pairs of seeds of the parties, flags aside
    MaxThreads, \* threads of a layer and of an evaluation
    Starts,     \* starts of evaluations
    Offsets     \* XOR offsets of evaluations

VARIABLES
    phase,       \* "levels", "made", "eval", "done"
    gen, depth, incremental, save_expansion, target,
    level,       \* levels made
    cur,         \* each party's layer of internal nodes
    key,         \* each party's RDPF
    wrote,       \* the RDPF that was written, when it has been read back
    ev           \* a ParallelEval

vars == <<phase, gen, depth, incremental, save_expansion, target, level, cur,
          key, wrote, ev>>

LWidth == 1 + Width \div 2
Halves == {0, 1}
xor(a, b) == XorBits[WordBits][<<a, b>>]

\* A depth is below 64, which is the flag of an expansion in a file.
ASSUME DepthAssumption == MaxDepth \in 1 .. 63 /\ MaxDepth <= WordBits
ASSUME WidthAssumption == Width \in Nat \ {0}
ASSUME GensAssumption  == \A g \in DOMAIN Gens : Gens[g] \in [(0 .. LWidth) \X Node -> Node]
ASSUME SeedsAssumption == Seeds \subseteq [Halves -> Node]
ASSUME EvalsAssumption == /\ MaxThreads \in Nat \ {0}
                          /\ Starts \subseteq Nat /\ Offsets \subseteq Nat

Flag(b) == b = 1

-----------------------------------------------------------------------------
(* Layers.                                                                 *)

\* Threads share a layer of n in consecutive chunks, the first ones larger by
\* one if need be: the first element of thread t's chunk, and its size.
ChunkStart(n, nthreads, t) ==
    t * (n \div nthreads) + (IF t < n % nthreads THEN t ELSE n % nthreads)
ChunkSize(n, nthreads, t) == n \div nthreads + (IF t < n % nthreads THEN 1 ELSE 0)

\* A child as a sequence of one node, or of the nodes of a leaf.
Child(n, side, leaf) ==
    IF leaf THEN [j \in 1 .. LWidth |-> prg(Gens[gen], n, side, j)]
    ELSE <<prg(Gens[gen], n, side, 0)>>

\* expand_level: the XOR of all children on one side.
SideXor(layer, side, leaf) ==
    XorOver([i \in DOMAIN layer |-> Child(layer[i], side, leaf)], DOMAIN layer,
            IF leaf THEN LWidth ELSE 1)

\* Faulty variant: the parity of the flags is not corrected.
CorrectionNoParity(layers, bit, leaf) ==
    LET L == [p \in Halves |-> SideXor(layers[p], 0, leaf)]
        R == [p \in Halves |-> SideXor(layers[p], 1, leaf)]
    IN  [cw |-> IF bit = 0 THEN XorLeaf(R[0], R[1]) ELSE XorLeaf(L[0], L[1]),
         cfbit |-> FALSE]

\* create_level: the correction word is the XOR of the sides away from the
\* target, and the parity makes the flags on the target's side differ.
Correction(layers, bit, leaf) ==
    LET L == [p \in Halves |-> SideXor(layers[p], 0, leaf)]
        R0 == [p \in Halves |-> SideXor(layers[p], 1, leaf)]
        parity == [p \in Halves |->
                     XorBool(XorBool(leaf_lsb(L[p]), leaf_lsb(R0[p])), Flag(p))]
        R == [p \in Halves |-> xor_leaf_lsb(R0[p], parity[p])]
    IN  [cw |-> IF bit = 0 THEN XorLeaf(R[0], R[1]) ELSE XorLeaf(L[0], L[1]),
         cfbit |-> XorBool(parity[0], parity[1])]

\* What a correction does to a child: the right one also gets the flag bit.
Corrected(child, side, parent, c) ==
    xor_leaf_if(child, IF side = 1 THEN xor_leaf_lsb(c.cw, c.cfbit) ELSE c.cw,
                get_lsb(parent))

\* finalize_nonleaf_layer and the layer part of finalize_leaf_layer.
Finalized(layer, c, leaf) ==
    [i \in 0 .. 2 * Cardinality(DOMAIN layer) - 1 |->
        LET parent == layer[i \div 2]
        IN  Corrected(Child(parent, i % 2, leaf), i % 2, parent, c)]

-----------------------------------------------------------------------------
(* What is kept of a leaf layer.                                           *)

\* x to the power of half of Modulus, less 1.
inverse_value_t(x) ==
    LET xe[expon \in 1 .. WordBits] ==
            IF expon = 1 THEN x % Modulus
            ELSE LET y == xe[expon - 1] IN (y * y * x) % Modulus
    IN  xe[IF WordBits > 1 THEN WordBits - 1 ELSE 1]

\* The word of value j (from 1) in a leaf: the high word of the first node,
\* then the low and high words of the others.
ScaledWord(leaf, j) ==
    IF j = 1 THEN HighWord(leaf[1])
    ELSE IF j % 2 = 0 THEN LowWord(leaf[1 + j \div 2]) ELSE HighWord(leaf[1 + j \div 2])

Signed(p, v) == (IF p = 1 THEN -v ELSE v) % Modulus

\* The sum and the XOR of the words f[0] .. f[n-1].
SumOf(f, n) ==
    LET sum[i \in 0 .. n] == IF i = 0 THEN 0 ELSE (sum[i - 1] + f[i - 1]) % Modulus
    IN  sum[n]
XorOf(f, n) ==
    LET x[i \in 0 .. n] == IF i = 0 THEN 0 ELSE xor(x[i - 1], f[i - 1])
    IN  x[n]

LowWords(layer) == [i \in DOMAIN layer |-> LowWord(layer[i][1])]
ScaledWords(layer, j) == [i \in DOMAIN layer |-> ScaledWord(layer[i], j)]

\* Faulty variant: party 1 does not negate its low words.
LowSumUnsigned(p, layer) == SumOf(LowWords(layer), Cardinality(DOMAIN layer))

\* A party's sums, and the XOR of its words.
LowSum(p, layer) == Signed(p, SumOf(LowWords(layer), Cardinality(DOMAIN layer)))
ScaledSum(p, layer, j) == Signed(p, SumOf(ScaledWords(layer, j), Cardinality(DOMAIN layer)))
ScaledXor(layer, j) == XorOf(ScaledWords(layer, j), Cardinality(DOMAIN layer))

\* LeafInfo of party p's leaf layer, with both parties' sums exchanged.
LeafInfo(p, layers, c) ==
    [leaf_cw |-> c.cw, leaf_cfbit |-> c.cfbit,
     unit_sum_inverse |-> inverse_value_t((LowSum(0, layers[0]) + LowSum(1, layers[1])) % Modulus),
     scaled_sum |-> [j \in 1 .. Width |-> ScaledSum(p, layers[p], j)],
     scaled_xor |-> [j \in 1 .. Width |-> ScaledXor(layers[p], j)],
     expansion |-> IF save_expansion THEN layers[p] ELSE <<>>]

-----------------------------------------------------------------------------
(* Using an RDPF k.                                                        *)

\* The leaf level of the current depth.
LI(k) == k.li[k.maxdepth - k.curdepth + 1]

\* descend, and descend_to_leaf from a parent at depth d.
Descend(k, parent, d, side) ==
    xor_if(prg(Gens[gen], parent, side, 0),
           IF side = 1 THEN xor_lsb(k.cw[d + 1], k.cfbits[d + 1]) ELSE k.cw[d + 1],
           get_lsb(parent))
DescendToLeaf(k, parent, d, side) ==
    LET li == k.li[k.maxdepth - d]
    IN  Corrected(Child(parent, side, TRUE), side, parent,
                  [cw |-> li.leaf_cw, cfbit |-> li.leaf_cfbit])

\* The nodes on the way to input, by depth.
PathTo(k, d, input) ==
    LET path[i \in 0 .. d - 1] ==
            IF i = 0 THEN k.seed
            ELSE LET above == path[i - 1] IN Descend(k, above, i - 1, Bit(input, d - i))
    IN  path

\* RDPF::leaf
Leaf(k, input) ==
    IF LI(k).expansion # <<>> THEN LI(k).expansion[input]
    ELSE LET d == k.curdepth
         IN  DescendToLeaf(k, PathTo(k, d, input)[d - 1], d - 1, input % 2)

popcountl(x) == Cardinality({b \in 0 .. MaxDepth : Bit(x, b) = 1})

\* A path to an even index, moved to one that differs in the last ones + 1 bits:
\* a new node where it branches to side dir, and below it the way of offset.
Moved(k, d, path, ones, dir, offset) ==
    IF ones = 0 THEN path
    ELSE LET new[i \in 0 .. d - 1] ==
                IF i < d - ones THEN path[i]
                ELSE LET above == new[i - 1]
                     IN  Descend(k, above, i - 1,
                                 IF i = d - ones THEN dir ELSE Bit(offset, d - i))
         IN  new

\* expand_leaf_layer: pairs of leaves from left to right along one path.
ExpandedLayer(k, d) ==
    LET pathAt[index \in 0 .. Shl[d - 1] - 1] ==
            IF index = 0 THEN PathTo(k, d, 0)
            ELSE LET last == pathAt[index - 1]
                 IN  Moved(k, d, last, popcountl(xor(2 * index, 2 * (index - 1))), 1, 0)
    IN  [i \in 0 .. Shl[d] - 1 |-> DescendToLeaf(k, pathAt[i \div 2][d - 1], d - 1, i % 2)]

Expanded(k) ==
    [k EXCEPT !.li = [i \in DOMAIN k.li |->
        IF k.li[i].expansion # <<>> THEN k.li[i]
        ELSE [k.li[i] EXCEPT !.expansion = ExpandedLayer(k, k.maxdepth - i + 1)]]]

-----------------------------------------------------------------------------
(* Files (rdpf.tcc:226-330): the depth byte also tells whether an          *)
(* expansion follows, and whether every level is a leaf level.             *)

\* Faulty variant: an incremental RDPF is not marked.
WrittenUnmarked(k) ==
    LET expanded == k.li[1].expansion # <<>> IN
    [seed |-> k.seed, cw |-> k.cw, cfbits |-> k.cfbits, levels |-> k.li,
     depth |-> k.maxdepth + (IF expanded THEN 64 ELSE 0)]

Written(k) ==
    LET expanded == k.li[1].expansion # <<>> IN
    [seed |-> k.seed, cw |-> k.cw, cfbits |-> k.cfbits, levels |-> k.li,
     depth |-> k.maxdepth + (IF expanded THEN 64 ELSE 0)
                          + (IF Len(k.li) > 1 THEN 128 ELSE 0)]

ReadBack(f) ==
    LET inc == f.depth > 128
        d1 == IF inc THEN f.depth - 128 ELSE f.depth
        exp == d1 > 64
        d == IF exp THEN d1 - 64 ELSE d1
    IN  [seed |-> f.seed, whichhalf |-> IF get_lsb(f.seed) THEN 1 ELSE 0,
         maxdepth |-> d, curdepth |-> d, cw |-> f.cw, cfbits |-> f.cfbits,
         li |-> [i \in 1 .. (IF inc THEN d ELSE 1) |->
                   IF exp THEN f.levels[i] ELSE [f.levels[i] EXCEPT !.expansion = <<>>]]]

-----------------------------------------------------------------------------
(* StreamEval: outputs the leaves of (start + i) XOR offset, with wrapping. *)

\* Depth d is the current depth; pathindex is where path leads.
StreamStart(k, start, offset) ==
    LET d == k.curdepth
        s == start % Shl[d]
        o == offset % Shl[d]
    IN  [nextindex |-> s, pathindex |-> s, offset |-> o,
         path |-> IF LI(k).expansion # <<>> THEN <<>> ELSE PathTo(k, d, xor(s, o))]

\* Faulty variant: the new top child is always a right one.
StreamNextRight(k, s) ==
    LET d == k.curdepth
        ones == popcountl(2 * (xor(s.nextindex, s.pathindex) \div 2))
        path == Moved(k, d, s.path, ones, xor(1, Bit(s.offset, ones)), s.offset)
        next == [s EXCEPT !.nextindex = (@ + 1) % Shl[d], !.pathindex = s.nextindex]
    IN  IF LI(k).expansion # <<>>
        THEN [leaf |-> LI(k).expansion[xor(s.nextindex, s.offset)], s |-> next]
        ELSE [leaf |-> DescendToLeaf(k, path[d - 1], d - 1, xor(s.nextindex, s.offset) % 2),
              s |-> [next EXCEPT !.path = path]]

StreamNext(k, s) ==
    LET d == k.curdepth
        ones == popcountl(2 * (xor(s.nextindex, s.pathindex) \div 2))
        path == Moved(k, d, s.path, ones,
                      xor(Bit(s.nextindex, ones), Bit(s.offset, ones)), s.offset)
        next == [s EXCEPT !.nextindex = (@ + 1) % Shl[d], !.pathindex = s.nextindex]
    IN  IF LI(k).expansion # <<>>
        THEN [leaf |-> LI(k).expansion[xor(s.nextindex, s.offset)], s |-> next]
        ELSE [leaf |-> DescendToLeaf(k, path[d - 1], d - 1, xor(s.nextindex, s.offset) % 2),
              s |-> [next EXCEPT !.path = path]]

-----------------------------------------------------------------------------
Init ==
    /\ phase = "levels"
    /\ gen \in DOMAIN Gens
    /\ depth \in 1 .. MaxDepth
    /\ incremental \in BOOLEAN
    /\ save_expansion \in BOOLEAN
    /\ target \in 0 .. Shl[depth] - 1
    /\ level = 0
    /\ \E s \in Seeds :
        LET seed == [p \in Halves |-> IF p = 0 THEN s[p] \ {0} ELSE s[p] \cup {0}] IN
        /\ cur = [p \in Halves |-> [i \in {0} |-> seed[p]]]
        /\ key = [p \in Halves |->
                    [seed |-> seed[p], whichhalf |-> p, maxdepth |-> depth,
                     curdepth |-> depth, cw |-> <<>>, cfbits |-> <<>>, li |-> <<>>]]
    /\ wrote = <<>>
    /\ ev = <<>>

\* create_level of one level: the leaf layer (of an incremental RDPF at every
\* level) and, above the last level, the next internal layer.
CreateLevel ==
    LET bit == Bit(target, depth - level - 1)
        last == level = depth - 1
        c == Correction(cur, bit, FALSE)
        lc == Correction(cur, bit, TRUE)
        leaves == [p \in Halves |-> Finalized(cur[p], lc, TRUE)]
        next == [p \in Halves |-> Finalized(cur[p], c, FALSE)]
    IN  /\ phase = "levels"
        /\ level' = level + 1
        /\ phase' = IF last THEN "made" ELSE "levels"
        /\ cur' = IF last THEN cur
                  ELSE [p \in Halves |-> [i \in DOMAIN next[p] |-> next[p][i][1]]]
        /\ key' = [p \in Halves |->
             [key[p] EXCEPT
                !.cw = IF last THEN @ ELSE Append(@, c.cw[1]),
                !.cfbits = IF last THEN @ ELSE Append(@, c.cfbit),
                !.li = IF incremental \/ last
                       THEN <<LeafInfo(p, leaves, lc)>> \o @ ELSE @]]
        /\ UNCHANGED <<gen, depth, incremental, save_expansion, target, wrote, ev>>

\* Both parties write their RDPFs, maybe expanded first, and read them back.
WriteAndRead ==
    /\ phase = "made"
    /\ wrote = <<>>
    /\ \E expand \in BOOLEAN :
        /\ wrote' = [p \in Halves |-> IF expand THEN Expanded(key[p]) ELSE key[p]]
        /\ key' = [p \in Halves |-> ReadBack(Written(wrote'[p]))]
    /\ UNCHANGED <<phase, gen, depth, incremental, save_expansion, target, level, cur, ev>>

\* A party sets the depth of an incremental RDPF and starts a ParallelEval of
\* num_evals leaves.
StartEval ==
    /\ phase = "made"
    /\ \E p \in Halves, d \in (IF incremental THEN 1 .. depth ELSE {depth}),
          start \in Starts, offset \in Offsets, nthreads \in 1 .. MaxThreads :
       \E num_evals \in {Shl[d], Shl[d] - 1} \ {0} :
        LET k == [key[p] EXCEPT !.curdepth = d] IN
        /\ key' = [key EXCEPT ![p] = k]
        /\ ev' = [half |-> p, start |-> start, offset |-> offset,
                  num_evals |-> num_evals, nthreads |-> nthreads,
                  stream |-> [t \in 0 .. nthreads - 1 |->
                     StreamStart(k, start + ChunkStart(num_evals, nthreads, t), offset)],
                  accums |-> [t \in 0 .. nthreads - 1 |-> <<>>]]
    /\ phase' = "eval"
    /\ UNCHANGED <<gen, depth, incremental, save_expansion, target, level, cur, wrote>>

\* Thread t processes its next leaf: process(t, i, leaf).
Process(t) ==
    /\ phase = "eval"
    /\ t \in 0 .. ev.nthreads - 1
    /\ Len(ev.accums[t]) < ChunkSize(ev.num_evals, ev.nthreads, t)
    /\ LET k == key[ev.half]
           r == StreamNext(k, ev.stream[t])
           i == (ChunkStart(ev.num_evals, ev.nthreads, t) + Len(ev.accums[t])) % Shl[k.curdepth]
       IN  ev' = [ev EXCEPT !.stream[t] = r.s, !.accums[t] = Append(@, <<i, r.leaf>>)]
    /\ UNCHANGED <<phase, gen, depth, incremental, save_expansion, target, level, cur, key, wrote>>

\* pool.join()
Join ==
    /\ phase = "eval"
    /\ \A t \in 0 .. ev.nthreads - 1 :
          Len(ev.accums[t]) = ChunkSize(ev.num_evals, ev.nthreads, t)
    /\ phase' = "done"
    /\ UNCHANGED <<gen, depth, incremental, save_expansion, target, level, cur, key, wrote, ev>>

Next ==
    \/ CreateLevel
    \/ WriteAndRead
    \/ StartEval
    \/ \E t \in 0 .. MaxThreads - 1 : Process(t)
    \/ Join

Spec == Init /\ [][Next]_vars

-----------------------------------------------------------------------------
(* Properties.                                                             *)

Leaflevels == IF incremental THEN 1 .. depth ELSE {depth}

\* Each party holds what its phase needs.
TypeOK ==
    /\ phase \in {"levels", "made", "eval", "done"}
    /\ level \in 0 .. depth
    /\ \A p \in Halves : cur[p] \in [0 .. Shl[IF phase = "levels" THEN level ELSE depth - 1] - 1 -> Node]
    /\ \A p \in Halves :
        /\ key[p].whichhalf = p
        /\ Len(key[p].cw) = Len(key[p].cfbits)
        /\ phase # "levels" => /\ Len(key[p].cw) = depth - 1
                               /\ Len(key[p].li) = Cardinality(Leaflevels)

\* The two parties' nodes agree everywhere except on the way to the target,
\* where even their flags differ (rdpf.tcc:693-716): what one wrong correction
\* bit breaks, for some generator, some levels later.
OnlyTargetDiffers ==
    \A i \in DOMAIN cur[0] :
        LET l == IF phase = "levels" THEN level ELSE depth - 1 IN
        IF i = target \div Shl[depth - l] THEN get_lsb(cur[0][i]) # get_lsb(cur[1][i])
        ELSE cur[0][i] = cur[1][i]

\* The parties' keys have the parts of their phase, and the nodes they are
\* made from are the same off the way to the target.
KeysOffByTarget == TypeOK /\ OnlyTargetDiffers

Made == phase = "made"

\* The key of p at depth d.
At(p, d) == [key[p] EXCEPT !.curdepth = d]
TargetAt(d) == target \div Shl[depth - d]

unit_bs(k, leaf) == leaf_lsb(leaf)
unit_as(k, leaf) ==
    (Signed(k.whichhalf, LowWord(leaf[1])) * LI(k).unit_sum_inverse) % Modulus

\* The leaves share the unit vector of the target, as bits and, since the sum
\* of the low words is odd and so has an inverse, as words (rdpf.tcc:764-798).
SharesUnitVector ==
    Made => \A d \in Leaflevels : \A i \in 0 .. Shl[d] - 1 :
        LET k0 == At(0, d)
            k1 == At(1, d)
            l0 == Leaf(k0, i)
            l1 == Leaf(k1, i)
        IN  /\ (unit_bs(k0, l0) # unit_bs(k1, l1)) <=> (i = TargetAt(d))
            /\ (unit_as(k0, l0) + unit_as(k1, l1)) % Modulus
                 = IF i = TargetAt(d) THEN 1 ELSE 0

\* The scaled vectors are those of the scaling values the parties share, for
\* each of the values an index can update.
SharesScaledVector ==
    Made => \A d \in Leaflevels : \A i \in 0 .. Shl[d] - 1 : \A j \in 1 .. Width :
        LET k0 == At(0, d)
            k1 == At(1, d)
            w0 == ScaledWord(Leaf(k0, i), j)
            w1 == ScaledWord(Leaf(k1, i), j)
            onTarget(v) == IF i = TargetAt(d) THEN v ELSE 0
        IN  /\ (w0 + Signed(1, w1)) % Modulus
                 = onTarget((LI(k0).scaled_sum[j] + LI(k1).scaled_sum[j]) % Modulus)
            /\ xor(w0, w1) = onTarget(xor(LI(k0).scaled_xor[j], LI(k1).scaled_xor[j]))

\* The leaves are those of a vector that is zero but at the target, in each of
\* the forms in which they are used.
SharesVectors == SharesUnitVector /\ SharesScaledVector

\* An RDPF is read back as it was written, at its full depth.
ReadsWhatWasWritten == wrote # <<>> /\ phase = "made" => key = wrote

\* Expanding agrees with descending, leaf by leaf.
ExpandsToLeaves ==
    phase = "made" => \A p \in Halves : \A d \in Leaflevels :
        LET k == [At(p, d) EXCEPT !.li = [i \in DOMAIN @ |-> [@[i] EXCEPT !.expansion = <<>>]]]
        IN  ExpandedLayer(k, d) = [i \in 0 .. Shl[d] - 1 |-> Leaf(k, i)]

\* Neither storing nor expanding an RDPF changes the vector it shares.
StoredAndExpanded == ReadsWhatWasWritten /\ ExpandsToLeaves

\* When its threads have joined, a ParallelEval has processed every index of
\* its range once, each with the leaf of (start + i) XOR offset, also where the
\* range wraps around (rdpf.tcc:84-96, 126-150).
ProcessesTheRange ==
    phase = "done" =>
        LET k == key[ev.half]
            size == Shl[k.curdepth]
            all == UNION {{ev.accums[t][n] : n \in DOMAIN ev.accums[t]} : t \in DOMAIN ev.accums}
        IN  /\ all = {<<i, Leaf(k, xor((ev.start + i) % size, ev.offset % size))>> :
                      i \in 0 .. ev.num_evals - 1}
        /\ \A t, u \in DOMAIN ev.accums :
            \A n \in DOMAIN ev.accums[t], m \in DOMAIN ev.accums[u] :
                ev.accums[t][n][1] = ev.accums[u][m][1] => t = u /\ n = m
=============================================================================
