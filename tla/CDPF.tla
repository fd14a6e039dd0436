---------------------------------- MODULE CDPF ----------------------------------
(***************************************************************************)
(* Comparison by distributed point functions (cdpf.hpp, cdpf.cpp): the     *)
(* server makes a pair of CDPFs for a random target along the path to it,  *)
(* and the parties, once they have exchanged their shares of S = target-x, *)
(* each descend to S and to T = S + half of the range and add up the flags *)
(* strictly between.  A value has as many bits as a tree has levels, and   *)
(* LeafBits more, since a leaf spells the last ones.                       *)
(*                                                                         *)
(* A turn of a loop is a step.  The server only yields in a comparison.    *)
(***************************************************************************)
EXTENDS DPF

CONSTANTS
    Depth,    \* levels of the tree: VALUE_BITS - 7
    LeafBits, \* 7: a leaf has 2 to this power bits
    Gens,     \* a sequence of generators
    Seeds,    \* pairs of seeds of the parties, flags aside
    TargetShares, OperandShares \* party 0's random shares of target and operand

ASSUME DepthAssumption == Depth \in Nat /\ Depth >= 2
ASSUME LeafAssumption  == LeafBits \in Nat /\ Shl[LeafBits] = 2 * WordBits

VARIABLES
    gen, target,
    cur,    \* generate: the parties' nodes on the path to the target
    dpf,    \* the parties' CDPFs
    op,     \* the operation: "compare", "is_zero", or "is_zero_xs" of XOR shares
    x,      \* the parties' shares of the value to compare with 0
    comp    \* what each party has done of it

vars == <<gen, target, cur, dpf, op, x, comp>>

Halves == {0, 1}
ValueBits == Depth + LeafBits
NumValues == Shl[ValueBits]
Value == 0 .. NumValues - 1
xor(a, b) == XorBits[ValueBits][<<a, b>>]

ASSUME GensAssumption  == \A g \in DOMAIN Gens : Gens[g] \in [{0} \X Node -> Node]
ASSUME SeedsAssumption == Seeds \subseteq [Halves -> Node]
ASSUME SharesAssumption == TargetShares \subseteq Value /\ OperandShares \subseteq Value

PeerOf(p) == 1 - p
Generated == Len(dpf[0].cw) = Depth

\* The direction of v at a level.
Dir(v, level) == Bit(v, ValueBits - level - 1)

-----------------------------------------------------------------------------
(* CDPF::generate                                                          *)

Init ==
    /\ gen \in DOMAIN Gens
    /\ target \in Value
    /\ \E s \in Seeds, share \in TargetShares :
        LET seed == [p \in Halves |-> IF p = 0 THEN s[p] \ {0} ELSE s[p] \cup {0}] IN
        /\ cur = seed
        /\ dpf = [p \in Halves |->
                    [seed |-> seed[p], cw |-> <<>>, cfbits |-> <<>>, leaf_cwr |-> {},
                     as_target |-> IF p = 0 THEN share ELSE (target - share) % NumValues,
                     xs_target |-> IF p = 0 THEN share ELSE xor(target, share)]]
    /\ op = "none"
    /\ x = [p \in Halves |-> 0]
    /\ comp = [p \in Halves |-> [at |-> "start"]]

\* The flag bit makes the flags of all four children add up to 1.
FlagBit ==
    LET flag(p, side) == get_lsb(prg(Gens[gen], cur[p], side, 0)) IN
    ~ XorBool(XorBool(flag(0, 0), flag(1, 0)), XorBool(flag(0, 1), flag(1, 1)))

\* A level above the last is corrected by CW on both sides, and by cfbit on
\* the right: the children off the path become the same, the flags on it differ.
GenerateLevel ==
    LET cfbit == FlagBit
        level == Len(dpf[0].cw)
        right == Dir(target, level) = 1
        child == [p \in Halves |-> [side \in Halves |-> prg(Gens[gen], cur[p], side, 0)]]
        off   == IF right THEN 0 ELSE 1
        CW    == xor_lsb(XorNode(child[0][off], child[1][off]), ~right /\ cfbit)
        next(p) == xor_if(child[p][1 - off], IF right THEN xor_lsb(CW, cfbit) ELSE CW,
                          get_lsb(cur[p]))
    IN  /\ level < Depth - 1
        /\ dpf' = [p \in Halves |-> [dpf[p] EXCEPT !.cw = Append(@, CW),
                                                   !.cfbits = Append(@, cfbit)]]
        /\ cur' = [p \in Halves |-> next(p)]
        /\ UNCHANGED <<gen, target, op, x, comp>>

\* The last level has a correction word for each side, so that the leaves are
\* the same but for the bit of the target.
GenerateLeaves(bit) ==
    LET level == Len(dpf[0].cw)
        diff(side) == XorNode(prg(Gens[gen], cur[0], side, 0), prg(Gens[gen], cur[1], side, 0))
        CW(side) == XorNode(diff(side), IF side = Dir(target, level) THEN {bit} ELSE {})
    IN  /\ level = Depth - 1
        /\ dpf' = [p \in Halves |-> [dpf[p] EXCEPT !.cw = Append(@, CW(0)),
                                                   !.cfbits = Append(@, FlagBit),
                                                   !.leaf_cwr = CW(1)]]
        /\ UNCHANGED <<gen, target, cur, op, x, comp>>

\* Faulty variant: the position of the bit loses its highest bit.
GenerateLastHalf == GenerateLeaves(target % WordBits)

GenerateLast == GenerateLeaves(target % Shl[LeafBits])

-----------------------------------------------------------------------------
(* Descending.                                                             *)

\* DPF::descend and CDPF::descend_to_leaf from a parent at a level.
Descend(k, parent, level, side) ==
    xor_if(prg(Gens[gen], parent, side, 0),
           IF level = Depth - 1 THEN IF side = 1 THEN k.leaf_cwr ELSE k.cw[Depth]
           ELSE IF side = 1 THEN xor_lsb(k.cw[level + 1], k.cfbits[level + 1])
           ELSE k.cw[level + 1],
           get_lsb(parent))

\* CDPF::leaf
Leaf(k, input) ==
    LET node[l \in 0 .. Depth] ==
            IF l = 0 THEN k.seed ELSE Descend(k, node[l - 1], l - 1, Dir(input, l - 1))
    IN  node[Depth]

parity(n) == Cardinality(n) % 2 = 1
parity_above(n, pos) == parity({b \in n : b > pos})
parity_below(n, pos) == parity({b \in n : b < pos})
bit_at(n, pos) == pos \in n

-----------------------------------------------------------------------------
(* CDPF::compare and CDPF::is_zero; the latter goes down to S alone, and   *)
(* what the descent to T adds is no part of its result.                    *)

\* The parties are called with shares of a value.
Call ==
    /\ Generated
    /\ op = "none"
    /\ op' \in {"compare", "is_zero", "is_zero_xs"}
    /\ \E share \in OperandShares, v \in Value :
          x' = [p \in Halves |-> IF p = 0 THEN share
                                ELSE IF op' = "is_zero_xs" THEN xor(v, share) ELSE (v - share) % NumValues]
    /\ UNCHANGED <<gen, target, cur, dpf, comp>>

\* A party sends its share of target - x.
Send(p) ==
    /\ op # "none"
    /\ comp[p].at = "start"
    /\ comp' = [comp EXCEPT ![p] =
          [at |-> "sent", S_share |-> IF op = "is_zero_xs" THEN xor(dpf[p].xs_target, x[p])
                                      ELSE (dpf[p].as_target - x[p]) % NumValues]]
    /\ UNCHANGED <<gen, target, cur, dpf, op, x>>

Sum(a, b) == (a + b) % NumValues

\* It reads the peer's, and makes the only turn where S and T part.
Receive(p) ==
    /\ comp[p].at = "sent"
    /\ comp[PeerOf(p)].at # "start"
    /\ LET S == IF op = "is_zero_xs" THEN xor(comp[p].S_share, comp[PeerOf(p)].S_share)
                ELSE Sum(comp[p].S_share, comp[PeerOf(p)].S_share)
           seed == dpf[p].seed
           Sdir == Dir(S, 0)
       IN  comp' = [comp EXCEPT ![p] =
              [at |-> "down", S_share |-> @.S_share, S |-> S, level |-> 1,
               Snode |-> Descend(dpf[p], seed, 0, Sdir),
               Tnode |-> Descend(dpf[p], seed, 0, 1 - Sdir), gt |-> FALSE]]
    /\ UNCHANGED <<gen, target, cur, dpf, op, x>>

\* Faulty variant: the flag of T's parent counts, whichever way they go.
PassedBelow(Sparent, Snode, Tparent, Tnode, Sdir) == XorBool(get_lsb(Tparent), get_lsb(Tnode))

\* What a turn adds to gt: the flag of the sibling between the paths, which is
\* that of the parent without that of the node.
Passed(Sparent, Snode, Tparent, Tnode, Sdir) ==
    IF Sdir = 0 THEN XorBool(get_lsb(Sparent), get_lsb(Snode))
    ELSE XorBool(get_lsb(Tparent), get_lsb(Tnode))

\* A turn of the loop.
Turn(p) ==
    /\ comp[p].at = "down"
    /\ comp[p].level < Depth - 1
    /\ LET c == comp[p]
           Sdir == Dir(c.S, c.level)
           Snode == Descend(dpf[p], c.Snode, c.level, Sdir)
           Tnode == Descend(dpf[p], c.Tnode, c.level, Sdir)
       IN  comp' = [comp EXCEPT ![p] =
              [c EXCEPT !.level = @ + 1, !.Snode = Snode, !.Tnode = Tnode,
                        !.gt = XorBool(@, Passed(c.Snode, Snode, c.Tnode, Tnode, Sdir))]]
    /\ UNCHANGED <<gen, target, cur, dpf, op, x>>

\* Faulty variant: the bit of S itself counts as above S.
AtLeafIncluding(Snode, Tnode, pos) ==
    XorBool(parity({b \in Snode : b >= pos}), parity_below(Tnode, pos))

\* The bits of the two leaves that are strictly between S and T.
AtLeaf(Snode, Tnode, pos) == XorBool(parity_above(Snode, pos), parity_below(Tnode, pos))

\* The leaves: all bits of the sibling between them, and some of their own.
Finish(p) ==
    /\ comp[p].at = "down"
    /\ comp[p].level = Depth - 1
    /\ LET c == comp[p]
           Sdir == Dir(c.S, c.level)
           Snode == Descend(dpf[p], c.Snode, c.level, Sdir)
           Tnode == Descend(dpf[p], c.Tnode, c.level, Sdir)
           sibling == IF Sdir = 0 THEN XorBool(get_lsb(c.Snode), parity(Snode))
                      ELSE XorBool(get_lsb(c.Tnode), parity(Tnode))
           pos == c.S % Shl[LeafBits]
           eq == bit_at(Snode, pos)
           gt == XorBool(XorBool(c.gt, sibling), AtLeaf(Snode, Tnode, pos))
           lt == XorBool(p = 1, XorBool(eq, gt))
       IN  comp' = [comp EXCEPT ![p] = [at |-> "done", S_share |-> c.S_share,
              out |-> IF op = "compare" THEN <<lt, eq, gt>> ELSE <<eq>>]]
    /\ UNCHANGED <<gen, target, cur, dpf, op, x>>

\* The program may stop only when both parties have their shares.
Finished == (\A p \in Halves : comp[p].at = "done") /\ UNCHANGED vars

Next ==
    \/ GenerateLevel
    \/ GenerateLast
    \/ Call
    \/ \E p \in Halves : Send(p) \/ Receive(p) \/ Turn(p) \/ Finish(p)
    \/ Finished

Spec == Init /\ [][Next]_vars

-----------------------------------------------------------------------------
(* Properties.                                                             *)

TypeOK ==
    /\ \A p \in Halves :
        /\ cur[p] \in Node
        /\ dpf[p].as_target \in Value
        /\ dpf[p].cw \in Seq(Node) /\ dpf[p].cfbits \in Seq(BOOLEAN)
        /\ Len(dpf[p].cw) = Len(dpf[p].cfbits)
        /\ comp[p].at = "down" => comp[p].S \in Value /\ comp[p].level \in 1 .. Depth - 1
    /\ op \in {"none", "compare", "is_zero", "is_zero_xs"}
    /\ x \in [Halves -> Value]

\* The leaves of all inputs are the same at both parties but for the single bit
\* of the target (cdpf.cpp:83-91), for any generator: no correction is one off,
\* at any level and on either side.
LeavesDifferAtTarget ==
    Generated /\ op = "none" => \A input \in {i * Shl[LeafBits] : i \in 0 .. Shl[Depth] - 1} :
        XorNode(Leaf(dpf[0], input), Leaf(dpf[1], input))
            = IF target \div Shl[LeafBits] = input \div Shl[LeafBits]
              THEN {target % Shl[LeafBits]} ELSE {}

\* The prefix of v down to a level.
Above(v, level) == v \div Shl[ValueBits - level]
Half == Shl[ValueBits - 1]

AtSameLevel == \A p \in Halves : comp[p].at = "down" /\ comp[p].level = comp[0].level

\* While both parties are at the same level, their nodes on the way to S and to
\* T are the same unless the target is below them, and then the flags differ
\* (cdpf.cpp:231-234): what the sibling's flag is computed from.
PathsMeetTarget ==
    AtSameLevel =>
        LET c == comp
            level == comp[0].level
            Meets(m0, m1, v) ==
                IF Above(v, level) = Above(target, level) THEN get_lsb(m0) # get_lsb(m1)
                ELSE m0 = m1
        IN  /\ Meets(c[0].Snode, c[1].Snode, c[0].S)
            /\ Meets(c[0].Tnode, c[1].Tnode, (c[0].S + Half) % NumValues)

\* ... and gt shares whether the target is strictly between the two paths so
\* far, going up from S and wrapping around (cdpf.cpp:206-216).
BetweenSoFar ==
    AtSameLevel =>
        LET level == comp[0].level
            nodes == Shl[level]
            up(v) == (Above(v, level) - Above(comp[0].S, level)) % nodes
        IN  (comp[0].gt # comp[1].gt) <=> up(target) \in 1 .. up((comp[0].S + Half) % NumValues) - 1

\* What the two parties have of the paths and of the sum of flags fits together
\* at every level.
PathsFit == TypeOK /\ PathsMeetTarget /\ BetweenSoFar

\* The outputs share the sign of x: exactly one of less, equal and greater than
\* zero, as two's-complement integers; and is_zero shares whether it is zero
\* (cdpf.cpp:159-167, cdpf.hpp:115-121).
ComparesToZero ==
    (\A p \in Halves : comp[p].at = "done") =>
        LET v == IF op = "is_zero_xs" THEN xor(x[0], x[1]) ELSE (x[0] + x[1]) % NumValues IN
        [i \in DOMAIN comp[0].out |-> comp[0].out[i] # comp[1].out[i]]
            = IF op = "compare" THEN <<v >= Half, v = 0, v \in 1 .. Half - 1>> ELSE <<v = 0>>
=============================================================================
