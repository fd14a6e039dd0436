---------------------------------- MODULE DPF ----------------------------------
(***************************************************************************)
(* Nodes of distributed point functions and their descent (dpf.hpp,        *)
(* prg.hpp, bitutils.hpp).  A 128-bit node is the set of the positions of  *)
(* its 1 bits, so that XOR is the symmetric difference; bit 0 is the flag. *)
(* A leaf is a sequence of nodes, as wide as the values stored with it.    *)
(* The generator is any function; AES is one.                              *)
(***************************************************************************)
EXTENDS Integers, Sequences, FiniteSets

CONSTANT WordBits \* a node is two words of this many bits

ASSUME WordBitsAssumption == WordBits \in Nat \ {0}

\* 1 shifted by n.
Shl[n \in Nat] == IF n = 0 THEN 1 ELSE 2 * Shl[n - 1]

Bits == 0 .. 2 * WordBits - 1
Node == SUBSET Bits
Modulus == Shl[WordBits]

XorNode(a, b)     == (a \ b) \cup (b \ a)
get_lsb(n)    == 0 \in n
xor_lsb(n, b) == IF b THEN XorNode(n, {0}) ELSE n
xor_if(a, b, flag) == IF flag THEN XorNode(a, b) ELSE a
XorBool(a, b) == a # b

\* The same for leaves, whose flag is that of their first node.
XorLeaf(a, b)      == [j \in DOMAIN a |-> XorNode(a[j], b[j])]
leaf_lsb(n)        == get_lsb(n[1])
xor_leaf_lsb(n, b) == [n EXCEPT ![1] = xor_lsb(@, b)]
xor_leaf_if(a, b, flag) == IF flag THEN XorLeaf(a, b) ELSE a

\* The XOR of the nodes (leaves of lwidth nodes) f[i] for i in S.
XorOver(f, S, lwidth) ==
    [j \in 1 .. lwidth |-> {b \in Bits : Cardinality({i \in S : b \in f[i][j]}) % 2 = 1}]

\* The words of a node.
Number(n, k) ==
    LET sum[i \in 0 .. k] ==
            IF i = 0 THEN 0 ELSE sum[i - 1] + (IF i - 1 \in n THEN Shl[i - 1] ELSE 0)
    IN  sum[k]
LowWord(n)  == Number(n, WordBits)
HighWord(n) == Number({b - WordBits : b \in {c \in n : c >= WordBits}}, WordBits)

Bit(x, k) == (x \div Shl[k]) % 2

\* The XOR of two numbers of n bits, from the lowest bit up.
XorBits[n \in Nat] ==
    [w \in Nat \X Nat |->
        IF n = 0 THEN 0
        ELSE 2 * XorBits[n - 1][<<w[1] \div 2, w[2] \div 2>>] + ((w[1] + w[2]) % 2)]

\* A child of a node before correction; the generator's input is the node with
\* the side in place of the flag, and key chooses the generator.
prg(gen, n, side, key) ==
    LET in == (n \ {0}) \cup (IF side = 1 THEN {0} ELSE {}) IN XorNode(gen[<<key, in>>], in)
=============================================================================
