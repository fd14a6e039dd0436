-------------------------------- MODULE MCRDPF --------------------------------
\* Values of the constants of RDPF: two arbitrary generators, one of which often
\* maps different nodes to the same.
EXTENDS RDPF

\* The node whose bits spell x.
NodeOf(x) == {b \in Bits : Bit(x, b) = 1}
Value(n)  == Number(n, 2 * WordBits)

Generator(a, b, c) ==
    [k \in 0 .. LWidth, n \in Node |->
        NodeOf((a * Value(n) * (Value(n) + k + b) + 5 * k + b) % c)]
MCGens == <<Generator(7, 3, 61), Generator(3, 1, 5)>>

MCSeeds == {[p \in Halves |-> IF p = 0 THEN NodeOf(2) ELSE NodeOf(27)]}
=============================================================================
