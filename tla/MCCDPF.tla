-------------------------------- MODULE MCCDPF --------------------------------
\* Values of the constants of CDPF: two arbitrary generators, one of which often
\* maps different nodes to the same.
EXTENDS CDPF

\* The node whose bits spell n.
NodeOf(n) == {b \in Bits : Bit(n, b) = 1}
ValueOf(n) == Number(n, 2 * WordBits)

Generator(a, b, c) ==
    [k \in {0}, n \in Node |-> NodeOf((a * ValueOf(n) * (ValueOf(n) + b) + b) % c)]
MCGens == <<Generator(7, 3, 13), Generator(3, 1, 5)>>

MCSeeds == {[p \in Halves |-> IF p = 0 THEN NodeOf(2) ELSE NodeOf(11)]}
=============================================================================
