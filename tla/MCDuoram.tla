------------------------------ MODULE MCDuoram ------------------------------
(* Values for the constants of Duoram: small programs over two cells. *)
EXTENDS Duoram, TLC

\* Party 1's share of a vector that is s at the target r and 0 elsewhere, when
\* party 0's share is f.
OtherShare(f, r, s) == [j \in Leaves |-> Sub(IF j = r THEN s ELSE 0, f[j])]

\* An RDPF triple with the target t0 + t1, whose three DPFs scale by 1, 2 and
\* 3; its shares are fixed but otherwise arbitrary.
Triple(t0, t1, seed) ==
    LET r    == (t0 + t1) % Width
        u(k) == [j \in Leaves |-> (seed + k + 2 * j) % M]
        v(k) == [j \in Leaves |-> (seed * k + j + 1) % M]
        s(k) == (k + 1) % M
    IN  [target |-> (0 :> t0) @@ (1 :> t1),
         unit   |-> [k \in 0 .. 2 |-> (0 :> u(k)) @@ (1 :> OtherShare(u(k), r, 1 % M))],
         scaled |-> [k \in 0 .. 2 |-> (0 :> v(k)) @@ (1 :> OtherShare(v(k), r, s(k)))],
         scale  |-> [k \in 0 .. 2 |-> (0 :> seed % M) @@ (1 :> Sub(s(k), seed % M))]]

Shared(a, b) == (0 :> a) @@ (1 :> b)

Expl(kind, i, a, b) == [kind |-> kind, index |-> i, value |-> Shared(a % M, b % M)]
Obl(kind, x, y, a, b, t) ==
    [kind |-> kind, index |-> Shared(x, y), value |-> Shared(a % M, b % M), rdpf |-> t]
Mode(kind) == [kind |-> kind]

\* Explicit initialization of both cells in parallel.
Filled == <<Expl("explicit_update", 0, 1, 1), Expl("explicit_write", 1, 2, 2)>>

\* An oblivious read beside an oblivious update of the same cell.
ReadBesideUpdate ==
    <<Filled,
      <<Obl("oblivious_read", 2, 3, 0, 0, Triple(1, 2, 1)),
        Obl("oblivious_update", 3, 2, 1, 0, Triple(0, 1, 2))>>>>

\* Explicit-only mode, then oblivious writes of different cells in parallel.
ModeThenWrites ==
    <<<<Mode("explicitonly")>>,
      Filled,
      <<Mode("reblind")>>,
      <<Obl("oblivious_write", 1, 3, 1, 1, Triple(1, 0, 1)),
        Obl("oblivious_write", 2, 3, 2, 1, Triple(1, 1, 2))>>>>

\* Writes of the same cell in parallel, then a read of it; explicitonly(false)
\* outside the mode.
SameCell ==
    <<<<Mode("reblind"), Expl("explicit_update", 0, 2, 0)>>,
      <<Expl("explicit_write", 0, 1, 0), Obl("oblivious_write", 3, 1, 2, 2, Triple(3, 0, 1))>>,
      <<Obl("oblivious_read", 2, 2, 0, 0, Triple(1, 1, 2))>>>>

\* Explicit-only mode, left by an oblivious update; then a read, and an explicit
\* write of the other cell.
LeftByUpdate ==
    <<<<Mode("explicitonly")>>,
      Filled,
      <<Obl("oblivious_update", 2, 3, 1, 0, Triple(1, 2, 2))>>,
      <<Obl("oblivious_read", 0, 1, 0, 0, Triple(2, 2, 1)),
        Expl("explicit_write", 0, 2, 2)>>>>

MCScripts == {ReadBesideUpdate, ModeThenWrites, SameCell, LeftByUpdate}
=============================================================================
