----------------------------- MODULE Reservoir -----------------------------
(***************************************************************************)
(* What a stream sampler promises (heapsampler.hpp:9-24): from a stream of *)
(* any length it keeps K positions, or all of them while there are no more *)
(* than K; a later one takes the place of one that is kept, or is dropped. *)
(***************************************************************************)
EXTENDS Naturals

CONSTANT K  \* items to sample

VARIABLES
    seen,   \* elements of the stream so far
    sample  \* the positions of those that are kept

Init == seen = 0 /\ sample = {}

Keep ==
    /\ seen < K
    /\ seen' = seen + 1
    /\ sample' = sample \cup {seen'}

Replace ==
    /\ seen >= K
    /\ seen' = seen + 1
    /\ \E i \in sample : sample' = (sample \ {i}) \cup {seen'}

Drop ==
    /\ seen >= K
    /\ seen' = seen + 1
    /\ UNCHANGED sample

\* The stream ends; the next one starts from nothing.
Close == seen' = 0 /\ sample' = {}

Next == Keep \/ Replace \/ Drop \/ Close

Spec == Init /\ [][Next]_<<seen, sample>>
=============================================================================
