---------------------------- MODULE MasterClock ----------------------------
(***************************************************************************)
(* What sync_lamport() promises (mpcio.cpp:492-499, mpcio.hpp:330-340):    *)
(* the master Lamport clock of a party is a register that each closing     *)
(* MPCTIO atomically raises to the maximum of itself and of its own clock. *)
(***************************************************************************)
EXTENDS Naturals

CONSTANTS
    Parties, \* the parties, each with one master clock
    Threads  \* the threads of a party, each with one MPCTIO

Tio == Parties \X Threads

VARIABLES
    master, \* the clock of each party
    clock,  \* the clock of each MPCTIO
    phase   \* of each MPCTIO: "new", "open" or "closed"

vars == <<master, clock, phase>>

Init ==
    /\ master = [p \in Parties |-> 0]
    /\ clock = [w \in Tio |-> 0]
    /\ phase = [w \in Tio |-> "new"]

\* A new MPCTIO starts at the master clock of its party.
Open(w) ==
    /\ phase[w] = "new"
    /\ phase' = [phase EXCEPT ![w] = "open"]
    /\ clock' = [clock EXCEPT ![w] = master[w[1]]]
    /\ UNCHANGED master

\* A message moves the clock of an MPCTIO forward.
Tick(w) ==
    /\ phase[w] = "open"
    /\ clock'[w] > clock[w]
    /\ clock' = [clock EXCEPT ![w] = clock'[w]]
    /\ UNCHANGED <<master, phase>>

\* The closing MPCTIO raises the master clock and takes its value.
Close(w) ==
    LET max == IF master[w[1]] < clock[w] THEN clock[w] ELSE master[w[1]] IN
    /\ phase[w] = "open"
    /\ phase' = [phase EXCEPT ![w] = "closed"]
    /\ master' = [master EXCEPT ![w[1]] = max]
    /\ clock' = [clock EXCEPT ![w] = max]

Next == \E w \in Tio : Open(w) \/ Tick(w) \/ Close(w)

Spec == Init /\ [][Next]_vars
=============================================================================
