------------------------------- MODULE MPCTIO -------------------------------
(***************************************************************************)
(* Lamport clocks of the MPCTIOs of the two computational parties          *)
(* (mpcio.cpp:460-530, mpcio.hpp:325-400), driven as lamport_test drives   *)
(* them (online.cpp:167-212): each party posts one task per thread to a    *)
(* pool; a task constructs an MPCTIO, exchanges NIters messages with the   *)
(* same thread of the other party, and destroys the MPCTIO, which syncs    *)
(* its clock with the master clock mpcio.lamport of the party by a         *)
(* compare-exchange loop.                                                  *)
(*                                                                         *)
(* A message is its Lamport stamp; MPCSingleIO.tla models how messages are *)
(* cut in chunks and stamped.  The steps that touch mpcio.lamport, which   *)
(* is atomic and shared by the threads of a party, are separate.           *)
(***************************************************************************)
EXTENDS Naturals, Sequences, FiniteSets

CONSTANTS
    Parties, \* the two computational parties
    Threads, \* the threads of the pool, the same at both parties
    NIters   \* messages each task exchanges (niters)

ASSUME PartiesAssumption == IsFiniteSet(Parties) /\ Cardinality(Parties) = 2
ASSUME ThreadsAssumption == IsFiniteSet(Threads) /\ Threads # {}
ASSUME NItersAssumption  == NIters \in Nat \ {0}

VARIABLES
    lamport,        \* the master clock of each party
    pc,             \* where each task is
    iter,           \* messages each task has received
    thread_lamport, \* the clock of each MPCTIO
    old_lamport,    \* locals of sync_lamport
    new_lamport,
    channel         \* stamps on their way to each MPCTIO

tiovars == <<lamport, pc, iter, thread_lamport, old_lamport, new_lamport, channel>>

Tio == Parties \X Threads

\* The MPCTIO at the other end of the connection.
Peer(w) == <<CHOOSE p \in Parties : p # w[1], w[2]>>

Larger(a, b) == IF a < b THEN b ELSE a

TIOInit ==
    /\ lamport = [p \in Parties |-> 0]
    /\ pc = [w \in Tio |-> "construct"]
    /\ iter = [w \in Tio |-> 0]
    /\ thread_lamport = [w \in Tio |-> 0]
    /\ old_lamport = [w \in Tio |-> 0]
    /\ new_lamport = [w \in Tio |-> 0]
    /\ channel = [w \in Tio |-> <<>>]

-----------------------------------------------------------------------------
Goto(w, label) == pc' = [pc EXCEPT ![w] = label]

\* The constructor reads the master clock.
Construct(w) ==
    /\ pc[w] = "construct"
    /\ Goto(w, "send")
    /\ thread_lamport' = [thread_lamport EXCEPT ![w] = lamport[w[1]]]
    /\ UNCHANGED <<lamport, iter, old_lamport, new_lamport, channel>>

\* Faulty variant: the task goes on without its peer's message.
SendTwice(w) ==
    /\ pc[w] = "send"
    /\ Goto(w, IF iter[w] + 1 < NIters THEN "send" ELSE "recv")
    /\ channel' = [channel EXCEPT ![Peer(w)] = Append(@, thread_lamport[w])]
    /\ iter' = [iter EXCEPT ![w] = IF @ + 1 < NIters THEN @ + 1 ELSE @]
    /\ UNCHANGED <<lamport, thread_lamport, old_lamport, new_lamport>>

\* queue_peer() of the chunks of a message, and send().
SendMessage(w) ==
    /\ pc[w] = "send"
    /\ Goto(w, "recv")
    /\ channel' = [channel EXCEPT ![Peer(w)] = Append(@, thread_lamport[w])]
    /\ UNCHANGED <<lamport, iter, thread_lamport, old_lamport, new_lamport>>

\* Faulty variant: receiving costs no latency.
RecvSameTime(w) ==
    /\ pc[w] = "recv"
    /\ channel[w] # <<>>
    /\ channel' = [channel EXCEPT ![w] = Tail(@)]
    /\ thread_lamport' = [thread_lamport EXCEPT ![w] = Larger(@, Head(channel[w]))]
    /\ iter' = [iter EXCEPT ![w] = @ + 1]
    /\ Goto(w, IF iter'[w] < NIters THEN "send" ELSE "load")
    /\ UNCHANGED <<lamport, old_lamport, new_lamport>>

\* recv_peer() of a whole message: the clock becomes at least stamp + 1.
RecvMessage(w) ==
    /\ pc[w] = "recv"
    /\ channel[w] # <<>>
    /\ channel' = [channel EXCEPT ![w] = Tail(@)]
    /\ thread_lamport' = [thread_lamport EXCEPT ![w] = Larger(@, Head(channel[w]) + 1)]
    /\ iter' = [iter EXCEPT ![w] = @ + 1]
    /\ Goto(w, IF iter'[w] < NIters THEN "send" ELSE "load")
    /\ UNCHANGED <<lamport, old_lamport, new_lamport>>

\* The destructor calls sync_lamport: its first read of the master clock.
Load(w) ==
    /\ pc[w] = "load"
    /\ Goto(w, "cas")
    /\ old_lamport' = [old_lamport EXCEPT ![w] = lamport[w[1]]]
    /\ new_lamport' = [new_lamport EXCEPT ![w] = thread_lamport[w]]
    /\ UNCHANGED <<lamport, iter, thread_lamport, channel>>

\* Faulty variant: the master clock is stored without a comparison.
CompareExchangeStores(w) ==
    LET new == Larger(new_lamport[w], old_lamport[w]) IN
    /\ pc[w] = "cas"
    /\ Goto(w, "done")
    /\ lamport' = [lamport EXCEPT ![w[1]] = new]
    /\ thread_lamport' = [thread_lamport EXCEPT ![w] = new]
    /\ new_lamport' = [new_lamport EXCEPT ![w] = new]
    /\ UNCHANGED <<iter, old_lamport, channel>>

\* A turn of the loop whose compare-exchange succeeds.
CompareExchange(w) ==
    LET new == Larger(new_lamport[w], old_lamport[w]) IN
    /\ pc[w] = "cas"
    /\ lamport[w[1]] = old_lamport[w]
    /\ Goto(w, "done")
    /\ lamport' = [lamport EXCEPT ![w[1]] = new]
    /\ thread_lamport' = [thread_lamport EXCEPT ![w] = new]
    /\ new_lamport' = [new_lamport EXCEPT ![w] = new]
    /\ UNCHANGED <<iter, old_lamport, channel>>

\* Faulty variant: the value that was found is not taken over.
CompareExchangeFailsStale(w) ==
    /\ pc[w] = "cas"
    /\ new_lamport' = [new_lamport EXCEPT ![w] = Larger(@, old_lamport[w])]
    /\ UNCHANGED <<lamport, pc, iter, thread_lamport, old_lamport, channel>>

\* A turn whose compare-exchange fails, because the master clock changed or,
\* the exchange being weak, spuriously.
CompareExchangeFails(w) ==
    /\ pc[w] = "cas"
    /\ new_lamport' = [new_lamport EXCEPT ![w] = Larger(@, old_lamport[w])]
    /\ old_lamport' = [old_lamport EXCEPT ![w] = lamport[w[1]]]
    /\ UNCHANGED <<lamport, pc, iter, thread_lamport, channel>>

Step(w) ==
    \/ Construct(w)
    \/ SendMessage(w)
    \/ RecvMessage(w)
    \/ Load(w)
    \/ CompareExchange(w)
    \/ CompareExchangeFails(w)

\* pool.join() returned at both parties.
AllDone == \A w \in Tio : pc[w] = "done"

\* The program may stop only when every task is done.
Joined == AllDone /\ UNCHANGED tiovars

TIONext == (\E w \in Tio : Step(w)) \/ Joined

TIOSpec == TIOInit /\ [][TIONext]_tiovars

\* Every thread of the pool runs, and a weak compare-exchange does not fail
\* spuriously for ever.
TIOFairSpec ==
    /\ TIOSpec
    /\ \A w \in Tio : WF_tiovars(Step(w)) /\ SF_tiovars(CompareExchange(w))

-----------------------------------------------------------------------------
(* Properties.                                                             *)

TIOTypeOK ==
    /\ lamport \in [Parties -> Nat]
    /\ pc \in [Tio -> {"construct", "send", "recv", "load", "cas", "done"}]
    /\ iter \in [Tio -> 0 .. NIters]
    /\ thread_lamport \in [Tio -> Nat]
    /\ old_lamport \in [Tio -> Nat]
    /\ new_lamport \in [Tio -> Nat]
    /\ channel \in [Tio -> Seq(Nat)]

\* Messages the task has started.
Sent(w) == iter[w] + (IF pc[w] = "recv" THEN 1 ELSE 0)

\* The two ends of a connection run in lockstep: no message is lost or read
\* twice, and at most two are ever on their way (online.cpp:194-201).
Lockstep ==
    \A w \in Tio :
        /\ Sent(Peer(w)) = iter[w] + Len(channel[w])
        /\ Len(channel[w]) <= 2

\* In sync_lamport, every value about to be stored covers the clock of the
\* thread and the value it replaces (mpcio.cpp:500-518): what makes the
\* compare-exchange loop an atomic maximum.
LoopCovers ==
    \A w \in Tio : pc[w] = "cas" =>
        /\ thread_lamport[w] <= Larger(new_lamport[w], old_lamport[w])
        /\ Larger(new_lamport[w], old_lamport[w])
             = Larger(thread_lamport[w], old_lamport[w])
        /\ old_lamport[w] <= lamport[w[1]]

\* The tasks of the two parties stay together, each message stamped and read
\* once, while their threads share the master clock (online.cpp:191-209).
Inv == TIOTypeOK /\ Lockstep /\ LoopCovers

\* The reading of lamport_test's result: however the tasks are scheduled,
\* the final clock of a party is at least the number of repetitions, and at
\* most that number times the number of threads, which it exceeds when tasks
\* run one after the other, a later one starting at the clock of an earlier.
FinalClockBounds ==
    AllDone => \A p \in Parties :
                    lamport[p] \in NIters .. (NIters * Cardinality(Threads))

\* The compare-exchange loop implements an atomic maximum (mpcio.cpp:492-520).
phaseOf == [w \in Tio |-> CASE pc[w] = "construct" -> "new"
                            [] pc[w] = "done"      -> "closed"
                            [] OTHER               -> "open"]

Master == INSTANCE MasterClock WITH
    master <- lamport,
    clock  <- thread_lamport,
    phase  <- phaseOf

ImplementsMaster == Master!Spec

\* lamport_test ends: no exchange and no sync_lamport loop goes on for ever.
Ends == <>AllDone
=============================================================================
