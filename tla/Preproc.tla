-------------------------------- MODULE Preproc --------------------------------
(***************************************************************************)
(* The preprocessing of one communication thread at the three parties      *)
(* (preproc.cpp): the server reads type:num arguments, announces each to   *)
(* the computational parties and creates a coroutine per value; they       *)
(* create the matching coroutines, and all three run them.  Values the     *)
(* server makes alone are dealt; oblivious indices (RDPFs) are made by the *)
(* computational parties together, with select triples from the server,    *)
(* in coroutines within coroutines (rdpf.tcc, mpcops.cpp).                 *)
(*                                                                         *)
(* The same three-party machine runs coroutines online without             *)
(* preprocessing (mode MODE_ONLINEONLY), where mpc_and draws single bits   *)
(* of AND triples that all coroutines share.                               *)
(*                                                                         *)
(* Threads have their own sockets and files and share only the arguments,  *)
(* so one thread is modelled, whose number is chosen.                      *)
(***************************************************************************)
EXTENDS Coroutines, FiniteSets

CONSTANTS
    Threads,    \* thread numbers
    ArgLists,   \* command lines of the server: markers and type:num arguments
    OnlineJobs, \* lists of numbers of mpc_and, one number per coroutine
    Earlier     \* values that files of an earlier run hold

VARIABLES
    pc,         \* "args", "headers", "run" (about to send), "turn", "done"
    thread_num,
    append_mode,
    args,       \* arguments the server has still to read
    party,      \* the state of each party its coroutines share
    coroutines, \* what each coroutine of each party has still to do
    disk        \* the values in each file of each party

vars == <<pc, thread_num, append_mode, args, party, coroutines, disk>>

-----------------------------------------------------------------------------
(* Arguments.                                                              *)

Marker(t)       == [type |-> "T", num |-> t]
Arg(type, num)  == [type |-> type, num |-> num, depth |-> 0,
                    incremental |-> FALSE, width |-> 1]
RArg(depth, incremental, width, num) ==
    [type |-> "r", num |-> num, depth |-> depth,
     incremental |-> incremental, width |-> width]
NoArg           == Arg("bad", 0)

Mark(arg) == arg.type = "T"

\* The arguments thread t reads: with markers, those after its own; always up
\* to the next marker or the end.
ArgsOf(list, t) ==
    LET first == IF list # <<>> /\ Mark(list[1])
                 THEN LET us == SelectInSeq(list, LAMBDA a : a = Marker(t))
                      IN  IF us = 0 THEN Len(list) + 1 ELSE us + 1
                 ELSE 1
        rest == SubSeq(list, first, Len(list))
        next == SelectInSeq(rest, Mark)
    IN  IF next = 0 THEN rest ELSE SubSeq(rest, 1, next - 1)

\* Types whose values the server makes: triples of four kinds and CDPFs.
DealtTypes == {"m", "h", "a", "s", "c"}

\* The file a type is written to; the server writes only RDPF pairs.
FileOf(a) == [prefix |-> a.type, incremental |-> a.incremental,
              width |-> a.width, depth |-> a.depth]
Writes(me, a) == a.type = "r" \/ (a.type \in DealtTypes /\ me # P2)

-----------------------------------------------------------------------------
(* What the coroutines do.                                                 *)

Exchange(me, kind) ==
    IF me = P2 THEN <<Yield>>
    ELSE <<Send(PeerOf(me), kind), Yield, Recv(PeerOf(me), kind)>>

\* mpc_valuemul and the conversion mpc_xs_to_as of an index of depth bits.
ValueMul(me) == Dealt(me, "h") \o Exchange(me, "blind_x")
XsToAs(me, depth) ==
    RunCoroutines([i \in 1 .. depth - 1 |-> ValueMul(me) \o <<Return>>])

\* mpc_reconstruct_choice of a DPFnode: the server must take the triple too.
ReconstructChoice(me) ==
    <<Take>> \o Exchange(me, "blind") \o Exchange(me, "zshare")

\* ... and of the DPFnodes of a leaf.
LeafChoice(me, width) ==
    RunCoroutines([j \in 1 .. 1 + (width \div 2) |->
                         ReconstructChoice(me) \o <<Return>>])

\* create_level: the parities and the correction word in the same rounds,
\* and at a leaf level a round for the sums.
CreateLevel(me, leaf, width) ==
    RunCoroutines(
        <<Exchange(me, "parity") \o <<Return>>,
          (IF leaf THEN LeafChoice(me, width) ELSE ReconstructChoice(me))
             \o <<Return>> >>)
    \o (IF leaf THEN Exchange(me, "low_sum") ELSE <<>>)
    \o <<Return>>

\* One level of an RDPF: the next internal layer, the leaf layer, or both.
Level(me, a, level) ==
    LET internal == IF level < a.depth - 1
                    THEN <<CreateLevel(me, FALSE, a.width)>> ELSE <<>>
        leaf == IF a.incremental \/ level = a.depth - 1
                THEN <<CreateLevel(me, TRUE, a.width)>> ELSE <<>>
    IN  RunCoroutines(internal \o leaf)

RECURSIVE LevelsFrom(_, _, _)
LevelsFrom(me, a, level) ==
    IF level = a.depth THEN <<>> ELSE Level(me, a, level) \o LevelsFrom(me, a, level + 1)

\* The constructor of an RDPF: a prefetch of select triples, and its levels.
RDPF(me, a) ==
    Request(me, IF a.incremental THEN 2 * a.depth - 1 ELSE a.depth)
    \o LevelsFrom(me, a, 0) \o <<Return>>

\* Three RDPFs of one index, and its conversion to additive shares.
RDPFTriple(me, a) ==
    RunCoroutines(<<RDPF(me, a), RDPF(me, a), RDPF(me, a),
                        XsToAs(me, a.depth) \o <<Return>> >>)

\* rdpftriple at the computational parties, rdpfpair at the server.
RDPFs(me, a) ==
    RDPFTriple(me, a) \o
    (IF me = P2 THEN <<Yield, Recv(P0, "dpf"), Recv(P1, "dpf")>>
     ELSE <<Send(P2, "dpf"), Yield, Own>>)

\* The counter, exchanged num times with both others.
Others(me) == CASE me = P0 -> <<P1, P2>> [] me = P1 -> <<P0, P2>> [] OTHER -> <<P0, P1>>
Counter(me, num) ==
    LET o == Others(me) IN
    Times(num, <<Send(o[1], "count"), Send(o[2], "count"), Yield,
                 Recv(o[1], "count"), Recv(o[2], "count")>>)

\* Faulty variant: the coroutines do not yield first.
CoroutinesForAtOnce(me, a, f) ==
    CASE a.type \in DealtTypes ->
            [i \in 1 .. a.num |-> Dealt(me, a.type)
                \o (IF me = P2 THEN <<>> ELSE <<Write(f)>>) \o <<Return>>]
      [] a.type = "r" ->
            [i \in 1 .. a.num |-> RDPFs(me, a) \o <<Write(f), Return>>]
      [] a.type = "k" -> << Counter(me, a.num) \o <<Return>> >>

\* The coroutines for one argument, writing to open file f.  They are entered
\* while headers are still queued and read, and begin with a yield.
CoroutinesFor(me, a, f) ==
    CASE a.type \in DealtTypes ->
            [i \in 1 .. a.num |-> <<Yield>> \o Dealt(me, a.type)
                \o (IF me = P2 THEN <<>> ELSE <<Write(f)>>) \o <<Return>>]
      [] a.type = "r" ->
            [i \in 1 .. a.num |-> <<Yield>> \o RDPFs(me, a) \o <<Write(f), Return>>]
      [] a.type = "k" -> << <<Yield>> \o Counter(me, a.num) \o <<Return>> >>

\* mpc_and n times in a row, as a coroutine of an online-only run.
Ands(me, n) == Times(n, <<Bit>> \o Exchange(me, "v")) \o <<Return>>

-----------------------------------------------------------------------------
Init ==
    /\ thread_num \in Threads
    /\ append_mode \in BOOLEAN
    /\ disk = [p \in Parties |-> <<>>]
    /\ \/ /\ \E list \in ArgLists : args = ArgsOf(list, thread_num)
          /\ pc = [p \in Parties |-> IF p = P2 THEN "args" ELSE "headers"]
          /\ party = [p \in Parties |-> EmptyParty(p)]
          /\ coroutines = [p \in Parties |-> <<>>]
       \/ /\ args = <<>>
          /\ ~append_mode
          /\ pc = [p \in Parties |-> "run"]
          /\ \E job \in OnlineJobs :
                LET emplaced == [p \in Parties |->
                        Passed(EmptyParty(p),
                               [i \in 1 .. Len(job) |-> Ands(p, job[i])], 1, <<>>)]
                IN  /\ party = [p \in Parties |-> emplaced[p].party]
                    /\ coroutines = [p \in Parties |-> emplaced[p].coros]

Goto(p, label) == pc' = [pc EXCEPT ![p] = label]

\* Openfiles::open, in the party's state and on its disk.
Opened(e, a) ==
    IF Writes(e.me, a)
    THEN [e EXCEPT !.files = Append(@, [name |-> FileOf(a), data |-> <<>>])]
    ELSE e

\* Faulty variant: the server's files are always emptied.
OpenedEmptied(d, me, a) ==
    IF ~Writes(me, a) THEN d
    ELSE LET old == IF FileOf(a) \in DOMAIN d THEN d[FileOf(a)] ELSE Earlier
         IN  (FileOf(a) :> IF append_mode /\ me # P2 THEN old ELSE <<>>) @@ d

OpenedOnDisk(d, me, a) ==
    IF ~Writes(me, a) THEN d
    ELSE LET old == IF FileOf(a) \in DOMAIN d THEN d[FileOf(a)] ELSE Earlier
         IN  (FileOf(a) :> IF append_mode THEN old ELSE <<>>) @@ d

\* An argument was read, announced or taken up: its file is opened, and its
\* coroutines are emplaced, which runs each to its first yield.
TakeUp(p, e, a) ==
    /\ \E r \in {Passed(Opened(e, a),
                        coroutines[p] \o CoroutinesFor(p, a, Len(Opened(e, a).files)),
                        Len(coroutines[p]) + 1, <<>>)} :
        /\ ~r.party.blocked
        /\ party' = [party EXCEPT ![p] = r.party]
        /\ coroutines' = [coroutines EXCEPT ![p] = r.coros]
    /\ disk' = [disk EXCEPT ![p] = OpenedOnDisk(@, p, a)]

Announced(e, a) ==
    LET msg == Message("header", <<>>, a) IN Queue(Queue(e, P0, msg), P1, msg)

\* preprocessing_server reads an argument; one it cannot use is skipped.
ReadArg ==
    /\ pc[P2] = "args"
    /\ args # <<>>
    /\ args' = Tail(args)
    /\ IF Head(args).type = "bad"
       THEN UNCHANGED <<party, coroutines, disk>>
       ELSE TakeUp(P2, Announced(party[P2], Head(args)), Head(args))
    /\ UNCHANGED <<pc, thread_num, append_mode>>

\* Type 0 ends the announcements.
EndArgs ==
    /\ pc[P2] = "args"
    /\ args = <<>>
    /\ Goto(P2, "run")
    /\ party' = [party EXCEPT ![P2] = Announced(@, NoArg)]
    /\ UNCHANGED <<thread_num, append_mode, args, coroutines, disk>>

\* preprocessing_comp reads an announcement.  (A message of a coroutine in its
\* place is a stray; what the code would make of it is left open: it stops.)
ReadHeader(p) ==
    /\ pc[p] = "headers"
    /\ party[p].in[P2] # <<>>
    /\ LET msg == Head(party[p].in[P2])
           a == IF msg.kind = "header" THEN msg.id ELSE NoArg
           e == [party[p] EXCEPT !.in[P2] = Tail(@),
                                 !.strays = @ \/ msg.kind # "header"]
       IN  IF a = NoArg
           THEN /\ Goto(p, "run")
                /\ party' = [party EXCEPT ![p] = e]
                /\ UNCHANGED <<coroutines, disk>>
           ELSE /\ TakeUp(p, e, a)
                /\ UNCHANGED pc
    /\ UNCHANGED <<thread_num, append_mode, args>>

\* MPCTIO::send: what p, in state e, has queued is on its way to the others.
Sent(p, e) ==
    [q \in Parties |->
       IF q = p THEN [e EXCEPT !.out = [r \in Parties \ {p} |-> <<>>]]
       ELSE [party[q] EXCEPT !.in[p] = @ \o e.out[q]]]

\* run_coroutines starts with a send.
Start(p) ==
    /\ pc[p] = "run"
    /\ Goto(p, "turn")
    /\ party' = Sent(p, party[p])
    /\ UNCHANGED <<thread_num, append_mode, args, coroutines, disk>>

\* Faulty variant: the flag of the loop is never set.
AllReturnedUnset(p) == FALSE

AllReturned(p) == \A i \in 1 .. Len(coroutines[p]) : coroutines[p][i] = <<>>

\* A turn of run_coroutines: each coroutine runs to its next yield, and what
\* they queued is sent.  It is not sent before, so no other party can tell how
\* far a turn has come, and it is one step, taken when all it reads is there.
Turn(p) ==
    /\ pc[p] = "turn"
    /\ ~AllReturned(p)
    /\ \E r \in {Passed(party[p], coroutines[p], 1, <<>>)} :
        /\ ~r.party.blocked
        /\ party' = Sent(p, r.party)
        /\ coroutines' = [coroutines EXCEPT ![p] = r.coros]
    /\ UNCHANGED <<pc, thread_num, append_mode, args, disk>>

\* What a file holds once the handles of its name are closed in order: each
\* appends, or writes from the start over what is there.
Closed(old, data) ==
    IF append_mode THEN old \o data
    ELSE data \o SubSeq(old, Len(data) + 1, Len(old))

ClosedAll(d, files) ==
    FoldLeft(LAMBDA acc, f : [acc EXCEPT ![f.name] = Closed(@, f.data)], d, files)

\* run_coroutines found every coroutine finished; ofiles.closeall().
CloseAll(p) ==
    /\ pc[p] = "turn"
    /\ AllReturned(p)
    /\ Goto(p, "done")
    /\ disk' = [disk EXCEPT ![p] = ClosedAll(@, party[p].files)]
    /\ UNCHANGED <<thread_num, append_mode, args, party, coroutines>>

Step(p) == Start(p) \/ Turn(p) \/ CloseAll(p)

AllDone == \A p \in Parties : pc[p] = "done"

\* The program may stop only when all three parties are done.
Finished == AllDone /\ UNCHANGED vars

Next ==
    \/ ReadArg
    \/ EndArgs
    \/ \E p \in Parties : ReadHeader(p) \/ Step(p)
    \/ Finished

Spec == Init /\ [][Next]_vars

\* Every party's thread keeps running.
FairSpec ==
    /\ Spec
    /\ WF_vars(ReadArg \/ EndArgs)
    /\ \A p \in Parties : WF_vars(ReadHeader(p) \/ Step(p))

-----------------------------------------------------------------------------
(* Properties.                                                             *)

\* Each party is in a known phase, and its counters in their ranges.
TypeOK ==
    /\ pc \in [Parties -> {"args", "headers", "run", "turn", "done"}]
    /\ \A p \in Parties :
        /\ party[p].me = p
        /\ party[p].remaining \in Nat
        /\ party[p].bits \in 0 .. BitsPerTriple
        /\ ~party[p].blocked

\* Streams carry no addresses: a value is read by whichever coroutine reads
\* next.  Every coroutine of every party reads exactly what the coroutine at
\* its own place at the sender queued, whatever runs between and however far
\* one party is ahead (coroutine.hpp:36-71).
OwnMessages == \A p \in Parties : ~party[p].strays

\* Nothing is left to read on any stream, nor to be sent.
NothingLeft ==
    AllDone => \A p \in Parties : \A q \in Parties \ {p} :
        party[p].in[q] = <<>> /\ party[p].out[q] = <<>>

\* Every message is read, once, by the coroutine it was meant for.
EveryMessageToItsOwn == OwnMessages /\ NothingLeft

\* The computational parties use the same shared triples and bits in the same
\* coroutines, none twice (mpcio.cpp:782-802, 852-866), although a coroutine
\* may find the pool empty, wait for its own, and meet those of another.
SameValues ==
    LET u0 == party[P0].used
        u1 == party[P1].used
        value(u) == <<u[2], u[3]>>
    IN  /\ IsPrefix(u0, u1) \/ IsPrefix(u1, u0)
        /\ \A i, j \in 1 .. Len(u0) : value(u0[i]) = value(u0[j]) => i = j

\* remaining_nodesselecttriples counts queued_nodeselecttriples, the queue is
\* never popped empty, and the server ends with the same count
\* (mpcio.hpp: it should always be the case that they are equal).
PoolCounted ==
    /\ \A p \in {P0, P1} :
        /\ party[p].remaining = Len(party[p].queued)
        /\ ~party[p].starved
    /\ AllDone => \A p \in Parties :
        /\ party[p].remaining = party[P0].remaining
        /\ party[p].bits = party[P0].bits

\* The pools and words of correlated values stay the same at the parties.
SamePools == TypeOK /\ SameValues /\ PoolCounted

\* The files of the computational parties hold, place by place, the two halves
\* of the same values, and the server's the pairs of the same RDPFs, in either
\* mode and also when a type was named twice.
MatchingFiles ==
    AllDone =>
        /\ disk[P0] = disk[P1]
        /\ \A f \in DOMAIN disk[P2] : f \in DOMAIN disk[P0] /\ disk[P2][f] = disk[P0][f]
        /\ \A f \in DOMAIN disk[P0] : f.prefix = "r" => f \in DOMAIN disk[P2]

\* Every announced value is in its file in the end, unless the same type was
\* named twice without -a.
AllStored ==
    AllDone => \A p \in Parties : \A f \in DOMAIN disk[p] :
        LET handles == SelectSeq(party[p].files, LAMBDA h : h.name = f)
            data == FlattenSeq([i \in 1 .. Len(handles) |-> handles[i].data])
        IN  append_mode \/ Len(handles) = 1
            => IsSuffix(data, disk[p][f])

\* What was made is stored, in full and in the same places at all parties.
FilesMatch == MatchingFiles /\ AllStored

\* All three parties finish: no coroutine waits for a message that is queued
\* behind it at its sender.
Ends == <>AllDone
=============================================================================
