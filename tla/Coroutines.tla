------------------------------ MODULE Coroutines ------------------------------
(***************************************************************************)
(* The coroutines of one thread of one party (coroutine.hpp,               *)
(* corotypes.hpp): run_coroutines resumes every unfinished coroutine in    *)
(* turn, sends what they queued, and starts over; a coroutine that itself  *)
(* calls run_coroutines yields where the outermost one sends.  A coro_t is *)
(* a pull_type, whose constructor enters the coroutine: it has come to its *)
(* first yield when it is emplaced, before run_coroutines is called.       *)
(*                                                                         *)
(* A coroutine is what it still has to do: a sequence of operations, which *)
(* is empty once it has returned.  Values are abstracted to what tells the *)
(* parties' views apart: a message is the kind of value it carries, the    *)
(* coroutine that queued it (its place in the list of its runner, and the  *)
(* place of that one), and the number of the correlated value, if any.     *)
(* Resumed runs a coroutine to its next yield.  The streams it uses are    *)
(* those of MPCSingleIO.tla, without their chunks.                         *)
(***************************************************************************)
EXTENDS Naturals, Sequences, SequencesExt

CONSTANT BitsPerTriple \* bits of a value_t, each good for one mpc_and

ASSUME BitsAssumption == BitsPerTriple \in Nat \ {0}

P0 == "p0"
P1 == "p1"
P2 == "p2"
Parties == {P0, P1, P2}

PeerOf(me) == IF me = P0 THEN P1 ELSE P0

-----------------------------------------------------------------------------
(* Operations of a coroutine.                                              *)

Yield       == [do |-> "yield"]
Send(q, k)  == [do |-> "send", to |-> q, kind |-> k]
Recv(q, k)  == [do |-> "recv", from |-> q, kind |-> k]
Deal(k)     == [do |-> "deal", kind |-> k]     \* make a pair, queue_p0, queue_p1
Grow(n)     == [do |-> "grow", num |-> n]      \* remaining_nodesselecttriples += n
Take        == [do |-> "take"]                 \* nodeselecttriple
Bit         == [do |-> "bit"]                  \* bitselecttriple
SetBits     == [do |-> "setbits"]              \* last_andtriple = ...
Own         == [do |-> "own"]                  \* the value the parties make jointly
Write(f)    == [do |-> "write", file |-> f]    \* os() << value
Return      == [do |-> "return"]

\* Coroutines are emplaced, and run_coroutines(yield, coroutines) is called,
\* inside a coroutine.
RunCoroutines(coros) == <<[do |-> "emplace", coros |-> coros]>>

\* A loop of n turns.
RECURSIVE Times(_, _)
Times(n, code) == IF n = 0 THEN <<>> ELSE code \o Times(n - 1, code)

-----------------------------------------------------------------------------
(* What the functions of MPCTIO do (mpcio.cpp:643-895).  The computational *)
(* parties wait a round for what the server deals.                         *)

\* multtriple, halftriple, andtriple, valselecttriple and cdpf.
Dealt(me, kind) ==
    IF me = P2 THEN <<Deal(kind), Yield>> ELSE <<Yield, Recv(P2, kind)>>

\* request_nodeselecttriples
Request(me, num) ==
    IF me = P2
    THEN Times(num, <<Deal("node")>>) \o <<Yield, Grow(num)>>
    ELSE <<Yield>> \o Times(num, <<Recv(P2, "node")>>) \o <<Grow(num)>>

-----------------------------------------------------------------------------
(* The state of a party's thread that its coroutines share.                *)

EmptyParty(me) ==
    [me        |-> me,
     in        |-> [q \in Parties \ {me} |-> <<>>], \* sent to it, not read
     out       |-> [q \in Parties \ {me} |-> <<>>], \* queued, not sent
     made      |-> 0,      \* pairs the server has made
     remaining |-> 0,      \* remaining_nodesselecttriples
     queued    |-> <<>>,   \* queued_nodeselecttriples
     bits      |-> 0,      \* last_andtriple_bits_remaining
     andtriple |-> 0,      \* last_andtriple
     got       |-> 0,      \* the value read last
     files     |-> <<>>,   \* what was written to each open file
     blocked   |-> FALSE,  \* a recv must wait
     used      |-> <<>>,   \* history: shared values used, and by whom
     strays    |-> FALSE,  \* history: read a message meant for another
     starved   |-> FALSE]  \* history: popped the empty queue

Message(kind, path, id) == [kind |-> kind, path |-> path, id |-> id]

Queue(e, q, msg) == [e EXCEPT !.out[q] = Append(@, msg)]

\* One recv_peer, recv_server, recv_p0 or recv_p1 that has its message.
Received(e, op, path) ==
    LET msg == Head(e.in[op.from]) IN
    [e EXCEPT
        !.in[op.from] = Tail(@),
        !.got = msg.id,
        !.strays = @ \/ msg.path # path \/ msg.kind # op.kind,
        !.queued = IF op.kind = "node" THEN Append(@, msg.id) ELSE @]

\* The end of nodeselecttriple: front, pop_front and the count.
Popped(e, path) ==
    IF e.me = P2 THEN [e EXCEPT !.remaining = @ - 1]
    ELSE IF e.queued = <<>> THEN [e EXCEPT !.starved = TRUE]
    ELSE [e EXCEPT !.remaining = @ - 1,
                   !.queued = Tail(@),
                   !.used = Append(@, <<path, "node", Head(e.queued)>>)]

\* Faulty variant: the bit is used again by the next one.
BitUsedKept(e, path) ==
    [e EXCEPT !.bits = IF @ = 1 THEN 0 ELSE @,
              !.used = Append(@, <<path, "bit", <<e.andtriple, e.bits>> >>)]

\* The end of bitselecttriple: the next lower bit of the last AND triple.
BitUsed(e, path) ==
    [e EXCEPT !.bits = @ - 1,
              !.used = Append(@, <<path, "bit", <<e.andtriple, e.bits>> >>)]

-----------------------------------------------------------------------------
\* Resumed runs code to its next yield or return; Passed resumes, in order, the
\* coroutines from the one at i: all of them when they are emplaced, and in each
\* turn of the loop of run_coroutines.  "emplace" ends at the yield before the
\* first turn, "run" at the yield after a turn, unless none was left to resume.
\* (Only makes TLC evaluate what is passed on once.)
RECURSIVE Resumed(_, _, _), Passed(_, _, _, _)

Only(S) == CHOOSE x \in S : TRUE

Resumed(e, code, path) ==
    IF e.blocked \/ code = <<>> THEN [party |-> e, code |-> code]
    ELSE
    LET op == Head(code)
        rest == Tail(code)
        Then(f) == Only({Resumed(g, rest, path) : g \in {f}})
    IN  CASE op.do = "yield"   -> [party |-> e, code |-> rest]
          [] op.do = "return"  -> [party |-> e, code |-> <<>>]
          [] op.do = "send"    -> Then(Queue(e, op.to, Message(op.kind, path, path[1])))
          [] op.do = "deal"    ->
                LET msg == Message(op.kind, path, e.made + 1)
                IN  Then([Queue(Queue(e, P0, msg), P1, msg) EXCEPT !.made = @ + 1])
          [] op.do = "recv"    ->
                IF e.in[op.from] = <<>>
                THEN [party |-> [e EXCEPT !.blocked = TRUE], code |-> code]
                ELSE Then(Received(e, op, path))
          [] op.do = "grow"    -> Then([e EXCEPT !.remaining = @ + op.num])
          [] op.do = "take"    ->
                IF e.remaining = 0
                THEN Resumed(e, Request(e.me, 1) \o <<[do |-> "pop"]>> \o rest, path)
                ELSE Then(Popped(e, path))
          [] op.do = "pop"     -> Then(Popped(e, path))
          [] op.do = "bit"     ->
                IF e.bits = 0
                THEN Resumed(e, Dealt(e.me, "a") \o <<SetBits>> \o rest, path)
                ELSE Then(BitUsed(e, path))
          [] op.do = "setbits" ->
                Then(BitUsed([e EXCEPT !.andtriple = e.got, !.bits = BitsPerTriple], path))
          [] op.do = "own"     -> Then([e EXCEPT !.got = path[1]])
          [] op.do = "write"   -> Then([e EXCEPT !.files[op.file].data = Append(@, e.got)])
          [] op.do \in {"emplace", "run"} ->
                IF op.do = "run" /\ \A i \in 1 .. Len(op.coros) : op.coros[i] = <<>>
                THEN Then(e)
                ELSE LET r == Passed(e, op.coros, 1, path)
                     IN  [party |-> r.party,
                          code  |-> <<[do |-> "run", coros |-> r.coros]>> \o rest]

Passed(e, coros, i, path) ==
    IF i > Len(coros) THEN [party |-> e, coros |-> coros]
    ELSE Only({Passed(r.party, [coros EXCEPT ![i] = r.code], i + 1, path) :
                 r \in {Resumed(e, coros[i], Append(path, i))}})
=============================================================================
