------------------------------- MODULE Duoram -------------------------------
(***************************************************************************)
(* The memory protocol of a Duoram (duoram.tcc:57-88, 301-561, 605-684)    *)
(* among the computational parties 0 and 1 and the server 2, message by    *)
(* message, under the coroutine scheduler (coroutine.hpp:27-63).           *)
(*                                                                         *)
(* All three parties run the same script: a sequence of batches, each one  *)
(* call of run_coroutines, with one memory operation per coroutine.  Each  *)
(* party runs its coroutines by itself, one slice (from one yield() to the *)
(* next) per step; a slice that receives waits for the message.  Nothing   *)
(* else orders the steps of different parties.                             *)
(*                                                                         *)
(* A value is an element of the integers modulo M: M = 2 is a bit of an    *)
(* XOR sharing, where plus and minus coincide, and any larger M shows what *)
(* additive sharing (modulo 2^64 in the code) depends on.  An RDPF is what *)
(* it is for: shares of a unit vector at a random target, and of a random  *)
(* multiple of it.  The variable mem is the plain memory that the shared   *)
(* one stands for: history, never read by the protocol.                    *)
(***************************************************************************)
EXTENDS Integers, Sequences

CONSTANTS
    M,        \* the modulus of the values
    Size,     \* shape_size: the number of cells
    Width,    \* 2^depth of the RDPFs, at least Size
    Blinds,   \* values that randomize() may return
    Scripts   \* the programs: sequences of batches of operations

Values  == 0 .. M - 1
Cells   == 0 .. Size - 1
Leaves  == 0 .. Width - 1
Comp    == {0, 1}       \* the computational parties
Server  == 2
Players == Comp \cup {Server}
Links   == {l \in Players \X Players : l[1] # l[2]}

ASSUME RingAssumption == M \in Nat \ {0} /\ Blinds \subseteq Values
ASSUME SizeAssumption == Size \in Nat \ {0} /\ Width \in Nat /\ Size <= Width

Add(a, b) == (a + b) % M
Sub(a, b) == (a + M - b) % M
Mul(a, b) == (a * b) % M
\* Addition of a vector, cell by cell.
AddAll(f, g) == [i \in Cells |-> Add(f[i], g[i])]
SubAll(f, g) == [i \in Cells |-> Sub(f[i], g[i])]
Zero == [i \in Cells |-> 0]

\* The sum of f over the cells.
Total(f) ==
    LET sum[n \in 0 .. Size] == IF n = 0 THEN 0 ELSE Add(sum[n - 1], f[n - 1])
    IN  sum[Size]

(***************************************************************************)
(* An operation has a kind, an index, a value and an RDPF.  The shares of  *)
(* the parties are index[p] and value[p] for p in Comp; an explicit index  *)
(* is a cell.  Its rdpf has, for each p in Comp, target[p], and for each   *)
(* of the three DPFs k: unit[k][p] and scaled[k][p], functions on Leaves,  *)
(* and scale[k][p].  P0 and P1 hold theirs as an RDPFTriple, and the       *)
(* server holds P0's half of DPF 1 and P1's half of DPF 2 (mpcio.tcc:54-   *)
(* 121).                                                                   *)
(***************************************************************************)
Explicit  == {"explicit_update", "explicit_write"}
Oblivious == {"oblivious_read", "oblivious_update", "oblivious_write"}
LeavesMode(op) == op.kind \in {"reblind"} \cup Oblivious

Meant(op)  == Add(op.value[0], op.value[1])
Cell(op)   == IF op.kind \in Oblivious
              THEN (op.index[0] + op.index[1]) % Width ELSE op.index
IsWrite(op) == op.kind \in {"explicit_write", "oblivious_write"}

\* The shares add up to what an RDPF is the shares of.
ValidRDPF(rdpf) ==
    LET r == (rdpf.target[0] + rdpf.target[1]) % Width IN
    /\ rdpf.target \in [Comp -> Leaves]
    /\ rdpf.scale \in [0 .. 2 -> [Comp -> Values]]
    /\ rdpf.unit \in [0 .. 2 -> [Comp -> [Leaves -> Values]]]
    /\ rdpf.scaled \in [0 .. 2 -> [Comp -> [Leaves -> Values]]]
    /\ \A k \in 0 .. 2, j \in Leaves :
          /\ Add(rdpf.unit[k][0][j], rdpf.unit[k][1][j]) = IF j = r THEN 1 % M ELSE 0
          /\ Add(rdpf.scaled[k][0][j], rdpf.scaled[k][1][j]) =
                IF j = r THEN Add(rdpf.scale[k][0], rdpf.scale[k][1]) ELSE 0

ValidOp(op) ==
    \/ op.kind \in {"explicitonly", "reblind"}
    \/ /\ op.kind \in Explicit \cup Oblivious
       /\ op.value \in [Comp -> Values]
       /\ Cell(op) \in Cells
       /\ op.kind \in Oblivious => op.index \in [Comp -> Leaves] /\ ValidRDPF(op.rdpf)

\* Batches after which explicit-only mode is on, or off.
TurnsOn(b)  == \E c \in DOMAIN b : b[c].kind = "explicitonly"
TurnsOff(b) == \E c \in DOMAIN b : LeavesMode(b[c])

\* Indices are of cells.  The flag of explicit-only mode belongs to a Shape,
\* and coroutines work on copies of one: a batch that turns the mode on has no
\* other operation, nor has one that turns it off.
ASSUME ScriptsAssumption ==
    \A s \in Scripts :
        /\ Len(s) \in Nat \ {0} /\ DOMAIN s = 1 .. Len(s)
        /\ \A b \in DOMAIN s :
              /\ Len(s[b]) \in Nat /\ DOMAIN s[b] = 1 .. Len(s[b])
              /\ \A c \in DOMAIN s[b] : ValidOp(s[b][c])
              /\ TurnsOn(s[b]) => Len(s[b]) = 1
              /\ \A a \in 1 .. b - 1 :
                    (/\ TurnsOn(s[a]) /\ TurnsOff(s[b])
                     /\ \A d \in a + 1 .. b - 1 : ~ TurnsOff(s[d]))
                      => Len(s[b]) = 1

VARIABLES
    script,   \* the program
    batch,    \* of each player: the batch it is in
    turn,     \* of each player: the coroutine whose turn it is in this pass
    slice,    \* of each player: the next slice of each coroutine of the batch
    outbox,   \* on each link: messages queued, not sent yet
    wire,     \* on each link: messages sent, not received yet
    DB,       \* database of each computational party: its shares
    BL,       \* blind of each computational party
    PBD,      \* peer_blinded_db of each computational party
    SBL,      \* the server's p0_blind and p1_blind
    explicitmode, \* of each player
    local,    \* of each player: what each coroutine keeps across a yield
    mem,      \* history: the memory that the slices of party 0 have made
    expected  \* history: what each operation should have read

memory  == <<DB, BL, PBD, SBL, explicitmode>>
control == <<batch, turn, slice>>
vars    == <<script, control, outbox, wire, memory, local, mem, expected>>

Ops(q) == script[batch[q]]
Op(q)  == Ops(q)[turn[q]]
\* Marks a finished coroutine.
Finished == 99

Fresh(b) == [c \in DOMAIN b |-> 1]
Blank(b) == [c \in DOMAIN b |-> [res |-> 0, upd |-> 0, blind |-> 0]]

Init ==
    /\ script \in Scripts
    /\ batch = [q \in Players |-> 1]
    /\ turn = [q \in Players |-> 1]
    /\ slice = [q \in Players |-> Fresh(script[1])]
    /\ outbox = [l \in Links |-> <<>>]
    /\ wire = [l \in Links |-> <<>>]
    /\ DB = [p \in Comp |-> Zero]
    /\ BL = [p \in Comp |-> Zero]
    /\ PBD = [p \in Comp |-> Zero]
    /\ SBL = [p \in Comp |-> Zero]
    /\ explicitmode = [q \in Players |-> FALSE]
    /\ local = [q \in Players |-> Blank(script[1])]
    /\ mem = Zero
    /\ expected = [c \in DOMAIN script[1] |-> 0]

-----------------------------------------------------------------------------
(* The scheduler.                                                          *)

Running(q) == batch[q] <= Len(script)

\* It is the turn of a coroutine of q that is about to run its n-th slice.
At(q, n) ==
    /\ Running(q)
    /\ turn[q] <= Len(Ops(q))
    /\ slice[q][turn[q]] = n

\* The slice ends in a yield(), or ends the coroutine.
Then(q, n) ==
    /\ slice' = [slice EXCEPT ![q][turn[q]] = n]
    /\ turn' = [turn EXCEPT ![q] = @ + 1]
    /\ UNCHANGED <<script, batch>>

\* A pass over the coroutines skips the finished ones.
Skip(q) ==
    /\ At(q, Finished)
    /\ turn' = [turn EXCEPT ![q] = @ + 1]
    /\ UNCHANGED <<script, batch, slice, outbox, wire, memory, local, mem, expected>>

\* The end of a pass over the coroutines: send() everything queued, then begin
\* another pass or, after the last, the next batch.
EndOfPass(q, last) ==
    /\ Running(q)
    /\ turn[q] = Len(Ops(q)) + 1
    /\ wire' = [l \in Links |-> IF l[1] = q THEN wire[l] \o outbox[l] ELSE wire[l]]
    /\ outbox' = [l \in Links |-> IF l[1] = q THEN <<>> ELSE outbox[l]]
    /\ turn' = [turn EXCEPT ![q] = 1]
    /\ batch' = [batch EXCEPT ![q] = IF last THEN @ + 1 ELSE @]
    /\ IF last /\ batch[q] < Len(script)
         THEN LET b == script[batch[q] + 1] IN
              /\ slice' = [slice EXCEPT ![q] = Fresh(b)]
              /\ local' = [local EXCEPT ![q] = Blank(b)]
              /\ expected' = IF q = 0 THEN [c \in DOMAIN b |-> 0] ELSE expected
         ELSE UNCHANGED <<slice, local, expected>>
    /\ UNCHANGED <<script, memory, mem>>

\* Faulty variant: the flag `finished` is never left set.
SendForever(q) == EndOfPass(q, FALSE)

\* The batch is over when a pass found every coroutine finished.
SendAll(q) == EndOfPass(q, \A c \in DOMAIN Ops(q) : slice[q][c] = Finished)

\* Queue msgs[r] to each other player r.
Queue(q, msgs) ==
    outbox' = [l \in Links |->
                 IF l[1] = q THEN Append(outbox[l], msgs[l[2]]) ELSE outbox[l]]

\* What a party says to its peer, and to the server.
Messages(p, peer, server) ==
    [r \in Players \ {p} |-> IF r = Server THEN server ELSE peer]

\* Receive one message from each player of `from`; Message(q, r) is r's.
Receive(q, from) ==
    /\ \A r \in from : wire[<<r, q>>] # <<>>
    /\ wire' = [l \in Links |->
                  IF l[2] = q /\ l[1] \in from THEN Tail(wire[l]) ELSE wire[l]]

Message(q, r) == Head(wire[<<r, q>>])

Keep(q, res, upd, blind) ==
    local' = [local EXCEPT ![q][turn[q]] = [res |-> res, upd |-> upd, blind |-> blind]]
Kept(q) == local[q][turn[q]]

-----------------------------------------------------------------------------
(* History: the effect of a slice of party 0 on the plain memory.          *)

\* Party 0 adds its share of the update to its database.
Written(p, op) ==
    mem' = IF p # 0 THEN mem
           ELSE [mem EXCEPT ![Cell(op)] =
                   Add(@, IF IsWrite(op) THEN Sub(Meant(op), expected[turn[0]])
                          ELSE Meant(op))]

\* Party 0 reads its share of the cell.
Observed(p, op) ==
    expected' = IF p # 0 THEN expected
                ELSE [expected EXCEPT ![turn[0]] = mem[Cell(op)]]

-----------------------------------------------------------------------------
(* Explicit updates and writes, A[i] += v and A[i] = v for a public i.  A  *)
(* write reads the share that is there and adds the difference.            *)

\* Faulty variant: a write adds the value itself.
ShareOfValue(p, op) == op.value[p]

Share(p, op) == IF IsWrite(op) THEN Sub(op.value[p], DB[p][op.index]) ELSE op.value[p]

\* In explicit-only mode: only the database changes.
ExplicitLocal(p) ==
    LET op == Op(p) IN
    /\ At(p, 1) /\ op.kind \in Explicit /\ explicitmode[p]
    /\ DB' = [DB EXCEPT ![p][op.index] = Add(@, Share(p, op))]
    /\ mem' = IF p # 0 THEN mem
              ELSE [mem EXCEPT ![op.index] =
                      IF IsWrite(op) THEN Meant(op) ELSE Add(@, Meant(op))]
    /\ Then(p, Finished)
    /\ UNCHANGED <<outbox, wire, BL, PBD, SBL, explicitmode, local, expected>>

\* Otherwise a new blind goes to the server, the blinded share to the peer.
ExplicitStart(p) ==
    LET op == Op(p)
        upd == Share(p, op)
    IN  /\ At(p, 1) /\ op.kind \in Explicit /\ ~ explicitmode[p]
        /\ \E blind \in Blinds :
              /\ Queue(p, Messages(p, Add(upd, blind), blind))
              /\ Keep(p, 0, upd, blind)
        /\ Observed(p, op)
        /\ Then(p, 2)
        /\ UNCHANGED <<wire, memory, mem>>

\* The blinded share of the peer has come; the new blind is added to the old.
ExplicitFinish(p) ==
    LET op == Op(p) IN
    /\ At(p, 2) /\ op.kind \in Explicit
    /\ Receive(p, {1 - p})
    /\ DB' = [DB EXCEPT ![p][op.index] = Add(@, Kept(p).upd)]
    /\ BL' = [BL EXCEPT ![p][op.index] = Add(@, Kept(p).blind)]
    /\ PBD' = [PBD EXCEPT ![p][op.index] = Add(@, Message(p, 1 - p))]
    /\ Written(p, op)
    /\ Then(p, Finished)
    /\ UNCHANGED <<outbox, SBL, explicitmode, local, expected>>

\* The server takes over both blinds.
ServerExplicit ==
    LET op == Op(Server) IN
    /\ At(Server, 2) /\ op.kind \in Explicit
    /\ Receive(Server, Comp)
    /\ SBL' = [p \in Comp |-> [SBL[p] EXCEPT ![op.index] = Add(@, Message(Server, p))]]
    /\ Then(Server, Finished)
    /\ UNCHANGED <<outbox, DB, BL, PBD, explicitmode, local, mem, expected>>

-----------------------------------------------------------------------------
(* Oblivious operations, on A[x] for a shared x.                           *)

\* The offset of the target of the RDPF from the index.
IndOffset(p, op) == (op.rdpf.target[p] + Width - op.index[p]) % Width
\* Faulty variant: the shift in the other direction.
LeafBackwards(i, indshift) == (i + Width - indshift) % Width
\* The leaf that stands for cell i once both offsets are known.
Leaf(i, indshift) == (i + indshift) % Width

Unit(op, k, p, indshift) ==
    [i \in Cells |-> op.rdpf.unit[k][p][Leaf(i, indshift)]]
\* Shares of the vector that is the updating value at the index, 0 elsewhere.
Scaled(op, k, p, indshift, Mshift) ==
    [i \in Cells |-> Add(op.rdpf.scaled[k][p][Leaf(i, indshift)],
                         Mul(op.rdpf.unit[k][p][Leaf(i, indshift)], Mshift))]

\* The offsets of the index and of the updating value, for the DPFs in K.
Offsets(p, op, upd, K) ==
    [ind |-> IndOffset(p, op),
     off |-> [k \in K |-> Sub(upd, op.rdpf.scale[k][p])]]

QueueOffsets(p, op, upd) ==
    Queue(p, Messages(p, Offsets(p, op, upd, 0 .. 2), Offsets(p, op, upd, 1 .. 2)))

Reading == {"oblivious_read", "oblivious_write"}

\* Both the peer and the server get the offset of the index.
ReadStart(p) ==
    LET op == Op(p) IN
    /\ At(p, 1) /\ op.kind \in Reading /\ ~ explicitmode[p]
    /\ Queue(p, Messages(p, IndOffset(p, op), IndOffset(p, op)))
    /\ Then(p, 2)
    /\ UNCHANGED <<wire, memory, local, mem, expected>>

\* The dot product of the memory with the unit vector, but for cross terms,
\* from DPF 0 and DPF k.
DotProductWith(p, k) ==
    LET op == Op(p)
        indshift == (IndOffset(p, op) + Message(p, 1 - p)) % Width
        V0 == Unit(op, 0, p, indshift)
        V1 == Unit(op, k, p, indshift)
    IN  /\ At(p, 2) /\ op.kind \in Reading
        /\ Receive(p, {1 - p})
        /\ Keep(p, Sub(Total([i \in Cells |-> Mul(Add(DB[p][i], PBD[p][i]), V0[i])]),
                       Total([i \in Cells |-> Mul(BL[p][i], Sub(V1[i], V0[i]))])), 0, 0)
        /\ Observed(p, op)
        /\ Then(p, 3)
        /\ UNCHANGED <<outbox, memory, mem>>

\* Faulty variant: both parties take the same two of the three DPFs.
DotProductSameDPF(p) == DotProductWith(p, 2)

\* P0 takes DPF 2 and P1 takes DPF 1, of which the server has the peer's half.
DotProduct(p) == DotProductWith(p, IF p = 0 THEN 2 ELSE 1)

\* The server computes the cross terms, shared by a random rho.
CrossTerms ==
    LET op == Op(Server)
        indshift == (Message(Server, 0) + Message(Server, 1)) % Width
        gamma0 == Total([i \in Cells |-> Mul(SBL[0][i], Unit(op, 2, 1, indshift)[i])])
        gamma1 == Total([i \in Cells |-> Mul(SBL[1][i], Unit(op, 1, 0, indshift)[i])])
    IN  /\ At(Server, 2) /\ op.kind \in Reading
        /\ Receive(Server, Comp)
        /\ \E rho \in Blinds :
              Queue(Server, [p \in Comp |-> IF p = 0 THEN Sub(rho, gamma0)
                                            ELSE Sub(0, Add(rho, gamma1))])
        /\ Then(Server, 3)
        /\ UNCHANGED <<memory, local, mem, expected>>

\* The result is complete with the cross terms from the server.  A read ends
\* with it; a write goes on to add the difference.
ReadFinish(p) ==
    LET op  == Op(p)
        res == Add(Kept(p).res, Message(p, Server))
        upd == Sub(op.value[p], res)
    IN  /\ At(p, 3) /\ op.kind \in Reading
        /\ Receive(p, {Server})
        /\ Keep(p, res, upd, 0)
        /\ \/ /\ op.kind = "oblivious_read"
              /\ Then(p, Finished)
              /\ UNCHANGED outbox
           \/ /\ op.kind = "oblivious_write"
              /\ Then(p, 4)
              /\ QueueOffsets(p, op, upd)
        /\ UNCHANGED <<memory, mem, expected>>

UpdateStart(p) ==
    LET op == Op(p) IN
    /\ At(p, 1) /\ op.kind = "oblivious_update" /\ ~ explicitmode[p]
    /\ QueueOffsets(p, op, op.value[p])
    /\ Keep(p, 0, op.value[p], 0)
    /\ Then(p, 2)
    /\ UNCHANGED <<wire, memory, mem, expected>>

AtUpdate(q) ==
    \/ At(q, 2) /\ Op(q).kind = "oblivious_update"
    \/ At(q, 4) /\ Op(q).kind = "oblivious_write"

\* Add the three vectors to the database, the blind and the blinded database.
UpdateFinish(p) ==
    LET op == Op(p)
        mine == Offsets(p, op, Kept(p).upd, 0 .. 2)
        indshift == (mine.ind + Message(p, 1 - p).ind) % Width
        V(k) == Scaled(op, k, p, indshift, Add(mine.off[k], Message(p, 1 - p).off[k]))
        own == IF p = 0 THEN 1 ELSE 2   \* the DPF whose half the server holds too
    IN  /\ AtUpdate(p)
        /\ Receive(p, {1 - p})
        /\ DB' = [DB EXCEPT ![p] = AddAll(@, V(0))]
        /\ BL' = [BL EXCEPT ![p] = SubAll(@, V(own))]
        /\ PBD' = [PBD EXCEPT ![p] = AddAll(@, SubAll(V(3 - own), V(0)))]
        /\ Written(p, op)
        /\ Then(p, Finished)
        /\ UNCHANGED <<outbox, SBL, explicitmode, local, expected>>

\* Both parties' offsets give the server the vector that party p subtracts
\* from its blind.
ServerVector(p) ==
    LET indshift == (Message(Server, 0).ind + Message(Server, 1).ind) % Width
    IN  Scaled(Op(Server), p + 1, p, indshift,
               Add(Message(Server, 0).off[p + 1], Message(Server, 1).off[p + 1]))

ServerUpdateTo(blinds) ==
    /\ AtUpdate(Server)
    /\ Receive(Server, Comp)
    /\ SBL' = blinds
    /\ Then(Server, Finished)
    /\ UNCHANGED <<outbox, DB, BL, PBD, explicitmode, local, mem, expected>>

\* Faulty variant: the server adds to the blinds.
ServerUpdateAdds ==
    ServerUpdateTo([p \in Comp |-> AddAll(SBL[p], ServerVector(p))])

\* The server subtracts, as the parties do.
ServerUpdate ==
    ServerUpdateTo([p \in Comp |-> SubAll(SBL[p], ServerVector(p))])

-----------------------------------------------------------------------------
(* explicitonly(true) and explicitonly(false).  Every oblivious operation  *)
(* calls explicitonly(false) first.  Coroutines work on copies of a Shape, *)
(* and each copy has its own flag: ScriptsAssumption leaves an operation   *)
(* that changes the mode alone in its batch.                               *)

ExplicitOnly(q) ==
    /\ At(q, 1) /\ Op(q).kind = "explicitonly"
    /\ explicitmode' = [explicitmode EXCEPT ![q] = TRUE]
    /\ Then(q, Finished)
    /\ UNCHANGED <<outbox, wire, DB, BL, PBD, SBL, local, mem, expected>>

\* Slice 0 waits for the other half of a reblinding; after it, an oblivious
\* operation goes on to its first slice without a yield().
Reblinded(q) ==
    IF Op(q).kind = "reblind"
    THEN Then(q, Finished)
    ELSE slice' = [slice EXCEPT ![q][turn[q]] = 1] /\ UNCHANGED <<script, batch, turn>>

\* Leaving explicit-only mode: new blinds for the whole Shape.
Reblind(p) ==
    /\ At(p, 1) /\ LeavesMode(Op(p)) /\ explicitmode[p]
    /\ explicitmode' = [explicitmode EXCEPT ![p] = FALSE]
    /\ \E f \in [Cells -> Blinds] :
          /\ BL' = [BL EXCEPT ![p] = f]
          /\ Queue(p, Messages(p, AddAll(DB[p], f), f))
    /\ Then(p, 0)
    /\ UNCHANGED <<wire, DB, PBD, SBL, local, mem, expected>>

ReblindFinish(p) ==
    /\ At(p, 0)
    /\ Receive(p, {1 - p})
    /\ PBD' = [PBD EXCEPT ![p] = Message(p, 1 - p)]
    /\ Reblinded(p)
    /\ UNCHANGED <<outbox, DB, BL, SBL, explicitmode, local, mem, expected>>

ServerReblind ==
    /\ At(Server, 0)
    /\ Receive(Server, Comp)
    /\ SBL' = [p \in Comp |-> Message(Server, p)]
    /\ Reblinded(Server)
    /\ UNCHANGED <<outbox, DB, BL, PBD, explicitmode, local, mem, expected>>

\* explicitonly(false) outside the mode does nothing.
ReblindNothing(q) ==
    /\ At(q, 1) /\ Op(q).kind = "reblind" /\ ~ explicitmode[q]
    /\ Then(q, Finished)
    /\ UNCHANGED <<outbox, wire, memory, local, mem, expected>>

-----------------------------------------------------------------------------
\* The server's slices that end in a yield() or the return without a message.
ServerStart ==
    LET op == Op(Server) IN
    /\ At(Server, 1) /\ op.kind # "explicitonly"
    /\ ~ (op.kind = "reblind" /\ ~ explicitmode[Server])
    /\ explicitmode' = [explicitmode EXCEPT ![Server] = @ /\ ~ LeavesMode(op)]
    /\ Then(Server, IF ~ explicitmode[Server] THEN 2
                    ELSE IF LeavesMode(op) THEN 0 ELSE Finished)
    /\ UNCHANGED <<outbox, wire, DB, BL, PBD, SBL, local, mem, expected>>

ServerReadFinish ==
    /\ At(Server, 3) /\ Op(Server).kind \in Reading
    /\ Then(Server, IF Op(Server).kind = "oblivious_read" THEN Finished ELSE 4)
    /\ UNCHANGED <<outbox, wire, memory, local, mem, expected>>

CompStep(p) ==
    \/ ExplicitLocal(p) \/ ExplicitStart(p) \/ ExplicitFinish(p)
    \/ ReadStart(p) \/ DotProduct(p) \/ ReadFinish(p)
    \/ UpdateStart(p) \/ UpdateFinish(p)
    \/ Reblind(p) \/ ReblindFinish(p)

ServerStep ==
    \/ ServerStart \/ ServerExplicit \/ CrossTerms \/ ServerReadFinish
    \/ ServerUpdate \/ ServerReblind

AnyStep(q) == Skip(q) \/ SendAll(q) \/ ExplicitOnly(q) \/ ReblindNothing(q)

Step(q) == AnyStep(q) \/ (q \in Comp /\ CompStep(q)) \/ (q = Server /\ ServerStep)

\* The program may stop only when every player is through the script.
AllDone == \A q \in Players : ~ Running(q)
Stop == AllDone /\ UNCHANGED vars

Next == (\E q \in Players : Step(q)) \/ Stop

Spec == Init /\ [][Next]_vars
\* Each party's process runs, and messages that were sent arrive.
FairSpec == Spec /\ \A q \in Players : WF_vars(Step(q))

-----------------------------------------------------------------------------
(* Properties.                                                             *)

TypeOK ==
    /\ DB \in [Comp -> [Cells -> Values]]
    /\ BL \in [Comp -> [Cells -> Values]]
    /\ PBD \in [Comp -> [Cells -> Values]]
    /\ SBL \in [Comp -> [Cells -> Values]]
    /\ mem \in [Cells -> Values]
    /\ explicitmode \in [Players -> BOOLEAN]
    /\ \A q \in Players :
          /\ batch[q] \in 1 .. Len(script) + 1
          /\ Running(q) => /\ turn[q] \in 1 .. Len(Ops(q)) + 1
                           /\ slice[q] \in [DOMAIN Ops(q) -> 0 .. 4 \cup {Finished}]

\* Where a player is in the script.
Place(q) == <<batch[q], turn[q], IF Running(q) THEN slice[q] ELSE 0>>

\* No player of the set is about to receive the other half of a reblinding.
Settled(Q) ==
    \A q, r \in Q :
        /\ Place(q) = Place(r)
        /\ ~ explicitmode[q]
        /\ Running(q) => 0 \notin {slice[q][c] : c \in DOMAIN slice[q]}

\* The invariant of the database (duoram.hpp:38-64): whenever the parties are
\* at the same place of the script, each party's copy of its peer's blinded
\* database is the peer's database plus the peer's blind.
PeerBlindedDB ==
    Settled(Comp) => \A p \in Comp : PBD[p] = AddAll(DB[1 - p], BL[1 - p])

\* And the server's copy of each party's blind is that party's blind.
ServerBlinds == Settled(Players) => SBL = BL

\* Blinds and blinded databases agree wherever the three parties have come to
\* the same place (duoram.hpp:38-64).
BlindsAgree == TypeOK /\ PeerBlindedDB /\ ServerBlinds

\* The shares of the two parties add up to the plain memory on which the same
\* operations were done in the same order, whatever the interleaving of the
\* parties and of the coroutines.
SharesOfMemory ==
    Place(0) = Place(1) => AddAll(DB[0], DB[1]) = mem

\* An oblivious read yields shares of the cell at its index, as it was when
\* the read took its dot product, even when other coroutines of the batch
\* update the memory between its slices.
ReadsTheMemory ==
    \A c \in DOMAIN expected :
        (/\ Running(0) /\ batch[0] = batch[1]
         /\ Ops(0)[c].kind \in Reading
         /\ slice[0][c] \in {4, Finished} /\ slice[1][c] \in {4, Finished})
          => Add(local[0][c].res, local[1][c].res) = expected[c]

\* Nothing is left over: when the script ends, every message was received,
\* so no party has read a message that was meant for another operation.
NoLeftovers ==
    AllDone => \A l \in Links : wire[l] = <<>> /\ outbox[l] = <<>>

\* Reads get the messages and the memory that are theirs.
ReadsInOrder == ReadsTheMemory /\ NoLeftovers

\* A write to a cell that no other operation of its batch touches leaves
\* shares of the written value there when the batch is over: what is lost by
\* writing as reading and adding the difference is lost only to operations
\* that are not independent.
WritesTakeEffect ==
    \A c \in DOMAIN expected :
        (/\ Running(0) /\ turn[0] > Len(Ops(0)) /\ Place(0) = Place(1)
         /\ \A d \in DOMAIN expected : slice[0][d] = Finished
         /\ IsWrite(Ops(0)[c])
         /\ \A d \in DOMAIN expected \ {c} :
               Ops(0)[d].kind \in Explicit \cup Oblivious => Cell(Ops(0)[d]) # Cell(Ops(0)[c]))
          => LET i == Cell(Ops(0)[c]) IN Add(DB[0][i], DB[1][i]) = Meant(Ops(0)[c])

\* Every party gets through the script: no receive waits for a message that
\* is still queued at the sender (coroutine.hpp:43-62).
Completes == <>AllDone
=============================================================================
