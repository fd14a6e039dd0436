# TLA+ models and proofs of PRAC

PRAC ("Private Random Access Computations") is a C++17 library and program for
three-party secure computation over oblivious memory. Two computational
parties, P0 and P1, hold shares of the data; a server, P2, helps them. This
directory holds TLA+ models of its components, the TLC configurations that
check them on small instances, and proofs of theorems about them that TLAPS
checks for every value of the constants.

- [Inventory](#inventory) of the system
- [Plan](#plan): modules, in order, with what is done and what is left
- [Models](#models): how the state and actions of each correspond to the code
- [Runs](#runs): what each checks, its bounds, its fairness
- [Proofs](#proofs)
- [Disagreements found](#disagreements-found)
- [Not modelled](#not-modelled)

To check a run: `tlc -config BST.cfg BST`; to check proofs:
`tlapm MinHeapProofs.tla`, and likewise the other `*Proofs.tla` and `Basics`.
`PROJECT.json` lists every run with its properties, the source lines behind
every definition, a faulty variant of some definition that each property
detects ("Faulty variant" in the modules), and the hazards of the code with the
properties that watch them.

## Inventory

From the bottom up. All paths are relative to the root of the repository.

### Communication

**MPCSingleIO** (`mpcio.hpp:77-172`, `mpcio.cpp:9-171`): one TCP connection to
another party. State: `dataqueue` (bytes accumulated), `messagequeue` (chunks
handed to the I/O thread, the front one being written), `message_lamport` (the
clock of the message being built), `recvdata` (the unread rest of a received
chunk). Operations: `queue`, `send(implicit)`, `recv`, and the completion
handler of `async_write`.
Hard: `send` runs in a work thread and the handler in an I/O thread, and either
may have to launch the next write; received lengths have nothing to do with
sent ones; a message's chunks must all carry the clock of its first `queue`.
Correct: delivery in order, whole and eventual; one write at a time; right
stamps, and a receiver clock past them.

**MPCIO and MPCTIO** (`mpcio.hpp:325-515`, `mpcio.cpp:460-640`): the connections
of a party; one MPCTIO per thread. State: the atomic master Lamport clock, the
clock of each MPCTIO. Operations: construction, queue and receive for each
partner, `sync_lamport`, destruction. Hard: threads of a party end at the same
time and update the master clock without a lock. Correct: that update is an
atomic maximum, and the parties stay in lockstep.

**Correlated randomness** (`mpcio.cpp:739-886`, `mpcio.tcc`): pools of
multiplication triples, select triples, DPFs, read from files made by
preprocessing or made on line. State: a queue of select triples for DPF nodes
and how many were asked for, an AND triple and how many of its bits are unused.
Hard: a coroutine may yield between the test and the use of a pool. Correct:
each triple is used once and the same one by all parties.

**Connection setup** (`mpcio.cpp:897-1044`, `prac.cpp`): who listens, who
connects and retries, the thread number sent first.

**Coroutine scheduler** (`coroutine.hpp`, `corotypes.hpp`): `run_coroutines`
runs a set of coroutines in passes, sends everything before each pass, and
yields instead when it is itself in a coroutine. A coroutine has run to its
first `yield` before that: it is entered when it is constructed. Hard: receiving
blocks the thread, and all coroutines share a stream. Correct: the passes of the parties
correspond, each coroutine receives its own messages, nothing blocks for ever.

### Oblivious memory

**Duoram** (`duoram.hpp`, `duoram.tcc`): shared memory. State: at Pb, a share
of the database, a blind, and the peer's blinded database; at P2 both blinds;
at each party, the mode of the shape. Operations: reads, updates and writes at
an explicit or a secret index, and `explicitonly(bool)`. Calls the scheduler,
the streams and DPFs. Hard: coroutines of a batch interleave at each `yield`;
in explicit-only mode blinds are left stale and have to be renewed. Correct:
the blinds of all parties agree, the shares are those of the plain memory, and
a read returns what was there.

**Algorithms and shapes** (`duoram.tcc:686-787`, `duoram.cpp`, `shapes.hpp`,
`shapes.tcc`): bitonic sort, binary search; Flat, Pad, Stride, Path map indices
onto a parent shape.

**RDPF** (`rdpf.*`, `dpf.hpp`): distributed point functions for memory access,
which P0 and P1 make together. State: per level a correction word and bit, for
each level that can be used as leaves the factors of the sums of its words, and
perhaps the expanded leaves. Operations: creation level by level, reading and
writing, one leaf, expansion, a stream of leaves from a start with an XOR
offset, a range of them shared among threads. Hard: parities of flags over whole
layers; sums of words that must be odd; wrapping around and offsets in the
middle of a path. Correct: leaves that share a unit vector and its multiples,
however they are computed.

**CDPF** (`cdpf.*`): comparison. State: a tree made by the server along one
path, with 128 values to a leaf. Operations: generation, `compare`, `is_zero`.
Hard: the sum over an interval that wraps around and ends within leaves is
gathered on the way down two paths. Correct: shares of less, equal, greater.

**MPC operations** (`mpcops.*`): products, selections, conversions.

**Preprocessing** (`preproc.*`): P2 reads the arguments of each thread,
announces them, and the three parties make and store correlated randomness with
a coroutine for each value. State: open files, the announcements. Hard:
coroutines that are entered while headers are still on their way; those that wait for the server beside others that make RDPFs with nested
coroutines; several arguments for one file. Correct: files of the parties
match; nothing blocks.

### Data structures

**MinHeap** (`heap.*`): a binary heap in a Duoram. State: the array and
`num_items`. Operations: `insert` and `insert_optimized`, `extract_min` basic
and optimized, `init`. Hard: long mixes of operations, the loops' states between
turns, secret indices with off-by-one lengths, a missing sibling. Correct: heap
property; a priority queue. **Its cache** (`heap.cpp:720-1097`): to extract k
items fast, the tree stays as it is, and a second heap holds the indices of the
candidates. Hard: a heapify that runs over half of the cells, in the unusual
order. Correct: the items come out in order.

**HeapSampler** (`heapsampler.*`): samples k elements of a stream, by random
tags in a MinHeap. State: `m`, the heap, the next random tag. Operations:
`ingest`, `close`. Hard: pairs of coroutines, of which one draws the tag of the
next element; masking of two shares separately, which may leave a carry; reuse.
Correct: a k-sample of the stream, and elements returned without tags.

**BST** (`bst.*`): a search tree in a Duoram, whose shape no party learns.
State: the nodes, a shared root, `num_items`, a stack `empty_locations`.
Operations: `insert`, `lookup`, `del`. Hard: walks of a fixed length that go on
through the null node; a deletion that decides by secret flags what to splice
out and to exchange, several levels apart; equal keys; locations reused.
Correct: a sorted tree with the right items, from which exactly one goes.

**AVL** (`avl.*`): the same with rebalancing, so that walks are logarithmic.
State: besides, two balance bits per node, and the highest location used. Hard:
balance bits are updated by case analysis over secret flags; a deletion may
rotate at every level, while the levels above hold copies of the pointers, and
exchange a successor. Correct: as BST, balanced, with right bits, and reachable
within the number of levels that is computed from the number of items.

**Drivers** (`prac.cpp`, `online.*`): option parsing, tests and benchmarks.

## Plan

| | module | models | composes or implements | state |
|-|--------|--------|------------------------|-------|
| 1 | `MPCSingleIO` | one direction of a connection | | done, proved |
| 2 | `MPCTIO` | threads' clocks and exchanges | implements `MasterClock` | done, proved |
| 3 | `Duoram` | the memory protocol under the scheduler | | done, proved; incremental indices left |
| 4 | `MinHeap` | the heap | implements `PriorityQueue` | done, proved |
| 5 | `HeapSampler` | the sampler | uses the bag of 4; implements `Reservoir` | done, proved |
| 6 | `BST` | the search tree | implements `KeyedBag` | done |
| 7 | `AVL` | balanced tree: balance, rotations, deletion | implements `KeyedBag` | done |
| 8 | `CacheHeap` | extraction with a cache | implements `PriorityQueue` | done, proved |
| 9 | `Coroutines` | nested `run_coroutines`, streams, pools | | done |
| 10 | `Preproc` | three parties preprocess, or run on line | composes 9 at three parties | done |
| 11 | `DPF`, `RDPF` | nodes; oblivious indices | used as given by 3 | done, proved |
| 12 | `CDPF` | comparison | uses `DPF`; used as given by 4 | done, proved |
| 13 | `MPCOps` | values of products, selections, conversions | | left |
| 14 | `BitonicSort`, `BinarySearch`, `Shapes` | algorithms, by the 0-1 principle | reference definitions | left |
| 15 | `Connect` | listening, retrying, identifying threads | | left |

Proofs, in the order they were made: the streams; the clock loop, the
lockstep of the parties and the final clock; the heap property of MinHeap for every size, and that
it implements a priority queue; that the sampler implements a reservoir and
returns the elements of its stream; the four invariants of Duoram; the cache of
`CacheHeap`, and that it implements a priority queue; the three invariants of
CDPF; of RDPF the levels, the shares, the expansions and the evaluation, which
are all its invariants. Left: the order and shape of BST.

Abstract specifications: `MasterClock` (an atomic maximum), `PriorityQueue`,
`Reservoir`, `KeyedBag`, each what a header's comments promise to callers.

## Models

Each module begins with a comment that says how it abstracts its code. What
follows is the correspondence in short.

### MPCSingleIO

Built with `SEND_LAMPORT_CLOCKS`, which `mpcio.hpp:53` defines. A byte is its place in
the stream, so a buffer is an interval and losing, repeating or reordering
bytes shows. `Queue(len)` is `queue` with the implicit send of a full packet,
`Send` an explicit `send`, `SpuriousSend` one with nothing to send, `Advance`
the receipt of a clock on another stream of the thread. `Transmit` puts the
bytes of an `async_write` in the socket, `WriteHandler` is its handler.
`RecvCall`, `RecvChunk`, `RecvCopy` are `recv`: the call, the read of a header
and a chunk when the buffer is empty, and the copy. The history variables
`open` and `clocks` record which message a `queue` belongs to without looking
at `message_lamport`, and `byteclocks` the clock of each byte's message:
`ClockOfReceived` compares it with the receiver's clock byte by byte, so that
it does not matter how messages were cut into chunks and chunks into receives.
A call is a step since the calls share only
`messagequeue`, under its lock.

### MPCTIO and MasterClock

Per thread: construction reads the master clock, `NIters` messages go each way,
destruction runs `sync_lamport`. The accesses to the atomic `lamport` are the
steps (`Load`, `CompareExchange`, `CompareExchangeFails`, the last also
spuriously, because the exchange is weak). This is `lamport_test`
(`online.cpp:167-212`). Names of the state machine begin with `TIO`, so that one
module of proofs can extend this one and `MPCSingleIO`. In `MasterClock`, `Close` is one atomic maximum;
`ImplementsMaster` maps the successful exchange to it and everything else in
the loop to stuttering.

### Duoram

All parties run one script, a sequence of batches; a batch is one
`run_coroutines`, one operation per coroutine. A step of a party is a slice of
one coroutine, from one `yield` to the next; before each pass all queued
messages are sent. (The code runs the first slices of a batch before its first
send instead of after it. Before the first slices nothing of the batch is
queued, so the outermost runner sends the same in the same order.) A slice that receives waits for its message: the blocking
`recv`. Values are integers modulo `M`, so 3 distinguishes what 2 would not:
signs. A DPF is what it is the shares of, a unit vector at a random target and
a multiple of it; the offset between index and target, its exchange, the dot
products, the server's cross terms, the exchange of blinded values are the
code's. `mem` is the plain memory the shared one stands for, a history
variable; so is `expected`, what a read should return.

### MinHeap and PriorityQueue

The array in the clear, since every step of the heap is one on shared values.
`Insert`, then one `SwapUp` per turn; `InsertOptimized` in one step, by the
position the binary search on the path yields; `ExtractMin`, then one `Restore`
per turn in the basic or the optimized way, whose secret index is a path
without its leading bit. The comparison is the sign bit of a difference that
wraps around, as the CDPF finds it, and reading beyond the array yields 0, as a DPF does. Powers
of two are a constant, which keeps the module free of recursion.
`ImplementsQueue` maps the array to the bag of its first `num_items` cells.

### HeapSampler and Reservoir

The heap is the bag that `MinHeap` was shown to implement. An `Ingest` starts
the operation; the coroutines run together (extraction beside the coin;
insertion beside drawing the next tag) are steps in either order. `close`
masks two shares of each value separately, adds the masks and corrects the
carry by the comparison of the code. The coin may fall either way: its bias is
not modelled.

### BST and KeyedBag

The array of nodes in the clear. The recursion of `insert` and `lookup` is the
sequence of nodes visited (`Search`), of `del` two sequences, one down
(`Levels`) and one back (`Returned`), since flags are carried both ways. Walks
have `num_items` levels and pass through node 0 below the leaves, as in the
code. What `del` carries in flags and pointers is a record whose fields have the
code's names (`F_ss`, `N_d`, `N_s`, `F_r`, `ret_ptr`, ...).
An operation is one step: nothing else runs during one, and what can go wrong
is in the sequence of operations. `items` is history: the items held by the
nodes that can be reached from the root.

Callers (`Step`) do not insert into a tree they have emptied, and use keys other
than 0: see [Disagreements found](#disagreements-found) for what happens then.

### AVL

As `BST`: an array of nodes, walks as sequences, an operation per step. A node
has its two balance bits and the sides are Booleans, so that a definition
covers a case and its mirror image, as the code's own selections by secret
direction do. `Rotate`, `UpdateBalanceIns`, `UpdateBalanceDel`,
`FixImbalance`, `UpdateRetStruct` are the functions of those names. Insertion
finds on the way the lowest node that becomes imbalanced and rotates there
afterwards (`Rebalanced`), in at most two rotations; deletion does it at each
level on the way back (`DelBelow`). `AVL_TTL` is the length of walks, computed
as in `avl.hpp:41`. The initial state is an empty tree or one that `initialize`
made. `MaxItems` bounds insertions. OPTIMIZED and plain code paths differ in
how secret pointers are dereferenced, which leaves the values as they are.

### CacheHeap

The tree and its Booleans, and the cache, an array of indices. `_insertval_m`
and the caches' functions walk from a cell to the root (`Raised`).
`ExtractRoot` and `ExtractNext` are the turns of the driver's loop. It extracts
from more than three items here, with cells for the children of all; with three
the code does not push cell 3 (`num_items > 3`, `heap.cpp:1064`), with two not
cell 2: the last items would stay in.

### Coroutines and Preproc

In `Coroutines` a coroutine is the sequence of operations it has still to do:
queue a message, receive one, yield, take from a pool, write to a file, run
other coroutines. A `coro_t` is a `pull_type` (`corotypes.hpp:7`), which enters
the coroutine when it is constructed. So `RunCoroutines`, inside a coroutine,
resumes the new ones once in the order in which they are emplaced, and what
these first slices queue, deal or take comes before its first yield; then it
yields where the outermost runner sends, and takes another turn as long as some
are left (`Resumed`, `Passed`). A message carries who queued it: its place among
the coroutines. No receiver looks at that; `OwnMessages` compares it with the
receiver's own place. The operations that the functions of `MPCTIO`, `mpcops`
and `rdpf` consist of are translated one by one (`Dealt`, `Popped`, `BitUsed`,
`ValueMul`, `XsToAs`, `ReconstructChoice`, `CreateLevel`, ...).

`Preproc` runs them at three parties. P2 reads arguments (`ReadArg`, `EndArgs`),
the others headers (`ReadHeader`), and both emplace the coroutines of each
(`TakeUp`), which enters them there and then. That each begins with a yield
(`preproc.cpp:115` and its like) keeps what the server deals out of the
headers: without it (`CoroutinesForAtOnce`) a header is read that is not one.
`pc = "run"` is a party about to send. A `Turn` is a pass: every unfinished
coroutine runs to its next yield, and what they queued is sent. It is one step,
taken when all that its receives need is there: nothing is sent in the middle of
a pass, so nobody can tell a party blocked in one from a party before it.
`MODE_ONLINEONLY` is the same machine with coroutines of `mpc_and` instead of
arguments (`OnlineJobs`). Files are sequences of values, a value being its kind
and its number.

### DPF, RDPF, CDPF

A node is a set of bits, of which 0 is the flag. The generator of children is
any function of node and side: the constant `Gens` has two in the runs, and
neither is one to one. So the cryptography is left out, and nothing that is checked depends on
it: that two nodes are equal, that flags differ, that sums agree.

`RDPF` makes a pair level by level (`CreateLevel`): the sums over a layer, the
correction word and the parity, the corrected layer, and for a layer that is
used as leaves the sums and inverses (`SumOf` and `XorOf` are the loops of
`finalize_leaf_layer`). Leaves have `1 + Width \div 2` nodes, each of
two words. `WriteAndRead` is one operator after the other on the sequence of
fields. `StartEval`, `Process(t)`, `Join` are `ParallelEval`, in which threads go on
in any order. `CDPF` has the same for comparison, with a step for each level
of generation and for each turn of each party's loop, and 2 to the `LeafBits` values
per leaf, where the code has 128. Shares are added modulo the number of values, or XORed,
bit by bit (`XorBits`, a recursive function, as `Shl` is for the powers of 2). `is_zero` goes the way of `compare` to S alone;
`Turn` and `Finish` are those of both.

## Runs

Passing runs:

| run | properties | what it shows | states |
|-----|------------|---------------|-------:|
| `mpcsingleio` | `OneAsyncWrite`, `InOrder`, `MessageClock`, `ClockOfReceived`, `SentIsDelivered` | order, stamps, one write, the receiver's clock, eventual delivery | 68 thousand |
| `mpctio` | `Inv`, `FinalClockBounds`, `ImplementsMaster`, `Ends` | lockstep, atomic maximum, bounds of the final clock, end | 2 thousand |
| `duoram` | `BlindsAgree`, `SharesOfMemory`, `ReadsInOrder`, `WritesTakeEffect`, `Completes` | blinds, shares, reads, writes, no message left, end | 145 thousand |
| `minheap` | `HeapButOne`, `ImplementsQueue` | heap property, loop invariants, a priority queue | 260 thousand |
| `heapsampler` | `Inv`, `ReturnsTheElements`, `ImplementsReservoir` | one tag each, elements returned intact, a reservoir | 28 thousand |
| `bst` | `SearchTree`, `FindsWhatIsThere`, `ImplementsBag` | tree, order, null node, free locations, searches, a bag | 21 thousand |
| `avl` | `SearchTree`, `Balanced`, `FindsWhatIsThere`, `ImplementsBag` | the same, balance, correct balance bits | 11 thousand |
| `cacheheap` | `CacheIsFrontier`, `ImplementsQueue` | items in order, the cache is the frontier | 94 thousand |
| `preproc` | `EveryMessageToItsOwn`, `SamePools`, `FilesMatch`, `Ends` | each its own messages, same values, matching files, end | 7 thousand |
| `rdpf` | `KeysOffByTarget`, `SharesVectors`, `StoredAndExpanded`, `ProcessesTheRange` | unit vectors and multiples, files, expansion, ranges | 140 thousand |
| `cdpf` | `LeavesDifferAtTarget`, `PathsFit`, `ComparesToZero` | differing bit, the interval on the way, the sign | 689 thousand |

A property is often a conjunction of named parts, each with a comment of its
own: `Inv` of `mpctio` contains `Lockstep` and `LoopCovers`, `BlindsAgree` of
`duoram` contains `PeerBlindedDB`, `HeapButOne` contains `HeapProperty`, `SearchTree` of the trees contains `Sorted`,
`EveryMessageToItsOwn` of `preproc` contains `OwnMessages`. The one run that
ends in a counterexample, `avl_balance`, is under
[Disagreements found](#disagreements-found).

Bounds, and why they are enough:

- **MPCSingleIO.cfg**. Lengths 1 and 2 with packets of 2: a `queue` may fill a
  packet exactly, exceed it, or not; a `recv` may end in the middle of a chunk,
  at its end, or span two. Five bytes are three chunks in flight: one being
  written, one waiting, one in the socket. Two clock values tell a stale stamp
  from a fresh one.
- **MPCTIO.cfg**. Two threads, the fewest that compete for a clock. Three
  messages put clocks far enough apart that a lost maximum is seen.
- **MCDuoram**, **Duoram.cfg**. Two cells, so that two operations meet or miss;
  DPFs of four leaves, so that some lie outside the memory and offsets wrap
  around. `M = 3`. Four scripts put every operation beside another one, and
  enter explicit-only mode and leave it by `explicitonly(false)` and by an
  oblivious operation. Blinds are any of two values at each use; the DPFs of a
  script are fixed, but unlike each other.
- **MinHeap.cfg**. Eight cells, three layers: a middle layer between root and
  leaves, with an incomplete last one at every count. Values 0 to 3, the last
  of which also marks empty cells, as in the code.
- **HeapSampler.cfg**. Two of up to four elements: two ingested without and two
  with an extraction. Two tags and two elements are all carries there can be.
- **BST.cfg**. Six locations are four items, because location 2 is never used
  (`num_items` is incremented before 1 is added to it). With four a successor
  can be deeper than the right child, and a node with two children can be at
  the root or below it. Two copies of a key, two values, so that a value that
  does not go along with its key shows, and two locations to reuse, so that
  their order matters. `MaxEmpty` and `MaxCopies` are in the guards, not in
  constraints. What emptied cells hold would multiply the states, so TLC tells
  states apart by `Contents`, which leaves it out: no operation reads a cell off
  the tree, and `insert` overwrites the whole cell it reuses.
- **AVL.cfg**. Six items are the fewest for three levels whose lower two are
  incomplete, so that both kinds of rotation happen below the root and a
  deletion can rotate and exchange. Starting from a tree of depth 2, as
  `initialize` makes it, or from none. `Contents` is the view, as in BST.
- **CacheHeap.cfg**. Arrays of 32 cells and up to nine items in four layers:
  caches of up to five indices, so that heapify has a middle to leave out of
  order. Values 0 to 3 repeat.
- **MCPreproc**, **Preproc.cfg**. Two command lines: markers for two threads
  with RDPFs of depths 1 and 2, plain and incremental, widths 1 and 2, beside
  triples; and types named twice, an argument that is skipped, and a marker in
  the middle. Two bits per AND triple, so that coroutines with two to four
  ANDs meet its end in all ways. A file of an earlier run has two values.
- **MCRDPF**, **RDPF.cfg**. Depths 1 to 3, plain and incremental, all targets;
  words of three bits, so that sums overflow; two values per index; up to two
  threads, for ranges that are full or one short, from 0 or 3 on, with offset 0
  or 6 (of which the high bits are cut at smaller depths).
- **MCCDPF**, **CDPF.cfg**. Four levels and leaves of four values: a level
  where the paths part, two in lockstep, the leaves. All targets and all
  values, one share of each given, since only sums matter.

`CHECK_DEADLOCK FALSE` is said of a stream whose sender has sent all it may, of
a sampler whose stream has ended, of an AVL tree that was emptied, of a heap
whose items are all extracted, and of an evaluation that is done; `MPCTIO`,
`Duoram`, `Preproc` and `CDPF` stutter once all tasks are joined (`Joined`), all
scripts are over (`Stop`) or all parties are done (`Finished`), so that any
other stop of theirs is a deadlock that TLC reports.

Fairness:

- *MPCSingleIO*: the I/O threads run all along (`prac.cpp`), so a write
  proceeds and its handler runs; the receiver keeps asking. The sender owes
  nothing: it may stop at any time, and only what was handed over by `send` is
  promised to arrive.
- *MPCTIO*: every thread of the pool runs; a weak compare-exchange that could
  succeed infinitely often does not fail spuriously for ever.
- *Duoram*, *Preproc*: each party's thread runs; a party waits only for a
  message.

The safety-only models have no fairness.

## Proofs

**MPCIOProofs** is about streams and about clocks. Streams, for every set of positive lengths, packet size, and
bound. The invariants of the two ends need what is between them: `InFlight`,
the chunks in `messagequeue` or in the socket. `IInv` adds to the type
invariant and `OneAsyncWrite` that
- `Adjacent`: the chunks in flight are nonempty intervals that follow each
  other from where `recvdata` ends to where `dataqueue` begins (`Chain`);
- `Stamps`: each chunk in flight has the recorded clock of its message, and
  `message_lamport` is that of the message which is open.

`InOrder` and `MessageClock` are not inductive without these. A lemma per way
a sequence changes (a chunk is appended, the head is taken) carries `Chain` and
`Stamped`; a lemma per group of actions says which it is. Theorems:
`Invariance`, `TypeCorrect`, `AsyncWriteIffNonempty`, `DeliveredInOrder`,
`ChunksShareClock`. `ClockFollowsReceived` (`Spec => []ClockOfReceived`) has an
invariant on top of it, `Labels`: the bytes in `dataqueue` have the clock of
`message_lamport`, those of a chunk on its way the stamp of the chunk, the
receiver's clock is past that of every byte read, delivered or not, and it is
one past that of a byte delivered or of the very next one, which `recv` is about
to copy (`Latest`). It holds because `recv` does not read a chunk it wants
nothing of. Assumptions: lengths are positive, `None` is no clock.

Clocks, for any two parties, any finite set of threads and any number
of messages: `TIOInv` is types and `LoopCovers`; the step that matters for the
atomic maximum is that `LoopCovers` survives another thread's exchange, because the master clock never decreases.
`LoopIsAtomicMaximum` shows that each step of `MPCTIO` is a step of
`MasterClock` or a stutter: `TIOSpec => ImplementsMaster`. `LockstepInvariant` shows
that what a task has sent is what its peer has read and what is still in the
channel, which is never more than two messages. `FinalClock` is about
all threads together: the clock of a task that exchanges messages, and every
stamp on its way, is between the number of messages read and that number above
`Worth`, the messages of the threads that ended at either party (`OpenBounds`,
`StampBounds`, `MasterBounds`). It depends on lockstep, since a task cannot end
before its peer has read the master clock (`NotEndedBefore`). Assumptions: there
are two parties, a finite set of threads with at least one (`prac.cpp:101`), and
at least one message.

**MinHeapProofs**, for every size and every width of integers. `HeapButOne`, the
loop invariant of all five loops, is inductive as it stands, with one lemma per
action: which cells of the path or of the subtree may be out of order, and by
how much. The facts about paths (a parent lies above its child, the layers of
the array, the position that the binary search of `insert_optimized` yields)
come from the assumption on `Powers`.
`HeapIsPriorityQueue` (`Spec => ImplementsQueue`) maps a step that adds or
removes an item to the queue's and every turn of a loop to a stutter. That the
root is the minimum of all items (`RootIsMinimum`) is by descent along parents,
from the smallest cell at which it might fail. That a turn of a loop leaves the
bag alone is by an exchange of two cells, a bijection (`Rearranged`).
Assumptions: `Powers` are the powers of 2 up to the size; the largest integer
is a natural number.

**CacheHeapProofs**, for arrays of every depth and every greatest value. `CInv` is
types; which cells have values (`Filled`); heap order (`Ordered`, which
extractions leave because they leave the tree); that a node is extracted after
its parent (`Closed`); and once extractions have begun, that the cache
holds `Edge`, the nodes that are in and whose parents are not, each once and a
least one first, with cells left for two more (`Begun`). What a walk does is
proved by induction along its cells (`RaisedInduction`): the cells are
rearranged, a least index on the path comes to the root, and in the tree the
order is broken at one cell only, which moves up. So `_insertval_c` and
`_heapify_cache` put a least index first although the cache is no heap below the
root: every cell of the cache is on the path of a leaf (`AllCovered`), and a
later walk brings no greater value to the root (`Covered`). Above every node
that is in there is one of the edge with no greater value (`EdgeAbove`), so the
first index is the least of all; and it is a node of the tree, not one of the
empty cells below its leaves, which the edge also holds. Theorems:
`CacheInvariance`, `CacheAlwaysFrontier`, `CacheIsPriorityQueue`. Assumptions:
the depth is positive, the cells are enough for the items (`DepthAssumption`,
`BoundAssumption`), and the greatest value is.

**HeapSamplerProofs**, for every size of sample, and any numbers of tags and of
elements. `SInv` is types, the stages of an `ingest` and of `close` in the order
of the code (`Stages`), positions (each item in the heap was drawn for an
element of its own, and the next tag is for the next element) and what has been
put out. Theorems: `SamplerInvariance`, `OneDrawForEach`, `ElementsReturned` and
`SamplerIsReservoir`. The lemma that carries `ElementsReturned` is about the
carry (`MaskedSumCarries`): two shares, each reduced modulo the number of
elements, add up to the element or to it and that number, and the comparison
tells which. Assumptions: the three constants are positive.

**DuoramProofs**, for every modulus, size of the memory, set of blinds and
scripts, and every interleaving. What makes the protocol correct is that each message is the answer to the slice that
awaits it. None of the four invariants says anything of players at different
places, so none of them is near inductive. The inductive invariant is that
every state has a past (`HasPast`):
- The control of a player (batch, turn, slices, mode, and how many messages it
  has received, queued and sent) moves by a function of the script alone
  (`Succ`). `IsRun` is the one sequence of controls that all players follow; its
  invariant `ControlInv` says that counts match the slices that are left.
- `Log` adds the data: what each player held after each of its steps, and what
  was said on each link, so that every step is as its slice says (`StepRel`) from
  the messages it took (`Happened`).
- `Trace` says that the state is the end of that log. A player is some number of
  steps along; a link holds a window of its log, from what the receiver has taken
  to what the sender has put out.

`PastAlways` is `Spec => []HasPast`, with a lemma per action; `EveryMessageReceived`
follows, because at the end all controls are equal.

The four theorems are then inductions along the past, where the players can be
compared step by step, in whatever order they took them: that data have
their types (`Typed`); that a message is what its sender kept for it
(`Said`); that blinds match (`BlindsMatch`), whence `BlindsAlwaysAgree`; that
shares add up (`Shared`, one coroutine at a time by `CoroutineHolds`), whence
`SharesAlwaysAddUp`; that a read which has been answered holds shares of the
cell (`Returned`) and keeps them, whatever else its batch does,
whence `ReadsAlwaysInOrder`; and that from its read on, a write that is alone at
its cell keeps the difference to what it found (`Wrought`), whence
`WritesAlwaysTakeEffect`. The algebra of a read (`ReadAddsUp`) is about sums over
the memory of products of shares with rotated unit vectors: `Total` of a sum of
functions is the sum of their `Total`s, and that of a unit vector's multiple is
its one value.

Assumptions: `RingAssumption` (the ring has elements, blinds are among them),
`SizeAssumption` (the memory has cells, and the leaves of a DPF are as many or
more) and `ScriptsAssumption`, of the callers: indices are in the
memory; the shares of an RDPF add up to a unit vector and its multiples, which is what `RDPF` checks; and an operation that turns explicit-only mode on, or is the
first to turn it off again, is alone in its batch, because the flag belongs to a
`Shape`, of which each coroutine has a copy (the hazard at `duoram.hpp:177`).

**CDPFProofs**, for every depth, word length, generator, seeds, target, value and
shares, and every interleaving of the parties. Nothing is assumed of the
generator, a function on nodes: the proof is that no correction is one off. The
inductive invariant has two parts.
- `GenInv`: the parties' nodes on the way to the target, as far as it has been
  generated, are a trail (`TrailTo`): on it their flags differ, and next to it the
  children are the same. A lemma per direction shows that the correction word and bit
  of a level do that to two nodes with different flags (`LevelToRight`,
  `LevelToLeft`), another that the leaves differ in the bit of the target alone.
  That the earlier words stay as they are makes the trail grow (`TrailGrows`).
- `CompInv`: what a party has done by itself. Its nodes are the ends of two paths
  from its root, to S and to the opposite value, and its sum is that of the
  flags along them (`RunAt`); when it is done, its outputs are what the leaves
  make of that (`Returned`). It speaks of one party at a time, so that the other
  may be anywhere.

What the parties have together follows. A path to any value follows the trail as
long as it is the target's and is the same at both from then on
(`PathsMeet`), whence `LeavesDiffer`, and half of `PathsAlwaysFit`. At every level
the two sums share whether the target is strictly between the two paths
(`RunsFit`): a turn goes from the nodes of one level to the next, and the sibling
whose flag it adds is the part of the node that was not between and now is
(`InsideNext`, by `InsideParts` about a circle of `2h` nodes split in `b` each). The
bits of the leaves are the last such step (`InsideLeaf`, `ResultsShare`). Since S
is the target less the value, by either kind of shares (`WholeOf`), the
target is between S and the opposite value just when the value is positive
(`DifferenceOf`): `ComparesCorrectly`. Assumptions: two levels or more; a leaf has
two words of bits (`LeafAssumption`); generators, seeds and shares are
of their types. `Invariance` is not what TLC checks: `Inv` says that there are
paths, functions on all numbers of levels. What TLC checks is what it
implies, the run's three invariants.

**RDPFProofs**, for every depth, width, word length, generator, pair of seeds and
target. A level of an RDPF is corrected as a whole: `create_level` knows only the XOR
of all children on a side, and the two parties' layers differ at one node, the
target's. `IInv` says so: `LayersInv`, that the layers of both parties are the
same but at the node of the target, where the flags differ; and `KeysInv`, that
a key has the words, flag bits and leaf layers of its phase (`KeyShape`).
- The XOR of a side over both parties is that of the target's two children
  alone, since everything else occurs twice (`XorOverDiffers`, by induction over
  the layer; `SideXors`). So the correction word is the XOR of the children away
  from the target (`CorrectionIs`), and it makes these the same and the flags of
  the other two differ (`LevelFlag`, `TargetSplits`, `LayersFit`).
- A key that is written and read back keeps its shape (`Reread`), because the
  byte that holds the depth and the flag of an expansion decodes to both
  (`ByteParts`, `DepthByte`). That needs depths below 64, which the code
  takes for granted (`rdpf.tcc:208-313`): the part `MaxDepth \in 1 .. 63` of
  `DepthAssumption`.

The vectors are about leaves, which a key does not hold unless it is expanded:
they are found by descending. So a second invariant, `TreesInv`, says that each
party's key has a tree (`TreeOf`): layers of nodes such that descending from the
node of one gives those of the next, of which the layer being made is the last;
and that what was kept of every leaf level is what its leaves give (`Keeps`): sums,
XORs and, if it is expanded, the leaves themselves. It holds next to `IInv`
(`TreesInvariance`) because a level adds a layer to the tree and what it keeps
in front of the earlier ones, and because a key read back is the one written.
The trees are functions of which the invariant says that they exist.
- A path is the way through the tree to an index (`PathIs`), and a path moved to
  another index is the way to that (`MovedIs`), when the two part where the branch is made
  (`Near`). The next index is the last one with a carry: from the place where they part
  downwards the digits are 0 in one and 1 in the other
  (`Carry`), and their XOR has as many ones as the carry is long (`CarryOnes`). This is
  what the count of ones in `expand_leaf_layer` and `StreamEval` rests on: the expansion is
  the layer of leaves (`ExpandingChangesNothing`).
- The words of the leaves are the same but at the target, so their sums and XORs over
  both parties are those of the target's leaf (`SharesTheTarget`). The low words
  there differ in their last bit, since that is the leaf's flag; so the sum
  is odd, and `inverse_value_t`, a power computed by squaring, is its inverse: each
  squaring makes the product right modulo twice as much (`NextInverse`).
- Every thread of an evaluation has put out the leaves of the first places of its
  chunk, and its stream is at the next one, with the way to the one before (`EvalInv`). An
  offset moves both ways alike (`OffsetNear`), and the wrap to index 0 is a carry through
  all digits (`CarryWraps`); so a step puts out the right leaf (`StreamGoesOn`). The chunks
  follow each other (`ChunkSteps`), cover the range and do not overlap, whence
  `EvaluatesTheRange`, for any number of threads and any order of their steps.

Theorems: `Invariance` and `OffTheWayTheSame`, the run's `KeysOffByTarget`;
`TreesInvariance`; `SharesTheTarget`, `ExpandingChangesNothing` and
`EvaluatesTheRange`, its other three invariants. The other assumptions are types: the
depth is no more than the bits of a word, an RDPF has a value or more, generators
and seeds are functions to nodes, starts and offsets are natural numbers. As with
CDPF, TLC checks the run's invariants and not `TreesInv` or `EvalInv`, in which trees
are quantified over.

**Basics** holds what several of these rest on: induction over the natural
numbers, from well-founded sets (`SetInduction`); that a function defined by
recursion exists (`OrbitExists`) and what the powers of 2 are, so defined
(`PowersOf2`); residues; the binary digits of numbers, their XOR, of which it has
that it commutes, is undone by itself and goes digit by digit (`XorDigit`), and
carries; and that a rearranged array holds the same items as often (`Rearranged`).

Beyond the prover, and left to TLC: liveness under fairness and everything
about ENABLED (`SentIsDelivered`, `Ends`, `Completes`); what a recursive
definition computes for every input where a recursion is over a data structure (the
walks of `BST` and `AVL`, and the nested coroutines of `Coroutines`, whose recursive
operators shut out the prover from `Preproc`). So `BST`, `AVL` and `Preproc` are
model-checked only.
Of the proved models, everything that their runs check is proved but liveness.

## Disagreements found

One has a run that ends with TLC's counterexample.

| run | what the source says | what happens |
|-----|----------------------|--------------|
| `avl_balance` | "the balance bits of each node are correct" (`avl.cpp:110`) | After some deletions from seven items they are not. |

The deletion needs a double rotation. `fixImbalance` sets the parent's balance
bits in `p_bal_ndpc` and `p_bal_dpc`, and writes only the first one back
(`avl.cpp:1290-1293`); the second, set at `avl.cpp:1270`, is forgotten. Order and
number of items are not disturbed at once. With up to six items it does not
happen, which is why `Balanced` is an invariant of `avl`: what it shows there
is that insertions, single rotations and successors get the bits right.

Others were met while modelling and have no run of their own:

- *BST, an emptied tree.* "Insert node into next free slot in the ORAM"
  (`bst.cpp:289`): deleting the last item puts its location on the stack
  (`bst.cpp:691`), filling the tree again starts at location 1 all the same
  (`bst.cpp:281`), and the next insertion takes location 1 from the stack and
  overwrites the root. The same in the AVL tree (`avl.cpp:1621`, `avl.cpp:641`).
- *BST, equal keys.* "All keys to the right are strictly greater"
  (`bst.cpp:155`, checked by `check_bst`): a successor moved up leaves its
  equals on its right. `Sorted` is what holds. "Deletes the first node that
  matches del_key" (`bst.hpp:199`): with three equal keys one deletion can
  remove two nodes (`bst.cpp:554`), since a second match with two children is
  exchanged as well. With two copies none does.
- *BST, absent keys.* Deleting one is "an explicit (non-oblivious) failure"
  (`bst.cpp:677`), but with one item `del` succeeds for every key; the AVL tree
  compares the key there. Key 0 is found at the null node (`bst.cpp:487`).
- *BST lookup* does not return "the first node that matches key"
  (`bst.hpp:204`) but the deepest, as the comment at `bst.cpp:379` says and
  `Lookup` models.
- *AVL lookup* never fills `ret_node`: the coroutines that should capture
  `F_found` by value before it is computed (`avl.cpp:975-981`). What it returns,
  whether the key is there, is right.
- *HeapSampler.* "The HeapSampler is reset to its initial m=0 state"
  (`heapsampler.cpp:87`): `close` leaves `m`, so a second stream would extract
  from an empty heap. No caller has one, and the model has one stream.
- *RDPF.* `scaled_as` loops to `WIDTH` (`rdpf.hpp:192`) where `scaled_xs` loops to
  the nodes of a leaf; they differ for widths of 3 and more, which only
  `rdpf_test` uses (`online.cpp:249`). `__builtin_popcount` takes 32 bits of
  an index of 64 (`rdpf.tcc:96`, `rdpf.tcc:984`), which matters beyond depth 32.
- *Preprocessing* one type twice on a command line, without `-a`, opens its
  file twice and loses the first values.
- *Clocks.* "The Lamport clock at the end should be just the number of
  repetitions" (`online.cpp:171`) holds for one thread, or for threads that all
  start before one ends: `FinalClockBounds` allows up to the product with the
  number of threads, since a constructor starts from the master clock.
- *Cached extraction* from three items does not push the root's right child,
  `num_items > 3` (`heap.cpp:1064`), so that a complete tree of depth 2 yields
  one item too few.

## Not modelled

`PROJECT.json` names every part. Besides those that the plan says are left:

- cryptography (`prg.hpp`, `aes.hpp`): a source of any values, a constant
  function of nodes where the same node must yield the same children;
- share types and bit utilities (`types.hpp`, `bitutils.hpp`): their arithmetic
  is in the models, modulo a constant, where it is used;
- the cell example, benchmarks and option parsing: no state of interest;
- `FirstIter.cpp`, `SecondIter.cpp`, `ThirdIter.cpp`, `genRand.cpp`: programs of
  their own, not linked into `prac`;
- scripts, Docker files, data.

Within modelled parts: the bias of the sampler's coin; overflow of a memory
(`insert` never compares with the size; writing beyond is undefined, and the
models stop at the last cell); a Shape copied to a coroutine with an
`explicitmode` of its own; the reading of stored values on line; nonblocking
sends that fail: the code handles no such error.
