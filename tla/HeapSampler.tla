---------------------------- MODULE HeapSampler ----------------------------
(***************************************************************************)
(* The oblivious stream sampler (heapsampler.cpp:1-120): each element gets *)
(* a random tag in its high bits, a MinHeap orders them by it, and from    *)
(* the (k+1)st element on the minimum is extracted and either it or the    *)
(* new element is inserted, as a weighted coin falls.                      *)
(*                                                                         *)
(* The heap is here the bag it implements (PriorityQueue.tla).  The pairs  *)
(* of coroutines that the sampler runs together are steps of their own, in *)
(* either order.  Elements leave the sampler as shares that are masked     *)
(* each on its own, so the carry between them is modelled too.             *)
(***************************************************************************)
EXTENDS Naturals, Sequences, FiniteSets

CONSTANTS
    K,         \* items to sample
    Tags,      \* 1 << HEAPSAMPLE_TAG_BITS
    Elts,      \* 1 << HEAPSAMPLE_ELT_BITS
    MaxStream  \* bound: elements that any one sampler ingests

ASSUME ConstantsAssumption ==
    /\ K \in Nat \ {0} /\ MaxStream \in Nat
    /\ Tags \in Nat \ {0} /\ Elts \in Nat \ {0}

VARIABLES
    m,             \* items that have arrived
    heap,          \* what the heap holds
    randtag,       \* the next tag; history: draw tells one drawing from another
    elt_to_insert, \* ingest: the element tagged, then the one to insert
    extracted_elt, \* ingest: the minimum that was extracted, if any
    selection_bit, \* ingest: the coin
    pc,            \* where the sampler is
    todo,          \* its coroutines that have not ended
    ret,           \* close: the outputs so far
    stream         \* history: the elements ingested since the last close

ingesting == <<elt_to_insert, extracted_elt, selection_bit>>
vars == <<m, heap, randtag, ingesting, pc, todo, ret, stream>>

\* An item of the heap, with the position it had in the stream.
Item  == [pos : 1 .. MaxStream, draw : 0 .. MaxStream, tag : 0 .. Tags - 1, elt : 0 .. Elts - 1]
Value(item) == item.tag * Elts + item.elt
Word  == 2 * Tags * Elts  \* 64 bits: the top bit of a value is 0

\* extract_min takes a least item; equal ones cannot be told apart.
Minima(items) == {e \in items : \A f \in items : Value(e) <= Value(f)}

\* The sum of two shares of the value that are masked each on its own.
MaskedSum(value, share) ==
    (share % Elts) + (((value + Word - share) % Word) % Elts)

Init ==
    /\ m = 0
    /\ heap = {}
    /\ \E tag \in 0 .. Tags - 1 : randtag = [draw |-> 0, tag |-> tag]
    /\ elt_to_insert = {} /\ extracted_elt = {} /\ selection_bit = FALSE
    /\ pc = "idle"
    /\ todo = {}
    /\ ret = <<>>
    /\ stream = <<>>

-----------------------------------------------------------------------------
(* ingest.                                                                 *)

IngestWith(elt, full, then) ==
    /\ pc = "idle"
    /\ m < MaxStream
    /\ m' = m + 1
    /\ stream' = Append(stream, elt)
    /\ elt_to_insert' = {[pos |-> Len(stream'), draw |-> randtag.draw,
                          tag |-> randtag.tag, elt |-> elt]}
    /\ extracted_elt' = {}
    /\ pc' = IF full THEN "replace" ELSE "insert"
    /\ todo' = IF full THEN {"extract_min", "weighted_coin"} ELSE then
    /\ UNCHANGED <<heap, randtag, selection_bit, ret>>

\* Faulty variants: the heap counts as full with the kth element; the next tag
\* is only made once the heap is full.
IngestEarly(elt)    == IngestWith(elt, m + 1 >= K, {"insert", "make_randtag"})
IngestKeepsTag(elt) == IngestWith(elt, m + 1 > K, {"insert"})

\* An element has arrived.
Ingest(elt) == IngestWith(elt, m + 1 > K, {"insert", "make_randtag"})

Extract ==
    /\ pc = "replace" /\ "extract_min" \in todo
    /\ \E e \in Minima(heap) : extracted_elt' = {e} /\ heap' = heap \ {e}
    /\ todo' = todo \ {"extract_min"}
    /\ UNCHANGED <<m, randtag, elt_to_insert, selection_bit, pc, ret, stream>>

WeightedCoin ==
    /\ pc = "replace" /\ "weighted_coin" \in todo
    /\ selection_bit' \in BOOLEAN
    /\ todo' = todo \ {"weighted_coin"}
    /\ UNCHANGED <<m, heap, randtag, elt_to_insert, extracted_elt, pc, ret, stream>>

\* Both have ended: the coin tells which of the two is inserted.
Select ==
    /\ pc = "replace" /\ todo = {}
    /\ elt_to_insert' = IF selection_bit THEN elt_to_insert ELSE extracted_elt
    /\ pc' = "insert"
    /\ todo' = {"insert", "make_randtag"}
    /\ UNCHANGED <<m, heap, randtag, extracted_elt, selection_bit, ret, stream>>

Insert ==
    /\ pc = "insert" /\ "insert" \in todo
    /\ heap' = heap \cup elt_to_insert
    /\ todo' = todo \ {"insert"}
    /\ UNCHANGED <<m, randtag, ingesting, pc, ret, stream>>

MakeRandtag ==
    /\ pc = "insert" /\ "make_randtag" \in todo
    /\ \E tag \in 0 .. Tags - 1 : randtag' = [draw |-> m, tag |-> tag]
    /\ todo' = todo \ {"make_randtag"}
    /\ UNCHANGED <<m, heap, ingesting, pc, ret, stream>>

\* Both have ended, and ingest returns.
Ingested ==
    /\ pc = "insert" /\ todo = {}
    /\ pc' = "idle"
    /\ UNCHANGED <<m, heap, randtag, ingesting, todo, ret, stream>>

-----------------------------------------------------------------------------
(* close.                                                                  *)

Close ==
    /\ pc = "idle"
    /\ pc' = "close"
    /\ UNCHANGED <<m, heap, randtag, ingesting, todo, ret, stream>>

retsize == IF m < K THEN m ELSE K

\* The minimum is extracted and the tag masked off its shares.
CloseExtract ==
    /\ pc = "close" /\ Len(ret) < retsize
    /\ \E e \in Minima(heap), share \in 0 .. Word - 1 :
         /\ heap' = heap \ {e}
         /\ ret' = Append(ret, [item |-> e, out |-> MaskedSum(Value(e), share),
                                fixed |-> FALSE])
    /\ UNCHANGED <<m, randtag, ingesting, pc, todo, stream>>

\* A coroutine for each output takes the carry out of it, if there is one.
FixCarryIf(i, carry) ==
    /\ pc = "close" /\ Len(ret) = retsize /\ ~ ret[i].fixed
    /\ ret' = [ret EXCEPT ![i].fixed = TRUE,
                          ![i].out = IF carry THEN @ - Elts ELSE @]
    /\ UNCHANGED <<m, heap, randtag, ingesting, pc, todo, stream>>

\* Faulty variant: an output equal to the limit is taken to have no carry.
FixCarryGt(i) == FixCarryIf(i, ret[i].out > Elts)

FixCarry(i) == FixCarryIf(i, ret[i].out >= Elts)

\* All have ended: the heap is emptied and close returns.  m keeps its value.
Closed ==
    /\ pc = "close" /\ Len(ret) = retsize
    /\ \A i \in 1 .. retsize : ret[i].fixed
    /\ pc' = "closed"
    /\ heap' = {}
    /\ stream' = <<>>
    /\ UNCHANGED <<m, randtag, ingesting, todo, ret>>

-----------------------------------------------------------------------------
\* A caller with one stream, as heapsampler_test (heapsampler.cpp:146-153).
Next ==
    \/ \E elt \in 0 .. Elts - 1 : Ingest(elt)
    \/ Extract \/ WeightedCoin \/ Select \/ Insert \/ MakeRandtag \/ Ingested
    \/ Close \/ CloseExtract \/ Closed
    \/ \E i \in 1 .. Len(ret) : FixCarry(i)

Spec == Init /\ [][Next]_vars

-----------------------------------------------------------------------------
(* Properties.                                                             *)

TypeOK ==
    /\ m \in 0 .. MaxStream
    /\ heap \subseteq Item
    /\ randtag \in [draw : 0 .. MaxStream, tag : 0 .. Tags - 1]
    /\ elt_to_insert \subseteq Item /\ extracted_elt \subseteq Item
    /\ selection_bit \in BOOLEAN
    /\ pc \in {"idle", "replace", "insert", "close", "closed"}
    /\ todo \subseteq {"extract_min", "weighted_coin", "insert", "make_randtag"}
    /\ ret \in Seq([item : Item, out : 0 .. 2 * Elts - 1, fixed : BOOLEAN])
    /\ stream \in Seq(0 .. Elts - 1)

\* An element is in the sampler that is not yet in the sample.
Inserting == pc = "replace" \/ (pc = "insert" /\ "insert" \in todo)

\* The items that are in the sample, wherever they are held at the moment: the
\* item to insert is in it once it is inserted, the extracted one until then.
Taken ==
    heap \cup {ret[i].item : i \in 1 .. Len(ret)}
         \cup (IF Inserting THEN extracted_elt ELSE {})

\* No two elements of the sample got the tag of one drawing, though a tag is
\* drawn while the element before is being inserted: the order of the heap
\* says nothing about the order of the stream (heapsampler.cpp:61-84).
OneDrawEach ==
    \A e, f \in Taken : e.pos # f.pos => e.draw # f.draw

\* The whole state of the sampler keeps to one drawing for each element.
Inv == TypeOK /\ OneDrawEach

\* close returns the elements of the sample: no tag is left in them, and no
\* carry from the shares (heapsampler.cpp:89-120).
ReturnsTheElements ==
    pc = "closed" =>
        /\ Len(ret) = retsize
        /\ \A i \in 1 .. Len(ret) : ret[i].out = ret[i].item.elt

seenOf   == IF pc = "closed" THEN 0
            ELSE IF Inserting THEN Len(stream) - 1 ELSE Len(stream)
sampleOf == IF pc = "closed" THEN {} ELSE {e.pos : e \in Taken}

\* The sampler keeps a sample of its stream (heapsampler.hpp:9-24).
Sampled == INSTANCE Reservoir WITH seen <- seenOf, sample <- sampleOf

ImplementsReservoir == Sampled!Spec
=============================================================================
