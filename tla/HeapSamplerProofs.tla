------------------------- MODULE HeapSamplerProofs -------------------------
(***************************************************************************)
(* Proofs about HeapSampler.tla, for any size of the sample, any widths of *)
(* the tag and of the element, and streams of any length: every element    *)
(* has a tag of its own, close returns the elements, and what is sampled   *)
(* is what a reservoir of K positions holds.                               *)
(***************************************************************************)
EXTENDS HeapSampler, Integers, TLAPS

-----------------------------------------------------------------------------
(* Masking the shares of a value.                                          *)

LEMMA ModUnique ==
    ASSUME NEW e \in Nat, e > 0, NEW k \in Nat, NEW r \in Nat, r < e
    PROVE  (k * e + r) % e = r
OBVIOUS

LEMMA DivMod ==
    ASSUME NEW e \in Nat, e > 0, NEW n \in Nat
    PROVE  \E k, r \in Nat : n = k * e + r /\ r < e /\ n % e = r
<1>1. /\ n \div e \in Nat /\ n % e \in Nat /\ n % e < e
      /\ n = (n \div e) * e + (n % e)
  OBVIOUS
<1> QED BY <1>1

LEMMA Multiples ==
    ASSUME NEW a \in Nat, NEW b \in Nat, NEW e \in Nat
    PROVE  /\ (a + b) * e = a * e + b * e
           /\ a * e \in Nat
           /\ a < b => a * e + e <= b * e
           /\ a <= b => a * e <= b * e /\ (b - a) * e = b * e - a * e
<1>1. (a + b) * e = a * e + b * e /\ a * e \in Nat
  OBVIOUS
<1>2. ASSUME a < b PROVE a * e + e <= b * e
  <2>1. (a + 1) * e = a * e + e /\ (a + 1) * e <= b * e
    BY <1>2
  <2> QED BY <2>1
<1>3. ASSUME a <= b PROVE a * e <= b * e /\ (b - a) * e = b * e - a * e
  BY <1>3
<1> QED BY <1>1, <1>2, <1>3

\* The masked shares of a value add up to its element, with a carry or without.
LEMMA MaskedSumCarries ==
    ASSUME NEW tag \in 0 .. Tags - 1, NEW elt \in 0 .. Elts - 1,
           NEW share \in 0 .. Word - 1
    PROVE  MaskedSum(tag * Elts + elt, share) \in {elt, elt + Elts}
<1> DEFINE E == Elts
           w == 2 * Tags
           V == tag * E + elt
           y == (V + Word - share) % Word
<1>1. /\ E \in Nat /\ E > 0 /\ Tags \in Nat /\ Tags > 0
      /\ w \in Nat /\ w > 0 /\ tag \in Nat /\ tag < w
      /\ elt \in Nat /\ elt < E
  BY ConstantsAssumption
<1>2. Word = w * E /\ Word \in Nat /\ share \in Nat /\ share < Word
  BY <1>1 DEF Word
<1> HIDE DEF E, w
<1>3. PICK a \in Nat, s \in Nat : share = a * E + s /\ s < E /\ share % E = s
  BY <1>1, <1>2, DivMod
<1>4. V \in Nat /\ V < Word
  <2>1. tag * E + E <= w * E /\ tag * E \in Nat
    BY <1>1, Multiples
  <2> QED BY <1>1, <1>2, <2>1
<1>5. a < w
  <2>1. SUFFICES ASSUME w <= a PROVE FALSE
    BY <1>1, <1>3
  <2>2. w * E <= a * E /\ a * E \in Nat
    BY <1>1, <2>1, Multiples
  <2> QED BY <1>2, <1>3, <2>2
\* The other share, without the wrap-around.
<1>6. y \in Nat /\ (y = V - share \/ y = V + w * E - share)
  <2>1. CASE share <= V
    <3>1. V - share \in Nat /\ V - share < Word
      BY <1>2, <1>4, <2>1
    <3>2. V + Word - share = 1 * Word + (V - share)
      BY <1>2, <1>4, <3>1
    <3>3. y = V - share
      BY <1>1, <1>2, <3>1, <3>2, ModUnique
    <3> QED BY <3>1, <3>3
  <2>2. CASE share > V
    <3>1. V + Word - share \in Nat /\ V + Word - share < Word
      BY <1>2, <1>4, <2>2
    <3>2. V + Word - share = 0 * Word + (V + Word - share)
      BY <1>2, <1>4, <3>1
    <3> DEFINE r == V + Word - share
    <3>3. r % Word = r
      <4> HIDE DEF r
      <4>1. r \in Nat /\ r < Word /\ r = 0 * Word + r
        BY <3>1, <3>2 DEF r
      <4> QED BY <1>2, <4>1, ModUnique
    <3> QED BY <1>2, <3>1, <3>3
  <2> QED BY <1>2, <1>4, <2>1, <2>2
<1>7. y % E = IF elt >= s THEN elt - s ELSE elt + E - s
  <2> HIDE DEF V
  <2>0. V = tag * E + elt
    BY DEF V
  <2>1. PICK q \in Nat, r \in Nat : y = q * E + r /\ r < E /\ y % E = r
    BY <1>1, <1>6, DivMod
  <2> HIDE DEF y
  <2>2. \E z \in {0, w} : q * E + r = tag * E + elt + z * E - a * E - s
    <3>1. /\ 0 * E = 0 /\ a * E \in Nat /\ q * E \in Nat /\ tag * E \in Nat
          /\ w * E \in Nat
      BY <1>1
    <3> QED BY <1>1, <1>2, <1>3, <1>6, <2>0, <2>1, <3>1
  <2>3. PICK z \in {0, w} : q * E + r = tag * E + elt + z * E - a * E - s
    BY <2>2
  <2>4. /\ q + a \in Nat /\ tag + z \in Nat
        /\ (q + a) * E = q * E + a * E /\ (tag + z) * E = tag * E + z * E
        /\ q * E \in Nat /\ a * E \in Nat /\ tag * E \in Nat /\ z * E \in Nat
    BY <1>1, Multiples
  <2> DEFINE m1 == q + a
             m2 == tag + z
  <2>5. m1 * E + (r + s) = m2 * E + elt
    BY <1>1, <1>3, <2>3, <2>4
  <2> HIDE DEF m1, m2
  <2>6. m1 \in Nat /\ m2 \in Nat
    BY <2>4 DEF m1, m2
  <2>7. /\ m1 < m2 => m1 * E + E <= m2 * E
        /\ m2 < m1 => m2 * E + E <= m1 * E
        /\ m1 * E \in Nat /\ m2 * E \in Nat
    BY <1>1, <2>6, Multiples
  <2>8. r + s = elt \/ r + s = elt + E
    <3>1. CASE m1 = m2
      BY <1>1, <1>3, <2>1, <2>5, <2>7, <3>1
    <3>2. CASE m1 < m2
      <4>1. m2 <= m1 + 1
        <5>1. SUFFICES ASSUME m1 + 1 < m2 PROVE FALSE
          BY <2>6
        <5>2. (m1 + 1) * E + E <= m2 * E /\ (m1 + 1) * E = m1 * E + E
          BY <1>1, <2>6, <5>1, Multiples
        <5> QED BY <1>1, <1>3, <2>1, <2>5, <2>7, <5>2
      <4>2. m2 = m1 + 1
        BY <2>6, <3>2, <4>1
      <4>3. m2 * E = m1 * E + E
        BY <1>1, <2>6, <4>2
      <4> QED BY <1>1, <1>3, <2>1, <2>5, <2>7, <4>3
    <3>3. CASE m2 < m1
      BY <1>1, <1>3, <2>1, <2>5, <2>7, <3>3
    <3> QED BY <2>6, <3>1, <3>2, <3>3
  <2> QED BY <1>1, <1>3, <2>1, <2>8
<1>8. (share % E) + (y % E) \in {elt, elt + E}
  <2> DEFINE u == y % E
             t == share % E
  <2>1. t = s /\ u = IF elt >= s THEN elt - s ELSE elt + E - s
    BY <1>3, <1>7
  <2> HIDE DEF u, t, y
  <2>2. t + u \in {elt, elt + E}
    BY <1>1, <1>3, <2>1
  <2> QED BY <2>2 DEF u, t
<1> QED BY <1>8 DEF MaskedSum, E

-----------------------------------------------------------------------------
(* The inductive invariant.                                                *)

\* The set is the element that arrived last.
IsNew(items) == \E e \in Item : items = {e} /\ e.pos = m /\ e.draw + 1 = m

\* The set is an item that was taken from the heap.
IsExtracted(items) == \E e \in Item : items = {e} /\ e \notin heap

\* What ingest holds at each of its stages: one tag drawn per element, and the
\* element to insert is the new one or the one it takes the place of.
Stages ==
    /\ pc # "closed" => Len(stream) = m
    /\ pc \in {"replace", "insert"} => m >= 1
    /\ pc \in {"idle", "replace", "insert"} => ret = <<>>
    /\ randtag.draw = IF \/ pc = "replace"
                         \/ pc = "insert" /\ "make_randtag" \in todo
                      THEN m - 1 ELSE m
    /\ pc = "replace" =>
          /\ m > K /\ IsNew(elt_to_insert)
          /\ "extract_min" \in todo => extracted_elt = {}
          /\ "extract_min" \notin todo => IsExtracted(extracted_elt)
    /\ pc = "insert" /\ "insert" \in todo =>
          \/ m <= K /\ extracted_elt = {} /\ IsNew(elt_to_insert)
          \/ /\ m > K /\ IsExtracted(extracted_elt)
             /\ elt_to_insert = extracted_elt \/ IsNew(elt_to_insert)

\* The elements that were put in the sample, or dropped.
Done == IF Inserting THEN m - 1 ELSE m

\* The elements of the sample are different ones of the stream, each with the
\* tag drawn for it.
Positions ==
    /\ \A e \in Taken : e.draw + 1 = e.pos /\ e.pos <= Done
    /\ \A e, f \in Taken : e.pos = f.pos => e = f

\* An output is its element, or has a carry that is yet to be taken out.
Outputs ==
    /\ \A i \in 1 .. Len(ret) :
          \/ ret[i].out = ret[i].item.elt
          \/ ~ ret[i].fixed /\ ret[i].out = ret[i].item.elt + Elts
    /\ pc = "closed" => Len(ret) = retsize /\ \A i \in 1 .. Len(ret) : ret[i].fixed

SInv == TypeOK /\ Stages /\ Positions /\ Outputs

Output == [item : Item, out : 0 .. 2 * Elts - 1, fixed : BOOLEAN]

\* The items that were output.
Returned == {ret[i].item : i \in 1 .. Len(ret)}

LEMMA ConstantFacts ==
    /\ K \in Nat /\ K > 0 /\ MaxStream \in Nat
    /\ Tags \in Nat /\ Tags > 0 /\ Elts \in Nat /\ Elts > 0
BY ConstantsAssumption

LEMMA ItemFacts ==
    ASSUME NEW e \in Item
    PROVE  /\ e.pos \in Nat /\ e.draw \in Nat
           /\ e.tag \in 0 .. Tags - 1 /\ e.elt \in 0 .. Elts - 1
           /\ e.elt \in Nat /\ e.elt < Elts
BY ConstantFacts DEF Item

\* What the sample holds, at each stage.
LEMMA TakenIs ==
    Taken = heap \cup Returned \cup (IF Inserting THEN extracted_elt ELSE {})
BY DEF Taken, Returned

LEMMA TakenNextIs ==
    Taken' = heap' \cup Returned' \cup (IF Inserting' THEN extracted_elt' ELSE {})
BY DEF Taken, Returned, Inserting

LEMMA ReturnedItems ==
    ASSUME TypeOK
    PROVE  Returned \subseteq Item /\ Taken \subseteq Item
<1>1. ret \in Seq(Output)
  BY DEF TypeOK, Output
<1>2. \A i \in 1 .. Len(ret) : ret[i] \in Output
  BY <1>1
<1>3. Returned \subseteq Item
  BY <1>2 DEF Returned, Output
<1> QED BY <1>3, TakenIs DEF TypeOK

LEMMA SamplerInit == Init => SInv
<1> SUFFICES ASSUME Init PROVE SInv
  OBVIOUS
<1>1. TypeOK
  <2>1. ret \in Seq(Output) /\ stream \in Seq(0 .. Elts - 1)
    BY DEF Init
  <2>2. randtag \in [draw : 0 .. MaxStream, tag : 0 .. Tags - 1] /\ m \in 0 .. MaxStream
    BY ConstantFacts DEF Init
  <2> QED BY <2>1, <2>2 DEF Init, TypeOK, Output
<1>2. Taken = {} /\ Len(ret) = 0 /\ Len(stream) = 0
  BY DEF Init, Taken
<1>3. Stages
  BY <1>2 DEF Init, Stages
<1> QED BY <1>1, <1>2, <1>3 DEF Init, SInv, Positions, Outputs

\* A step that only lets elements leave the sample, or move within it.
LEMMA PositionsKept ==
    ASSUME Positions, Taken' \subseteq Taken, Taken \subseteq Item,
           Done \in Int, Done' \in Int, Done <= Done'
    PROVE  Positions'
<1>1. ASSUME NEW e \in Taken' PROVE e.draw + 1 = e.pos /\ e.pos <= Done'
  <2>1. e \in Taken /\ e.draw + 1 = e.pos /\ e.pos \in Nat /\ e.pos <= Done
    BY <1>1, ItemFacts DEF Positions
  <2> QED BY <2>1
<1>2. ASSUME NEW e \in Taken', NEW f \in Taken', e.pos = f.pos PROVE e = f
  BY <1>2 DEF Positions
<1> QED BY <1>1, <1>2 DEF Positions

LEMMA OutputsKept ==
    ASSUME Outputs, ret' = ret, pc' # "closed"
    PROVE  Outputs'
BY DEF Outputs

LEMMA SamplerTypes ==
    ASSUME SInv
    PROVE  /\ TypeOK /\ Stages /\ Positions /\ Outputs
           /\ m \in Nat /\ K \in Nat /\ MaxStream \in Nat /\ m <= MaxStream
           /\ Taken \subseteq Item /\ Returned \subseteq Item
           /\ stream \in Seq(0 .. Elts - 1) /\ Len(stream) \in Nat
           /\ ret \in Seq(Output) /\ Len(ret) \in Nat
           /\ \A i \in 1 .. Len(ret) : ret[i] \in Output
<1>1. TypeOK /\ Stages /\ Positions /\ Outputs
  BY DEF SInv
<1>2. m \in Nat /\ K \in Nat /\ MaxStream \in Nat /\ m <= MaxStream
  BY <1>1, ConstantFacts DEF TypeOK
<1>3. stream \in Seq(0 .. Elts - 1) /\ ret \in Seq(Output)
  BY <1>1 DEF TypeOK, Output
<1>4. Len(stream) \in Nat /\ Len(ret) \in Nat /\ \A i \in 1 .. Len(ret) : ret[i] \in Output
  BY <1>3
<1> QED BY <1>1, <1>2, <1>3, <1>4, ReturnedItems

LEMMA IngestKeeps ==
    ASSUME SInv, NEW elt \in 0 .. Elts - 1, Ingest(elt)
    PROVE  SInv' /\ Taken' = Taken /\ seenOf' = seenOf
<1>1. /\ pc = "idle" /\ m < MaxStream /\ m' = m + 1
      /\ stream' = Append(stream, elt)
      /\ elt_to_insert' = {[pos |-> Len(stream'), draw |-> randtag.draw,
                            tag |-> randtag.tag, elt |-> elt]}
      /\ extracted_elt' = {}
      /\ pc' = IF m + 1 > K THEN "replace" ELSE "insert"
      /\ todo' = IF m + 1 > K THEN {"extract_min", "weighted_coin"}
                 ELSE {"insert", "make_randtag"}
      /\ heap' = heap /\ randtag' = randtag
      /\ selection_bit' = selection_bit /\ ret' = ret
  BY DEF Ingest, IngestWith
<1>2. /\ TypeOK /\ Stages /\ Positions /\ Outputs
      /\ m \in Nat /\ K \in Nat /\ MaxStream \in Nat
      /\ Taken \subseteq Item
      /\ stream \in Seq(0 .. Elts - 1) /\ Len(stream) \in Nat
  BY SamplerTypes
<1>3. /\ Len(stream) = m /\ randtag.draw = m /\ ret' = <<>>
      /\ ~ Inserting /\ Inserting'
  BY <1>1, <1>2 DEF Stages, Inserting
<1>4. Len(stream') = m + 1 /\ stream' \in Seq(0 .. Elts - 1)
  BY <1>1, <1>2, <1>3
<1>5. Taken' = Taken
  <2>1. Returned' = Returned
    BY <1>1 DEF Returned
  <2> QED BY <1>1, <1>3, <2>1, TakenIs, TakenNextIs
<1> DEFINE e == [pos |-> m + 1, draw |-> m, tag |-> randtag.tag, elt |-> elt]
<1>6. elt_to_insert' = {e}
  BY <1>1, <1>3, <1>4
<1>7. e \in Item
  BY <1>1, <1>2 DEF TypeOK, Item
<1>8. IsNew(elt_to_insert)'
  <2>1. e.pos = m' /\ e.draw + 1 = m'
    BY <1>1
  <2> HIDE DEF e
  <2> QED BY <1>6, <1>7, <2>1 DEF IsNew
<1> HIDE DEF e
<1>9. TypeOK'
  <2>1. m' \in 0 .. MaxStream
    BY <1>1, <1>2
  <2> QED BY <1>1, <1>2, <1>4, <1>6, <1>7, <2>1 DEF TypeOK
<1>10. Stages'
  <2>1. m' >= 1 /\ m' - 1 = m
    BY <1>1, <1>2
  <2>2. CASE m + 1 > K
    BY <1>1, <1>3, <1>4, <1>8, <2>1, <2>2 DEF Stages
  <2>3. CASE ~ (m + 1 > K)
    <3>1. m' <= K
      BY <1>1, <1>2, <2>3
    <3> QED BY <1>1, <1>3, <1>4, <1>8, <2>1, <2>3, <3>1 DEF Stages
  <2> QED BY <2>2, <2>3
<1>11. Positions'
  <2>1. Done = m /\ Done' = m
    BY <1>1, <1>2, <1>3 DEF Done
  <2>2. Done \in Int /\ Done' \in Int /\ Done <= Done' /\ Taken' \subseteq Taken
    BY <1>2, <1>5, <2>1
  <2> QED BY <1>2, <2>2, PositionsKept
<1>12. Outputs' /\ pc' # "closed"
  BY <1>1, <1>2, OutputsKept
<1>13. seenOf' = seenOf
  BY <1>1, <1>2, <1>3, <1>4, <1>12 DEF seenOf
<1> QED BY <1>5, <1>9, <1>10, <1>11, <1>12, <1>13 DEF SInv

\* The extracted item stays in the sample until the insertion.
LEMMA ExtractKeeps ==
    ASSUME SInv, Extract
    PROVE  SInv' /\ Taken' = Taken /\ seenOf' = seenOf
<1>1. PICK e \in Minima(heap) : extracted_elt' = {e} /\ heap' = heap \ {e}
  BY DEF Extract
<1>2. /\ pc = "replace" /\ "extract_min" \in todo /\ pc' = pc
      /\ todo' = todo \ {"extract_min"}
      /\ UNCHANGED <<m, randtag, elt_to_insert, selection_bit, pc, ret, stream>>
  BY DEF Extract
<1>3. /\ TypeOK /\ Stages /\ Positions /\ Outputs
      /\ m \in Nat /\ Taken \subseteq Item
  BY SamplerTypes
<1>4. e \in heap /\ e \in Item
  BY <1>3 DEF Minima, TypeOK
<1>5. extracted_elt = {} /\ Inserting /\ Inserting'
  BY <1>2, <1>3 DEF Stages, Inserting
<1>6. Taken' = Taken
  <2>1. Returned' = Returned
    BY <1>2 DEF Returned
  <2>2. Taken = heap \cup Returned
    BY <1>5, TakenIs
  <2>3. Taken' = (heap \ {e}) \cup Returned \cup {e}
    BY <1>1, <1>5, <2>1, TakenNextIs
  <2> QED BY <1>4, <2>2, <2>3
<1>7. TypeOK'
  BY <1>1, <1>2, <1>3, <1>4 DEF TypeOK
<1>8. Stages'
  <2>1. IsExtracted(extracted_elt)'
    BY <1>1, <1>4 DEF IsExtracted
  <2>2. IsNew(elt_to_insert)'
    BY <1>2, <1>3 DEF Stages, IsNew
  <2> QED BY <1>2, <1>3, <2>1, <2>2 DEF Stages
<1>9. Positions'
  <2>1. Done = m - 1 /\ Done' = m - 1
    BY <1>2, <1>5 DEF Done
  <2>2. Done \in Int /\ Done' \in Int /\ Done <= Done' /\ Taken' \subseteq Taken
    BY <1>3, <1>6, <2>1
  <2> QED BY <1>3, <2>2, PositionsKept
<1>10. Outputs'
  BY <1>2, <1>3, OutputsKept
<1>11. seenOf' = seenOf
  BY <1>2, <1>5 DEF seenOf
<1> QED BY <1>6, <1>7, <1>8, <1>9, <1>10, <1>11 DEF SInv

\* The steps between: neither the sample nor the stream changes.
LEMMA BetweenKeeps ==
    ASSUME SInv, WeightedCoin \/ Select \/ MakeRandtag \/ Ingested \/ Close
    PROVE  SInv' /\ Taken' = Taken /\ seenOf' = seenOf
<1>1. /\ TypeOK /\ Stages /\ Positions /\ Outputs
      /\ m \in Nat /\ MaxStream \in Nat /\ m <= MaxStream
      /\ Taken \subseteq Item
  BY SamplerTypes
<1>2. /\ UNCHANGED <<m, heap, extracted_elt, ret, stream>>
      /\ pc # "closed" /\ pc' # "closed"
  BY DEF WeightedCoin, Select, MakeRandtag, Ingested, Close, ingesting
<1>3. Inserting' <=> Inserting
  BY DEF WeightedCoin, Select, MakeRandtag, Ingested, Close, Inserting
<1>4. Taken' = Taken
  <2>1. Returned' = Returned
    BY <1>2 DEF Returned
  <2> QED BY <1>2, <1>3, <2>1, TakenIs, TakenNextIs
<1>5. TypeOK'
  <2>1. CASE WeightedCoin
    BY <1>1, <2>1 DEF WeightedCoin, TypeOK
  <2>2. CASE Select
    BY <1>1, <2>2 DEF Select, TypeOK
  <2>3. CASE MakeRandtag
    <3>1. PICK tag \in 0 .. Tags - 1 : randtag' = [draw |-> m, tag |-> tag]
      BY <2>3 DEF MakeRandtag
    <3>2. randtag' \in [draw : 0 .. MaxStream, tag : 0 .. Tags - 1]
      BY <1>1, <3>1
    <3> QED BY <1>1, <2>3, <3>2 DEF MakeRandtag, TypeOK, ingesting
  <2>4. CASE Ingested \/ Close
    BY <1>1, <2>4 DEF Ingested, Close, TypeOK, ingesting
  <2> QED BY <2>1, <2>2, <2>3, <2>4
<1>6. Stages'
  <2>1. IsExtracted(extracted_elt) => IsExtracted(extracted_elt)'
    BY <1>2 DEF IsExtracted
  <2>2. elt_to_insert' = elt_to_insert /\ IsNew(elt_to_insert) => IsNew(elt_to_insert)'
    BY <1>2 DEF IsNew
  <2>3. CASE WeightedCoin
    BY <1>1, <2>1, <2>2, <2>3 DEF WeightedCoin, Stages
  <2>4. CASE Select
    <3>1. \/ elt_to_insert' = extracted_elt'
          \/ IsNew(elt_to_insert)'
      BY <1>1, <2>2, <2>4 DEF Select, Stages
    <3>2. /\ pc = "replace" /\ pc' = "insert" /\ todo = {}
          /\ todo' = {"insert", "make_randtag"}
          /\ randtag' = randtag
      BY <2>4 DEF Select
    <3>3. m > K /\ IsExtracted(extracted_elt)'
      BY <1>1, <2>1, <3>2 DEF Stages
    <3> QED BY <1>1, <1>2, <3>1, <3>2, <3>3 DEF Stages
  <2>5. CASE MakeRandtag
    <3>1. /\ randtag'.draw = m /\ pc = "insert" /\ pc' = "insert"
          /\ "make_randtag" \notin todo'
          /\ "insert" \in todo' <=> "insert" \in todo
          /\ elt_to_insert' = elt_to_insert
      BY <2>5 DEF MakeRandtag, ingesting
    <3> QED BY <1>1, <1>2, <2>1, <2>2, <3>1 DEF Stages
  <2>6. CASE Ingested \/ Close
    BY <1>1, <2>6 DEF Ingested, Close, Stages, ingesting
  <2> QED BY <2>3, <2>4, <2>5, <2>6
<1>7. Positions'
  <2>1. Done' = Done /\ Done \in Int
    BY <1>1, <1>2, <1>3 DEF Done
  <2>2. Done \in Int /\ Done' \in Int /\ Done <= Done' /\ Taken' \subseteq Taken
    BY <1>4, <2>1
  <2> QED BY <1>1, <2>2, PositionsKept
<1>8. Outputs'
  BY <1>1, <1>2, OutputsKept
<1>9. seenOf' = seenOf
  BY <1>2, <1>3 DEF seenOf
<1> QED BY <1>4, <1>5, <1>6, <1>7, <1>8, <1>9 DEF SInv

\* What the insertion makes of the sample: the new element is added, or takes
\* the place of the extracted one, or that one is back in the heap.
LEMMA InsertTakes ==
    ASSUME SInv, Insert
    PROVE  /\ Inserting /\ ~ Inserting' /\ m >= 1 /\ Len(stream) = m
           /\ \/ /\ m <= K
                 /\ \E e \in Item : /\ Taken' = Taken \cup {e}
                                    /\ e.pos = m /\ e.draw + 1 = m
              \/ m > K /\ Taken' = Taken
              \/ /\ m > K
                 /\ \E e \in Item, x \in Taken :
                       /\ Taken' = (Taken \ {x}) \cup {e}
                       /\ e.pos = m /\ e.draw + 1 = m
<1>1. /\ TypeOK /\ Stages /\ Positions /\ Outputs /\ m \in Nat /\ K \in Nat
  BY SamplerTypes
<1>2. /\ pc = "insert" /\ "insert" \in todo /\ pc' = pc
      /\ heap' = heap \cup elt_to_insert
      /\ todo' = todo \ {"insert"}
      /\ UNCHANGED <<m, randtag, ingesting, pc, ret, stream>>
  BY DEF Insert
<1>3. Inserting /\ ~ Inserting' /\ m >= 1 /\ Len(stream) = m
  BY <1>1, <1>2 DEF Inserting, Stages
<1>4. /\ Taken = heap \cup Returned \cup extracted_elt
      /\ Taken' = heap \cup elt_to_insert \cup Returned
  <2>1. Returned' = Returned
    BY <1>2 DEF Returned
  <2> QED BY <1>2, <1>3, <2>1, TakenIs, TakenNextIs
<1>5. CASE m <= K /\ extracted_elt = {} /\ IsNew(elt_to_insert)
  <2>1. PICK e \in Item : elt_to_insert = {e} /\ e.pos = m /\ e.draw + 1 = m
    BY <1>5 DEF IsNew
  <2>2. Taken' = Taken \cup {e}
    BY <1>4, <1>5, <2>1
  <2> QED BY <1>3, <1>5, <2>1, <2>2
<1>6. CASE m > K /\ IsExtracted(extracted_elt) /\ elt_to_insert = extracted_elt
  <2>1. Taken' = Taken
    BY <1>4, <1>6
  <2> QED BY <1>3, <1>6, <2>1
<1>7. CASE m > K /\ IsExtracted(extracted_elt) /\ IsNew(elt_to_insert)
  <2>1. PICK e \in Item : elt_to_insert = {e} /\ e.pos = m /\ e.draw + 1 = m
    BY <1>7 DEF IsNew
  <2>2. PICK x \in Item : extracted_elt = {x} /\ x \notin heap
    BY <1>7 DEF IsExtracted
  <2>3. x \in Taken
    BY <1>4, <2>2
  <2>4. x \notin Returned
    BY <1>1, <1>2 DEF Stages, Returned
  <2>5. Taken' = (Taken \ {x}) \cup {e}
    BY <1>4, <2>1, <2>2, <2>4
  <2> QED BY <1>3, <1>7, <2>1, <2>3, <2>5
<1> QED BY <1>1, <1>2, <1>5, <1>6, <1>7 DEF Stages

LEMMA InsertKeeps ==
    ASSUME SInv, Insert
    PROVE  SInv'
<1>1. /\ TypeOK /\ Stages /\ Positions /\ Outputs
      /\ m \in Nat /\ K \in Nat /\ Taken \subseteq Item
  BY SamplerTypes
<1>2. /\ pc = "insert" /\ "insert" \in todo /\ pc' = pc
      /\ heap' = heap \cup elt_to_insert
      /\ todo' = todo \ {"insert"}
      /\ UNCHANGED <<m, randtag, ingesting, pc, ret, stream>>
  BY DEF Insert
<1>3. /\ Inserting /\ ~ Inserting' /\ m >= 1
      /\ \/ \E e \in Item : Taken' = Taken \cup {e} /\ e.pos = m /\ e.draw + 1 = m
         \/ Taken' = Taken
         \/ \E e \in Item, x \in Taken :
               Taken' = (Taken \ {x}) \cup {e} /\ e.pos = m /\ e.draw + 1 = m
  BY InsertTakes
<1>4. TypeOK'
  BY <1>1, <1>2 DEF TypeOK, ingesting
<1>5. Stages'
  BY <1>1, <1>2 DEF Stages, ingesting
<1>6. Outputs'
  BY <1>1, <1>2, OutputsKept
<1>7. /\ \A e \in Taken : e.draw + 1 = e.pos /\ e.pos <= m - 1 /\ e.pos \in Nat
      /\ \A e, f \in Taken : e.pos = f.pos => e = f
      /\ Done' = m
  BY <1>1, <1>2, <1>3, ItemFacts DEF Positions, Done
\* The new element comes after all of the others.
<1>8. ASSUME NEW T, T \subseteq Taken, NEW e \in Item,
             Taken' = T \cup {e}, e.pos = m, e.draw + 1 = m
      PROVE  Positions'
  <2>1. \A f \in T : f.pos # e.pos
    BY <1>1, <1>7, <1>8
  <2>2. ASSUME NEW f \in Taken' PROVE f.draw + 1 = f.pos /\ f.pos <= m
    <3>1. CASE f \in T
      BY <1>1, <1>7, <1>8, <3>1
    <3>2. CASE f = e
      BY <1>1, <1>8, <3>2
    <3> QED BY <1>8, <3>1, <3>2
  <2>3. ASSUME NEW f \in Taken', NEW g \in Taken', f.pos = g.pos PROVE f = g
    BY <1>7, <1>8, <2>1, <2>3
  <2> QED BY <1>7, <2>2, <2>3 DEF Positions
<1>9. Positions'
  <2>1. CASE Taken' = Taken
    <3>1. Done = m - 1
      BY <1>3 DEF Done
    <3> QED BY <1>1, <1>7, <2>1, <3>1, PositionsKept
  <2>2. ASSUME NEW e \in Item, Taken' = Taken \cup {e}, e.pos = m, e.draw + 1 = m
        PROVE  Positions'
    BY <1>8, <2>2
  <2>3. ASSUME NEW e \in Item, NEW x \in Taken,
               Taken' = (Taken \ {x}) \cup {e}, e.pos = m, e.draw + 1 = m
        PROVE  Positions'
    BY <1>8, <2>3
  <2> QED BY <1>3, <2>1, <2>2, <2>3
<1> QED BY <1>4, <1>5, <1>6, <1>9 DEF SInv

\* close takes the items out of the heap; the sample stays.
LEMMA CloseExtractKeeps ==
    ASSUME SInv, CloseExtract
    PROVE  SInv' /\ Taken' = Taken /\ seenOf' = seenOf
<1>1. /\ TypeOK /\ Stages /\ Positions /\ Outputs
      /\ m \in Nat /\ Taken \subseteq Item
      /\ ret \in Seq(Output) /\ Len(ret) \in Nat
      /\ \A i \in 1 .. Len(ret) : ret[i] \in Output
  BY SamplerTypes
<1>2. PICK e \in Minima(heap), share \in 0 .. Word - 1 :
        /\ heap' = heap \ {e}
        /\ ret' = Append(ret, [item |-> e, out |-> MaskedSum(Value(e), share),
                               fixed |-> FALSE])
  BY DEF CloseExtract
<1>3. pc = "close" /\ UNCHANGED <<m, randtag, ingesting, pc, todo, stream>>
  BY DEF CloseExtract
<1>4. e \in heap /\ e \in Item
  BY <1>1 DEF Minima, TypeOK
<1> DEFINE new == [item |-> e, out |-> MaskedSum(Value(e), share), fixed |-> FALSE]
<1>5. new.out = e.elt \/ new.out = e.elt + Elts
  BY <1>4, ItemFacts, MaskedSumCarries DEF Value
<1>6. new \in Output
  <2>1. e.elt \in Nat /\ e.elt < Elts /\ Elts \in Nat
    BY <1>4, ItemFacts, ConstantFacts
  <2>2. MaskedSum(Value(e), share) \in 0 .. 2 * Elts - 1
    BY <1>5, <2>1
  <2> QED BY <1>4, <2>2 DEF Output
<1>7. new.item = e
  OBVIOUS
<1>8. ret' = Append(ret, new)
  BY <1>2
<1> HIDE DEF new
<1>9. /\ Len(ret') = Len(ret) + 1 /\ ret' \in Seq(Output)
      /\ \A i \in 1 .. Len(ret) : ret'[i] = ret[i]
      /\ ret'[Len(ret) + 1] = new
  BY <1>1, <1>6, <1>8
<1>10. Returned' = Returned \cup {e}
  <2>1. 1 .. Len(ret') = (1 .. Len(ret)) \cup {Len(ret) + 1}
    BY <1>1, <1>9
  <2> QED BY <1>7, <1>9, <2>1 DEF Returned
<1>11. ~ Inserting /\ ~ Inserting'
  BY <1>3 DEF Inserting
<1>12. Taken' = Taken
  BY <1>2, <1>4, <1>10, <1>11, TakenIs, TakenNextIs
<1>13. TypeOK'
  BY <1>1, <1>2, <1>3, <1>9 DEF TypeOK, Output, ingesting
<1>14. Stages'
  BY <1>1, <1>3 DEF Stages, ingesting
<1>15. Positions'
  <2>1. Done = m /\ Done' = m
    BY <1>3, <1>11 DEF Done
  <2> QED BY <1>1, <1>12, <2>1, PositionsKept
<1>16. Outputs'
  <2>1. ASSUME NEW i \in 1 .. Len(ret')
        PROVE  \/ ret'[i].out = ret'[i].item.elt
               \/ ~ ret'[i].fixed /\ ret'[i].out = ret'[i].item.elt + Elts
    <3>1. CASE i \in 1 .. Len(ret)
      BY <1>1, <1>9, <3>1 DEF Outputs
    <3>2. CASE i = Len(ret) + 1
      <4>1. ~ new.fixed
        BY DEF new
      <4> QED BY <1>5, <1>7, <1>9, <3>2, <4>1
    <3> QED BY <1>1, <1>9, <3>1, <3>2
  <2> QED BY <1>3, <2>1 DEF Outputs
<1>17. seenOf' = seenOf
  BY <1>3, <1>11 DEF seenOf
<1> QED BY <1>12, <1>13, <1>14, <1>15, <1>16, <1>17 DEF SInv

\* A carry that is there is taken out, and none that is not.
LEMMA FixCarryKeeps ==
    ASSUME SInv, NEW i \in 1 .. Len(ret), FixCarry(i)
    PROVE  SInv' /\ Taken' = Taken /\ seenOf' = seenOf
<1>1. /\ TypeOK /\ Stages /\ Positions /\ Outputs
      /\ m \in Nat /\ Taken \subseteq Item
      /\ ret \in Seq(Output) /\ Len(ret) \in Nat
      /\ \A j \in 1 .. Len(ret) : ret[j] \in Output
  BY SamplerTypes
<1> DEFINE out == IF ret[i].out >= Elts THEN ret[i].out - Elts ELSE ret[i].out
           new == [ret[i] EXCEPT !.fixed = TRUE, !.out = out]
<1>2. /\ pc = "close" /\ UNCHANGED <<m, heap, randtag, ingesting, pc, todo, stream>>
      /\ ret' = [ret EXCEPT ![i] = new]
  BY <1>1 DEF FixCarry, FixCarryIf
<1>3. /\ ret[i] \in Output /\ ret[i].item \in Item
      /\ ret[i].out \in Nat /\ Elts \in Nat /\ Elts > 0
  BY <1>1, ConstantFacts DEF Output
<1>4. ret[i].item.elt \in Nat /\ ret[i].item.elt < Elts
  BY <1>3, ItemFacts
<1>5. out = ret[i].item.elt
  <2>1. ret[i].out = ret[i].item.elt \/ ret[i].out = ret[i].item.elt + Elts
    BY <1>1 DEF Outputs
  <2> QED BY <1>3, <1>4, <2>1
<1>6. new.item = ret[i].item /\ new.fixed = TRUE /\ new.out = out
  BY <1>3 DEF Output
<1>7. new \in Output
  <2>1. out \in 0 .. 2 * Elts - 1
    BY <1>3, <1>4, <1>5
  <2> HIDE DEF out
  <2> QED BY <1>3, <2>1 DEF Output
<1> HIDE DEF out, new
<1>8. /\ Len(ret') = Len(ret) /\ ret' \in Seq(Output)
      /\ \A j \in 1 .. Len(ret) : ret'[j] = IF j = i THEN new ELSE ret[j]
  BY <1>1, <1>2, <1>7
<1>9. Returned' = Returned
  BY <1>6, <1>8 DEF Returned
<1>10. ~ Inserting /\ ~ Inserting'
  BY <1>2 DEF Inserting
<1>11. Taken' = Taken
  BY <1>2, <1>9, <1>10, TakenIs, TakenNextIs
<1>12. TypeOK'
  BY <1>1, <1>2, <1>8 DEF TypeOK, Output, ingesting
<1>13. Stages'
  BY <1>1, <1>2 DEF Stages, ingesting
<1>14. Positions'
  <2>1. Done = m /\ Done' = m
    BY <1>2, <1>10 DEF Done
  <2> QED BY <1>1, <1>11, <2>1, PositionsKept
<1>15. Outputs'
  <2>1. ASSUME NEW j \in 1 .. Len(ret')
        PROVE  \/ ret'[j].out = ret'[j].item.elt
               \/ ~ ret'[j].fixed /\ ret'[j].out = ret'[j].item.elt + Elts
    <3>1. CASE j = i
      BY <1>5, <1>6, <1>8, <3>1
    <3>2. CASE j # i
      BY <1>1, <1>8, <3>2 DEF Outputs
    <3> QED BY <3>1, <3>2
  <2> QED BY <1>2, <2>1 DEF Outputs
<1>16. seenOf' = seenOf
  BY <1>2, <1>10 DEF seenOf
<1> QED BY <1>11, <1>12, <1>13, <1>14, <1>15, <1>16 DEF SInv

LEMMA ClosedKeeps ==
    ASSUME SInv, Closed
    PROVE  SInv' /\ seenOf' = 0 /\ sampleOf' = {}
<1>1. /\ TypeOK /\ Stages /\ Positions /\ Outputs
      /\ m \in Nat /\ K \in Nat /\ Taken \subseteq Item
  BY SamplerTypes
<1>2. /\ pc = "close" /\ pc' = "closed" /\ Len(ret) = retsize
      /\ \A i \in 1 .. retsize : ret[i].fixed
      /\ heap' = {} /\ stream' = <<>>
      /\ UNCHANGED <<m, randtag, ingesting, todo, ret>>
  BY DEF Closed
<1>3. TypeOK'
  <2>1. stream' \in Seq(0 .. Elts - 1)
    BY <1>2
  <2> QED BY <1>1, <1>2, <2>1 DEF TypeOK, ingesting
<1>4. Stages'
  BY <1>1, <1>2 DEF Stages, ingesting
<1>5. Positions'
  <2>1. ~ Inserting /\ ~ Inserting' /\ Returned' = Returned
    BY <1>2 DEF Inserting, Returned
  <2>2. Taken' \subseteq Taken
    BY <1>2, <2>1, TakenIs, TakenNextIs
  <2>3. Done = m /\ Done' = m
    BY <1>2, <2>1 DEF Done
  <2> QED BY <1>1, <2>2, <2>3, PositionsKept
<1>6. Outputs'
  BY <1>1, <1>2 DEF Outputs, retsize
<1>7. seenOf' = 0 /\ sampleOf' = {}
  BY <1>2 DEF seenOf, sampleOf
<1> QED BY <1>3, <1>4, <1>5, <1>6, <1>7 DEF SInv

-----------------------------------------------------------------------------
(* The theorems.                                                           *)

LEMMA SamplerNext ==
    ASSUME SInv, [Next]_vars
    PROVE  SInv'
<1>1. CASE UNCHANGED vars
  BY <1>1
  DEF vars, ingesting, SInv, TypeOK, Stages, IsNew, IsExtracted, Positions, Outputs,
      Done, Inserting, Taken, retsize
<1>2. CASE Next
  <2>1. ASSUME NEW elt \in 0 .. Elts - 1, Ingest(elt) PROVE SInv'
    BY <2>1, IngestKeeps
  <2>2. ASSUME NEW i \in 1 .. Len(ret), FixCarry(i) PROVE SInv'
    BY <2>2, FixCarryKeeps
  <2> QED
    BY <1>2, <2>1, <2>2, ExtractKeeps, BetweenKeeps, InsertKeeps, CloseExtractKeeps,
       ClosedKeeps DEF Next
<1> QED BY <1>1, <1>2

THEOREM SamplerInvariance == Spec => []SInv
<1> QED BY SamplerInit, SamplerNext, PTL DEF Spec

\* Each element of the sample has the tag of one drawing, for any stream and
\* any interleaving of the paired coroutines (heapsampler.cpp:61-84).
THEOREM OneDrawForEach == Spec => []Inv
<1>1. SInv => Inv
  <2> SUFFICES ASSUME SInv, NEW e \in Taken, NEW f \in Taken, e.pos # f.pos
               PROVE  e.draw # f.draw
    BY DEF SInv, Inv, OneDrawEach
  <2>1. e.draw + 1 = e.pos /\ f.draw + 1 = f.pos
    BY DEF SInv, Positions
  <2> QED BY <2>1
<1> QED BY <1>1, SamplerInvariance, PTL

\* close returns the elements without tags and without carries, for any widths
\* and any shares (heapsampler.cpp:89-120).
THEOREM ElementsReturned == Spec => []ReturnsTheElements
<1>1. SInv => ReturnsTheElements
  BY DEF SInv, Outputs, ReturnsTheElements
<1> QED BY <1>1, SamplerInvariance, PTL

LEMMA SamplerInitRefines == Init => Sampled!Init
<1>1. Init => seenOf = 0 /\ sampleOf = {}
  BY DEF Init, seenOf, sampleOf, Inserting, Taken
<1> QED BY <1>1 DEF Sampled!Init

\* The insertion is a step of the reservoir.
LEMMA InsertRefinesReservoir ==
    ASSUME SInv, Insert
    PROVE  Sampled!Keep \/ Sampled!Replace \/ Sampled!Drop
<1>1. /\ m \in Nat /\ K \in Nat
  BY SamplerTypes
<1>2. /\ Inserting /\ ~ Inserting' /\ m >= 1 /\ Len(stream) = m
      /\ \/ /\ m <= K
            /\ \E e \in Item : /\ Taken' = Taken \cup {e}
                               /\ e.pos = m /\ e.draw + 1 = m
         \/ m > K /\ Taken' = Taken
         \/ /\ m > K
            /\ \E e \in Item, x \in Taken :
                  /\ Taken' = (Taken \ {x}) \cup {e}
                  /\ e.pos = m /\ e.draw + 1 = m
  BY InsertTakes
<1>3. pc = "insert" /\ pc' = "insert" /\ stream' = stream
  BY DEF Insert
<1>4. /\ seenOf = m - 1 /\ seenOf' = m
      /\ sampleOf = {e.pos : e \in Taken}
      /\ sampleOf' = {e.pos : e \in Taken'}
  BY <1>2, <1>3 DEF seenOf, sampleOf
<1>5. seenOf' = seenOf + 1
  BY <1>1, <1>4
<1>6. ASSUME m <= K, NEW e \in Item, Taken' = Taken \cup {e}, e.pos = m
      PROVE  Sampled!Keep
  <2>1. sampleOf' = sampleOf \cup {seenOf'}
    BY <1>4, <1>6
  <2>2. seenOf < K
    BY <1>1, <1>4, <1>6
  <2> QED BY <1>5, <2>1, <2>2 DEF Sampled!Keep
<1>7. CASE m > K /\ Taken' = Taken
  <2>1. sampleOf' = sampleOf /\ seenOf >= K
    BY <1>1, <1>4, <1>7
  <2> QED BY <1>5, <2>1 DEF Sampled!Drop
<1>8. ASSUME m > K, NEW e \in Item, NEW x \in Taken,
             Taken' = (Taken \ {x}) \cup {e}, e.pos = m
      PROVE  Sampled!Replace
  <2>1. \A f \in Taken : f.pos = x.pos => f = x
    BY DEF SInv, Positions
  <2>2. {f.pos : f \in Taken \ {x}} = sampleOf \ {x.pos}
    BY <1>4, <2>1
  <2>3. sampleOf' = (sampleOf \ {x.pos}) \cup {seenOf'}
    BY <1>4, <1>8, <2>2
  <2>4. x.pos \in sampleOf /\ seenOf >= K
    BY <1>1, <1>4, <1>8
  <2> QED BY <1>5, <2>3, <2>4 DEF Sampled!Replace
<1> QED BY <1>2, <1>6, <1>7, <1>8

LEMMA SamplerNextRefines ==
    ASSUME SInv, [Next]_vars
    PROVE  [Sampled!Next]_<<seenOf, sampleOf>>
<1>1. CASE UNCHANGED vars
  BY <1>1 DEF vars, ingesting, seenOf, sampleOf, Inserting, Taken
<1>2. CASE Insert
  BY <1>2, InsertRefinesReservoir DEF Sampled!Next
<1>3. CASE Closed
  BY <1>3, ClosedKeeps DEF Sampled!Next, Sampled!Close
<1>4. CASE \/ \E elt \in 0 .. Elts - 1 : Ingest(elt)
           \/ Extract \/ WeightedCoin \/ Select \/ MakeRandtag \/ Ingested
           \/ Close \/ CloseExtract
           \/ \E i \in 1 .. Len(ret) : FixCarry(i)
  <2>1. Taken' = Taken /\ seenOf' = seenOf
    BY <1>4, IngestKeeps, ExtractKeeps, BetweenKeeps, CloseExtractKeeps, FixCarryKeeps
  <2>2. pc # "closed" /\ pc' # "closed"
    BY <1>4
    DEF Ingest, IngestWith, Extract, WeightedCoin, Select, MakeRandtag, Ingested,
        Close, CloseExtract, FixCarry, FixCarryIf
  <2> QED BY <2>1, <2>2 DEF sampleOf
<1> QED BY <1>1, <1>2, <1>3, <1>4 DEF Next

\* The sampler implements a reservoir of K positions (heapsampler.hpp:9-24), for
\* any K and any stream.
THEOREM SamplerIsReservoir == Spec => ImplementsReservoir
<1>1. Init => Sampled!Init
  BY SamplerInitRefines
<1>2. SInv /\ [Next]_vars => [Sampled!Next]_<<seenOf, sampleOf>>
  BY SamplerNextRefines
<1> QED
  BY <1>1, <1>2, SamplerInvariance, PTL DEF Spec, ImplementsReservoir, Sampled!Spec

=============================================================================
