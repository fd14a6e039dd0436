-------------------------------- MODULE BST --------------------------------
(***************************************************************************)
(* The oblivious binary search tree (bst.cpp:222-753), at the level of the *)
(* values that the shares stand for: an array of nodes, a secret root, and *)
(* the stack of locations that deletions have emptied.                     *)
(*                                                                         *)
(* So that no party learns the shape of the tree, every operation walks    *)
(* num_items levels down, whatever it finds, and goes on through node 0,   *)
(* the null pointer, below the leaves; what happens at a level is decided  *)
(* by secret flags.  The recursive calls of an operation are functions of  *)
(* the level here: one for the way down, one for the way back.             *)
(***************************************************************************)
EXTENDS Naturals, Sequences, FiniteSets

CONSTANTS
    Keys,      \* the keys of the callers
    Values,    \* the values of the callers
    Size,      \* cells of the ORAM
    MaxCopies, \* bound: items with the same key
    MaxEmpty   \* bound: locations waiting to be reused

ASSUME KeysAssumption == Keys \subseteq Nat /\ Values \subseteq Nat
ASSUME SizeAssumption == Size \in Nat /\ Size >= 2
ASSUME BoundsAssumption == MaxCopies \in Nat /\ MaxEmpty \in Nat

VARIABLES
    A,               \* the nodes
    root,            \* the location of the root
    num_items,       \* items in the tree
    empty_locations, \* locations to reuse, the last one first
    items            \* history: how many live nodes hold each item

state == <<A, root, num_items, empty_locations>>
vars  == <<state, items>>

Loc  == 0 .. Size - 1
Node == [key : Keys \cup {0}, left : Loc, right : Loc, value : Values \cup {0}]

\* A node as callers pass it to insert (randomize_node resets its pointers).
NewNode(key, value) == [key |-> key, left |-> 0, right |-> 0, value |-> value]
ZeroNode == NewNode(0, 0)

Init ==
    /\ A = [p \in Loc |-> ZeroNode]
    /\ root = 0
    /\ num_items = 0
    /\ empty_locations = <<>>
    /\ items = [item \in Keys \X Values |-> 0]

\* The nodes of B that can be reached from p.
Subtree(B, p) ==
    LET Children(Q) == {B[q].left : q \in Q} \cup {B[q].right : q \in Q}
        within[n \in 0 .. Size] ==
            IF n = 0 THEN {p} \ {0}
            ELSE LET Q == within[n - 1] IN Q \cup (Children(Q) \ {0})
    IN  within[Size]

\* The nodes of the tree; the root of an emptied tree is none.
Live == IF num_items = 0 THEN {} ELSE Subtree(A, root)
Copies(key) == Cardinality({p \in Live : A[p].key = key})

\* The nodes that a search for key visits in B, level by level, with the node
\* below the last level at the end.
Search(B, key) ==
    LET visited[n \in 1 .. num_items + 1] ==
            IF n = 1 THEN <<root>>
            ELSE LET above == visited[n - 1]
                     node  == B[above[n - 1]]
                 IN  Append(above, IF key > node.key THEN node.right ELSE node.left)
    IN  visited[num_items + 1]

-----------------------------------------------------------------------------
(* insert.                                                                 *)

\* The first item of a tree becomes its root, at location 1.
InsertRoot(key, value) ==
    /\ num_items = 0
    /\ A' = [A EXCEPT ![1] = NewNode(key, value)]
    /\ root' = 1
    /\ num_items' = 1
    /\ UNCHANGED empty_locations

\* B with a link to the slot from the first node of the search whose next
\* node is 0 (wptr), on the side the search took.  Below it the search is a
\* dummy one.  A search that meets no such node within its num_items levels
\* ends with wptr at the next one and the direction left.
Link(B, key, slot) ==
    LET visited == Search(B, key)
        ends    == {n \in 1 .. num_items : visited[n + 1] = 0}
        last    == CHOOSE n \in ends : \A m \in ends : n <= m
    IN  IF ends = {} THEN [B EXCEPT ![visited[num_items + 1]].left = slot]
        ELSE IF key > B[visited[last]].key
             THEN [B EXCEPT ![visited[last]].right = slot]
             ELSE [B EXCEPT ![visited[last]].left = slot]

\* Put a node in the slot and link it.
InsertAt(slot, key, value) ==
    /\ slot \in Loc
    /\ A' = Link([A EXCEPT ![slot] = NewNode(key, value)], key, slot)
    /\ num_items' = num_items + 1
    /\ UNCHANGED root

\* A location that a deletion emptied is reused first.
InsertReused(key, value) ==
    /\ num_items > 0 /\ empty_locations # <<>>
    /\ InsertAt(empty_locations[Len(empty_locations)], key, value)
    /\ empty_locations' = SubSeq(empty_locations, 1, Len(empty_locations) - 1)

\* Otherwise the next one is used: 1 + num_items, the item included.
InsertFresh(key, value) ==
    /\ num_items > 0 /\ empty_locations = <<>>
    /\ InsertAt(1 + num_items + 1, key, value)
    /\ UNCHANGED empty_locations

Insert(key, value) ==
    /\ Copies(key) < MaxCopies
    /\ InsertRoot(key, value) \/ InsertReused(key, value) \/ InsertFresh(key, value)

-----------------------------------------------------------------------------
(* lookup.                                                                 *)

\* Faulty variant: the search ends one level early.
HitsShort(key) ==
    LET visited == Search(A, key)
    IN  {n \in 1 .. num_items - 1 : A[visited[n]].key = key}

\* The levels at which the search visits a node with the key.
Hits(key) ==
    LET visited == Search(A, key)
    IN  {n \in 1 .. num_items : A[visited[n]].key = key}

\* What lookup(key) returns: whether it found the key, and the value of the
\* last match.  It changes nothing.
Lookup(key) ==
    LET hits == Hits(key)
        last == CHOOSE n \in hits : \A m \in hits : m <= n
    IN  IF hits = {} THEN [found |-> FALSE, value |-> 0]
        ELSE [found |-> TRUE, value |-> A[Search(A, key)[last]].value]

-----------------------------------------------------------------------------
(* del.                                                                    *)

\* The flags at a level: the node visited, whether the key was found above
\* (af), whether its successor is looked for (fs), and what follows from them.
LevelGoing(key, ptr, af, fs, right) ==
    LET node == A[ptr]
        l0   == node.left = 0
        r0   == node.right = 0
        F_2  == ~ l0 /\ ~ r0
        lf   == node.key = key
        c    == CASE fs /\ l0        -> TRUE      \* case 4: the successor
                  [] fs /\ F_2       -> FALSE     \* case 3
                  [] lf /\ F_2       -> right     \* case 2: go and find it
                  [] lf /\ l0 # r0   -> l0        \* case 1: the lone child
                  [] OTHER           -> key > node.key
    IN  [ptr  |-> ptr,
         af   |-> af,
         lf   |-> lf,
         swap |-> lf /\ F_2,                      \* F_c2
         F_ns |-> fs /\ l0,                       \* F_c4
         F_nd |-> lf /\ ~ af,
         F_r  |-> (lf /\ ~ af /\ ~ F_2) \/ (fs /\ l0),
         c    |-> c,
         next |-> IF c THEN node.right ELSE node.left,
         fs   |-> (fs \/ (lf /\ F_2)) # (fs /\ l0)]

\* Faulty variant: the way to the successor starts to the left.
LevelAtLeft(key, ptr, af, fs) == LevelGoing(key, ptr, af, fs, FALSE)

LevelAt(key, ptr, af, fs) == LevelGoing(key, ptr, af, fs, TRUE)

\* The way down: the levels, the root's first.
Levels(key) ==
    LET down[n \in 1 .. num_items] ==
            IF n = 1 THEN <<LevelAt(key, root, FALSE, FALSE)>>
            ELSE LET levels == down[n - 1]
                     above  == levels[n - 1]
                 IN  Append(levels,
                            LevelAt(key, above.next, above.af \/ above.lf, above.fs))
    IN  down[num_items]

\* The way back: what the call at each level leaves in ret_struct, with the
\* call below the last level at the end.
Returned(levels) ==
    LET back[n \in 1 .. num_items + 1] ==
            IF n = num_items + 1
            THEN <<[F_ss |-> FALSE, N_d |-> 0, N_s |-> 0, F_r |-> TRUE, ret_ptr |-> 0]>>
            ELSE LET below == back[n + 1]
                     lv    == levels[n]
                     r     == below[1]
                 IN  <<[F_ss    |-> r.F_ss \/ lv.swap,
                        N_d     |-> IF lv.F_nd THEN lv.ptr ELSE r.N_d,
                        N_s     |-> IF lv.F_ns THEN lv.ptr ELSE r.N_s,
                        F_r     |-> lv.F_r,
                        ret_ptr |-> IF lv.F_r THEN r.ret_ptr ELSE lv.ptr]>> \o below
    IN  back[1]

\* On the way back each visited node takes the pointer its child returned, if
\* the child was spliced out (F_r).  The call nearest to the root writes last.
Spliced(levels, ret) ==
    [p \in Loc |->
        LET at == {n \in 1 .. num_items : levels[n].ptr = p}
            n  == CHOOSE n \in at : \A m \in at : n <= m
        IN  IF at = {} \/ ~ ret[n + 1].F_r THEN A[p]
            ELSE IF levels[n].c THEN [A[p] EXCEPT !.right = ret[n + 1].ret_ptr]
            ELSE [A[p] EXCEPT !.left = ret[n + 1].ret_ptr]]

\* The key was found: if the node to delete has two children (F_ss), the item
\* of its successor moves to it, and the successor's location is emptied.
DelFoundWith(B, r, moved) ==
    /\ A' = [p \in Loc |->
               IF p = r.N_s THEN [B[p] EXCEPT !.key = 0, !.value = 0]
               ELSE IF p = r.N_d /\ r.F_ss
                    THEN [B[p] EXCEPT !.key = moved.key, !.value = moved.value]
               ELSE B[p]]
    /\ root' = IF r.F_r THEN r.ret_ptr ELSE root
    /\ num_items' = num_items - 1
    /\ empty_locations' = Append(empty_locations, IF r.F_ss THEN r.N_s ELSE r.N_d)

\* Faulty variant: only the key of the successor moves.
DelFoundMovesKey(B, r) == DelFoundWith(B, r, [B[r.N_d] EXCEPT !.key = B[r.N_s].key])

DelFound(B, r) == DelFoundWith(B, r, B[r.N_s])

\* del finds the key: then it succeeds, otherwise it fails and changes nothing.
Finds(levels) == \E n \in 1 .. num_items : levels[n].lf

\* A deletion from a tree with more than one item.
DelItem(key) ==
    /\ num_items > 1
    /\ Len(empty_locations) < MaxEmpty
    /\ LET levels == Levels(key)
           ret    == Returned(levels)
       IN  /\ Finds(levels)
           /\ \E B \in {Spliced(levels, ret)} : DelFound(B, ret[1])

\* A deletion from a tree with one item succeeds, whatever the key.
DelRoot(key) ==
    /\ num_items = 1
    /\ Len(empty_locations) < MaxEmpty
    /\ A' = [A EXCEPT ![root] = ZeroNode]
    /\ empty_locations' = Append(empty_locations, root)
    /\ num_items' = 0
    /\ UNCHANGED root

-----------------------------------------------------------------------------
\* A deletion from an empty tree fails.
DelEmpty == num_items = 0 /\ UNCHANGED state

\* Callers that do not insert into a tree they have emptied: the location of
\* its last item would be both the new root's and one to reuse.
Step ==
    \/ /\ num_items > 0 \/ empty_locations = <<>>
       /\ \E key \in Keys, value \in Values : Insert(key, value)
    \/ \E key \in Keys : DelItem(key) \/ DelRoot(key)
    \/ DelEmpty

Counted ==
    \E live \in {Live'} :
        items' = [item \in Keys \X Values |->
                    Cardinality({p \in live : A'[p].key = item[1] /\ A'[p].value = item[2]})]

Next == Step /\ Counted

Spec == Init /\ [][Next]_vars

-----------------------------------------------------------------------------
(* Properties.                                                             *)

TypeOK ==
    /\ A \in [Loc -> Node]
    /\ root \in Loc
    /\ num_items \in 0 .. Size
    /\ empty_locations \in Seq(Loc)

\* The live nodes are a tree with num_items nodes: no node has two parents
\* and none is lost, although no party ever sees a pointer.
OneParentEach ==
    LET live == Live IN
    /\ Cardinality(live) = num_items
    /\ \A p \in live :
          /\ A[p].left # 0 => A[p].left # A[p].right
          /\ Cardinality({q \in live : p \in {A[q].left, A[q].right}})
               = IF p = root THEN 0 ELSE 1

\* A node is never put where another one is: a location to reuse is not in the
\* tree, is not there twice, and is a location that was used before.
EmptyIsFree ==
    LET live == Live IN
    \A i \in 1 .. Len(empty_locations) :
        /\ empty_locations[i] \notin live \cup {0}
        /\ empty_locations[i] <= num_items + Len(empty_locations) + 1
        /\ \A j \in 1 .. i - 1 : empty_locations[i] # empty_locations[j]

\* In-order, the keys do not decrease; lookup and del rely on it.
Sorted ==
    \A p \in Live :
        /\ \A q \in Subtree(A, A[p].left)  : A[q].key <= A[p].key
        /\ \A q \in Subtree(A, A[p].right) : A[q].key >= A[p].key

\* Node 0, through which every walk passes below a leaf, stays a leaf with
\* key 0, although deletions without a successor write to it (bst.cpp:733-745).
NullNode == A[0] = ZeroNode

\* Deletions leave one sorted tree, none of whose locations is handed out
\* again, and the node that dummy visits go through as it was.
SearchTree == TypeOK /\ OneParentEach /\ EmptyIsFree /\ Sorted /\ NullNode

\* The searches find what is in the tree and nothing else, within num_items
\* levels, although deletions have moved equal keys to either side: lookup
\* returns the value of an item with the key, and del finds one to delete.
FindsWhatIsThere ==
    \A key \in Keys :
        LET matches == {p \in Live : A[p].key = key}
            reply   == Lookup(key)
        IN  /\ reply.found = (matches # {})
            /\ reply.found => \E p \in matches : A[p].value = reply.value
            /\ num_items > 1 => Finds(Levels(key)) = (matches # {})

\* insert adds one item and del removes one, wherever it was in the tree
\* (bst.hpp:196-202).
Bag == INSTANCE KeyedBag WITH bag <- items

ImplementsBag == Bag!Spec

\* The view of a state that TLC tells states apart by: what cells off the tree
\* hold is never read again, since insert overwrites the whole of a reused one.
Contents == <<[p \in Live \cup {0} |-> A[p]], root, num_items, empty_locations>>
=============================================================================
