-------------------------------- MODULE AVL --------------------------------
(***************************************************************************)
(* The oblivious AVL tree (avl.cpp:211-1783), at the level of the values   *)
(* that the shares stand for, as in BST: an array of nodes, a secret root, *)
(* the stack of locations that deletions have emptied.  A node has balance *)
(* bits besides: bal[d] says that the subtree on side d is the higher one. *)
(*                                                                         *)
(* Every operation walks AVL_TTL(num_items) levels down, through node 0    *)
(* below a leaf, and back.  Whether a level inserts, deletes or rotates is *)
(* a secret flag; an operation that has nothing to do does it at node 0.   *)
(* The two sides of a node are the Booleans: TRUE is right.                *)
(***************************************************************************)
EXTENDS Naturals, Sequences, FiniteSets

CONSTANTS
    Keys,      \* the keys of the callers
    Values,    \* the values of the callers
    Depths,    \* depths of the trees to start with, 0 for an empty one
    MaxItems,  \* bound: items a caller inserts up to
    MaxCopies  \* bound: items with the same key

ASSUME KeysAssumption == Keys \subseteq Nat \ {0} /\ Values \subseteq Nat
ASSUME DepthsAssumption == Depths \subseteq Nat
ASSUME BoundsAssumption == MaxItems \in Nat /\ MaxCopies \in Nat

VARIABLES
    A,               \* the nodes
    root,            \* the location of the root
    num_items,       \* items in the tree
    cur_max_index,   \* the last location used
    empty_locations, \* locations to reuse, the last one to be reused first
    items            \* history: how many live nodes hold each item

vars == <<A, root, num_items, cur_max_index, empty_locations, items>>

\* The items of a complete tree of the given depth.
Complete(depth) == 2 ^ depth - 1

Size == 1 + MaxItems + Complete(CHOOSE d \in Depths : \A e \in Depths : e <= d)
Loc  == 0 .. Size - 1

Neither == [d \in BOOLEAN |-> FALSE]
Node == [key : Keys \cup {0}, value : Values \cup {0},
         ptr : [BOOLEAN -> Loc], bal : [BOOLEAN -> BOOLEAN]]

\* A node as callers pass it to insert (randomize_node resets its pointers).
NewNode(key, value) ==
    [key |-> key, value |-> value, ptr |-> [d \in BOOLEAN |-> 0], bal |-> Neither]
ZeroNode == NewNode(0, 0)

\* The nodes of B that can be reached from p in at most n levels.
Within(B, p, n) ==
    LET within[k \in 0 .. n] ==
            IF k = 0 THEN {p} \ {0}
            ELSE LET Q == within[k - 1]
                 IN  Q \cup ({B[q].ptr[d] : q \in Q, d \in BOOLEAN} \ {0})
    IN  within[n]

Subtree(B, p) == Within(B, p, Size)
Live          == Subtree(A, root)
Copies(key)   == Cardinality({p \in Live : A[p].key = key})

\* initialize(depth): the complete tree of the locations below 2^depth, each
\* with itself as key.  A node's children are 2^(i-2) away, at level i from
\* the leaves: the largest power of two that divides it is 2^(i-1).
Initialize(depth) ==
    LET below == 1 .. Complete(depth)
        gap   == [p \in below |->
                    CHOOSE g \in {2 ^ i : i \in 0 .. depth} :
                        p % g = 0 /\ p % (2 * g) # 0]
    IN  /\ A = [p \in Loc |->
                  IF p \notin below THEN ZeroNode
                  ELSE [NewNode(p, 0) EXCEPT !.ptr =
                          [d \in BOOLEAN |->
                             IF gap[p] = 1 THEN 0
                             ELSE IF d THEN p + gap[p] \div 2 ELSE p - gap[p] \div 2]]]
        /\ root = IF depth = 0 THEN 0 ELSE 2 ^ (depth - 1)
        /\ num_items = Complete(depth)
        /\ cur_max_index = Complete(depth)

Init ==
    /\ \E depth \in Depths : Initialize(depth)
    /\ empty_locations = <<>>
    /\ items = [item \in Keys \X Values |->
                  Cardinality({p \in 1 .. num_items : A[p].key = item[1]
                                                   /\ A[p].value = item[2]})]

\* Most items for which ceil(1.44 * log2(n)) levels are walked: 1, 2, 3, ...
TTLUpTo(reach, n) == Cardinality({0} \cup {t \in DOMAIN reach : reach[t] < n})

\* Faulty variant: the product is truncated.
AVL_TTL_floor(n) == IF n = 0 THEN 0 ELSE TTLUpTo(<<2, 4, 6, 11, 17, 29>>, n)

AVL_TTL(n) == IF n = 0 THEN 0 ELSE TTLUpTo(<<1, 2, 4, 6, 11, 17, 29>>, n)

-----------------------------------------------------------------------------
(* Rotations and balance bits.                                             *)

\* rotate: p's child c, on side dir_pc, takes p's place below gp, on side
\* dir_gpp, unless F_gp says that there is no gp.
Rotate(gp, p_ptr, p, c_ptr, c, dir_gpp, dir_pc, isReal, F_gp) ==
    IF ~ isReal THEN [gp |-> gp, p |-> p, c |-> c]
    ELSE [gp |-> IF F_gp THEN gp ELSE [gp EXCEPT !.ptr[dir_gpp] = c_ptr],
          p  |-> [p EXCEPT !.ptr[dir_pc] = c.ptr[~ dir_pc]],
          c  |-> [c EXCEPT !.ptr[~ dir_pc] = p_ptr]]

\* The bits (left, balanced, right) shifted towards d: what leaves at that
\* end is the imbalance, and 0 enters at the other.
Shift(bal, d) ==
    [bal       |-> [e \in BOOLEAN |-> e = d /\ bal[TRUE] = bal[FALSE]],
     balanced  |-> bal[~ d],
     imbalance |-> bal[d]]

\* updateBalanceIns: the subtree on side d is one level higher, if bal_upd.
UpdateBalanceIns(bal, bal_upd, d) ==
    LET s == Shift(bal, d)
    IN  IF bal_upd
        THEN [bal |-> s.bal, bal_upd |-> ~ s.balanced /\ ~ s.imbalance, imb |-> s.imbalance]
        ELSE [bal |-> bal, bal_upd |-> FALSE, imb |-> FALSE]

\* updateBalanceDel: it is one level lower.
UpdateBalanceDel(bal, bal_upd, d) ==
    LET s == Shift(bal, ~ d)
    IN  IF bal_upd
        THEN [bal |-> s.bal, bal_upd |-> s.bal[TRUE] = s.bal[FALSE], imb |-> s.imbalance]
        ELSE [bal |-> bal, bal_upd |-> FALSE, imb |-> FALSE]

-----------------------------------------------------------------------------
(* insert.                                                                 *)

\* The nodes that a search for key visits, one more than it compares with.
Search(B, key, levels) ==
    LET visited[n \in 1 .. levels + 1] ==
            IF n = 1 THEN <<root>>
            ELSE LET above == visited[n - 1]
                     node  == B[above[n - 1]]
                 IN  Append(above, node.ptr[key > node.key])
    IN  visited[levels + 1]

\* The recursive insert: the way back.  At the first level whose next node is
\* 0 the new node is linked (F_i); where a balance overflows, that node, its
\* child and its parent are noted for the rebalancing that follows.
InsertBelow(B, key, slot) ==
    LET TTL     == AVL_TTL(num_items + 1)
        visited == Search(B, key, TTL)
        ends    == {n \in 1 .. TTL : visited[n + 1] = 0}
        back[n \in 1 .. TTL + 1] ==
            IF n = TTL + 1
            THEN [B |-> B, bal_upd |-> FALSE, F_gp |-> FALSE, ptr |-> 0, gt |-> FALSE,
                  imbalance |-> FALSE, gp |-> 0, p |-> 0, c |-> 0,
                  dir_gpp |-> FALSE, dir_pc |-> FALSE, dir_cn |-> FALSE]
            ELSE LET below == back[n + 1]
                     ptr   == visited[n]
                     node  == B[ptr]
                     gt    == key > node.key
                     F_i   == n \in ends /\ \A m \in ends : n <= m
                     b     == UpdateBalanceIns(node.bal, below.bal_upd \/ F_i, gt)
                 IN  [B         |-> [below.B EXCEPT ![ptr] =
                                       [node EXCEPT !.bal = b.bal,
                                           !.ptr[gt] = IF F_i THEN slot ELSE @]],
                      bal_upd   |-> b.bal_upd,
                      F_gp      |-> b.imb,
                      ptr       |-> ptr,
                      gt        |-> gt,
                      imbalance |-> below.imbalance # b.imb,
                      gp        |-> IF below.F_gp THEN ptr ELSE below.gp,
                      dir_gpp   |-> IF below.F_gp THEN gt ELSE below.dir_gpp,
                      p         |-> IF b.imb THEN ptr ELSE below.p,
                      dir_pc    |-> IF b.imb THEN gt ELSE below.dir_pc,
                      c         |-> IF b.imb THEN below.ptr ELSE below.c,
                      dir_cn    |-> IF b.imb THEN below.gt ELSE below.dir_cn]
    IN  back[1]

\* The rotations: c and its child n if they lie on different sides (double),
\* then p and c, or n.  Without an imbalance all of them are node 0.
Rotations(r) ==
    LET n      == r.B[r.c].ptr[r.dir_cn]
        double == r.imbalance /\ r.dir_pc # r.dir_cn
        top    == IF double THEN n ELSE r.c
        one    == Rotate(r.B[r.p], r.c, r.B[r.c], n, r.B[n], r.dir_pc, r.dir_cn, double, FALSE)
        two    == Rotate(r.B[r.gp], r.p, one.gp, top, IF double THEN one.c ELSE one.p,
                         r.dir_gpp, r.dir_pc, r.imbalance, r.F_gp)
    IN  [n |-> n, double |-> double, top |-> top,
         gp |-> two.gp, p |-> two.p,
         child |-> IF double THEN one.p ELSE two.c,
         next  |-> IF double THEN two.c ELSE one.c]

\* The balance bits of what was rotated.  After a double rotation around an n
\* with children, p and c take over its bits; the code complements them (flip).
RebalancedWith(r, flip) ==
    LET t      == Rotations(r)
        N      == r.B[t.n]
        parent == t.double /\ (N.ptr[TRUE] # 0 \/ N.ptr[FALSE] # 0)  \* n_has_children
    IN  [B    |-> [r.B EXCEPT
                     ![r.c]  = [t.child EXCEPT !.bal =
                                  [d \in BOOLEAN |->
                                     IF d = r.dir_pc THEN parent /\ N.bal[d] # flip
                                     ELSE t.child.bal[d] /\ ~ r.imbalance]],
                     ![r.p]  = [t.p EXCEPT !.bal[~ r.dir_pc] =
                                  IF parent THEN N.bal[~ r.dir_pc] # flip ELSE @],
                     ![r.gp] = t.gp,
                     ![t.n]  = [t.next EXCEPT !.bal = IF t.double THEN Neither ELSE @]],
         root |-> IF r.F_gp THEN t.top ELSE root]

\* Faulty variant: the bits of n are taken over as they are.
RebalancedSame(r) == RebalancedWith(r, FALSE)

Rebalanced(r) == RebalancedWith(r, TRUE)

\* The first item of a tree becomes its root, at location 1.
InsertRoot(key, value) ==
    /\ num_items = 0
    /\ A' = [A EXCEPT ![0] = ZeroNode, ![1] = NewNode(key, value)]
    /\ root' = 1
    /\ num_items' = 1
    /\ cur_max_index' = cur_max_index + 1
    /\ UNCHANGED empty_locations

InsertAt(slot, key, value) ==
    /\ num_items > 0
    /\ LET B == [A EXCEPT ![slot] = NewNode(key, value)]
       IN  \E r \in {Rebalanced(InsertBelow(B, key, slot))} : A' = r.B /\ root' = r.root
    /\ num_items' = num_items + 1

InsertReused(key, value) ==
    /\ empty_locations # <<>>
    /\ InsertAt(empty_locations[Len(empty_locations)], key, value)
    /\ empty_locations' = SubSeq(empty_locations, 1, Len(empty_locations) - 1)
    /\ UNCHANGED cur_max_index

InsertFresh(key, value) ==
    /\ empty_locations = <<>>
    /\ InsertAt(num_items + 1, key, value)
    /\ cur_max_index' = cur_max_index + 1
    /\ UNCHANGED empty_locations

Insert(key, value) ==
    /\ num_items < MaxItems /\ Copies(key) < MaxCopies
    /\ InsertRoot(key, value) \/ InsertReused(key, value) \/ InsertFresh(key, value)

-----------------------------------------------------------------------------
(* lookup.                                                                 *)

\* What lookup(key, &ret_node) returns: whether it found the key, and what
\* ret_node holds, the caller's zero node before.  The coroutines that are to
\* copy the matching node into it hold F_found by value, as it was when they
\* were made: before mpc_and computed it.
Lookup(key) ==
    LET visited  == Search(A, key, num_items)
        hits     == {n \in 1 .. num_items : A[visited[n]].key = key}
        captured == FALSE
        last     == CHOOSE n \in hits : \A m \in hits : m <= n
    IN  [found    |-> hits # {},
         ret_node |-> IF captured /\ hits # {} THEN A[visited[last]] ELSE ZeroNode]

-----------------------------------------------------------------------------
(* del.                                                                    *)

\* The flags at a level, whether the key was found above (found) and whether
\* its successor is looked for (fs), and the side the walk goes on to (c_prime).
LevelGoing(key, ptr, found, fs, right) ==
    LET node    == A[ptr]
        l0      == node.ptr[FALSE] = 0
        r0      == node.ptr[TRUE] = 0
        F_2     == ~ l0 /\ ~ r0
        eq      == node.key = key
        c_prime == CASE fs /\ l0       -> TRUE      \* case 4: the successor
                     [] fs /\ F_2      -> FALSE     \* case 3
                     [] eq /\ F_2      -> right     \* case 2: go and find it
                     [] eq /\ l0 # r0  -> l0        \* case 1: the lone child
                     [] OTHER          -> key > node.key
    IN  [ptr     |-> ptr,
         found   |-> found \/ eq,
         swap    |-> eq /\ F_2,
         F_dh    |-> ~ found /\ eq,
         F_sf    |-> fs /\ l0,
         F_rs    |-> (~ found /\ eq /\ ~ F_2) \/ (fs /\ l0),
         c_prime |-> c_prime,
         fs      |-> (fs \/ (eq /\ F_2)) # (fs /\ l0)]

\* Faulty variant: the way to the successor starts to the left.
LevelAtLeft(key, ptr, found, fs) == LevelGoing(key, ptr, found, fs, FALSE)

LevelAt(key, ptr, found, fs) == LevelGoing(key, ptr, found, fs, TRUE)

\* The way down.
Levels(key) ==
    LET down[n \in 1 .. AVL_TTL(num_items)] ==
            IF n = 1 THEN <<LevelAt(key, root, FALSE, FALSE)>>
            ELSE LET levels == down[n - 1]
                     above  == levels[n - 1]
                 IN  Append(levels, LevelAt(key, A[above.ptr].ptr[above.c_prime],
                                            above.found, above.fs))
    IN  down[AVL_TTL(num_items)]

Finds(levels) == \E n \in DOMAIN levels : levels[n].found

\* The rotations of fixImbalance at p, the node at ptr, whose child on side d has
\* become too low: its other child cs goes up, or cs's child gcs on side d if
\* that is cs's higher one (double).
RotationsDel(B, ptr, p, d, cs) ==
    LET C      == B[cs]
        double == C.bal[d]
        gcs    == IF double THEN C.ptr[d] ELSE C.ptr[~ d]
        top    == IF double THEN gcs ELSE cs
        one    == Rotate(p, cs, C, gcs, B[gcs], ~ d, d, double, FALSE)
        two    == Rotate(ZeroNode, ptr, one.gp, top, IF double THEN one.c ELSE one.p,
                         FALSE, ~ d, TRUE, TRUE)
    IN  [gcs |-> gcs, double |-> double, top |-> top, p |-> two.p,
         child |-> IF double THEN one.p ELSE two.c,
         grandchild |-> IF double THEN two.c ELSE one.c]

\* fixImbalance: p, with the new balance bits and bal_upd in b, is written to
\* ptr; if the balance overflowed, it and what was rotated get their bits.
FixImbalance(B, ptr, p, b, d, cs) ==
    LET t    == RotationsDel(B, ptr, p, d, cs)
        even == B[cs].bal[TRUE] = B[cs].bal[FALSE]
    IN  IF ~ b.imb
        THEN [B |-> [B EXCEPT ![ptr] = [p EXCEPT !.bal = b.bal]],
              bal_upd |-> b.bal_upd, ret_ptr |-> 0]
        ELSE [B |-> [B EXCEPT
                       ![cs]    = [t.child EXCEPT !.bal =
                                     [e \in BOOLEAN |->
                                        IF e = d THEN even
                                        ELSE t.double /\ B[t.gcs].bal[d]]],
                       ![t.gcs] = [t.grandchild EXCEPT !.bal[d] = @ /\ ~ t.double],
                       ![ptr]   = [t.p EXCEPT !.bal =
                                     [b.bal EXCEPT ![~ d] = @ \/ even]]],
              bal_upd |-> b.bal_upd /\ ~ even, ret_ptr |-> t.top]

\* updateChildPointers: take over the child that the level below returned.
UpdateChildPointers(node, d, below) ==
    [node EXCEPT !.ptr[d] = IF below.F_r THEN below.ret_ptr ELSE @]

\* updateRetStruct: return the subtree's new root or, where a node is spliced
\* out (F_rs), its lone child, and whether the subtree has become lower.
UpdateRetStruct(lv, b, f, below) ==
    [B       |-> f.B,
     bal_upd |-> f.bal_upd \/ lv.F_rs,
     F_r     |-> lv.F_rs \/ b.imb,
     ret_ptr |-> IF b.imb THEN f.ret_ptr
                 ELSE IF lv.F_rs THEN below.ret_ptr ELSE lv.ptr]

\* The way back.
DelBelow(levels) ==
    LET TTL == Len(levels)
        back[n \in 1 .. TTL + 1] ==
            IF n = TTL + 1
            THEN [B |-> A, bal_upd |-> FALSE, F_r |-> FALSE, ret_ptr |-> 0]
            ELSE LET below == back[n + 1]
                     lv    == levels[n]
                     node  == A[lv.ptr]
                     d     == lv.c_prime
                     b     == UpdateBalanceDel(node.bal, below.bal_upd, d)
                     f     == FixImbalance(below.B, lv.ptr,
                                           UpdateChildPointers(node, d, below),
                                           b, d, node.ptr[~ d])
                 IN  UpdateRetStruct(lv, b, f, below)
    IN  back[1]

\* What ret_struct has of the way down: the node to delete, its successor, and
\* whether the successor's item is to move to it (F_ss).
Target(levels) ==
    LET at(S) == IF S = {} THEN 0 ELSE levels[CHOOSE n \in S : \A m \in S : m <= n].ptr
    IN  [N_d  |-> at({n \in DOMAIN levels : levels[n].F_dh}),
         N_s  |-> at({n \in DOMAIN levels : levels[n].F_sf}),
         F_ss |-> \E n \in DOMAIN levels : levels[n].swap]

DelFoundWith(r, t, moved) ==
    /\ A' = [p \in Loc |->
               IF p = t.N_s THEN [r.B[p] EXCEPT !.key = 0, !.value = 0]
               ELSE IF p = t.N_d /\ t.F_ss
                    THEN [r.B[p] EXCEPT !.key = moved.key, !.value = moved.value]
               ELSE r.B[p]]
    /\ root' = IF r.F_r THEN r.ret_ptr ELSE root
    /\ num_items' = num_items - 1
    /\ empty_locations' = Append(empty_locations, IF t.F_ss THEN t.N_s ELSE t.N_d)
    /\ UNCHANGED cur_max_index

\* Faulty variant: only the key of the successor moves.
DelFoundMovesKey(r, t) == DelFoundWith(r, t, [r.B[t.N_d] EXCEPT !.key = r.B[t.N_s].key])

DelFound(r, t) == DelFoundWith(r, t, r.B[t.N_s])

DelItem(key) ==
    /\ num_items > 1
    /\ LET levels == Levels(key)
       IN  /\ Finds(levels)
           /\ \E r \in {DelBelow(levels)} : DelFound(r, Target(levels))

\* With one item del compares its key and, if it is equal, empties the tree.
DelRoot(key) ==
    /\ num_items = 1
    /\ A[root].key = key
    /\ A' = [A EXCEPT ![root] = ZeroNode]
    /\ empty_locations' = Append(empty_locations, root)
    /\ num_items' = 0
    /\ UNCHANGED <<root, cur_max_index>>

-----------------------------------------------------------------------------
\* The nodes reachable from root; none once the last item was deleted.
NowLive == IF num_items' = 0 THEN {} ELSE Subtree(A', root')

Counted ==
    \E live \in {NowLive} :
        items' = [item \in Keys \X Values |->
                    Cardinality({p \in live : A'[p].key = item[1] /\ A'[p].value = item[2]})]

\* Callers that do not use a tree again once they have emptied it: location 1
\* is then both the next root's and on the stack, as in BST.
Next ==
    \/ /\ num_items = 0 => empty_locations = <<>>
       /\ \E key \in Keys, value \in Values : Insert(key, value)
       /\ Counted
    \/ \E key \in Keys : (DelItem(key) \/ DelRoot(key)) /\ Counted

Spec == Init /\ [][Next]_vars

-----------------------------------------------------------------------------
(* Properties.                                                             *)

TypeOK ==
    /\ A \in [Loc -> Node]
    /\ root \in Loc
    /\ cur_max_index \in 0 .. Size - 1
    /\ num_items \in 0 .. cur_max_index
    /\ empty_locations \in Seq(Loc)

\* The live nodes are a tree with num_items nodes, whatever was rotated: no
\* node has two parents and none is lost.
OneParentEach ==
    num_items > 0 =>
    LET live == Live IN
    /\ Cardinality(live) = num_items
    /\ \A p \in live :
          /\ A[p].ptr[FALSE] # 0 => A[p].ptr[FALSE] # A[p].ptr[TRUE]
          /\ Cardinality({q \in live : \E d \in BOOLEAN : A[q].ptr[d] = p})
               = IF p = root THEN 0 ELSE 1

\* A location to reuse is in the memory that operations are given, is not in
\* the tree and is not on the stack twice; neither is the next fresh one.
EmptyIsFree ==
    LET live == IF num_items = 0 THEN {} ELSE Live IN
    /\ \A i \in 1 .. Len(empty_locations) :
          /\ empty_locations[i] \in (1 .. cur_max_index) \ live
          /\ \A j \in 1 .. i - 1 : empty_locations[i] # empty_locations[j]
    /\ live \subseteq 1 .. cur_max_index
    /\ empty_locations = <<>> => num_items + 1 \notin live

\* In-order, the keys do not decrease (check_avl, avl.cpp:160-166).
Sorted ==
    \A p \in Live :
        /\ \A q \in Subtree(A, A[p].ptr[FALSE]) : A[q].key <= A[p].key
        /\ \A q \in Subtree(A, A[p].ptr[TRUE])  : A[q].key >= A[p].key

\* Node 0, at which operations do what they have not to do, stays a leaf with
\* key 0 and no balance bits.
NullNode == A[0] = ZeroNode

\* Rotations and deletions leave one sorted tree, none of whose locations is
\* handed out again, and the node that dummy visits go through as it was.
SearchTree == TypeOK /\ OneParentEach /\ EmptyIsFree /\ Sorted /\ NullNode

\* The levels of the subtree of p.
Height(p) ==
    IF p = 0 THEN 0
    ELSE CHOOSE h \in 1 .. Size :
            Within(A, p, h - 1) = Subtree(A, p)
            /\ (h > 1 => Within(A, p, h - 2) # Subtree(A, p))

\* "difference in height between sibling subtrees <= 1" and "the balance bits
\* of each node are correct" (avl.cpp:109-110).
Balanced ==
    \A p \in Live :
        LET l == Height(A[p].ptr[FALSE])
            r == Height(A[p].ptr[TRUE])
        IN  /\ l <= r + 1 /\ r <= l + 1
            /\ A[p].bal[FALSE] = (l > r)
            /\ A[p].bal[TRUE]  = (l < r)

\* del finds a key within its AVL_TTL(num_items) levels iff it is there, and
\* lookup within its num_items, although deletions and rotations have moved
\* equal keys to either side.
FindsWhatIsThere ==
    num_items > 0 =>
    \A key \in Keys :
        /\ Lookup(key).found = (Copies(key) > 0)
        /\ Finds(Levels(key)) = (Copies(key) > 0)

\* insert adds one item and del removes one, wherever rotations have put it.
Bag == INSTANCE KeyedBag WITH bag <- items

ImplementsBag == [][Bag!Next]_items

\* The view of a state that TLC tells states apart by: the tree without the
\* locations of its nodes, which nothing but EmptyIsFree depends on.
Contents ==
    LET shape[p \in Loc] ==
            IF p = 0 THEN <<>>
            ELSE <<A[p].key, A[p].value, A[p].bal, shape[A[p].ptr[FALSE]],
                   shape[A[p].ptr[TRUE]]>>
    IN  <<IF num_items = 0 THEN <<>> ELSE shape[root], A[0], Len(empty_locations)>>

=============================================================================
