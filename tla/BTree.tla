------------------------------- MODULE BTree -------------------------------
(***************************************************************************)
(* B-trees, btree.c: the index of the free pieces of mixed sizes.          *)
(*                                                                         *)
(* A node is a record in a heap of nodes, so that a stale pointer to a     *)
(* node is one here too.  Inserting is one step per node asked for: the    *)
(* allocator of store.c may collect, and the sweep then inserts into and   *)
(* deletes from the very tree that waits for the node.  Deleting asks for  *)
(* nothing and is one step.  Indices of keys and branches begin at 1.      *)
(*                                                                         *)
(* Between two calls nobody holds a pointer to a node but the tree, so the *)
(* nodes are then given the names 1, 2, ... in the order in which a walk   *)
(* meets them: trees that differ in the names only are one state.          *)
(***************************************************************************)
EXTENDS Integers, Sequences, SequencesExt, FiniteSets

CONSTANTS
    t,          \* least number of branches of a node
    Key, Elt,   \* keys and entries
    Entry,      \* bound: the pairs of the two that are stored
    NodeId      \* bound: the nodes there are

ASSUME BTreeConstants ==
    /\ t \in Nat \ {0, 1}
    /\ Key \subseteq Nat
    /\ Elt \subseteq Nat \ {0}
    /\ Entry \subseteq Key \X Elt
    /\ NodeId \subseteq Nat \ {0} /\ NodeId # {}

VARIABLES
    tree,    \* root: the root's id; node: the nodes that are allocated
    todo,    \* the insertion in progress: key, entry, and where it is
    result,  \* *pe of the last btreeDelete
    reused,  \* has the allocator used the tree during this request
    phase

vars == <<tree, todo, result, reused, phase>>

None == 0
NoInsertion == [k |-> 0, e |-> 0, x |-> None, i |-> 0, y |-> None]

-----------------------------------------------------------------------------
(* Nodes.                                                                  *)

nKeys(n) == Len(n.part)
keyOf(n, i) == n.part[i][1]
Full(n) == nKeys(n) = 2 * t - 1
\* Mutant of Thin: one key less is taken to be enough.
ThinLess(n) == nKeys(n) < t - 1
Thin(n) == nKeys(n) <= t - 1
Least(S) == CHOOSE i \in S : \A j \in S : i <= j

\* "k > xp->key": the first part whose key is not less than k, or one past all.
AtLeast(n, k) == Least({i \in DOMAIN n.part : k <= keyOf(n, i)} \cup {nKeys(n) + 1})

\* "k < x->part[i].key", from the end: behind all parts whose key is k or less.
Behind(n, k) == Least({i \in DOMAIN n.part : k < keyOf(n, i)} \cup {nKeys(n) + 1})

\* The branches from m to n of a list of branches, which a leaf does not have.
Kept(list, m, n) == IF list = <<>> THEN list ELSE SubSeq(list, m, n)

btalloc(tr) == Least(NodeId \ DOMAIN tr.node)
SetNode(tr, x, n) ==
    [tr EXCEPT !.node = [y \in DOMAIN tr.node \cup {x} |->
                            IF y = x THEN n ELSE tr.node[y]]]
btfree(tr, x) ==
    [tr EXCEPT !.node = [y \in DOMAIN tr.node \ {x} |-> tr.node[y]]]

RECURSIVE StoredIn(_, _), btreeSearchEQ(_, _, _), btreeSearchGE0(_, _, _, _),
          btreeSearchMin(_, _), btreeSearchMax(_, _), btreeCheck0(_, _, _, _),
          Height(_, _), Walk(_, _)

StoredIn(tr, x) ==
    ToSet(tr.node[x].part) \cup
    UNION {StoredIn(tr, c) : c \in ToSet(tr.node[x].branch)}

\* The nodes of the tree below x, each before its branches.
Walk(tr, x) ==
    IF x \notin DOMAIN tr.node THEN <<>>
    ELSE <<x>> \o FlattenSeq([i \in DOMAIN tr.node[x].branch |->
                                Walk(tr, tr.node[x].branch[i])])

Renamed(tr) ==
    LET inTree == Walk(tr, tr.root)
        all == inTree \o SetToSeq(DOMAIN tr.node \ ToSet(inTree))
        name(x) == IF Contains(all, x) THEN CHOOSE i \in DOMAIN all : all[i] = x ELSE None
    IN  [root |-> name(tr.root),
         node |-> [i \in DOMAIN all |->
                    [tr.node[all[i]] EXCEPT !.branch = [j \in DOMAIN @ |-> name(@[j])]]]]

Nothing == <<>>

btreeSearchEQ(tr, x, k) ==
    LET n == tr.node[x]
        i == AtLeast(n, k)
    IN  IF i <= nKeys(n) /\ keyOf(n, i) = k THEN <<x, i>>
        ELSE IF n.isLeaf THEN Nothing ELSE btreeSearchEQ(tr, n.branch[i], k)

\* Mutant of btreeSearchGE0: the last node passed is forgotten.
SearchGEForgets(tr, x, k, last) ==
    LET n == tr.node[x]
        i == AtLeast(n, k)
    IN  IF i <= nKeys(n) /\ (n.isLeaf \/ keyOf(n, i) = k) THEN <<x, i>>
        ELSE IF n.isLeaf THEN Nothing ELSE btreeSearchGE0(tr, n.branch[i], k, Nothing)

\* last: the innermost part passed whose key is greater than k.
btreeSearchGE0(tr, x, k, last) ==
    LET n == tr.node[x]
        i == AtLeast(n, k)
    IN  IF i <= nKeys(n) /\ (n.isLeaf \/ keyOf(n, i) = k) THEN <<x, i>>
        ELSE IF n.isLeaf THEN last
        ELSE btreeSearchGE0(tr, n.branch[i], k, IF i <= nKeys(n) THEN <<x, i>> ELSE last)

btreeSearchGE(tr, k) == btreeSearchGE0(tr, tr.root, k, Nothing)

btreeSearchMin(tr, x) ==
    IF tr.node[x].isLeaf THEN <<x, 1>> ELSE btreeSearchMin(tr, tr.node[x].branch[1])

btreeSearchMax(tr, x) ==
    IF tr.node[x].isLeaf THEN <<x, nKeys(tr.node[x])>>
    ELSE btreeSearchMax(tr, Last(tr.node[x].branch))

KeyAt(tr, at) == keyOf(tr.node[at[1]], at[2])

\* Does the tree below x pass btreeCheck, with its keys between lo and hi?  A
\* bound is a sequence of no key, at the edge of the tree, or of one.
btreeCheck0(tr, x, lo, hi) ==
    LET n == tr.node[x]
        keys == [i \in DOMAIN n.part |-> keyOf(n, i)]
        fence == lo \o keys \o hi
        below(i) == IF i = 1 THEN lo ELSE <<keys[i - 1]>>
        above(i) == IF i = nKeys(n) + 1 THEN hi ELSE <<keys[i]>>
    IN  /\ nKeys(n) <= 2 * t - 1
        /\ lo \o hi # <<>> => nKeys(n) >= t - 1
        /\ \A i \in 1 .. Len(fence) - 1 : fence[i] <= fence[i + 1]
        /\ n.isLeaf \/ \A i \in 1 .. nKeys(n) + 1 :
                            btreeCheck0(tr, n.branch[i], below(i), above(i))

Height(tr, x) ==
    IF tr.node[x].isLeaf THEN 0 ELSE 1 + Height(tr, tr.node[x].branch[1])

-----------------------------------------------------------------------------
(* Inserting.                                                              *)

NewNode(isLeaf, part, branch) == [isLeaf |-> isLeaf, part |-> part, branch |-> branch]

Init ==
    /\ LET x == Least(NodeId) IN tree = [root |-> x, node |-> (x :> NewNode(TRUE, <<>>, <<>>))]
    /\ todo = NoInsertion
    /\ result = 0
    /\ reused = FALSE
    /\ phase = "idle"

\* btreeSplitChild: y, the full child i of x, keeps its first t - 1 parts, the
\* new z takes the last t - 1, and the one between goes to x.
btreeSplitChild(tr, x, i, y) ==
    LET z == btalloc(tr)
        n == tr.node[y]
        left == NewNode(n.isLeaf, SubSeq(n.part, 1, t - 1), Kept(n.branch, 1, t))
        right == NewNode(n.isLeaf, SubSeq(n.part, t + 1, 2 * t - 1),
                         Kept(n.branch, t + 1, 2 * t))
        above == NewNode(FALSE, InsertAt(tr.node[x].part, i, n.part[t]),
                         InsertAt(tr.node[x].branch, i + 1, z))
    IN  SetNode(SetNode(SetNode(tr, y, left), z, right), x, above)

\* A new root s above the old one.
RaiseRoot(tr, x) ==
    LET s == btalloc(tr) IN [SetNode(tr, s, NewNode(FALSE, <<>>, <<x>>)) EXCEPT !.root = s]

InsertInLeaf(tr, x, k, e) ==
    SetNode(tr, x, [tr.node[x] EXCEPT !.part = InsertAt(@, Behind(tr.node[x], k), <<k, e>>)])

RECURSIVE Descend(_, _, _), InsertFrom(_, _, _, _)

\* The way from x towards k, as far as no child is full: the node where it
\* ends, and there the full child, if any.
Descend(tr, x, k) ==
    LET n == tr.node[x]
        i == Behind(n, k)
    IN  IF n.isLeaf THEN [x |-> x, i |-> 0]
        ELSE IF Full(tr.node[n.branch[i]]) THEN [x |-> x, i |-> i]
        ELSE Descend(tr, n.branch[i], k)

\* The half to go on with after child i of x was split.
HalfFor(tr, x, i, k) ==
    tr.node[x].branch[IF k > keyOf(tr.node[x], i) THEN i + 1 ELSE i]

\* An insertion during which the allocator leaves the tree alone.
InsertFrom(tr, x, k, e) ==
    LET d == Descend(tr, x, k) IN
    IF d.i = 0 THEN InsertInLeaf(tr, d.x, k, e)
    ELSE LET after == btreeSplitChild(tr, d.x, d.i, tr.node[d.x].branch[d.i])
         IN  InsertFrom(after, HalfFor(after, d.x, d.i, k), k, e)

InsertWhole(tr, k, e) ==
    IF Full(tr.node[tr.root])
    THEN LET up == RaiseRoot(tr, tr.root)
         IN  InsertFrom(btreeSplitChild(up, up.root, 1, tr.root), up.root, k, e)
    ELSE InsertFrom(tr, tr.root, k, e)

\* Go on with the insertion from the node x until a node is needed.
GoOn(tr, x, k, e) ==
    LET d == Descend(tr, x, k) IN
    IF d.i = 0
    THEN /\ tree' = Renamed(InsertInLeaf(tr, d.x, k, e))
         /\ todo' = NoInsertion
         /\ phase' = "idle"
    ELSE /\ tree' = tr
         /\ todo' = [k |-> k, e |-> e, x |-> d.x, i |-> d.i, y |-> tr.node[d.x].branch[d.i]]
         /\ phase' = "split"

\* Nodes that an insertion may ask for.
RoomFor(tr) == Cardinality(NodeId \ DOMAIN tr.node) >= Height(tr, tr.root) + 2

btreeInsertX(k, e) ==
    /\ phase = "idle"
    /\ RoomFor(tree)
    /\ <<k, e>> \in Entry \ StoredIn(tree, tree.root)
    /\ IF Full(tree.node[tree.root])
       THEN /\ todo' = [k |-> k, e |-> e, x |-> tree.root, i |-> 0, y |-> None]
            /\ phase' = "root"
            /\ UNCHANGED tree
       ELSE GoOn(tree, tree.root, k, e)
    /\ UNCHANGED <<result, reused>>

\* The node for a new root is there.
NewRoot ==
    /\ phase = "root"
    /\ IF todo.x \in DOMAIN tree.node
       THEN /\ tree' = RaiseRoot(tree, todo.x)
            /\ todo' = [todo EXCEPT !.x = tree'.root, !.i = 1, !.y = todo.x]
            /\ phase' = "split"
       ELSE /\ phase' = "corrupt"
            /\ UNCHANGED <<tree, todo>>
    /\ reused' = FALSE
    /\ UNCHANGED result

\* "x is a non-full node and x->part[i].branch is a full child".
MaySplit(d) ==
    /\ d.x \in DOMAIN tree.node /\ d.y \in DOMAIN tree.node
    /\ ~Full(tree.node[d.x]) /\ Full(tree.node[d.y])
    /\ d.i \in DOMAIN tree.node[d.x].branch
    /\ tree.node[d.x].branch[d.i] = d.y

\* The node for the other half is there.
Split ==
    LET d == todo
        after == btreeSplitChild(tree, d.x, d.i, d.y)
    IN  /\ phase = "split"
        /\ IF MaySplit(d)
           THEN GoOn(after, HalfFor(after, d.x, d.i, d.k), d.k, d.e)
           ELSE phase' = "corrupt" /\ UNCHANGED <<tree, todo>>
        /\ reused' = FALSE
        /\ UNCHANGED result

-----------------------------------------------------------------------------
(* Deleting.                                                               *)

\* Mutant of btreeUnsplitChild: the key between the two is lost.
UnsplitLoses(tr, x, i) ==
    LET n == tr.node[x]
        y == tr.node[n.branch[i]]
        z == tr.node[n.branch[i + 1]]
    IN  btfree(SetNode(SetNode(tr, n.branch[i],
            NewNode(y.isLeaf, y.part \o z.part, y.branch \o z.branch)),
            x, NewNode(FALSE, RemoveAt(n.part, i), RemoveAt(n.branch, i + 1))), n.branch[i + 1])

\* Mutant of btreeUnsplitChild: the node that was merged is not freed.
UnsplitLeaks(tr, x, i) ==
    LET n == tr.node[x]
        y == tr.node[n.branch[i]]
        z == tr.node[n.branch[i + 1]]
        both == NewNode(y.isLeaf, y.part \o <<n.part[i]>> \o z.part, y.branch \o z.branch)
    IN  SetNode(SetNode(tr, n.branch[i], both), x,
            NewNode(FALSE, RemoveAt(n.part, i), RemoveAt(n.branch, i + 1)))

\* Child i of x, its key i and child i + 1 become one.
btreeUnsplitChild(tr, x, i) ==
    LET n == tr.node[x]
        y == tr.node[n.branch[i]]
        z == tr.node[n.branch[i + 1]]
        zn == nKeys(y)
        both == NewNode(y.isLeaf, y.part \o <<n.part[i]>> \o SubSeq(z.part, 1, zn),
                        y.branch \o Kept(z.branch, 1, zn + 1))
    IN  btfree(SetNode(SetNode(tr, n.branch[i], both), x,
            NewNode(FALSE, RemoveAt(n.part, i), RemoveAt(n.branch, i + 1))), n.branch[i + 1])

\* Child i of x, its key i and child i + 1 become y, key and z.
Rotated(tr, x, i, y, part, z) ==
    LET n == tr.node[x] IN
    SetNode(SetNode(SetNode(tr, n.branch[i], y), n.branch[i + 1], z), x,
            [n EXCEPT !.part[i] = part])

\* A key of child i + 1 goes to x, and one of x to child i.
btreeRotateDown(tr, x, i) ==
    LET n == tr.node[x]
        y == tr.node[n.branch[i]]
        z == tr.node[n.branch[i + 1]]
    IN  Rotated(tr, x, i,
            NewNode(y.isLeaf, Append(y.part, n.part[i]), y.branch \o Kept(z.branch, 1, 1)),
            Head(z.part),
            NewNode(z.isLeaf, Tail(z.part), Kept(z.branch, 2, Len(z.branch))))

\* A key of child i goes to x, and one of x to child i + 1.
btreeRotateUp(tr, x, i) ==
    LET n == tr.node[x]
        z == tr.node[n.branch[i]]
        y == tr.node[n.branch[i + 1]]
        zb == Len(z.branch)
    IN  Rotated(tr, x, i,
            NewNode(z.isLeaf, Front(z.part), Kept(z.branch, 1, zb - 1)),
            Last(z.part),
            NewNode(y.isLeaf, <<n.part[i]>> \o y.part, Kept(z.branch, zb, zb) \o y.branch))

\* Give child i of x a key to spare: the tree, and the child to go on with.
Fattened(tr, x, i) ==
    LET n == tr.node[x]
        last == Len(n.branch)
    IN  IF ~Thin(tr.node[n.branch[i]]) THEN [tree |-> tr, i |-> i]
        ELSE IF i < last /\ ~Thin(tr.node[n.branch[i + 1]])
        THEN [tree |-> btreeRotateDown(tr, x, i), i |-> i]
        ELSE IF i > 1 /\ ~Thin(tr.node[n.branch[i - 1]])
        THEN [tree |-> btreeRotateUp(tr, x, i - 1), i |-> i]
        ELSE LET j == IF i = last THEN i - 1 ELSE i
             IN  [tree |-> btreeUnsplitChild(tr, x, j), i |-> j]

RECURSIVE btreeDelete0(_, _, _)

\* The tree without k, and the entry k had.  k is in the tree below x: on a
\* leaf without k the code would follow a branch the leaf does not have.
btreeDelete0(tr, x, k) ==
    LET n == tr.node[x]
        i == AtLeast(n, k)
        here == i <= nKeys(n) /\ keyOf(n, i) = k
        Replace(c, at) ==
            LET m == KeyAt(tr, at)
                r == btreeDelete0(tr, c, m)
            IN  [tree |-> SetNode(r.tree, x, [n EXCEPT !.part[i] = <<m, r.elt>>]),
                 elt |-> n.part[i][2]]
    IN  IF here /\ n.isLeaf
        THEN [tree |-> SetNode(tr, x, [n EXCEPT !.part = RemoveAt(n.part, i)]),
              elt |-> n.part[i][2]]
        ELSE IF here /\ ~Thin(tr.node[n.branch[i]])
        THEN Replace(n.branch[i], btreeSearchMax(tr, n.branch[i]))
        ELSE IF here /\ ~Thin(tr.node[n.branch[i + 1]])
        THEN Replace(n.branch[i + 1], btreeSearchMin(tr, n.branch[i + 1]))
        ELSE IF here
        THEN btreeDelete0(btreeUnsplitChild(tr, x, i), n.branch[i], k)
        ELSE LET f == Fattened(tr, x, i)
             IN  btreeDelete0(f.tree, f.tree.node[x].branch[f.i], k)

\* Mutant of Lowered: the branch is freed and not the root.
LoweredWrong(tr) ==
    LET n == tr.node[tr.root] IN
    IF nKeys(n) = 0 /\ ~n.isLeaf
    THEN btfree([tr EXCEPT !.root = n.branch[1]], n.branch[1])
    ELSE tr

\* An inner root without keys gives way to its only branch.
Lowered(tr) ==
    LET n == tr.node[tr.root] IN
    IF nKeys(n) = 0 /\ ~n.isLeaf
    THEN btfree([tr EXCEPT !.root = n.branch[1]], tr.root)
    ELSE tr

DeleteWhole(tr, k) ==
    LET r == btreeDelete0(tr, tr.root, k) IN [tree |-> Lowered(r.tree), elt |-> r.elt]

KeysIn(tr) == {p[1] : p \in StoredIn(tr, tr.root)}

btreeDeleteX(k) ==
    /\ phase = "idle"
    /\ k \in KeysIn(tree)
    /\ LET r == DeleteWhole(tree, k) IN tree' = Renamed(r.tree) /\ result' = r.elt
    /\ UNCHANGED <<todo, reused, phase>>

\* pieceGetMixed writes the key r of a remainder over k when a search for r
\* would end where k is.
Rekey(k, r) ==
    LET at == btreeSearchEQ(tree, tree.root, k) IN
    /\ phase = "idle"
    /\ k \in KeysIn(tree)
    /\ r < k
    /\ <<r, tree.node[at[1]].part[at[2]][2]>> \in Entry
    /\ btreeSearchGE(tree, r) = at
    /\ tree' = SetNode(tree, at[1], [tree.node[at[1]] EXCEPT !.part[at[2]] = <<r, @[2]>>])
    /\ UNCHANGED <<todo, result, reused, phase>>

\* The allocator, asked for a node, collects, and the sweep deletes the entry of
\* a size or inserts one.
Reenter ==
    /\ phase \in {"root", "split"}
    /\ ~reused
    /\ RoomFor(tree)
    /\ \/ \E k \in KeysIn(tree) : tree' = DeleteWhole(tree, k).tree
       \/ \E p \in Entry :
             p[1] \notin KeysIn(tree) /\ tree' = InsertWhole(tree, p[1], p[2])
    /\ reused' = TRUE
    /\ UNCHANGED <<todo, result, phase>>

Next ==
    \/ \E k \in Key, e \in Elt : btreeInsertX(k, e)
    \/ NewRoot \/ Split
    \/ \E k \in Key : btreeDeleteX(k)
    \/ \E k, r \in Key : Rekey(k, r)

Spec == Init /\ [][Next]_vars

\* The same with the allocator of store.c, which uses the tree itself.
SpecReentered == Init /\ [][Next \/ Reenter]_vars

-----------------------------------------------------------------------------
(* Properties.                                                             *)

\* Every variable has its type.
TypeOK ==
    /\ tree.root \in DOMAIN tree.node
    /\ DOMAIN tree.node \subseteq NodeId
    /\ \A x \in DOMAIN tree.node :
          LET n == tree.node[x] IN
          /\ n.isLeaf \in BOOLEAN
          /\ n.part \in Seq(Key \X Elt)
          /\ n.branch \in Seq(DOMAIN tree.node)
    /\ result \in Elt \cup {0}
    /\ reused \in BOOLEAN
    /\ phase \in {"idle", "root", "split", "corrupt"}

\* A node that is not a leaf has one branch more than keys, and its branches are
\* equally deep.
Balanced ==
    \A x \in DOMAIN tree.node :
        LET n == tree.node[x] IN
        IF n.isLeaf THEN n.branch = <<>>
        ELSE /\ Len(n.branch) = nKeys(n) + 1
             /\ \A i, j \in DOMAIN n.branch :
                   Height(tree, n.branch[i]) = Height(tree, n.branch[j])

\* btree.h, properties 1 and 3, as btreeCheck tests them: between calls every
\* node but the root has at least t - 1 keys, none has more than 2t - 1, and
\* the keys are in order.  And property 2, which btreeCheck does not test, and
\* without which the searches would take the depth of the tree for granted.
CheckPasses ==
    phase = "idle" => btreeCheck0(tree, tree.root, <<>>, <<>>) /\ Balanced

\* The nodes allocated are those of the tree: none is lost, none is freed twice.
NoNodeLost == phase = "idle" => DOMAIN tree.node = ToSet(Walk(tree, tree.root))

\* The four searches find what is there: the key itself, the least key that is
\* large enough, on which the best fit of pieceGetMixed rests, and the ends.
SearchesAgree ==
    phase = "idle" =>
        LET keys == KeysIn(tree) IN
        /\ \A k \in Key :
              LET eq == btreeSearchEQ(tree, tree.root, k)
                  ge == btreeSearchGE(tree, k)
                  fit == {i \in keys : k <= i}
              IN  /\ eq # Nothing <=> k \in keys
                  /\ eq # Nothing => KeyAt(tree, eq) = k
                  /\ ge # Nothing <=> fit # {}
                  /\ ge # Nothing => KeyAt(tree, ge) = Least(fit)
        /\ keys # {} =>
              /\ KeyAt(tree, btreeSearchMin(tree, tree.root)) = Least(keys)
              /\ \A k \in keys : k <= KeyAt(tree, btreeSearchMax(tree, tree.root))

\* btreeSplitChild: "x is a non-full node and x->part[i].branch is a full child".
SplitsFullChild == phase = "split" => MaySplit(todo)

\* The tree is the bag of the pairs in it.
Bag == INSTANCE SortedBag WITH stored <- StoredIn(tree, tree.root)
BagSpec == Bag!Spec

=============================================================================
