---------------------------- MODULE RedBlackTree ----------------------------
(***************************************************************************)
(* The container RedBlackTree of m3: nodes with parent and child pointers, *)
(* one static sentinel for all trees, insertion and removal with their     *)
(* fix-up loops (one iteration is one step), and one iterator of a client  *)
(* that keeps it while keys come and go.  The client parks a second tree,  *)
(* which it swaps with the first or moves into it.                         *)
(*                                                                         *)
(* A node is named by its key: no operation copies a key from one node to  *)
(* another, and keys are unique; the client has no key in both trees, so   *)
(* that a copy of a tree is one that replaces it.  The second half of each *)
(* fix-up, and RotateRight, mirror the first, so that a side is a          *)
(* parameter here.                                                         *)
(***************************************************************************)
EXTENDS Integers, FiniteSets

CONSTANTS Key,       \* the keys the client uses
          Nil,       \* the sentinel nil_
          Dangling   \* a pointer to no node of this tree

ASSUME KeyAssumption == /\ Key \subseteq Int
                        /\ IsFiniteSet(Key)
                        /\ Nil \notin Key /\ Dangling \notin Key \cup {Nil}

VARIABLES tree,     \* root_, and the fields of the nodes and of the sentinel
          size,     \* size_
          other,    \* root_ and size_ of the second tree
          pc,       \* where the call in progress is
          call,     \* which call it is, with its key
          node,     \* the node a fix-up is at
          first,    \* Remove: the next node to erase; Erase: what it returns
          last,     \* Remove: where the range ends
          removed,  \* removed_cnt
          cursor    \* the client's iterator: its node_ and its nil_

vars == <<tree, size, other, pc, call, node, first, last, removed, cursor>>

Ptr == Key \cup {Nil}
AnyPtr == Ptr \cup {Dangling}
Side == {"left", "right"}
Opposite(s) == IF s = "left" THEN "right" ELSE "left"

NoCall == [op |-> "none", key |-> Nil]
Iter(n) == [at |-> n, nil |-> Nil]        \* Iterator(n, nil_), and end()
FoundIter(n) == [at |-> n, nil |-> n]     \* Iterator(n), as Find makes it
LostIter == [at |-> Dangling, nil |-> Nil]  \* its node was deleted
EndIter == Iter(Nil)

\* The nodes of S without an owner: deleted, or not yet made.
Unmade(t, S) ==
    LET clear(f, v) == [p \in Ptr |-> IF p \in S THEN v ELSE f[p]]
    IN  [t EXCEPT !.color = clear(@, "red"),
                  !.parent = clear(@, Dangling),
                  !.child = [s \in Side |-> clear(t.child[s], Dangling)]]

EmptyTree == [root |-> Nil,
              color |-> [p \in Ptr |-> IF p = Nil THEN "black" ELSE "red"],
              parent |-> [p \in Ptr |-> IF p = Nil THEN Nil ELSE Dangling],
              child |-> [s \in Side |->
                           [p \in Ptr |-> IF p = Nil THEN Nil ELSE Dangling]]]

Init == /\ tree = EmptyTree
        /\ size = 0
        /\ other = [root |-> Nil, size |-> 0]
        /\ pc = "idle"
        /\ call = NoCall
        /\ node = Nil /\ first = Nil /\ last = Nil
        /\ removed = 0
        /\ cursor = EndIter

-----------------------------------------------------------------------------
(* Reading the tree.                                                       *)

\* Which child of its parent a node is: the code asks for the left one first.
SideOf(t, n) == IF n = t.child["left"][t.parent[n]] THEN "left" ELSE "right"

\* The nodes below and including n.
Subtree(t, n) ==
    LET closure[S \in SUBSET Key] ==
          LET more == S \cup (Key \cap {t.child[s][m] : s \in Side, m \in S})
          IN  IF more = S THEN S ELSE closure[more]
    IN  closure[Key \cap {n}]

\* The nodes there are; SearchTree says that they are what the roots lead to.
Made(t) == {n \in Key : t.parent[n] # Dangling}
Nodes == Made(tree)
Parked == Subtree(tree, other.root)
Contents == Nodes \ Parked

\* The loops that follow would use a dangling pointer, were there one to be
\* met: there they stop, for a value that no node has.

\* The end of the path that keeps to one side: GetMinimum, GetMaximum.
Outermost(t, n, s) ==
    LET down[m \in AnyPtr] ==
          IF m = Dangling \/ t.child[s][m] = Nil THEN m ELSE down[t.child[s][m]]
    IN  down[n]

\* Insert's search: the node with the key, or the one to hang it from.
Place(t, k) ==
    LET down[m \in AnyPtr] ==
          LET c == t.child[IF k < m THEN "left" ELSE "right"][m]
          IN  IF m \in {k, Nil, Dangling} \/ c = Nil THEN m ELSE down[c]
    IN  down[t.root]

FindNode(t, k) == IF t.root # Nil /\ Place(t, k) = k THEN k ELSE Nil

LowerBound(t, k) ==
    LET down[m \in AnyPtr] ==
          [best \in Ptr |->
             IF m \notin Key THEN best
             ELSE IF m < k THEN down[t.child["right"][m]][best]
             ELSE down[t.child["left"][m]][m]]
    IN  down[t.root][Nil]

UpperBound(t, k) ==
    LET down[m \in AnyPtr] ==
          [best \in Ptr |->
             IF m \notin Key THEN best
             ELSE IF k < m THEN down[t.child["left"][m]][m]
             ELSE down[t.child["right"][m]][best]]
    IN  down[t.root][Nil]

\* GetSuccessor (s = "right") and GetPredecessor (s = "left") of an iterator:
\* the sentinel, and so a node Find has put in its place, stays where it is.
\* The successor's look for a duplicate finds none, keys being unique.
Neighbour(t, it, s) ==
    LET climb[m \in Key] ==
          LET p == t.parent[m]
          IN  IF p \notin {it.nil, Dangling} /\ m = t.child[s][p]
              THEN climb[p] ELSE p
    IN  IF it.at = it.nil THEN it.nil
        ELSE IF t.child[s][it.at] # it.nil
             THEN Outermost(t, t.child[s][it.at], Opposite(s))
        ELSE climb[it.at]

-----------------------------------------------------------------------------
(* Changing the tree.                                                      *)

Paint(t, n, c) == [t EXCEPT !.color[n] = c]
SetChild(t, s, n, c) == [t EXCEPT !.child[s][n] = c]
SetParent(t, n, p) == [t EXCEPT !.parent[n] = p]

\* v takes the place of u below the parent of u, sentinel or not.
Transplant(t, u, v) ==
    LET p == t.parent[u]
        t1 == IF p = Nil THEN [t EXCEPT !.root = v]
              ELSE SetChild(t, SideOf(t, u), p, v)
    IN  SetParent(t1, v, p)

\* Mutant: the subtree in the middle keeps its old parent.
RotateForgetsParent(t, x, s) ==
    LET o == Opposite(s)
        y == t.child[o][x]
        t1 == SetChild(t, o, x, t.child[s][y])
        t2 == Transplant(t1, x, y)
    IN  SetParent(SetChild(t2, s, y, x), x, y)

\* The node falls down to side s and its other child moves up.
Rotate(t, x, s) ==
    LET o == Opposite(s)
        y == t.child[o][x]
        b == t.child[s][y]
        t1 == SetChild(t, o, x, b)
        t2 == IF b # Nil THEN SetParent(t1, b, x) ELSE t1
        t3 == Transplant(t2, x, y)
    IN  SetParent(SetChild(t3, s, y, x), x, y)

\* The new node, alone and below p, where its side is the order of the keys.
Leaf(t, k) == SetChild(SetChild(t, "left", k, Nil), "right", k, Nil)
Link(t, k, p) ==
    LET t1 == SetChild(Leaf(t, k), IF k < p THEN "left" ELSE "right", p, k)
    IN  Paint(SetParent(t1, k, p), k, "red")

\* RemoveOne up to its fix-up: the tree without the node, the node x that has
\* moved up, and the colour that has gone from its place.
Unlink(t, n) ==
    LET l == t.child["left"][n]
        r == t.child["right"][n]
        y == Outermost(t, r, "left")
        x == t.child["right"][y]
        t1 == IF t.parent[y] = n THEN SetParent(t, x, y)
              ELSE SetParent(SetChild(Transplant(t, y, x), "right", y, r), r, y)
        t2 == SetParent(SetChild(Transplant(t1, n, y), "left", y, l), l, y)
        t3 == Paint(t2, y, t.color[n])
    IN  IF l = Nil
        THEN [tree |-> Unmade(Transplant(t, n, r), {n}), x |-> r, gone |-> t.color[n]]
        ELSE IF r = Nil
        THEN [tree |-> Unmade(Transplant(t, n, l), {n}), x |-> l, gone |-> t.color[n]]
        ELSE [tree |-> Unmade(t3, {n}), x |-> x, gone |-> t.color[y]]

-----------------------------------------------------------------------------
(* Insertion.                                                              *)

\* The client takes the iterator a call returns, or keeps its own.
KeepOrTake(it) == cursor' \in {cursor, it}

InsertIntoEmpty(k) ==
    /\ pc = "idle" /\ k \notin Parked
    /\ tree.root = Nil
    /\ tree' = [SetParent(Paint(Leaf(tree, k), k, "black"), k, Nil) EXCEPT !.root = k]
    /\ size' = size + 1
    /\ KeepOrTake(Iter(k))
    /\ UNCHANGED <<other, pc, call, node, first, last, removed>>

InsertDuplicate(k) ==
    /\ pc = "idle"
    /\ FindNode(tree, k) = k
    /\ KeepOrTake(EndIter)
    /\ UNCHANGED <<other, tree, size, pc, call, node, first, last, removed>>

InsertLinks(k) ==
    /\ pc = "idle" /\ k \notin Parked
    /\ tree.root # Nil /\ FindNode(tree, k) = Nil
    /\ tree' = Link(tree, k, Place(tree, k))
    /\ size' = size + 1
    /\ pc' = "insert fixup"
    /\ call' = [op |-> "insert", key |-> k]
    /\ node' = k
    /\ UNCHANGED <<other, first, last, removed, cursor>>

\* The loop of InsertFixup runs while the parent is red.
ParentRed == pc = "insert fixup" /\ tree.color[tree.parent[node]] = "red"

\* Mutant: the uncle stays red.
InsertUncleKept ==
    LET p == tree.parent[node]
        g == tree.parent[p]
    IN  /\ ParentRed
        /\ tree.color[tree.child[Opposite(SideOf(tree, p))][g]] = "red"
        /\ tree' = Paint(Paint(tree, p, "black"), g, "red")
        /\ node' = g
        /\ UNCHANGED <<other, size, pc, call, first, last, removed, cursor>>

InsertUncleRed ==
    LET p == tree.parent[node]
        g == tree.parent[p]
        u == tree.child[Opposite(SideOf(tree, p))][g]
    IN  /\ ParentRed
        /\ tree.color[u] = "red"
        /\ tree' = Paint(Paint(Paint(tree, p, "black"), u, "black"), g, "red")
        /\ node' = g
        /\ UNCHANGED <<other, size, pc, call, first, last, removed, cursor>>

InsertUncleBlack ==
    LET p == tree.parent[node]
        g == tree.parent[p]
        s == SideOf(tree, p)
        inner == node = tree.child[Opposite(s)][p]
        t1 == IF inner THEN Rotate(tree, p, s) ELSE tree
        n1 == IF inner THEN p ELSE node
        p1 == t1.parent[n1]
        g1 == t1.parent[p1]
        t2 == Paint(Paint(t1, p1, "black"), g1, "red")
    IN  /\ ParentRed
        /\ tree.color[tree.child[Opposite(s)][g]] = "black"
        /\ tree' = Rotate(t2, g1, Opposite(s))
        /\ node' = n1
        /\ UNCHANGED <<other, size, pc, call, first, last, removed, cursor>>

\* Mutant: the iterator is at the node where the fix-up has ended.
InsertReturnsLastNode ==
    /\ pc = "insert fixup" /\ ~ParentRed
    /\ tree' = Paint(tree, tree.root, "black")
    /\ KeepOrTake(Iter(node))
    /\ pc' = "idle" /\ call' = NoCall /\ node' = Nil
    /\ UNCHANGED <<other, size, first, last, removed>>

InsertReturns ==
    /\ pc = "insert fixup" /\ ~ParentRed
    /\ tree' = Paint(tree, tree.root, "black")
    /\ KeepOrTake(Iter(call.key))
    /\ pc' = "idle" /\ call' = NoCall /\ node' = Nil
    /\ UNCHANGED <<other, size, first, last, removed>>

-----------------------------------------------------------------------------
(* Removal, by key and by iterator.                                        *)

Remove(k) ==
    /\ pc = "idle"
    /\ first' = LowerBound(tree, k) /\ last' = UpperBound(tree, k)
    /\ removed' = 0
    /\ pc' = "remove loop"
    /\ call' = [op |-> "remove", key |-> k]
    /\ UNCHANGED <<other, tree, size, node, cursor>>

\* What Erase and the Remove loop share: the successor is found before the
\* node goes, and the fix-up runs when a black node has gone from its place.
EraseNode(n, afterwards) ==
    LET cut == Unlink(tree, n)
    IN  /\ first' = Neighbour(tree, Iter(n), "right")
        /\ tree' = cut.tree
        /\ size' = size - 1
        /\ node' = IF cut.gone = "black" THEN cut.x ELSE Nil
        /\ pc' = IF cut.gone = "black" THEN "remove fixup" ELSE afterwards

RemoveLoop ==
    /\ pc = "remove loop" /\ first # last
    /\ EraseNode(first, "remove loop")
    /\ removed' = removed + 1
    /\ cursor' = IF cursor.at = first THEN LostIter ELSE cursor
    /\ UNCHANGED <<other, call, last>>

RemoveReturns ==
    /\ pc = "remove loop" /\ first = last
    /\ pc' = "idle" /\ call' = NoCall /\ first' = Nil /\ last' = Nil
    /\ UNCHANGED <<other, tree, size, node, removed, cursor>>

Erase ==
    /\ pc = "idle"
    /\ cursor.at \in Contents
    /\ EraseNode(cursor.at, "erase returns")
    /\ call' = [op |-> "erase", key |-> cursor.at]
    /\ cursor' = LostIter
    /\ UNCHANGED <<other, last, removed>>

EraseReturns ==
    /\ pc = "erase returns"
    /\ cursor' = Iter(first)
    /\ pc' = "idle" /\ call' = NoCall /\ first' = Nil
    /\ UNCHANGED <<other, tree, size, node, last, removed>>

\* The loop of RemoveFixup runs while a black node lacks one more black.
LacksBlack == /\ pc = "remove fixup"
              /\ node # tree.root
              /\ tree.color[node] = "black"

\* Mutant: the parent is not painted red when the red sibling goes.
BlackSiblingParentKept(s) ==
    LET p == tree.parent[node]
        w == tree.child[Opposite(s)][p]
    IN  IF tree.color[w] = "red"
        THEN Rotate(Paint(tree, w, "black"), p, s)
        ELSE tree

\* Case 1: a red sibling is rotated away.
BlackSibling(s) ==
    LET p == tree.parent[node]
        w == tree.child[Opposite(s)][p]
    IN  IF tree.color[w] = "red"
        THEN Rotate(Paint(Paint(tree, w, "black"), p, "red"), p, s)
        ELSE tree

RemoveFixupStep ==
    LET s == SideOf(tree, node)
        o == Opposite(s)
        t1 == BlackSibling(s)
        p == t1.parent[node]
        w == t1.child[o][p]
        near == t1.child[s][w]
        far == t1.child[o][w]
        t3 == IF t1.color[far] = "black"            \* case 3
              THEN Rotate(Paint(Paint(t1, near, "black"), w, "red"), w, o)
              ELSE t1
        w3 == t3.child[o][t3.parent[node]]
        t4 == Paint(Paint(Paint(t3, w3, t3.color[p]), p, "black"),
                    t3.child[o][w3], "black")
        t5 == Rotate(t4, p, s)
    IN  /\ LacksBlack
        /\ \/ /\ t1.color[near] = "black" /\ t1.color[far] = "black"  \* case 2
              /\ tree' = Paint(t1, w, "red")
              /\ node' = p
           \/ /\ "red" \in {t1.color[near], t1.color[far]}            \* case 4
              /\ tree' = t5
              /\ node' = t5.root
        /\ UNCHANGED <<other, size, pc, call, first, last, removed, cursor>>

RemoveFixupEnds ==
    /\ pc = "remove fixup" /\ ~LacksBlack
    /\ tree' = Paint(tree, node, "black")
    /\ node' = Nil
    /\ pc' = IF call.op = "erase" THEN "erase returns" ELSE "remove loop"
    /\ UNCHANGED <<other, size, call, first, last, removed, cursor>>

-----------------------------------------------------------------------------
(* The rest of the interface.                                              *)

\* The client's iterator after the nodes of S have been deleted.
Without(S) == IF cursor.at \in S THEN LostIter ELSE cursor

Clear ==
    /\ pc = "idle"
    /\ tree' = [Unmade(tree, Contents) EXCEPT !.root = Nil]
    /\ size' = 0
    /\ cursor' = Without(Contents)
    /\ UNCHANGED <<other, pc, call, node, first, last, removed>>

\* CopyRecursive: new nodes with the keys and colours of the old ones, each
\* hung below the copy of the node it is reached from, the root below nil_.
CopyRecursive(t) ==
    LET from(n) == {m \in Subtree(t, t.root) : n \in {t.child[s][m] : s \in Side}}
    IN  [t EXCEPT !.parent =
           [p \in Ptr |-> IF p \notin Subtree(t, t.root) THEN @[p]
                          ELSE IF p = t.root THEN Nil
                          ELSE CHOOSE m \in from(p) : TRUE]]

\* t = t: the old nodes go with the temporary that takes them.
CopyAssign ==
    /\ pc = "idle"
    /\ tree' = CopyRecursive(tree)
    /\ cursor' = Without(Contents)
    /\ UNCHANGED <<other, size, pc, call, node, first, last, removed>>

Swap ==
    /\ pc = "idle"
    /\ tree' = [tree EXCEPT !.root = other.root]
    /\ size' = other.size
    /\ other' = [root |-> tree.root, size |-> size]
    /\ UNCHANGED <<pc, call, node, first, last, removed, cursor>>

\* t = std::move(other): what t had goes with the temporary.
MoveAssign ==
    /\ pc = "idle"
    /\ tree' = [Unmade(tree, Contents) EXCEPT !.root = other.root]
    /\ size' = other.size
    /\ other' = [root |-> Nil, size |-> 0]
    /\ cursor' = Without(Contents)
    /\ UNCHANGED <<pc, call, node, first, last, removed>>

\* begin(), end(), Find, LowerBound and UpperBound.
Position ==
    /\ pc = "idle"
    /\ \/ cursor' = Iter(Outermost(tree, tree.root, "left"))
       \/ cursor' = EndIter
       \/ \E k \in Key : \/ cursor' = FoundIter(FindNode(tree, k))
                         \/ cursor' = Iter(LowerBound(tree, k))
                         \/ cursor' = Iter(UpperBound(tree, k))
    /\ UNCHANGED <<other, tree, size, pc, call, node, first, last, removed>>

\* ++ and --.
Step ==
    /\ pc = "idle"
    /\ cursor.at # Dangling
    /\ \E s \in Side : cursor' = [cursor EXCEPT !.at = Neighbour(tree, cursor, s)]
    /\ UNCHANGED <<other, tree, size, pc, call, node, first, last, removed>>

\* A removal in yet another tree of the program leaves the parent of the sentinel
\* they share at a node of that tree.
OtherTree ==
    /\ pc = "idle"
    /\ tree' = [tree EXCEPT !.parent[Nil] = Dangling]
    /\ UNCHANGED <<other, size, pc, call, node, first, last, removed, cursor>>

Client ==
    \/ \E k \in Key : InsertIntoEmpty(k) \/ InsertDuplicate(k) \/ InsertLinks(k)
                      \/ Remove(k)
    \/ Erase \/ Clear \/ CopyAssign \/ Swap \/ MoveAssign \/ Position \/ Step

Code == \/ InsertUncleRed \/ InsertUncleBlack \/ InsertReturns
        \/ RemoveLoop \/ RemoveReturns \/ EraseReturns
        \/ RemoveFixupStep \/ RemoveFixupEnds

Next == Client \/ Code \/ OtherTree

Spec == Init /\ [][Next]_vars

-----------------------------------------------------------------------------
(* Properties.                                                             *)

\* Every variable has a value the C++ type and the algorithm allow.
TypeOK ==
    /\ tree.root \in Ptr
    /\ tree.color \in [Ptr -> {"red", "black"}]
    /\ tree.parent \in [Ptr -> AnyPtr]
    /\ \A s \in Side : tree.child[s] \in [Ptr -> AnyPtr]
    /\ size \in 0 .. Cardinality(Key)
    /\ other \in [root : Ptr, size : 0 .. Cardinality(Key)]
    /\ pc \in {"idle", "insert fixup", "remove loop", "remove fixup", "erase returns"}
    /\ node \in Ptr /\ first \in Ptr /\ last \in Ptr
    /\ removed \in 0 .. Cardinality(Key)
    /\ cursor \in [at : AnyPtr, nil : Ptr]

\* Types, and the pointers are those of two search trees without a common
\* node, in a fix-up too: parents and children agree, no pointer leads out of
\* the trees, keys are in order, size() counts the nodes, and the sentinel
\* every tree of the program uses is still black and without children.
SearchTree ==
    /\ TypeOK
    /\ Subtree(tree, tree.root) = Contents
    /\ \A root \in {tree.root, other.root} \cap Key : tree.parent[root] = Nil
    /\ \A n \in Nodes, s \in Side :
         LET c == tree.child[s][n]
         IN  c # Nil => c \in Key /\ tree.parent[c] = n
    /\ \A n \in Nodes :
         /\ \A m \in Subtree(tree, tree.child["left"][n]) : m < n
         /\ \A m \in Subtree(tree, tree.child["right"][n]) : n < m
    /\ size = Cardinality(Contents) /\ other.size = Cardinality(Parked)
    /\ tree.color[Nil] = "black"
    /\ \A s \in Side : tree.child[s][Nil] = Nil

\* The node that lacks one more black, on the edge to it: the one a removal's
\* fix-up is at. The sentinel is below its parent.
Short == IF pc = "remove fixup" THEN node ELSE Dangling
Lacking(t, z, n, s) == z # Dangling /\ t.child[s][n] = z /\ t.parent[z] = n

BlackHeight(t, z) ==
    LET h[n \in Ptr] ==
          IF n \notin Made(t) THEN 1
          ELSE h[t.child["left"][n]]
               + (IF Lacking(t, z, n, "left") THEN 1 ELSE 0)
               + (IF t.color[n] = "black" THEN 1 ELSE 0)
    IN  h

\* The red-black rules with what each fix-up loop may still owe: every path
\* has as many black nodes, counting the one a removal lacks; a red node has
\* a red parent only where a fix-up is working; and a call returns with none
\* of that left, the root black.
RedBlack ==
    /\ LET h == BlackHeight(tree, Short)
           below(n, s) == h[tree.child[s][n]]
                          + (IF Lacking(tree, Short, n, s) THEN 1 ELSE 0)
       IN  \A n \in Nodes : below(n, "left") = below(n, "right")
    /\ \A n \in Nodes :
         tree.color[n] = "red" /\ tree.color[tree.parent[n]] = "red" =>
           \/ pc = "insert fixup" /\ n = node
           \/ pc = "remove fixup" /\ node \in {n, tree.parent[n]}
    /\ tree.color[tree.root] = "red" =>
         pc \in {"insert fixup", "remove fixup"} /\ node = tree.root
    /\ tree.color[other.root] = "black"

\* How many nodes there are above n, which may be the sentinel.
Depth(t, n) == Cardinality({m \in Key : t.parent[n] \in Subtree(t, m)})

\* No fix-up goes on for ever or back down: the loop that goes on is nearer to
\* the root than it was, so that a call ends after at most one step per level.
\* A red sibling rotated away takes its node down a level, and must end it.
FixupClimbs ==
    [][(ParentRed \/ LacksBlack) /\ (ParentRed \/ LacksBlack)' =>
         Depth(tree', node') < Depth(tree, node)]_vars

\* What KeySet sees of an iterator.
KeyAt(it) == it.at
Set == INSTANCE KeySet WITH
         End <- Nil, Lost <- Dangling,
         keys <- Contents, parked <- Parked, cursor <- KeyAt(cursor)

\* ++ and -- of an iterator at a node lead to the neighbours of its key.
StepsRight(it) ==
    it.at \notin {Nil, Dangling} =>
        /\ Neighbour(tree, it, "right") = Set!After(it.at)
        /\ Neighbour(tree, it, "left") = Set!Before(it.at)

\* What the lookups return between two calls, and where the iterators lead
\* that were not made by Find.
Answers ==
    pc = "idle" =>
      /\ Outermost(tree, tree.root, "left") = Set!First
      /\ \A k \in Key : /\ FindNode(tree, k) = Set!Find(k)
                        /\ LowerBound(tree, k) = Set!LowerBound(k)
                        /\ UpperBound(tree, k) = Set!UpperBound(k)
      /\ cursor.nil = Nil => StepsRight(cursor)

\* The tree is an ordered set (KeySet): a call changes the set by its own key
\* and once, Remove counts what it took, iterators keep their place while
\* other keys come and go, and every lookup, and every step of an iterator
\* that knows the sentinel, gives the key it should.
ImplementsKeySet == Set!Spec /\ []Answers

\* The iterators are bidirectional ones, as README.md:69 says and a
\* static_assert on the class (red_black_tree_test.cc:12): wherever an
\* iterator comes from, Find included, ++ and -- lead to the next key and to
\* the one before.
IteratorsStep == pc = "idle" => StepsRight(cursor)
=============================================================================
