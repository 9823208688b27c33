-------------------------- MODULE RedBlackTreeProofs --------------------------
(***************************************************************************)
(* Proofs about the red-black tree, for every finite set of integer keys:  *)
(* both trees are search trees and red-black trees after every step of     *)
(* every call, a step of an iterator lands where KeySet says, each call    *)
(* is one of KeySet, and a fix-up climbs.                                  *)
(*                                                                         *)
(* The shape of a tree is stated with a witness: a function from nodes to  *)
(* the sets of nodes below them.  Each change of the tree comes with the   *)
(* witness of the new one, and so no induction over trees is needed but    *)
(* TreeInduction, which is taken once from the well-foundedness of the     *)
(* inclusion of finite sets.  Heights are treated the same way.            *)
(*                                                                         *)
(* In the lemmas about fields, one operation of the code is applied to any *)
(* tree and each field of the result is given; the lemmas about trees,     *)
(* heights and reds need only those fields.  Last come the invariant, one  *)
(* lemma per action, and the theorems.                                     *)
(***************************************************************************)
EXTENDS RedBlackTree, TLAPS, FiniteSetTheorems, WellFoundedInduction

\* The types of the fields: a record of functions from nodes.
Color == {"red", "black"}
Tree == [root : Ptr, color : [Ptr -> Color],
         parent : [Ptr -> AnyPtr], child : [Side -> [Ptr -> AnyPtr]]]

\* a comes before b, seen from side s.
Before(s, a, b) == IF s = "left" THEN a < b ELSE b < a

\* Children and parents agree, and no pointer of a node leads out of the trees.
LinksOK(t, n) ==
    /\ t.parent[n] \in Made(t) \cup {Nil}
    /\ t.parent[n] # Nil => \E s \in Side : t.child[s][t.parent[n]] = n
    /\ \A s \in Side : /\ t.child[s][n] \in Made(t) \cup {Nil}
                       /\ t.child[s][n] # Nil => t.parent[t.child[s][n]] = n

\* The nodes below a node, and the order of their keys.
OrderOK(t, sub, n) ==
    /\ sub[n] = {n} \cup sub[t.child["left"][n]] \cup sub[t.child["right"][n]]
    /\ \A s \in Side : \A m \in sub[t.child[s][n]] : Before(s, m, n)

\* What holds at every node, with sub[n] the nodes below and including n; the
\* sentinel has no children, and what is not made has nothing.
Shape(t, sub) ==
    /\ t \in Tree
    /\ sub \in [Ptr -> SUBSET Key]
    /\ sub[Nil] = {}
    /\ \A s \in Side : t.child[s][Nil] = Nil
    /\ \A n \in Key \ Made(t) : sub[n] = {} /\ \A s \in Side : t.child[s][n] = Dangling
    /\ \A n \in Made(t) : LinksOK(t, n)
    /\ \A n \in Made(t) : OrderOK(t, sub, n)

\* There are two sides, and each is the opposite of the other.
LEMMA SideFacts == /\ Side = {"left", "right"}
                   /\ \A s \in Side : Opposite(s) \in Side /\ Opposite(Opposite(s)) = s
                                      /\ Opposite(s) # s /\ Side = {s, Opposite(s)}
BY DEF Side, Opposite

\* A set that has a node whenever it has the children of that node has every node:
\* a node outside it with the fewest nodes below would have its children inside.
LEMMA TreeInduction ==
  ASSUME NEW t, NEW sub, Shape(t, sub), NEW S,
         \A n \in Made(t) : (\A s \in Side : t.child[s][n] \in S \cup {Nil}) => n \in S
  PROVE  Made(t) \subseteq S
<1> SUFFICES ASSUME Made(t) \ S # {} PROVE FALSE
  OBVIOUS
<1> DEFINE T == {sub[n] : n \in Made(t) \ S}
<1>1. T \subseteq SUBSET Key /\ T # {}
  BY DEF Shape, Made, Ptr
<1>2. IsWellFoundedOn(StrictSubsetOrdering(Key), SUBSET Key)
  <2>1. FiniteSubsetsOf(Key) = SUBSET Key
    BY KeyAssumption, FS_FiniteSubsetsOfFinite
  <2>2. IsWellFoundedOn(StrictSubsetOrdering(Key), FiniteSubsetsOf(Key))
    BY KeyAssumption, FS_StrictSubsetOrderingWellFounded
  <2> QED BY <2>1, <2>2, Zenon
<1> HIDE DEF T
<1>3. PICK u \in T : \A v \in T : ~(<<v, u>> \in StrictSubsetOrdering(Key))
  BY <1>1, <1>2, WFMin
<1>4. PICK n \in Made(t) \ S : u = sub[n]
  BY <1>3 DEF T
<1>5. ASSUME NEW s \in Side PROVE t.child[s][n] \in S \cup {Nil}
  <2>1. t.child[s][n] \in Made(t) \cup {Nil}
    BY <1>4 DEF Shape, LinksOK
  <2>2. SUFFICES ASSUME t.child[s][n] \in Made(t) \ S PROVE FALSE
    BY <2>1
  <2>3. sub[t.child[s][n]] \in T
    BY <2>2 DEF T
  <2>4. sub[t.child[s][n]] \subseteq sub[n] /\ n \in sub[n]
    BY <1>4 DEF Shape, OrderOK, Side
  <2>5. n \notin sub[t.child[s][n]]
    BY <1>4, KeyAssumption DEF Shape, OrderOK, Before, Made
  <2> QED BY <1>1, <1>3, <1>4, <2>3, <2>4, <2>5 DEF StrictSubsetOrdering
<1> QED BY <1>4, <1>5

\* What Shape says of one node, in the form the proofs below use it.
LEMMA NodeFacts ==
  ASSUME NEW t, NEW sub, Shape(t, sub), NEW n \in Made(t), NEW s \in Side
  PROVE  /\ n \in Key /\ n # Nil /\ n # Dangling
         /\ n \in sub[n] /\ sub[n] \subseteq Key
         /\ sub[n] = {n} \cup sub[t.child[s][n]] \cup sub[t.child[Opposite(s)][n]]
         /\ t.child[s][n] \in Made(t) \cup {Nil}
         /\ t.child[s][n] # Nil => t.parent[t.child[s][n]] = n
         /\ n \notin sub[t.child[s][n]]
         /\ sub[t.child[s][n]] \cap sub[t.child[Opposite(s)][n]] = {}
         /\ t.child[s][n] # n
         /\ t.child[s][n] = t.child[Opposite(s)][n] => t.child[s][n] = Nil
<1>1. n \in Key /\ n # Nil /\ n # Dangling /\ n \in sub[n] /\ sub[n] \subseteq Key
  BY KeyAssumption DEF Shape, OrderOK, Made, Ptr
<1>2. sub[n] = {n} \cup sub[t.child[s][n]] \cup sub[t.child[Opposite(s)][n]]
  BY SideFacts DEF Shape, OrderOK, Side, Opposite
<1>3. /\ t.child[s][n] \in Made(t) \cup {Nil}
      /\ t.child[s][n] # Nil => t.parent[t.child[s][n]] = n
  BY DEF Shape, LinksOK
<1>4. /\ \A m \in sub[t.child[s][n]] : Before(s, m, n)
      /\ \A m \in sub[t.child[Opposite(s)][n]] : Before(Opposite(s), m, n)
  BY SideFacts DEF Shape, OrderOK
<1>5. Key \subseteq Int
  BY KeyAssumption
<1>6. n \notin sub[t.child[s][n]]
  BY <1>1, <1>4, <1>5 DEF Before
<1>7. sub[t.child[s][n]] \cap sub[t.child[Opposite(s)][n]] = {}
  <2> SUFFICES ASSUME NEW m \in sub[t.child[s][n]], m \in sub[t.child[Opposite(s)][n]]
               PROVE  FALSE
    OBVIOUS
  <2>1. m \in Int /\ n \in Int
    BY <1>1, <1>2, <1>5
  <2>2. Before(s, m, n) /\ Before(Opposite(s), m, n)
    BY <1>4
  <2> QED BY <2>1, <2>2 DEF Before, Opposite, Side
<1>8. t.child[s][n] # Nil => t.child[s][n] \in sub[t.child[s][n]]
  BY <1>3 DEF Shape, OrderOK
<1> QED BY <1>1, <1>2, <1>3, <1>6, <1>7, <1>8

\* The side SideOf finds is the one the node is at.
LEMMA SideOfNode ==
  ASSUME NEW t, NEW sub, Shape(t, sub), NEW n \in Made(t), t.parent[n] # Nil
  PROVE  /\ SideOf(t, n) \in Side
         /\ t.parent[n] \in Made(t)
         /\ t.child[SideOf(t, n)][t.parent[n]] = n
         /\ t.child[Opposite(SideOf(t, n))][t.parent[n]] # n
         /\ t.parent[n] # n
<1>1. t.parent[n] \in Made(t) /\ \E s \in Side : t.child[s][t.parent[n]] = n
  BY DEF Shape, LinksOK
<1>2. n # Nil
  BY NodeFacts, SideFacts
<1> QED BY <1>1, <1>2, NodeFacts, SideFacts DEF SideOf, Side, Opposite

\* A subtree holds nodes, with their subtrees.
LEMMA SubtreeNodes ==
  ASSUME NEW t, NEW sub, Shape(t, sub), NEW n \in Made(t)
  PROVE  /\ sub[n] \subseteq Made(t)
         /\ \A m \in sub[n] : sub[m] \subseteq sub[n]
         /\ \A m \in sub[n] : m # n => t.parent[m] \in sub[n]
<1> DEFINE S == {a \in Made(t) : /\ sub[a] \subseteq Made(t)
                                 /\ \A m \in sub[a] : sub[m] \subseteq sub[a]
                                 /\ \A m \in sub[a] : m # a => t.parent[m] \in sub[a]}
<1>1. ASSUME NEW a \in Made(t), \A s \in Side : t.child[s][a] \in S \cup {Nil}
      PROVE  a \in S
  <2> DEFINE l == t.child["left"][a]
             r == t.child["right"][a]
  <2>1. sub[a] = {a} \cup sub[l] \cup sub[r] /\ l \in S \cup {Nil} /\ r \in S \cup {Nil}
    BY <1>1 DEF Shape, OrderOK, Side
  <2>2. sub[Nil] = {}
    BY DEF Shape
  <2>3. /\ l # Nil => t.parent[l] = a /\ l \in sub[l]
        /\ r # Nil => t.parent[r] = a /\ r \in sub[r]
    BY <1>1, NodeFacts DEF Side
  <2> HIDE DEF l, r
  <2>4. sub[a] \subseteq Made(t)
    BY <2>1, <2>2
  <2>5. \A m \in sub[a] : sub[m] \subseteq sub[a]
    BY <2>1, <2>2
  <2>6. \A m \in sub[a] : m # a => t.parent[m] \in sub[a]
    BY <2>1, <2>2, <2>3
  <2> QED BY <1>1, <2>4, <2>5, <2>6
<1> HIDE DEF S
<1>2. Made(t) \subseteq S
  BY <1>1, TreeInduction
<1> QED BY <1>2 DEF S

\* The keys of a subtree are next to each other.
LEMMA Convex ==
  ASSUME NEW t, NEW sub, Shape(t, sub), NEW a \in Made(t),
         NEW n \in sub[a], NEW m \in sub[a], m \notin sub[n]
  PROVE  \E s \in Side : \A j \in sub[n] : Before(s, m, j)
<1> DEFINE Parted(x) == \A i \in sub[x], k \in sub[x] : k \notin sub[i] =>
                           \E s \in Side : \A j \in sub[i] : Before(s, k, j)
           S == {x \in Made(t) : Parted(x)}
<1>1. ASSUME NEW x \in Made(t), \A s \in Side : t.child[s][x] \in S \cup {Nil},
             NEW i \in sub[x], NEW k \in sub[x], k \notin sub[i]
      PROVE  \E s \in Side : \A j \in sub[i] : Before(s, k, j)
  <2>1. i # x
    BY <1>1
  <2>2. PICK s \in Side : i \in sub[t.child[s][x]]
    BY <1>1, <2>1 DEF Shape, OrderOK, Side
  <2>3. t.child[s][x] \in S /\ t.child[s][x] \in Made(t)
    BY <1>1, <2>2 DEF Shape
  <2>4. sub[i] \subseteq sub[t.child[s][x]]
    BY <2>2, <2>3, SubtreeNodes
  <2>5. CASE k \in sub[t.child[s][x]]
    BY <1>1, <2>2, <2>3, <2>5
  <2>6. CASE k \notin sub[t.child[s][x]]
    <3>1. k = x \/ k \in sub[t.child[Opposite(s)][x]]
      BY <1>1, <2>6, NodeFacts
    <3>2. /\ \A j \in sub[t.child[s][x]] : Before(s, j, x)
          /\ \A j \in sub[t.child[Opposite(s)][x]] : Before(Opposite(s), j, x)
      BY SideFacts DEF Shape, OrderOK
    <3>3. x \in Int /\ k \in Int /\ \A j \in sub[i] : j \in Int
      <4>1. sub[x] \subseteq Made(t) /\ sub[i] \subseteq sub[x]
        BY <1>1, SubtreeNodes
      <4> QED BY <4>1, <1>1, KeyAssumption DEF Made
    <3>4. \A j \in sub[i] : Before(Opposite(s), k, j)
      BY <2>4, <3>1, <3>2, <3>3 DEF Before, Opposite, Side
    <3> QED BY <3>4, SideFacts
  <2> QED BY <2>5, <2>6
<1>2. Made(t) \subseteq S
  <2>1. ASSUME NEW x \in Made(t), \A s \in Side : t.child[s][x] \in S \cup {Nil}
        PROVE  x \in S
    BY <1>1, <2>1
  <2> HIDE DEF S
  <2> QED BY <2>1, TreeInduction
<1> QED BY <1>2

-----------------------------------------------------------------------------
\* Two trees over the nodes there are, at t.root and at r.
Trees(t, r, sub) ==
    /\ Shape(t, sub)
    /\ t.root \in Made(t) \cup {Nil} /\ r \in Made(t) \cup {Nil}
    /\ Made(t) = sub[t.root] \cup sub[r]
    /\ sub[t.root] \cap sub[r] = {}
    /\ \A n \in Made(t) : t.parent[n] = Nil <=> n \in {t.root, r}

\* The fields a rotation changes.
RotatedFields(t, x, s, u) ==
    LET o == Opposite(s)
        y == t.child[o][x]
        b == t.child[s][y]
        p == t.parent[x]
    IN  /\ u \in Tree
        /\ u.root = IF p = Nil THEN y ELSE t.root
        /\ \A n \in Ptr : u.parent[n] = IF n = y THEN p
                                       ELSE IF n = x THEN y
                                       ELSE IF n = b /\ b # Nil THEN x
                                       ELSE t.parent[n]
        /\ \A d \in Side, n \in Ptr :
             u.child[d][n] = IF n = x /\ d = o THEN b
                             ELSE IF n = y /\ d = s THEN x
                             ELSE IF n = p /\ p # Nil /\ d = SideOf(t, x) THEN y
                             ELSE t.child[d][n]

\* Assigning a parent changes one pointer.
LEMMA SetParentFields ==
  ASSUME NEW t \in Tree, NEW n \in Ptr, NEW p \in AnyPtr
  PROVE  /\ SetParent(t, n, p) \in Tree
         /\ SetParent(t, n, p).root = t.root
         /\ SetParent(t, n, p).color = t.color
         /\ SetParent(t, n, p).child = t.child
         /\ \A m \in Ptr : SetParent(t, n, p).parent[m] = IF m = n THEN p ELSE t.parent[m]
BY DEF SetParent, Tree

\* Assigning a child changes one pointer.
LEMMA SetChildFields ==
  ASSUME NEW t \in Tree, NEW s \in Side, NEW n \in Ptr, NEW c \in AnyPtr
  PROVE  /\ SetChild(t, s, n, c) \in Tree
         /\ SetChild(t, s, n, c).root = t.root
         /\ SetChild(t, s, n, c).color = t.color
         /\ SetChild(t, s, n, c).parent = t.parent
         /\ \A d \in Side, m \in Ptr :
              SetChild(t, s, n, c).child[d][m] = IF m = n /\ d = s THEN c ELSE t.child[d][m]
BY DEF SetChild, Tree

\* Assigning a colour changes one colour.
LEMMA PaintFields ==
  ASSUME NEW t \in Tree, NEW n \in Ptr, NEW c \in Color
  PROVE  /\ Paint(t, n, c) \in Tree
         /\ Paint(t, n, c).root = t.root
         /\ Paint(t, n, c).parent = t.parent
         /\ Paint(t, n, c).child = t.child
         /\ \A m \in Ptr : Paint(t, n, c).color[m] = IF m = n THEN c ELSE t.color[m]
BY DEF Paint, Tree

\* The fields Transplant changes.
LEMMA TransplantFields ==
  ASSUME NEW t \in Tree, NEW n \in Ptr, NEW v \in Ptr, t.parent[n] \in Ptr
  PROVE  LET u == Transplant(t, n, v)
             p == t.parent[n]
         IN  /\ u \in Tree
             /\ u.root = IF p = Nil THEN v ELSE t.root
             /\ u.color = t.color
             /\ \A m \in Ptr : u.parent[m] = IF m = v THEN p ELSE t.parent[m]
             /\ \A d \in Side, m \in Ptr :
                  u.child[d][m] = IF m = p /\ p # Nil /\ d = SideOf(t, n) THEN v
                                  ELSE t.child[d][m]
<1>1. SideOf(t, n) \in Side
  BY DEF SideOf, Side
<1> DEFINE p == t.parent[n]
           t1 == IF p = Nil THEN [t EXCEPT !.root = v]
                 ELSE SetChild(t, SideOf(t, n), p, v)
           u == SetParent(t1, v, p)
<1>2. Transplant(t, n, v) = u
  BY Zenon DEF Transplant
<1>3. /\ t1 \in Tree /\ t1.root = (IF p = Nil THEN v ELSE t.root) /\ t1.color = t.color
      /\ \A m \in Ptr : t1.parent[m] = t.parent[m]
      /\ \A d \in Side, m \in Ptr :
           t1.child[d][m] = IF m = p /\ p # Nil /\ d = SideOf(t, n) THEN v ELSE t.child[d][m]
  <2> HIDE DEF p
  <2>1. CASE p = Nil
    BY <2>1 DEF Tree
  <2>2. CASE p # Nil
    <3>1. t1 = SetChild(t, SideOf(t, n), p, v)
      BY <2>2
    <3> HIDE DEF t1
    <3>2. p \in Ptr /\ v \in AnyPtr
      BY DEF p, AnyPtr
    <3> QED BY <1>1, <2>2, <3>1, <3>2, SetChildFields
  <2> QED BY <2>1, <2>2
<1> HIDE DEF t1
<1>4. /\ u \in Tree /\ u.root = t1.root /\ u.color = t1.color /\ u.child = t1.child
      /\ \A m \in Ptr : u.parent[m] = IF m = v THEN p ELSE t1.parent[m]
  BY <1>3, SetParentFields DEF AnyPtr
<1> HIDE DEF u
<1> QED BY <1>2, <1>3, <1>4

\* RotateLeft and RotateRight change the fields RotatedFields lists.
LEMMA RotateFields ==
  ASSUME NEW t, NEW sub, Shape(t, sub), NEW x \in Made(t), NEW s \in Side,
         t.child[Opposite(s)][x] \in Made(t)
  PROVE  RotatedFields(t, x, s, Rotate(t, x, s)) /\ Rotate(t, x, s).color = t.color
<1> DEFINE o == Opposite(s)
           y == t.child[o][x]
           b == t.child[s][y]
           p == t.parent[x]
           t1 == SetChild(t, o, x, b)
           t2 == IF b # Nil THEN SetParent(t1, b, x) ELSE t1
           t3 == Transplant(t2, x, y)
           t4 == SetChild(t3, s, y, x)
           u == SetParent(t4, x, y)
<1>0. Rotate(t, x, s) = u
  BY DEF Rotate
<1> HIDE DEF t1, t2, t3, t4, u
<1>1. /\ o \in Side /\ o # s /\ Side = {s, o}
      /\ x \in Key /\ y \in Key /\ x # Nil /\ y # Nil /\ x # y /\ b # x /\ b # y /\ b \in Ptr
      /\ p # x /\ p # y /\ p \in Ptr
      /\ x \in Ptr /\ y \in Ptr /\ x \in AnyPtr /\ y \in AnyPtr /\ b \in AnyPtr
  <2>1. o \in Side /\ o # s /\ Side = {s, o}
    BY SideFacts
  <2>2. x \in Key /\ y \in Key /\ x # Nil /\ y # Nil /\ x # y /\ b # y /\ b \in Ptr
    BY <2>1, NodeFacts DEF Made, Ptr
  <2>3. b # x
    BY <2>1, <2>2, NodeFacts, SubtreeNodes
  <2>4. p \in Ptr /\ p # x
    <3>1. p \in Made(t) \cup {Nil}
      BY DEF Shape, LinksOK
    <3> QED BY <2>2, <3>1, SideOfNode DEF Made, Ptr
  <2>5. p # y
    <3>1. SUFFICES ASSUME p = y PROVE FALSE
      OBVIOUS
    <3>2. t.child[SideOf(t, x)][y] = x /\ SideOf(t, x) \in Side
      BY <2>2, <3>1, SideOfNode
    <3>3. x \in sub[y]
      BY <3>2, NodeFacts
    <3> QED BY <3>3, <2>1, NodeFacts
  <2> QED BY <2>1, <2>2, <2>3, <2>4, <2>5 DEF Ptr, AnyPtr
<1>2. t \in Tree
  BY DEF Shape
<1>a. /\ x \in Ptr /\ y \in Ptr /\ x \in AnyPtr /\ y \in AnyPtr /\ b \in AnyPtr /\ b \in Ptr
      /\ o \in Side /\ s \in Side
  BY <1>1
<1> HIDE DEF o, y, b, p
<1>3. /\ t1 \in Tree /\ t1.root = t.root /\ t1.color = t.color /\ t1.parent = t.parent
      /\ \A d \in Side, n \in Ptr : t1.child[d][n] = IF n = x /\ d = o THEN b ELSE t.child[d][n]
  BY <1>a, <1>2, SetChildFields DEF t1
<1>4. /\ t2 \in Tree /\ t2.root = t.root /\ t2.color = t.color /\ t2.child = t1.child
      /\ \A n \in Ptr : t2.parent[n] = IF n = b /\ b # Nil THEN x ELSE t.parent[n]
  <2>1. CASE b = Nil
    BY <1>3, <2>1 DEF t2
  <2>2. CASE b # Nil
    <3>1. t1 \in Tree /\ b \in Ptr /\ x \in AnyPtr
      BY <1>1, <1>3
    <3>2. t2 = SetParent(t1, b, x)
      BY <2>2 DEF t2
    <3> QED BY <3>1, <3>2, <2>2, <1>3, SetParentFields
  <2> QED BY <2>1, <2>2
<1>5. SideOf(t2, x) = SideOf(t, x) /\ t2.parent[x] = p
  BY <1>1, <1>3, <1>4 DEF SideOf, Side, Ptr, p
<1>6. /\ t3 \in Tree /\ t3.root = (IF p = Nil THEN y ELSE t.root) /\ t3.color = t.color
      /\ \A n \in Ptr : t3.parent[n] = IF n = y THEN p ELSE t2.parent[n]
      /\ \A d \in Side, n \in Ptr :
           t3.child[d][n] = IF n = p /\ p # Nil /\ d = SideOf(t, x) THEN y ELSE t2.child[d][n]
  BY <1>1, <1>4, <1>5, TransplantFields DEF t3
<1>7. /\ t4 \in Tree /\ t4.root = t3.root /\ t4.color = t3.color /\ t4.parent = t3.parent
      /\ \A d \in Side, n \in Ptr : t4.child[d][n] = IF n = y /\ d = s THEN x ELSE t3.child[d][n]
  BY <1>a, <1>6, SetChildFields DEF t4
<1>8. /\ u \in Tree /\ u.root = t4.root /\ u.color = t4.color /\ u.child = t4.child
      /\ \A n \in Ptr : u.parent[n] = IF n = x THEN y ELSE t4.parent[n]
  <2>1. t4 \in Tree /\ x \in Ptr /\ y \in AnyPtr
    BY <1>1, <1>7
  <2> QED BY <2>1, SetParentFields DEF u
<1>9. RotatedFields(t, x, s, u)
  BY <1>1, <1>3, <1>4, <1>6, <1>7, <1>8 DEF RotatedFields, o, y, b, p
<1>10. u.color = t.color
  BY <1>3, <1>4, <1>6, <1>7, <1>8
<1> QED BY <1>0, <1>9, <1>10

\* The subtrees after a rotation.
RotatedSub(t, sub, x, s) ==
    LET y == t.child[Opposite(s)][x]
    IN  [n \in Ptr |-> IF n = x THEN {x} \cup sub[t.child[s][x]] \cup sub[t.child[s][y]]
                       ELSE IF n = y THEN sub[x]
                       ELSE sub[n]]

\* The nodes around a rotation are different ones.
LEMMA RotationNodes ==
  ASSUME NEW t, NEW sub, Shape(t, sub), NEW x \in Made(t), NEW s \in Side,
         t.child[Opposite(s)][x] \in Made(t)
  PROVE  LET o == Opposite(s)
             y == t.child[o][x]
             a == t.child[s][x]
             b == t.child[s][y]
             c == t.child[o][y]
             p == t.parent[x]
         IN  /\ o \in Side /\ o # s /\ Side = {s, o}
             /\ t.parent[y] = x /\ x # y
             /\ a \in Made(t) \cup {Nil} /\ a # x /\ a # y
             /\ b \in Made(t) \cup {Nil} /\ b # x /\ b # y /\ (b # Nil => t.parent[b] = y)
             /\ c \in Made(t) \cup {Nil} /\ c # x /\ c # y
             /\ p \in Made(t) \cup {Nil} /\ p # x /\ p # y
             /\ sub[x] = {x, y} \cup sub[a] \cup sub[b] \cup sub[c]
             /\ sub[y] = {y} \cup sub[b] \cup sub[c]
             /\ \A m \in sub[a] : Before(s, m, x)
             /\ \A m \in sub[b] : Before(s, x, m) /\ Before(s, m, y)
             /\ \A m \in sub[c] : Before(o, m, y)
             /\ Before(s, x, y)
<1> DEFINE o == Opposite(s)
           y == t.child[o][x]
           a == t.child[s][x]
           b == t.child[s][y]
           c == t.child[o][y]
           p == t.parent[x]
<1>1. o \in Side /\ o # s /\ Side = {s, o} /\ Opposite(o) = s
  BY SideFacts
<1>2. /\ x \in sub[x] /\ y \in sub[y] /\ x # Nil /\ y # Nil /\ x # y /\ t.parent[y] = x
      /\ sub[x] = {x} \cup sub[a] \cup sub[y] /\ x \notin sub[y] /\ x \notin sub[a]
      /\ a \in Made(t) \cup {Nil} /\ a # x /\ a # y
  <2>1. y # Nil
    BY KeyAssumption DEF Made
  <2> QED BY <1>1, <2>1, NodeFacts
<1>3. /\ sub[y] = {y} \cup sub[b] \cup sub[c]
      /\ b \in Made(t) \cup {Nil} /\ b # y /\ (b # Nil => t.parent[b] = y /\ b \in sub[b])
      /\ c \in Made(t) \cup {Nil} /\ c # y /\ (c # Nil => c \in sub[c])
  BY <1>1, NodeFacts
<1>4. b # x /\ c # x
  BY <1>2, <1>3
<1>5. p \in Made(t) \cup {Nil} /\ p # x
  <2>1. p \in Made(t) \cup {Nil}
    BY DEF Shape, LinksOK
  <2> QED BY <1>2, <2>1, SideOfNode
<1>6. p # y
  <2>1. SUFFICES ASSUME p = y PROVE FALSE
    OBVIOUS
  <2>2. t.child[SideOf(t, x)][y] = x /\ SideOf(t, x) \in Side
    BY <1>2, <2>1, SideOfNode
  <2> QED BY <1>1, <1>4, <2>2
<1>7. /\ \A m \in sub[a] : Before(s, m, x)
      /\ \A m \in sub[y] : Before(o, m, x)
      /\ \A m \in sub[b] : Before(s, m, y)
      /\ \A m \in sub[c] : Before(o, m, y)
  BY <1>1 DEF Shape, OrderOK
<1>8. \A m \in sub[y] : Before(s, x, m)
  BY <1>1, <1>7 DEF Before, Opposite, Side
<1> HIDE DEF o, y, a, b, c, p
<1>9. sub[x] = {x, y} \cup sub[a] \cup sub[b] \cup sub[c]
  BY <1>2, <1>3
<1>10. /\ \A m \in sub[b] : Before(s, x, m)
       /\ Before(s, x, y)
  BY <1>2, <1>3, <1>8
<1>11. /\ o \in Side /\ o # s /\ Side = {s, o}
             /\ t.parent[y] = x /\ x # y
             /\ a \in Made(t) \cup {Nil} /\ a # x /\ a # y
             /\ b \in Made(t) \cup {Nil} /\ b # x /\ b # y /\ (b # Nil => t.parent[b] = y)
             /\ c \in Made(t) \cup {Nil} /\ c # x /\ c # y
             /\ p \in Made(t) \cup {Nil} /\ p # x /\ p # y
  BY <1>1, <1>2, <1>3, <1>4, <1>5, <1>6
<1> USE DEF o, y, a, b, c, p
<1> QED BY <1>3, <1>7, <1>9, <1>10, <1>11

\* A rotation keeps both search trees, with the same keys in each, and the nodes.
LEMMA RotateTrees ==
  ASSUME NEW t, NEW r, NEW sub, Trees(t, r, sub), NEW x \in sub[t.root], NEW s \in Side,
         t.child[Opposite(s)][x] # Nil, NEW u, RotatedFields(t, x, s, u)
  PROVE  /\ Trees(u, r, RotatedSub(t, sub, x, s))
         /\ RotatedSub(t, sub, x, s)[u.root] = sub[t.root]
         /\ RotatedSub(t, sub, x, s)[r] = sub[r]
         /\ Made(u) = Made(t)
<1> DEFINE o == Opposite(s)
           y == t.child[o][x]
           a == t.child[s][x]
           b == t.child[s][y]
           c == t.child[o][y]
           p == t.parent[x]
           d == SideOf(t, x)
           sub2 == RotatedSub(t, sub, x, s)
<1>1. Shape(t, sub) /\ x \in Made(t)
  BY DEF Trees
<1>2. y \in Made(t)
  BY <1>1, SideFacts DEF Shape, LinksOK
<1>3. /\ o \in Side /\ o # s /\ Side = {s, o}
      /\ t.parent[y] = x /\ x # y
      /\ a \in Made(t) \cup {Nil} /\ a # x /\ a # y
      /\ b \in Made(t) \cup {Nil} /\ b # x /\ b # y /\ (b # Nil => t.parent[b] = y)
      /\ c \in Made(t) \cup {Nil} /\ c # x /\ c # y
      /\ p \in Made(t) \cup {Nil} /\ p # x /\ p # y
      /\ sub[x] = {x, y} \cup sub[a] \cup sub[b] \cup sub[c]
      /\ sub[y] = {y} \cup sub[b] \cup sub[c]
      /\ \A m \in sub[a] : Before(s, m, x)
      /\ \A m \in sub[b] : Before(s, x, m) /\ Before(s, m, y)
      /\ \A m \in sub[c] : Before(o, m, y)
      /\ Before(s, x, y)
  BY <1>1, <1>2, RotationNodes
<1>4. p # Nil => d \in Side /\ t.child[d][p] = x /\ t.child[Opposite(d)][p] # x
                 /\ Opposite(d) \in Side /\ Side = {d, Opposite(d)}
  BY <1>1, SideOfNode, SideFacts
<1>5. /\ Made(t) \subseteq Key /\ Made(t) \subseteq Ptr /\ Nil \in Ptr /\ Nil \notin Key
      /\ Dangling \notin Ptr
  BY KeyAssumption DEF Made, Ptr
<1>6. /\ u \in Tree
      /\ u.root = IF p = Nil THEN y ELSE t.root
      /\ \A n \in Ptr : u.parent[n] = IF n = y THEN p
                                     ELSE IF n = x THEN y
                                     ELSE IF n = b /\ b # Nil THEN x
                                     ELSE t.parent[n]
      /\ \A e \in Side, n \in Ptr :
           u.child[e][n] = IF n = x /\ e = o THEN b
                           ELSE IF n = y /\ e = s THEN x
                           ELSE IF n = p /\ p # Nil /\ e = d THEN y
                           ELSE t.child[e][n]
  BY DEF RotatedFields
<1>7. /\ sub2 \in [Ptr -> SUBSET Key]
      /\ \A n \in Ptr : sub2[n] = IF n = x THEN {x} \cup sub[a] \cup sub[b]
                                  ELSE IF n = y THEN sub[x]
                                  ELSE sub[n]
  <2>1. sub \in [Ptr -> SUBSET Key] /\ a \in Ptr /\ b \in Ptr /\ x \in Ptr
    BY <1>1, <1>3, <1>5 DEF Shape
  <2> QED BY <2>1, <1>1, <1>5 DEF RotatedSub
<1> HIDE DEF o, y, a, b, c, p, d, sub2
<1>8. Made(u) = Made(t)
  BY <1>1, <1>2, <1>3, <1>5, <1>6 DEF Made, Ptr
<1>9. ASSUME NEW n \in Made(t)
      PROVE  LinksOK(u, n)
  <2>1. /\ t.parent[n] \in Made(t) \cup {Nil}
        /\ t.parent[n] # Nil => \E e \in Side : t.child[e][t.parent[n]] = n
        /\ \A e \in Side : /\ t.child[e][n] \in Made(t) \cup {Nil}
                           /\ t.child[e][n] # Nil => t.parent[t.child[e][n]] = n
    BY <1>1 DEF Shape, LinksOK
  <2>2. u.parent[n] \in Made(t) \cup {Nil}
    BY <2>1, <1>1, <1>2, <1>3, <1>5, <1>6
  <2>3. u.parent[n] # Nil => \E e \in Side : u.child[e][u.parent[n]] = n
    <3>1. CASE n = y
      BY <3>1, <1>3, <1>4, <1>5, <1>6
    <3>2. CASE n = x
      BY <3>2, <1>1, <1>2, <1>3, <1>5, <1>6
    <3>3. CASE n = b
      BY <3>3, <1>1, <1>2, <1>3, <1>5, <1>6
    <3>4. CASE n \notin {x, y, b} /\ t.parent[n] # Nil
      <4>1. PICK e \in Side : t.child[e][t.parent[n]] = n
        BY <3>4, <2>1
      <4>2. u.parent[n] = t.parent[n]
        BY <3>4, <1>5, <1>6
      <4>3. ~(t.parent[n] = x /\ e = o) /\ ~(t.parent[n] = y /\ e = s)
            /\ ~(t.parent[n] = p /\ p # Nil /\ e = d)
        BY <3>4, <4>1, <1>4 DEF y, b
      <4>4. u.child[e][t.parent[n]] = n
        BY <4>1, <4>3, <2>1, <1>5, <1>6
      <4> QED BY <4>2, <4>4
    <3>5. CASE n \notin {x, y, b} /\ t.parent[n] = Nil
      BY <3>5, <1>5, <1>6
    <3> QED BY <3>1, <3>2, <3>3, <3>4, <3>5
  <2>4. ASSUME NEW e \in Side
        PROVE  /\ u.child[e][n] \in Made(t) \cup {Nil}
               /\ u.child[e][n] # Nil => u.parent[u.child[e][n]] = n
    <3>1. CASE n = x /\ e = o
      BY <3>1, <1>3, <1>5, <1>6
    <3>2. CASE n = y /\ e = s
      BY <3>2, <1>1, <1>3, <1>5, <1>6
    <3>3. CASE n = p /\ e = d
      BY <3>3, <1>2, <1>3, <1>5, <1>6
    <3>4. CASE ~(n = x /\ e = o) /\ ~(n = y /\ e = s) /\ ~(n = p /\ e = d)
      <4>1. u.child[e][n] = t.child[e][n]
        BY <3>4, <1>5, <1>6
      <4>2. t.child[e][n] # Nil => t.child[e][n] # x /\ t.child[e][n] # y /\ t.child[e][n] # b
        <5>1. t.child[e][n] = x => n = p /\ e = d
          BY <2>1, <1>1, <1>4, <1>5, <1>3 DEF p
        <5>2. t.child[e][n] = y => n = x /\ (e = s => a = y)
          BY <2>1, <1>3, <1>2, <1>5 DEF a
        <5>3. t.child[e][n] = b /\ b # Nil => n = y
          BY <2>1, <1>3
        <5>4. n = y /\ b # Nil /\ e = o => t.child[e][n] # b
          BY <1>1, <1>2, <1>3, NodeFacts, SideFacts DEF b, o
        <5> QED BY <5>1, <5>2, <5>3, <5>4, <3>4, <1>3
      <4> QED BY <4>1, <4>2, <2>1, <1>5, <1>6
    <3> QED BY <3>1, <3>2, <3>3, <3>4
  <2> QED BY <2>2, <2>3, <2>4, <1>8 DEF LinksOK
<1>10. ASSUME NEW n \in Made(t)
       PROVE  OrderOK(u, sub2, n)
  <2>1. /\ sub[n] = {n} \cup sub[t.child["left"][n]] \cup sub[t.child["right"][n]]
        /\ \A e \in Side : \A m \in sub[t.child[e][n]] : Before(e, m, n)
        /\ \A e \in Side : t.child[e][n] \in Made(t) \cup {Nil}
        /\ \A e \in Side : t.child[e][n] # Nil => t.parent[t.child[e][n]] = n
    BY <1>1 DEF Shape, OrderOK, LinksOK
  <2>2. CASE n = x
    <3>1. u.child[s][n] = a /\ u.child[o][n] = b
      BY <2>2, <1>1, <1>3, <1>5, <1>6 DEF a
    <3>2. sub2[a] = sub[a] /\ sub2[b] = sub[b] /\ sub2[n] = {n} \cup sub[a] \cup sub[b]
      BY <2>2, <1>1, <1>3, <1>5, <1>7
    <3>3. \A m \in sub[b] : Before(o, m, x)
      BY <1>3 DEF Before, o, Opposite, Side
    <3> QED BY <2>2, <3>1, <3>2, <3>3, <1>3 DEF OrderOK, Side
  <2>3. CASE n = y
    <3>1. u.child[s][n] = x /\ u.child[o][n] = c
      BY <2>3, <1>2, <1>3, <1>5, <1>6 DEF c
    <3>2. sub2[x] = {x} \cup sub[a] \cup sub[b] /\ sub2[c] = sub[c] /\ sub2[n] = sub[x]
      BY <2>3, <1>1, <1>2, <1>3, <1>5, <1>7
    <3>3. \A m \in {x} \cup sub[a] \cup sub[b] : Before(s, m, y)
      <4>1. x \in Int /\ y \in Int /\ \A m \in sub[a] : m \in Int
        BY <1>1, <1>2, <1>3, <1>5, KeyAssumption DEF Shape
      <4>2. \A m \in sub[a] : Before(s, m, y)
        BY <4>1, <1>3 DEF Before
      <4> QED BY <4>2, <1>3
    <3> QED BY <2>3, <3>1, <3>2, <3>3, <1>3 DEF OrderOK, Side
  <2>4. CASE n \notin {x, y}
    <3>1. ASSUME NEW e \in Side
          PROVE  sub2[u.child[e][n]] = sub[t.child[e][n]]
      <4>1. CASE n = p /\ e = d
        BY <4>1, <2>4, <1>1, <1>2, <1>3, <1>4, <1>5, <1>6, <1>7
      <4>2. CASE ~(n = p /\ e = d)
        <5>1. u.child[e][n] = t.child[e][n]
          BY <4>2, <2>4, <1>5, <1>6
        <5>2. t.child[e][n] # x /\ t.child[e][n] # y
          BY <4>2, <2>1, <2>4, <1>1, <1>2, <1>3, <1>4, <1>5 DEF p
        <5> QED BY <5>1, <5>2, <2>1, <1>5, <1>7
      <4> QED BY <4>1, <4>2
    <3>2. sub2[n] = sub[n]
      BY <2>4, <1>5, <1>7
    <3> QED BY <2>1, <3>1, <3>2 DEF OrderOK, Side
  <2> QED BY <2>2, <2>3, <2>4
<1>11. /\ sub2[Nil] = {}
       /\ \A e \in Side : u.child[e][Nil] = Nil
       /\ \A n \in Key \ Made(u) : sub2[n] = {} /\ \A e \in Side : u.child[e][n] = Dangling
  BY <1>1, <1>2, <1>3, <1>5, <1>6, <1>7, <1>8 DEF Shape, Ptr
<1>12. Shape(u, sub2)
  BY <1>6, <1>7, <1>8, <1>9, <1>10, <1>11 DEF Shape
<1>13. /\ t.root \in Made(t) \cup {Nil} /\ r \in Made(t) \cup {Nil}
       /\ Made(t) = sub[t.root] \cup sub[r]
       /\ sub[t.root] \cap sub[r] = {}
       /\ \A n \in Made(t) : t.parent[n] = Nil <=> n \in {t.root, r}
  BY DEF Trees
<1>14. r # x /\ r # y
  <2>1. r # Nil => r \in sub[r]
    BY <1>1, <1>13 DEF Shape, OrderOK
  <2> QED BY <2>1, <1>1, <1>2, <1>3, <1>5, <1>13
<1>15. sub2[r] = sub[r]
  BY <1>5, <1>7, <1>13, <1>14
<1>16. sub2[u.root] = sub[t.root] /\ u.root \in Made(t) \cup {Nil}
  <2>1. CASE p = Nil
    <3>1. t.root = x
      BY <2>1, <1>1, <1>13, <1>14 DEF p
    <3> QED BY <2>1, <3>1, <1>2, <1>3, <1>5, <1>6, <1>7
  <2>2. CASE p # Nil
    <3>1. t.root # x /\ t.root # y
      BY <2>2, <1>1, <1>2, <1>3, <1>5, <1>13 DEF p
    <3> QED BY <2>2, <3>1, <1>5, <1>6, <1>7, <1>13
  <2> QED BY <2>1, <2>2
<1>17. \A n \in Made(t) : u.parent[n] = Nil <=> n \in {u.root, r}
  BY <1>1, <1>2, <1>3, <1>5, <1>6, <1>13, <1>14 DEF p
<1>18. Trees(u, r, sub2)
  BY <1>8, <1>12, <1>13, <1>15, <1>16, <1>17 DEF Trees
<1> USE DEF sub2
<1> QED BY <1>8, <1>15, <1>16, <1>18

\* Colours, and the parent of the sentinel, are not part of the shape.
LEMMA SameLinks ==
  ASSUME NEW t, NEW r, NEW sub, Trees(t, r, sub), NEW u \in Tree,
         u.root = t.root, u.child = t.child, \A n \in Key : u.parent[n] = t.parent[n]
  PROVE  Trees(u, r, sub) /\ Made(u) = Made(t)
<1>1. Made(u) = Made(t) /\ Made(t) \subseteq Key
  BY DEF Made
<1>2. Shape(u, sub)
  <2>1. ASSUME NEW n \in Made(t) PROVE LinksOK(u, n)
    <3>1. \A s \in Side : t.child[s][n] # Nil => t.child[s][n] \in Key
      BY <1>1 DEF Trees, Shape, LinksOK
    <3> QED BY <1>1, <3>1 DEF Trees, Shape, LinksOK
  <2>2. ASSUME NEW n \in Made(t) PROVE OrderOK(u, sub, n)
    BY DEF Trees, Shape, OrderOK
  <2> QED BY <1>1, <2>1, <2>2 DEF Trees, Shape
<1> QED BY <1>1, <1>2 DEF Trees

\* The fields Link changes.
LEMMA LinkFields ==
  ASSUME NEW t \in Tree, NEW k \in Key, NEW p \in Key
  PROVE  LET u == Link(t, k, p)
             d == IF k < p THEN "left" ELSE "right"
         IN  /\ u \in Tree
             /\ u.root = t.root
             /\ \A m \in Ptr : u.color[m] = IF m = k THEN "red" ELSE t.color[m]
             /\ \A m \in Ptr : u.parent[m] = IF m = k THEN p ELSE t.parent[m]
             /\ \A e \in Side, m \in Ptr :
                  u.child[e][m] = IF m = p /\ e = d THEN k
                                  ELSE IF m = k THEN Nil
                                  ELSE t.child[e][m]
<1> DEFINE d == IF k < p THEN "left" ELSE "right"
           t1 == SetChild(t, "left", k, Nil)
           t2 == SetChild(t1, "right", k, Nil)
           t3 == SetChild(t2, d, p, k)
           t4 == SetParent(t3, k, p)
           u == Paint(t4, k, "red")
<1>1. Link(t, k, p) = u
  BY DEF Link, Leaf
<1>2. d \in Side /\ "left" \in Side /\ "right" \in Side /\ Side = {"left", "right"}
  BY DEF Side
<1>3. k \in Ptr /\ p \in Ptr /\ k \in AnyPtr /\ p \in AnyPtr /\ Nil \in AnyPtr
  BY DEF Ptr, AnyPtr
<1> HIDE DEF d, t1, t2, t3, t4, u
<1>4. /\ t1 \in Tree /\ t1.root = t.root /\ t1.color = t.color /\ t1.parent = t.parent
      /\ \A e \in Side, m \in Ptr : t1.child[e][m] = IF m = k /\ e = "left" THEN Nil ELSE t.child[e][m]
  <2>1. "left" \in Side /\ k \in Ptr /\ Nil \in AnyPtr
    BY <1>2, <1>3
  <2> QED BY <2>1, SetChildFields DEF t1
<1>5. /\ t2 \in Tree /\ t2.root = t1.root /\ t2.color = t1.color /\ t2.parent = t1.parent
      /\ \A e \in Side, m \in Ptr : t2.child[e][m] = IF m = k /\ e = "right" THEN Nil ELSE t1.child[e][m]
  <2>1. t1 \in Tree /\ "right" \in Side /\ k \in Ptr /\ Nil \in AnyPtr
    BY <1>2, <1>3, <1>4
  <2> QED BY <2>1, SetChildFields DEF t2
<1>6. /\ t3 \in Tree /\ t3.root = t2.root /\ t3.color = t2.color /\ t3.parent = t2.parent
      /\ \A e \in Side, m \in Ptr : t3.child[e][m] = IF m = p /\ e = d THEN k ELSE t2.child[e][m]
  <2>1. t2 \in Tree /\ d \in Side /\ p \in Ptr /\ k \in AnyPtr
    BY <1>2, <1>3, <1>5
  <2> QED BY <2>1, SetChildFields DEF t3
<1>7. /\ t4 \in Tree /\ t4.root = t3.root /\ t4.color = t3.color /\ t4.child = t3.child
      /\ \A m \in Ptr : t4.parent[m] = IF m = k THEN p ELSE t3.parent[m]
  <2>1. t3 \in Tree /\ k \in Ptr /\ p \in AnyPtr
    BY <1>3, <1>6
  <2> QED BY <2>1, SetParentFields DEF t4
<1>8. /\ u \in Tree /\ u.root = t4.root /\ u.parent = t4.parent /\ u.child = t4.child
      /\ \A m \in Ptr : u.color[m] = IF m = k THEN "red" ELSE t4.color[m]
  <2>1. t4 \in Tree /\ k \in Ptr /\ "red" \in Color
    BY <1>3, <1>7 DEF Color
  <2> QED BY <2>1, PaintFields DEF u
<1>9. \A e \in Side, m \in Ptr : u.child[e][m] = IF m = p /\ e = d THEN k
                                                 ELSE IF m = k THEN Nil
                                                 ELSE t.child[e][m]
  BY <1>2, <1>4, <1>5, <1>6, <1>7, <1>8
<1> QED BY <1>1, <1>4, <1>5, <1>6, <1>7, <1>8, <1>9 DEF d

\* The subtrees once k hangs from p.
LinkedSub(sub, k, p) ==
    [n \in Ptr |-> IF n = k THEN {k}
                   ELSE IF p \in sub[n] THEN sub[n] \cup {k}
                   ELSE sub[n]]

\* A key hung from its neighbour in the order.
LEMMA LinkTrees ==
  ASSUME NEW t, NEW r, NEW sub, Trees(t, r, sub), NEW k \in Key \ Made(t),
         NEW p \in sub[t.root],
         t.child[IF k < p THEN "left" ELSE "right"][p] = Nil,
         \A j \in sub[t.root] : ~(p < j /\ j < k) /\ ~(k < j /\ j < p)
  PROVE  /\ Trees(Link(t, k, p), r, LinkedSub(sub, k, p))
         /\ LinkedSub(sub, k, p)[t.root] = sub[t.root] \cup {k}
         /\ LinkedSub(sub, k, p)[r] = sub[r]
         /\ Made(Link(t, k, p)) = Made(t) \cup {k}
<1> DEFINE u == Link(t, k, p)
           d == IF k < p THEN "left" ELSE "right"
           sub2 == LinkedSub(sub, k, p)
<1>1. Shape(t, sub) /\ p \in Made(t) /\ p \in Key /\ k \in Ptr /\ p \in Ptr /\ k # p
  BY DEF Trees, Made, Ptr
<1>2. /\ u \in Tree
      /\ u.root = t.root
      /\ \A m \in Ptr : u.parent[m] = IF m = k THEN p ELSE t.parent[m]
      /\ \A e \in Side, m \in Ptr :
           u.child[e][m] = IF m = p /\ e = d THEN k
                           ELSE IF m = k THEN Nil
                           ELSE t.child[e][m]
  <2>1. t \in Tree
    BY <1>1 DEF Shape
  <2> QED BY <2>1, <1>1, LinkFields
<1>3. d \in Side /\ t.child[d][p] = Nil
  BY DEF Side
<1>4. /\ sub2 \in [Ptr -> SUBSET Key]
      /\ \A n \in Ptr : sub2[n] = IF n = k THEN {k}
                                  ELSE IF p \in sub[n] THEN sub[n] \cup {k}
                                  ELSE sub[n]
  <2>1. sub \in [Ptr -> SUBSET Key]
    BY <1>1 DEF Shape
  <2> QED BY <2>1, <1>1 DEF LinkedSub
<1>5. /\ Nil \notin Key /\ Dangling \notin Ptr /\ Nil \in Ptr /\ Key \subseteq Int
      /\ Made(t) \subseteq Key /\ Made(t) \subseteq Ptr
  BY KeyAssumption DEF Ptr, Made
<1>6. d = (IF k < p THEN "left" ELSE "right")
  OBVIOUS
<1> HIDE DEF u, d, sub2
<1>7. Made(u) = Made(t) \cup {k}
  <2>1. Key \subseteq Ptr /\ p # Dangling
    BY <1>1, <1>5 DEF Ptr
  <2>2. \A n \in Key : u.parent[n] = IF n = k THEN p ELSE t.parent[n]
    BY <1>2, <2>1
  <2> QED BY <2>1, <2>2 DEF Made
<1>8. ASSUME NEW n \in Made(t) \cup {k}
      PROVE  LinksOK(u, n)
  <2>1. CASE n = k
    BY <2>1, <1>1, <1>2, <1>3, <1>5, <1>7 DEF LinksOK
  <2>2. CASE n # k
    <3>1. n \in Made(t)
      BY <2>2
    <3>2. /\ t.parent[n] \in Made(t) \cup {Nil}
          /\ t.parent[n] # Nil => \E e \in Side : t.child[e][t.parent[n]] = n
          /\ \A e \in Side : /\ t.child[e][n] \in Made(t) \cup {Nil}
                             /\ t.child[e][n] # Nil => t.parent[t.child[e][n]] = n
      BY <1>1, <3>1 DEF Shape, LinksOK
    <3>3. u.parent[n] = t.parent[n]
      BY <1>2, <1>5, <2>2, <3>1
    <3>4. t.parent[n] # Nil => \E e \in Side : u.child[e][t.parent[n]] = n
      BY <1>2, <1>3, <1>5, <3>1, <3>2
    <3>5. ASSUME NEW e \in Side
          PROVE  /\ u.child[e][n] \in Made(u) \cup {Nil}
                 /\ u.child[e][n] # Nil => u.parent[u.child[e][n]] = n
      <4>1. CASE n = p /\ e = d
        BY <4>1, <1>1, <1>2, <1>7
      <4>2. CASE ~(n = p /\ e = d)
        <5>1. u.child[e][n] = t.child[e][n] /\ t.child[e][n] # k
          BY <4>2, <1>2, <1>5, <2>2, <3>1, <3>2
        <5> QED BY <5>1, <1>2, <1>5, <1>7, <3>2
      <4> QED BY <4>1, <4>2
    <3> QED BY <3>2, <3>3, <3>4, <3>5, <1>7 DEF LinksOK
  <2> QED BY <2>1, <2>2
<1>9. ASSUME NEW n \in Made(t), n # p, p \in sub[n], NEW e \in Side, p \in sub[t.child[e][n]]
      PROVE  Before(e, k, n)
  <2>1. Before(e, p, n)
    BY <1>1, <1>9 DEF Shape, OrderOK
  <2>2. n \in sub[t.root]
    <3>1. n \in sub[t.root] \/ n \in sub[r]
      BY DEF Trees
    <3>2. n \in sub[r] => p \in sub[r]
      <4>1. r # Nil => r \in Made(t)
        BY DEF Trees
      <4>2. r = Nil => sub[r] = {}
        BY <1>1 DEF Shape
      <4> QED BY <4>1, <4>2, <1>1, <1>9, SubtreeNodes
    <3> QED BY <3>1, <3>2 DEF Trees
  <2>3. n # k /\ n \in Int /\ k \in Int /\ p \in Int
    BY <1>1, <1>5
  <2> QED BY <2>1, <2>2, <2>3 DEF Before
<1>10. ASSUME NEW n \in Made(t) \cup {k}
       PROVE  OrderOK(u, sub2, n)
  <2>1. CASE n = k
    <3>1. sub[Nil] = {}
      BY <1>1 DEF Shape
    <3>2. sub2[Nil] = {} /\ \A e \in Side : u.child[e][n] = Nil
      BY <2>1, <3>1, <1>1, <1>2, <1>4, <1>5
    <3> QED BY <2>1, <3>2, <1>1, <1>4 DEF OrderOK, Side
  <2>2. CASE n = p
    <3>1. PICK e \in Side : Side = {d, e} /\ e # d
      BY <1>3, SideFacts
    <3>2. /\ sub[n] = {n} \cup sub[Nil] \cup sub[t.child[e][n]]
          /\ n \notin sub[t.child[e][n]] /\ t.child[e][n] \in Made(t) \cup {Nil}
          /\ \A m \in sub[t.child[e][n]] : Before(e, m, n)
      BY <2>2, <3>1, <1>1, <1>3, NodeFacts, SideFacts DEF Shape, OrderOK
    <3>3. u.child[d][n] = k /\ u.child[e][n] = t.child[e][n]
      BY <2>2, <3>1, <1>1, <1>2, <1>3
    <3>4. t.child[e][n] \in Ptr /\ t.child[e][n] # k
      BY <3>2, <1>5
    <3>5. sub2[k] = {k} /\ sub2[t.child[e][n]] = sub[t.child[e][n]] /\ sub2[n] = sub[n] \cup {k}
      BY <2>2, <3>2, <3>4, <1>1, <1>4
    <3>6. sub[Nil] = {}
      BY <1>1 DEF Shape
    <3>7. Before(d, k, n)
      BY <2>2, <1>1, <1>5, <1>6 DEF Before
    <3> QED BY <3>1, <3>2, <3>3, <3>5, <3>6, <3>7, <2>2 DEF OrderOK, Side
  <2>3. CASE n \notin {k, p}
    <3>1. n \in Made(t)
      BY <2>3
    <3>2. /\ sub[n] = {n} \cup sub[t.child["left"][n]] \cup sub[t.child["right"][n]]
          /\ \A e \in Side : \A m \in sub[t.child[e][n]] : Before(e, m, n)
          /\ \A e \in Side : t.child[e][n] \in Made(t) \cup {Nil}
      BY <1>1, <3>1 DEF Shape, OrderOK, LinksOK
    <3>3. ASSUME NEW e \in Side
          PROVE  /\ u.child[e][n] = t.child[e][n]
                 /\ sub2[u.child[e][n]] = IF p \in sub[t.child[e][n]]
                                          THEN sub[t.child[e][n]] \cup {k} ELSE sub[t.child[e][n]]
      <4>1. n \in Ptr /\ t.child[e][n] \in Ptr /\ t.child[e][n] # k
        BY <3>1, <3>2, <1>5
      <4>2. u.child[e][n] = t.child[e][n]
        BY <4>1, <2>3, <1>2
      <4> QED BY <4>1, <4>2, <1>4
    <3>4. sub2[n] = IF p \in sub[n] THEN sub[n] \cup {k} ELSE sub[n]
      BY <2>3, <3>1, <1>4, <1>5
    <3>5. \A e \in Side : p \in sub[t.child[e][n]] => p \in sub[n] /\ Before(e, k, n)
      BY <1>9, <2>3, <3>1, <3>2 DEF Side
    <3> QED BY <2>3, <3>2, <3>3, <3>4, <3>5 DEF OrderOK, Side
  <2> QED BY <2>1, <2>2, <2>3
<1>11. /\ sub2[Nil] = {}
       /\ \A e \in Side : u.child[e][Nil] = Nil
       /\ \A n \in Key \ Made(u) : sub2[n] = {} /\ \A e \in Side : u.child[e][n] = Dangling
  <2>1. /\ sub[Nil] = {} /\ \A e \in Side : t.child[e][Nil] = Nil
        /\ \A n \in Key \ Made(t) : sub[n] = {} /\ \A e \in Side : t.child[e][n] = Dangling
    BY <1>1 DEF Shape
  <2>2. Nil \in Ptr /\ Nil # p /\ Nil # k
    BY <1>1, <1>5
  <2>3. \A e \in Side : u.child[e][Nil] = Nil
    BY <2>1, <2>2, <1>2
  <2>4. sub2[Nil] = {}
    BY <2>1, <2>2, <1>4
  <2>5. ASSUME NEW n \in Key \ Made(u)
        PROVE  sub2[n] = {} /\ \A e \in Side : u.child[e][n] = Dangling
    <3>1. n \in Ptr /\ n # p /\ n # k /\ n \in Key \ Made(t)
      BY <1>1, <1>7 DEF Ptr
    <3> QED BY <3>1, <2>1, <1>2, <1>4
  <2> QED BY <2>3, <2>4, <2>5
<1>12. Shape(u, sub2)
  BY <1>2, <1>4, <1>7, <1>8, <1>10, <1>11 DEF Shape
<1>13. /\ t.root \in Made(t) \cup {Nil} /\ r \in Made(t) \cup {Nil}
       /\ Made(t) = sub[t.root] \cup sub[r]
       /\ sub[t.root] \cap sub[r] = {}
       /\ \A n \in Made(t) : t.parent[n] = Nil <=> n \in {t.root, r}
  BY DEF Trees
<1>14. sub2[t.root] = sub[t.root] \cup {k} /\ sub2[r] = sub[r]
  BY <1>4, <1>5, <1>13
<1>15. \A n \in Made(u) : u.parent[n] = Nil <=> n \in {u.root, r}
  BY <1>1, <1>2, <1>5, <1>7, <1>13
<1>16. Trees(u, r, sub2)
  BY <1>2, <1>7, <1>12, <1>13, <1>14, <1>15 DEF Trees
<1> USE DEF u, sub2
<1> QED BY <1>7, <1>14, <1>16

\* The fields of deleted nodes.
LEMMA UnmadeFields ==
  ASSUME NEW t \in Tree, NEW S \in SUBSET Key
  PROVE  LET u == Unmade(t, S)
         IN  /\ u \in Tree
             /\ u.root = t.root
             /\ \A m \in Ptr : u.color[m] = IF m \in S THEN "red" ELSE t.color[m]
             /\ \A m \in Ptr : u.parent[m] = IF m \in S THEN Dangling ELSE t.parent[m]
             /\ \A d \in Side, m \in Ptr :
                  u.child[d][m] = IF m \in S THEN Dangling ELSE t.child[d][m]
<1> DEFINE col == [m \in Ptr |-> IF m \in S THEN "red" ELSE t.color[m]]
           par == [m \in Ptr |-> IF m \in S THEN Dangling ELSE t.parent[m]]
           chi == [d \in Side |-> [m \in Ptr |-> IF m \in S THEN Dangling ELSE t.child[d][m]]]
<1>1. /\ col \in [Ptr -> Color] /\ par \in [Ptr -> AnyPtr]
      /\ chi \in [Side -> [Ptr -> AnyPtr]]
  BY DEF Tree, AnyPtr, Color
<1>2. Unmade(t, S) = [t EXCEPT !.color = col, !.parent = par, !.child = chi]
  BY DEF Unmade
<1> HIDE DEF col, par, chi
<1>3. /\ Unmade(t, S) \in Tree /\ Unmade(t, S).root = t.root /\ Unmade(t, S).color = col
      /\ Unmade(t, S).parent = par /\ Unmade(t, S).child = chi
  BY <1>1, <1>2 DEF Tree
<1> QED BY <1>3 DEF col, par, chi

\* The fields of a tree from which a node with one child, or none, is cut out.
SplicedFields(t, n, z, u) ==
    LET p == t.parent[n]
    IN  /\ u \in Tree
        /\ u.root = IF p = Nil THEN z ELSE t.root
        /\ \A m \in Ptr : u.color[m] = IF m = n THEN "red" ELSE t.color[m]
        /\ \A m \in Ptr : u.parent[m] = IF m = n THEN Dangling
                                       ELSE IF m = z THEN p ELSE t.parent[m]
        /\ \A d \in Side, m \in Ptr :
             u.child[d][m] = IF m = n THEN Dangling
                             ELSE IF m = p /\ p # Nil /\ d = SideOf(t, n) THEN z
                             ELSE t.child[d][m]

\* RemoveOne's first two cases, where z takes the place of n and n is deleted.
LEMMA SpliceFields ==
  ASSUME NEW t, NEW sub, Shape(t, sub), NEW n \in Made(t), NEW z \in Ptr
  PROVE  SplicedFields(t, n, z, Unmade(Transplant(t, n, z), {n}))
<1> DEFINE t1 == Transplant(t, n, z)
           u == Unmade(t1, {n})
<1>1. t \in Tree /\ n \in Key /\ n \in Ptr /\ t.parent[n] \in Ptr
  BY DEF Shape, LinksOK, Made, Ptr
<1>2. /\ t1 \in Tree
      /\ t1.root = IF t.parent[n] = Nil THEN z ELSE t.root
      /\ t1.color = t.color
      /\ \A m \in Ptr : t1.parent[m] = IF m = z THEN t.parent[n] ELSE t.parent[m]
      /\ \A d \in Side, m \in Ptr :
           t1.child[d][m] = IF m = t.parent[n] /\ t.parent[n] # Nil /\ d = SideOf(t, n) THEN z
                            ELSE t.child[d][m]
  BY <1>1, TransplantFields
<1> HIDE DEF t1
<1>3. /\ u \in Tree
      /\ u.root = t1.root
      /\ \A m \in Ptr : u.color[m] = IF m \in {n} THEN "red" ELSE t1.color[m]
      /\ \A m \in Ptr : u.parent[m] = IF m \in {n} THEN Dangling ELSE t1.parent[m]
      /\ \A d \in Side, m \in Ptr :
           u.child[d][m] = IF m \in {n} THEN Dangling ELSE t1.child[d][m]
  BY <1>1, <1>2, UnmadeFields
<1> HIDE DEF u
<1>4. SplicedFields(t, n, z, u)
  BY <1>2, <1>3 DEF SplicedFields
<1> USE DEF u, t1
<1> QED BY <1>4

\* The subtrees without n.
CutSub(sub, n) == [m \in Ptr |-> IF m = n THEN {} ELSE sub[m] \ {n}]

\* A node that lacks a child is cut out: the trees are search trees without it.
LEMMA SpliceTrees ==
  ASSUME NEW t, NEW r, NEW sub, Trees(t, r, sub), NEW n \in sub[t.root], NEW s \in Side,
         t.child[s][n] = Nil, NEW z, z = t.child[Opposite(s)][n],
         NEW u, SplicedFields(t, n, z, u)
  PROVE  /\ Trees(u, r, CutSub(sub, n))
         /\ CutSub(sub, n)[u.root] = sub[t.root] \ {n}
         /\ CutSub(sub, n)[r] = sub[r]
         /\ Made(u) = Made(t) \ {n}
<1> DEFINE p == t.parent[n]
           d == SideOf(t, n)
           sub2 == CutSub(sub, n)
<1>1. Shape(t, sub) /\ n \in Made(t)
  BY DEF Trees
<1>2. /\ Nil \notin Key /\ Dangling \notin Ptr /\ Nil \in Ptr /\ Key \subseteq Int /\ Key \subseteq Ptr
      /\ Made(t) \subseteq Key /\ Made(t) \subseteq Ptr
  BY KeyAssumption DEF Ptr, Made
<1>3. /\ z \in Made(t) \cup {Nil} /\ (z # Nil => t.parent[z] = n) /\ z # n
      /\ n \in sub[n] /\ sub[n] = {n} \cup sub[z] /\ n \notin sub[z] /\ sub[Nil] = {}
  BY <1>1, NodeFacts, SideFacts DEF Shape
<1>4. /\ p \in Made(t) \cup {Nil}
      /\ p # Nil => /\ d \in Side /\ t.child[d][p] = n /\ t.child[Opposite(d)][p] # n
                    /\ Opposite(d) \in Side /\ Side = {d, Opposite(d)} /\ p # n
  BY <1>1, SideOfNode, SideFacts DEF Shape, LinksOK
<1>5. /\ u \in Tree
      /\ u.root = IF p = Nil THEN z ELSE t.root
      /\ \A m \in Ptr : u.parent[m] = IF m = n THEN Dangling
                                     ELSE IF m = z THEN p ELSE t.parent[m]
      /\ \A e \in Side, m \in Ptr :
           u.child[e][m] = IF m = n THEN Dangling
                           ELSE IF m = p /\ p # Nil /\ e = d THEN z
                           ELSE t.child[e][m]
  BY DEF SplicedFields
<1>6. /\ sub2 \in [Ptr -> SUBSET Key]
      /\ \A m \in Ptr : sub2[m] = IF m = n THEN {} ELSE sub[m] \ {n}
  <2>1. sub \in [Ptr -> SUBSET Key]
    BY <1>1 DEF Shape
  <2> QED BY <2>1 DEF CutSub
<1>7. p # Nil => p # z
  <2>1. SUFFICES ASSUME p = z, z # Nil PROVE FALSE
    OBVIOUS
  <2>2. n \in sub[z]
    BY <2>1, <1>1, <1>3, <1>4, NodeFacts
  <2> QED BY <2>2, <1>3
<1> HIDE DEF p, d, sub2
<1>8. Made(u) = Made(t) \ {n}
  <2>1. \A m \in Key : u.parent[m] = IF m = n THEN Dangling
                                     ELSE IF m = z THEN p ELSE t.parent[m]
    BY <1>2, <1>5
  <2>2. p # Dangling
    BY <1>2, <1>4
  <2> QED BY <2>1, <2>2, <1>2, <1>3 DEF Made
<1>9. ASSUME NEW m \in Made(t), m # n
      PROVE  LinksOK(u, m)
  <2>1. /\ t.parent[m] \in Made(t) \cup {Nil}
        /\ t.parent[m] # Nil => \E e \in Side : t.child[e][t.parent[m]] = m
        /\ \A e \in Side : /\ t.child[e][m] \in Made(t) \cup {Nil}
                           /\ t.child[e][m] # Nil => t.parent[t.child[e][m]] = m
    BY <1>1 DEF Shape, LinksOK
  <2>2. u.parent[m] = IF m = z THEN p ELSE t.parent[m]
    BY <1>2, <1>5, <1>9
  <2>3. u.parent[m] \in Made(u) \cup {Nil} /\ (u.parent[m] # Nil => \E e \in Side : u.child[e][u.parent[m]] = m)
    <3>1. CASE m = z
      BY <3>1, <2>2, <1>2, <1>4, <1>5, <1>8
    <3>2. CASE m # z /\ t.parent[m] # Nil
      <4>1. PICK e \in Side : t.child[e][t.parent[m]] = m
        BY <3>2, <2>1
      <4>2. t.parent[m] # n
        <5>1. t.parent[m] = n => t.child[s][n] = m \/ t.child[Opposite(s)][n] = m
          BY <4>1, SideFacts
        <5> QED BY <5>1, <3>2, <1>2
      <4>3. ~(t.parent[m] = p /\ e = d)
        BY <4>1, <3>2, <1>4, <1>9
      <4>4. t.parent[m] \in Ptr /\ t.parent[m] \in Made(u)
        BY <3>2, <4>2, <2>1, <1>2, <1>8
      <4>5. u.child[e][t.parent[m]] = m
        BY <4>1, <4>2, <4>3, <4>4, <1>5
      <4> QED BY <3>2, <4>4, <4>5, <2>2
    <3>3. CASE m # z /\ t.parent[m] = Nil
      BY <3>3, <2>2
    <3> QED BY <3>1, <3>2, <3>3
  <2>4. ASSUME NEW e \in Side
        PROVE  /\ u.child[e][m] \in Made(u) \cup {Nil}
               /\ u.child[e][m] # Nil => u.parent[u.child[e][m]] = m
    <3>1. CASE m = p /\ e = d
      <4>1. u.child[e][m] = z
        BY <3>1, <1>2, <1>5, <1>9
      <4> QED BY <4>1, <3>1, <1>2, <1>3, <1>5, <1>8
    <3>2. CASE ~(m = p /\ e = d)
      <4>1. u.child[e][m] = t.child[e][m]
        BY <3>2, <1>2, <1>5, <1>9
      <4>2. t.child[e][m] # n
        <5> SUFFICES ASSUME t.child[e][m] = n PROVE FALSE
          OBVIOUS
        <5>1. m = p /\ m # Nil
          BY <2>1, <1>1, <1>2 DEF p
        <5> QED BY <5>1, <3>2, <1>4
      <4>3. t.child[e][m] # Nil => t.child[e][m] # z
        BY <2>1, <1>3, <1>9
      <4>4. t.child[e][m] \in Made(u) \cup {Nil} /\ t.child[e][m] \in Ptr
        BY <4>2, <2>1, <1>2, <1>8
      <4>5. t.child[e][m] # Nil => u.parent[t.child[e][m]] = t.parent[t.child[e][m]]
        BY <4>2, <4>3, <4>4, <1>5
      <4> QED BY <4>1, <4>4, <4>5, <2>1
    <3> QED BY <3>1, <3>2
  <2> QED BY <2>3, <2>4 DEF LinksOK
<1>10. ASSUME NEW m \in Made(t), m # n
       PROVE  OrderOK(u, sub2, m)
  <2>1. /\ sub[m] = {m} \cup sub[t.child["left"][m]] \cup sub[t.child["right"][m]]
        /\ \A e \in Side : \A j \in sub[t.child[e][m]] : Before(e, j, m)
        /\ \A e \in Side : /\ t.child[e][m] \in Made(t) \cup {Nil}
                           /\ t.child[e][m] # Nil => t.parent[t.child[e][m]] = m
    BY <1>1 DEF Shape, OrderOK, LinksOK
  <2>2. ASSUME NEW e \in Side
        PROVE  sub2[u.child[e][m]] = sub[t.child[e][m]] \ {n}
    <3>1. CASE m = p /\ e = d
      <4>1. u.child[e][m] = z /\ t.child[e][m] = n
        BY <3>1, <1>2, <1>4, <1>5, <1>10
      <4>2. sub2[z] = sub[z] \ {n} /\ sub[z] \ {n} = sub[z]
        BY <1>2, <1>3, <1>6
      <4> QED BY <4>1, <4>2, <1>3
    <3>2. CASE ~(m = p /\ e = d)
      <4>1. u.child[e][m] = t.child[e][m]
        BY <3>2, <1>2, <1>5, <1>10
      <4>2. t.child[e][m] # n
        <5> SUFFICES ASSUME t.child[e][m] = n PROVE FALSE
          OBVIOUS
        <5>1. m = p /\ m # Nil
          BY <2>1, <1>1, <1>2 DEF p
        <5> QED BY <5>1, <3>2, <1>4
      <4> QED BY <4>1, <4>2, <2>1, <1>2, <1>6
    <3> QED BY <3>1, <3>2
  <2>3. sub2[m] = sub[m] \ {n}
    BY <1>2, <1>6, <1>10
  <2> QED BY <2>1, <2>2, <2>3, <1>10 DEF OrderOK, Side
<1>11. /\ sub2[Nil] = {}
       /\ \A e \in Side : u.child[e][Nil] = Nil
       /\ \A m \in Key \ Made(u) : sub2[m] = {} /\ \A e \in Side : u.child[e][m] = Dangling
  <2>1. /\ sub[Nil] = {} /\ \A e \in Side : t.child[e][Nil] = Nil
        /\ \A m \in Key \ Made(t) : sub[m] = {} /\ \A e \in Side : t.child[e][m] = Dangling
    BY <1>1 DEF Shape
  <2>2. n # Nil
    BY <1>1, <1>2
  <2>3. \A e \in Side : u.child[e][Nil] = Nil
    BY <2>1, <2>2, <1>2, <1>5
  <2>4. sub2[Nil] = {}
    BY <2>1, <2>2, <1>2, <1>6
  <2>5. ASSUME NEW m \in Key \ Made(u)
        PROVE  sub2[m] = {} /\ \A e \in Side : u.child[e][m] = Dangling
    <3>1. m \in Ptr /\ (m # n => m \in Key \ Made(t))
      BY <1>2, <1>8
    <3>2. m # n => m # p \/ p = Nil
      BY <3>1, <1>4
    <3> QED BY <3>1, <3>2, <2>1, <1>5, <1>6
  <2> QED BY <2>3, <2>4, <2>5
<1>12. Shape(u, sub2)
  BY <1>5, <1>6, <1>8, <1>9, <1>10, <1>11 DEF Shape
<1>13. /\ t.root \in Made(t) \cup {Nil} /\ r \in Made(t) \cup {Nil}
       /\ Made(t) = sub[t.root] \cup sub[r]
       /\ sub[t.root] \cap sub[r] = {}
       /\ \A m \in Made(t) : t.parent[m] = Nil <=> m \in {t.root, r}
  BY DEF Trees
<1>14. r # n /\ n \notin sub[r]
  BY <1>1, <1>3, <1>13
<1>15. sub2[r] = sub[r]
  <2>1. r \in Ptr
    BY <1>2, <1>13
  <2>2. sub2[r] = sub[r] \ {n}
    BY <2>1, <1>6, <1>14
  <2> QED BY <2>2, <1>14
<1>16. sub2[u.root] = sub[t.root] \ {n} /\ u.root \in Made(u) \cup {Nil}
  <2>1. CASE p = Nil
    <3>1. t.root = n
      BY <2>1, <1>1, <1>13, <1>14 DEF p
    <3>2. u.root = z /\ z \in Ptr
      BY <2>1, <1>2, <1>3, <1>5
    <3>3. sub2[z] = sub[z] \ {n} /\ sub[z] \ {n} = sub[z]
      BY <3>2, <1>3, <1>6
    <3> QED BY <3>1, <3>2, <3>3, <1>3, <1>8
  <2>2. CASE p # Nil
    <3>1. t.root # n
      BY <2>2, <1>1, <1>13 DEF p
    <3> QED BY <2>2, <3>1, <1>2, <1>5, <1>6, <1>8, <1>13
  <2> QED BY <2>1, <2>2
<1>17. \A m \in Made(u) : u.parent[m] = Nil <=> m \in {u.root, r}
  <2>1. z # r \/ z = Nil
    BY <1>1, <1>2, <1>3, <1>13
  <2>2. ASSUME NEW m \in Made(u)
        PROVE  u.parent[m] = Nil <=> m \in {u.root, r}
    <3>1. m \in Made(t) /\ m # n /\ m # Nil /\ m \in Ptr
      BY <1>2, <1>8
    <3>2. u.parent[m] = IF m = z THEN p ELSE t.parent[m]
      BY <3>1, <1>5
    <3>3. z # Nil => t.parent[z] # Nil
      BY <1>1, <1>2, <1>3
    <3>4. p = Nil => t.root = n
      BY <1>1, <1>13, <1>14 DEF p
    <3>5. z # Nil => z # t.root
      BY <3>3, <1>13, <1>3
    <3> QED BY <2>1, <3>1, <3>2, <3>4, <3>5, <1>5, <1>13
  <2> QED BY <2>2
<1>18. sub2[u.root] \cap sub2[r] = {} /\ Made(u) = sub2[u.root] \cup sub2[r] /\ r \in Made(u) \cup {Nil}
  BY <1>8, <1>13, <1>14, <1>15, <1>16
<1>19. Trees(u, r, sub2)
  BY <1>12, <1>16, <1>17, <1>18 DEF Trees
<1> USE DEF sub2
<1> QED BY <1>8, <1>15, <1>16, <1>19

\* A node with two children, and its successor y in its right subtree.
Successor(t, sub, n, y) ==
    LET r == t.child["right"][n]
    IN  /\ t.child["left"][n] # Nil /\ r # Nil
        /\ y \in sub[r] /\ t.child["left"][y] = Nil
        /\ \A j \in sub[r] : y <= j

\* The nodes around a node with two children and its successor: which of them are
\* different, and where the keys below them lie.
LEMMA SuccessorNodes ==
  ASSUME NEW t, NEW sub, Shape(t, sub), NEW n \in Made(t), NEW y, Successor(t, sub, n, y)
  PROVE  LET l == t.child["left"][n]
             r == t.child["right"][n]
             x == t.child["right"][y]
             p == t.parent[n]
             q == t.parent[y]
         IN  /\ l \in Made(t) /\ r \in Made(t) /\ y \in Made(t) /\ q \in Made(t)
             /\ x \in Made(t) \cup {Nil} /\ p \in Made(t) \cup {Nil}
             /\ l # r /\ l # n /\ r # n /\ y # n /\ y # l /\ x # y /\ x # n /\ x # l
             /\ t.parent[l] = n /\ t.parent[r] = n /\ (x # Nil => t.parent[x] = y)
             /\ q # y /\ q # l /\ (q = n => y = r)
             /\ q # n => /\ q \in sub[r] /\ y # r /\ x # r
                         /\ t.child["left"][q] = y /\ t.child["right"][q] # y
             /\ p # Nil => p \notin sub[n]
             /\ sub[n] = {n} \cup sub[l] \cup sub[r] /\ n \in sub[n]
             /\ n \notin sub[l] /\ n \notin sub[r] /\ sub[l] \cap sub[r] = {}
             /\ sub[y] = {y} \cup sub[x] /\ y \notin sub[x] /\ y \in sub[r]
             /\ sub[x] \subseteq sub[r] /\ l \in sub[l] /\ r \in sub[r]
             /\ x # Nil => x \in sub[x]
             /\ \A j \in sub[l] : j < n
             /\ \A j \in sub[r] : n < j
             /\ \A j \in sub[x] : y < j
<1> DEFINE l == t.child["left"][n]
           r == t.child["right"][n]
           x == t.child["right"][y]
           p == t.parent[n]
           q == t.parent[y]
<1>1. /\ l # Nil /\ r # Nil /\ y \in sub[r] /\ t.child["left"][y] = Nil
      /\ \A j \in sub[r] : y <= j
  BY DEF Successor
<1>2. "left" \in Side /\ "right" \in Side /\ Opposite("left") = "right" /\ Opposite("right") = "left"
  BY DEF Side, Opposite
<1>3. /\ l \in Made(t) /\ r \in Made(t) /\ l # r /\ l # n /\ r # n
      /\ t.parent[l] = n /\ t.parent[r] = n
      /\ sub[n] = {n} \cup sub[l] \cup sub[r] /\ n \in sub[n]
      /\ n \notin sub[l] /\ n \notin sub[r] /\ sub[l] \cap sub[r] = {}
  BY <1>1, <1>2, NodeFacts
<1>4. l \in sub[l] /\ r \in sub[r]
  BY <1>2, <1>3, NodeFacts
<1>5. y \in Made(t) /\ y # n /\ y # l /\ sub[y] \subseteq sub[r]
  BY <1>1, <1>3, <1>4, SubtreeNodes
<1>6. /\ x \in Made(t) \cup {Nil} /\ x # y /\ (x # Nil => t.parent[x] = y)
      /\ sub[y] = {y} \cup sub[x] /\ y \notin sub[x] /\ (x # Nil => x \in sub[x])
      /\ sub[Nil] = {}
  <2>1. sub[Nil] = {}
    BY DEF Shape
  <2>2. /\ x \in Made(t) \cup {Nil} /\ x # y /\ (x # Nil => t.parent[x] = y)
        /\ sub[y] = {y} \cup sub[x] /\ y \notin sub[x]
    BY <1>1, <1>2, <1>5, <2>1, NodeFacts
  <2>3. x # Nil => x \in sub[x]
    BY <1>2, <2>2, NodeFacts
  <2> QED BY <2>1, <2>2, <2>3
<1>7. sub[x] \subseteq sub[r]
  BY <1>5, <1>6
<1>8. x # n /\ x # l
  <2>1. x = Nil \/ x \in sub[r]
    BY <1>6, <1>7
  <2>2. n # Nil
    BY <1>2, NodeFacts
  <2> QED BY <1>1, <1>3, <1>4, <2>1, <2>2
<1>9. p \in Made(t) \cup {Nil} /\ (p # Nil => p \notin sub[n])
  <2>1. p \in Made(t) \cup {Nil}
    BY DEF Shape, LinksOK
  <2>2. ASSUME p # Nil PROVE p \notin sub[n]
    <3>1. t.child[SideOf(t, n)][p] = n /\ SideOf(t, n) \in Side /\ p \in Made(t)
      BY <2>2, SideOfNode
    <3> QED BY <3>1, NodeFacts
  <2> QED BY <2>1, <2>2
<1>10. y # r => q \in sub[r]
  BY <1>1, <1>3, SubtreeNodes
<1>11. q \in Made(t) /\ q # y /\ q # l /\ (q = n => y = r) /\ (y = r => q = n)
  <2>1. q # Nil
    <3>1. q # Nil \/ y # r
      BY <1>3, NodeFacts, <1>2
    <3>2. Nil \notin sub[r]
      BY <1>3, SubtreeNodes, KeyAssumption DEF Made
    <3> QED BY <3>1, <3>2, <1>10
  <2>2. q \in Made(t) /\ q # y
    BY <2>1, <1>5, SideOfNode
  <2>3. q # l
    BY <1>3, <1>4, <1>10
  <2>4. q = n => y = r
    BY <1>3, <1>10
  <2> QED BY <2>2, <2>3, <2>4, <1>3
<1>12. /\ \A j \in sub[l] : j < n
       /\ \A j \in sub[r] : n < j
       /\ \A j \in sub[x] : y < j
  BY <1>2, <1>5 DEF Shape, OrderOK, Before
<1>13. ASSUME q # n
       PROVE  /\ q \in sub[r] /\ y # r /\ x # r
              /\ t.child["left"][q] = y /\ t.child["right"][q] # y
  <2>1. y # r /\ q \in sub[r]
    BY <1>10, <1>11, <1>13
  <2>2. x # r
    <3>1. SUFFICES ASSUME x = r PROVE FALSE
      OBVIOUS
    <3> QED BY <3>1, <1>1, <1>6
  <2>3. SideOf(t, y) \in Side /\ t.child[SideOf(t, y)][q] = y
        /\ t.child[Opposite(SideOf(t, y))][q] # y
    BY <1>5, <1>11, SideOfNode, KeyAssumption DEF Made
  <2>4. SideOf(t, y) # "right"
    <3>1. SUFFICES ASSUME t.child["right"][q] = y PROVE FALSE
      BY <2>3
    <3>2. y \in sub[y]
      BY <1>6
    <3>3. Before("right", y, q)
      BY <1>2, <1>11, <3>1, <3>2 DEF Shape, OrderOK
    <3>4. y \in Int /\ q \in Int /\ y <= q
      BY <1>1, <1>5, <1>11, <2>1, KeyAssumption DEF Made
    <3> QED BY <3>3, <3>4 DEF Before
  <2> QED BY <2>1, <2>2, <2>3, <2>4, <1>2 DEF Side
<1> HIDE DEF l, r, x, p, q
<1>14. /\ l \in Made(t) /\ r \in Made(t) /\ y \in Made(t) /\ q \in Made(t)
       /\ x \in Made(t) \cup {Nil} /\ p \in Made(t) \cup {Nil}
       /\ l # r /\ l # n /\ r # n /\ y # n /\ y # l /\ x # y /\ x # n /\ x # l
       /\ t.parent[l] = n /\ t.parent[r] = n /\ (x # Nil => t.parent[x] = y)
       /\ q # y /\ q # l /\ (q = n => y = r)
       /\ q # n => /\ q \in sub[r] /\ y # r /\ x # r
                   /\ t.child["left"][q] = y /\ t.child["right"][q] # y
       /\ p # Nil => p \notin sub[n]
       /\ sub[n] = {n} \cup sub[l] \cup sub[r] /\ n \in sub[n]
       /\ n \notin sub[l] /\ n \notin sub[r] /\ sub[l] \cap sub[r] = {}
       /\ sub[y] = {y} \cup sub[x] /\ y \notin sub[x] /\ y \in sub[r]
       /\ sub[x] \subseteq sub[r] /\ l \in sub[l] /\ r \in sub[r]
       /\ x # Nil => x \in sub[x]
  BY <1>1, <1>3, <1>4, <1>5, <1>6, <1>7, <1>8, <1>9, <1>11, <1>13
<1> USE DEF l, r, x, p, q
<1> QED BY <1>12, <1>14

\* The fields of a tree in which y has taken the place of n.
MovedFields(t, n, y, u) ==
    LET l == t.child["left"][n]
        r == t.child["right"][n]
        x == t.child["right"][y]
        p == t.parent[n]
        q == t.parent[y]
    IN  /\ u \in Tree
        /\ u.root = IF p = Nil THEN y ELSE t.root
        /\ \A m \in Ptr : u.color[m] = IF m = n THEN "red"
                                      ELSE IF m = y THEN t.color[n]
                                      ELSE t.color[m]
        /\ \A m \in Ptr : u.parent[m] = IF m = n THEN Dangling
                                       ELSE IF m = y THEN p
                                       ELSE IF m \in {l, r} THEN y
                                       ELSE IF m = x THEN IF q = n THEN y ELSE q
                                       ELSE t.parent[m]
        /\ \A d \in Side, m \in Ptr :
             u.child[d][m] = IF m = n THEN Dangling
                             ELSE IF m = y THEN IF d = "left" THEN l
                                                ELSE IF q = n THEN x ELSE r
                             ELSE IF m = p /\ p # Nil /\ d = SideOf(t, n) THEN y
                             ELSE IF m = q /\ d = "left" THEN x
                             ELSE t.child[d][m]

\* RemoveOne's third case changes the fields MovedFields lists, whether the
\* successor is the right child of n or further down.
LEMMA MoveFields ==
  ASSUME NEW t, NEW sub, Shape(t, sub), NEW n \in Made(t), Successor(t, sub, n, Outermost(t, t.child["right"][n], "left"))
  PROVE  LET y == Outermost(t, t.child["right"][n], "left")
             cut == Unlink(t, n)
         IN  /\ MovedFields(t, n, y, cut.tree)
             /\ cut.x = t.child["right"][y]
             /\ cut.gone = t.color[y]
<1> DEFINE y == Outermost(t, t.child["right"][n], "left")
           l == t.child["left"][n]
           r == t.child["right"][n]
           x == t.child["right"][y]
           p == t.parent[n]
           q == t.parent[y]
           a1 == SetParent(t, x, y)
           b1 == Transplant(t, y, x)
           b2 == SetChild(b1, "right", y, r)
           b3 == SetParent(b2, r, y)
           t1 == IF q = n THEN a1 ELSE b3
           t2 == Transplant(t1, n, y)
           t3 == SetChild(t2, "left", y, l)
           t4 == SetParent(t3, l, y)
           t5 == Paint(t4, y, t.color[n])
           u == Unmade(t5, {n})
<1>1. l # Nil /\ r # Nil
  BY DEF Successor
<1>2. Unlink(t, n) = [tree |-> u, x |-> x, gone |-> t.color[y]]
  BY <1>1 DEF Unlink
<1> HIDE DEF y
<1>3. /\ l \in Made(t) /\ r \in Made(t) /\ y \in Made(t) /\ q \in Made(t)
      /\ x \in Made(t) \cup {Nil} /\ p \in Made(t) \cup {Nil}
      /\ l # r /\ l # n /\ r # n /\ y # n /\ y # l /\ x # y /\ x # n /\ x # l
      /\ q # y /\ q # l /\ (q = n => y = r)
      /\ q # n => /\ y # r /\ x # r
                  /\ t.child["left"][q] = y /\ t.child["right"][q] # y
      /\ p # Nil => p \notin sub[n]
      /\ sub[n] = {n} \cup sub[l] \cup sub[r] /\ y \in sub[r] /\ l \in sub[l] /\ r \in sub[r]
      /\ q # n => q \in sub[r]
  <2>1. Successor(t, sub, n, y)
    BY DEF y
  <2> QED BY <2>1, SuccessorNodes
<1> HIDE DEF l, r, x, p, q, a1, b1, b2, b3, t1, t2, t3, t4, t5, u
<1>4. /\ t \in Tree /\ Made(t) \subseteq Ptr /\ Made(t) \subseteq Key /\ Nil \in Ptr /\ Nil \notin Key
      /\ "left" \in Side /\ "right" \in Side /\ Side = {"left", "right"}
  BY KeyAssumption DEF Shape, Made, Ptr, Side
<1>5. /\ l \in Ptr /\ r \in Ptr /\ y \in Ptr /\ q \in Ptr /\ x \in Ptr /\ p \in Ptr /\ n \in Ptr
      /\ l # Nil /\ r # Nil /\ y # Nil /\ q # Nil /\ n # Nil /\ n \in Key
  BY <1>3, <1>4
<1>6. /\ l \in AnyPtr /\ r \in AnyPtr /\ y \in AnyPtr /\ q \in AnyPtr
  BY <1>5 DEF AnyPtr
<1>7. p # Nil => p # y /\ p # l /\ p # r /\ p # q /\ p # n
  BY <1>3
<1>8. /\ t1 \in Tree /\ t1.root = t.root /\ t1.color = t.color
      /\ \A m \in Ptr : t1.parent[m] = IF q # n /\ m = r THEN y
                                      ELSE IF m = x THEN IF q = n THEN y ELSE q
                                      ELSE t.parent[m]
      /\ \A d \in Side, m \in Ptr :
           t1.child[d][m] = IF q # n /\ m = y /\ d = "right" THEN r
                            ELSE IF q # n /\ m = q /\ d = "left" THEN x
                            ELSE t.child[d][m]
  <2>1. CASE q = n
    <3>1. t1 = a1
      BY <2>1 DEF t1
    <3>2. /\ a1 \in Tree /\ a1.root = t.root /\ a1.color = t.color /\ a1.child = t.child
          /\ \A m \in Ptr : a1.parent[m] = IF m = x THEN y ELSE t.parent[m]
      BY <1>4, <1>5, <1>6, SetParentFields DEF a1
    <3> QED BY <2>1, <3>1, <3>2
  <2>2. CASE q # n
    <3>1. t1 = b3
      BY <2>2 DEF t1
    <3>2. SideOf(t, y) = "left"
      BY <2>2, <1>3 DEF SideOf, q
    <3>3. /\ b1 \in Tree /\ b1.root = t.root /\ b1.color = t.color
          /\ \A m \in Ptr : b1.parent[m] = IF m = x THEN q ELSE t.parent[m]
          /\ \A d \in Side, m \in Ptr : b1.child[d][m] = IF m = q /\ d = "left" THEN x ELSE t.child[d][m]
      <4>1. t.parent[y] = q /\ q \in Ptr /\ q # Nil
        BY <1>5 DEF q
      <4> QED BY <4>1, <3>2, <1>4, <1>5, TransplantFields DEF b1
    <3>4. /\ b2 \in Tree /\ b2.root = b1.root /\ b2.color = b1.color /\ b2.parent = b1.parent
          /\ \A d \in Side, m \in Ptr : b2.child[d][m] = IF m = y /\ d = "right" THEN r ELSE b1.child[d][m]
      <4>1. b1 \in Tree /\ "right" \in Side /\ y \in Ptr /\ r \in AnyPtr
        BY <3>3, <1>4, <1>5, <1>6
      <4> QED BY <4>1, SetChildFields DEF b2
    <3>5. /\ b3 \in Tree /\ b3.root = b2.root /\ b3.color = b2.color /\ b3.child = b2.child
          /\ \A m \in Ptr : b3.parent[m] = IF m = r THEN y ELSE b2.parent[m]
      <4>1. b2 \in Tree /\ r \in Ptr /\ y \in AnyPtr
        BY <3>4, <1>5, <1>6
      <4> QED BY <4>1, SetParentFields DEF b3
    <3> QED BY <2>2, <3>1, <3>3, <3>4, <3>5
  <2> QED BY <2>1, <2>2
<1>9. t1.parent[n] = p /\ SideOf(t1, n) = SideOf(t, n)
  <2>1. t1.parent[n] = p
    BY <1>3, <1>5, <1>8 DEF p
  <2>2. p # Nil => t1.child["left"][p] = t.child["left"][p]
    BY <1>4, <1>5, <1>7, <1>8
  <2>3. p = Nil => t1.child["left"][p] = t.child["left"][p]
    BY <1>4, <1>5, <1>8
  <2> QED BY <2>1, <2>2, <2>3 DEF SideOf, p
<1>10. /\ t2 \in Tree /\ t2.root = (IF p = Nil THEN y ELSE t.root) /\ t2.color = t.color
       /\ \A m \in Ptr : t2.parent[m] = IF m = y THEN p ELSE t1.parent[m]
       /\ \A d \in Side, m \in Ptr :
            t2.child[d][m] = IF m = p /\ p # Nil /\ d = SideOf(t, n) THEN y ELSE t1.child[d][m]
  <2>1. t1 \in Tree /\ n \in Ptr /\ y \in Ptr /\ t1.parent[n] \in Ptr
    BY <1>5, <1>8, <1>9
  <2> QED BY <2>1, <1>8, <1>9, TransplantFields DEF t2
<1>11. /\ t3 \in Tree /\ t3.root = t2.root /\ t3.color = t2.color /\ t3.parent = t2.parent
       /\ \A d \in Side, m \in Ptr : t3.child[d][m] = IF m = y /\ d = "left" THEN l ELSE t2.child[d][m]
  <2>1. t2 \in Tree /\ "left" \in Side /\ y \in Ptr /\ l \in AnyPtr
    BY <1>10, <1>4, <1>5, <1>6
  <2> QED BY <2>1, SetChildFields DEF t3
<1>12. /\ t4 \in Tree /\ t4.root = t3.root /\ t4.color = t3.color /\ t4.child = t3.child
       /\ \A m \in Ptr : t4.parent[m] = IF m = l THEN y ELSE t3.parent[m]
  <2>1. t3 \in Tree /\ l \in Ptr /\ y \in AnyPtr
    BY <1>11, <1>5, <1>6
  <2> QED BY <2>1, SetParentFields DEF t4
<1>13. /\ t5 \in Tree /\ t5.root = t4.root /\ t5.parent = t4.parent /\ t5.child = t4.child
       /\ \A m \in Ptr : t5.color[m] = IF m = y THEN t.color[n] ELSE t4.color[m]
  <2>1. t4 \in Tree /\ y \in Ptr /\ t.color[n] \in Color
    BY <1>12, <1>4, <1>5 DEF Tree
  <2> QED BY <2>1, PaintFields DEF t5
<1>14. /\ u \in Tree /\ u.root = t5.root
       /\ \A m \in Ptr : u.color[m] = IF m \in {n} THEN "red" ELSE t5.color[m]
       /\ \A m \in Ptr : u.parent[m] = IF m \in {n} THEN Dangling ELSE t5.parent[m]
       /\ \A d \in Side, m \in Ptr :
            u.child[d][m] = IF m \in {n} THEN Dangling ELSE t5.child[d][m]
  <2>1. t5 \in Tree /\ {n} \in SUBSET Key
    BY <1>13, <1>5
  <2> QED BY <2>1, UnmadeFields DEF u
<1>15. /\ u \in Tree
       /\ u.root = IF p = Nil THEN y ELSE t.root
       /\ \A m \in Ptr : u.color[m] = IF m = n THEN "red"
                                      ELSE IF m = y THEN t.color[n]
                                      ELSE t.color[m]
  BY <1>8, <1>10, <1>11, <1>12, <1>13, <1>14
<1>16. \A m \in Ptr : u.parent[m] = IF m = n THEN Dangling
                                    ELSE IF m = y THEN p
                                    ELSE IF m \in {l, r} THEN y
                                    ELSE IF m = x THEN IF q = n THEN y ELSE q
                                    ELSE t.parent[m]
  BY <1>3, <1>8, <1>10, <1>11, <1>12, <1>13, <1>14
<1>17. ASSUME NEW d \in Side, NEW m \in Ptr
       PROVE  u.child[d][m] = IF m = n THEN Dangling
                             ELSE IF m = y THEN IF d = "left" THEN l
                                                ELSE IF q = n THEN x ELSE r
                             ELSE IF m = p /\ p # Nil /\ d = SideOf(t, n) THEN y
                             ELSE IF m = q /\ d = "left" THEN x
                             ELSE t.child[d][m]
  <2>1. u.child[d][m] = IF m = n THEN Dangling
                        ELSE IF m = y /\ d = "left" THEN l
                        ELSE IF m = p /\ p # Nil /\ d = SideOf(t, n) THEN y
                        ELSE t1.child[d][m]
    BY <1>10, <1>11, <1>12, <1>13, <1>14
  <2>2. t1.child[d][m] = IF q # n /\ m = y /\ d = "right" THEN r
                         ELSE IF q # n /\ m = q /\ d = "left" THEN x
                         ELSE t.child[d][m]
    BY <1>8
  <2>3. m = y /\ d # "left" => d = "right" /\ t.child[d][m] = x
    BY <1>4 DEF x
  <2> QED BY <2>1, <2>2, <2>3, <1>3, <1>7
<1> USE DEF l, r, x, p, q
<1>18. MovedFields(t, n, y, u)
  BY <1>15, <1>16, <1>17 DEF MovedFields
<1> HIDE DEF l, r, p, q
<1>19. /\ Unlink(t, n).tree = u /\ Unlink(t, n).x = t.child["right"][y]
       /\ Unlink(t, n).gone = t.color[y]
  BY <1>2
<1> USE DEF y
<1> QED BY <1>18, <1>19

\* The subtrees once y is where n was.
MovedSub(t, sub, n, y) ==
    [m \in Ptr |-> IF m = n THEN {}
                   ELSE IF m = y THEN sub[n] \ {n}
                   ELSE IF m \in sub[t.child["right"][n]] THEN sub[m] \ {y}
                   ELSE sub[m] \ {n}]

\* A node with two children gives way to its successor: the trees are search trees
\* without it.
LEMMA MoveTrees ==
  ASSUME NEW t, NEW r0, NEW sub, Trees(t, r0, sub), NEW n \in sub[t.root],
         NEW y, Successor(t, sub, n, y), NEW u, MovedFields(t, n, y, u)
  PROVE  /\ Trees(u, r0, MovedSub(t, sub, n, y))
         /\ MovedSub(t, sub, n, y)[u.root] = sub[t.root] \ {n}
         /\ MovedSub(t, sub, n, y)[r0] = sub[r0]
         /\ Made(u) = Made(t) \ {n}
<1> DEFINE l == t.child["left"][n]
           r == t.child["right"][n]
           x == t.child["right"][y]
           p == t.parent[n]
           q == t.parent[y]
           d == SideOf(t, n)
           sub2 == MovedSub(t, sub, n, y)
<1>1. Shape(t, sub) /\ n \in Made(t)
  BY DEF Trees
<1>2. /\ Nil \notin Key /\ Dangling \notin Ptr /\ Nil \in Ptr /\ Key \subseteq Int /\ Key \subseteq Ptr
      /\ Made(t) \subseteq Key /\ Made(t) \subseteq Ptr /\ sub[Nil] = {}
      /\ "left" \in Side /\ "right" \in Side /\ Side = {"left", "right"}
  BY <1>1, KeyAssumption DEF Ptr, Made, Shape, Side
<1>3. /\ l \in Made(t) /\ r \in Made(t) /\ y \in Made(t) /\ q \in Made(t)
      /\ x \in Made(t) \cup {Nil} /\ p \in Made(t) \cup {Nil}
      /\ l # r /\ l # n /\ r # n /\ y # n /\ y # l /\ x # y /\ x # n /\ x # l
      /\ t.parent[l] = n /\ t.parent[r] = n /\ (x # Nil => t.parent[x] = y)
      /\ q # y /\ q # l /\ (q = n => y = r)
      /\ q # n => /\ q \in sub[r] /\ y # r /\ x # r
                  /\ t.child["left"][q] = y /\ t.child["right"][q] # y
      /\ p # Nil => p \notin sub[n]
      /\ sub[n] = {n} \cup sub[l] \cup sub[r] /\ n \in sub[n]
      /\ n \notin sub[l] /\ n \notin sub[r] /\ sub[l] \cap sub[r] = {}
      /\ sub[y] = {y} \cup sub[x] /\ y \notin sub[x] /\ y \in sub[r]
      /\ sub[x] \subseteq sub[r] /\ l \in sub[l] /\ r \in sub[r]
      /\ x # Nil => x \in sub[x]
      /\ \A j \in sub[l] : j < n
      /\ \A j \in sub[r] : n < j
      /\ \A j \in sub[x] : y < j
  BY <1>1, SuccessorNodes
<1>4. p # Nil => /\ d \in Side /\ t.child[d][p] = n /\ t.child[Opposite(d)][p] # n
                 /\ Opposite(d) \in Side /\ Side = {d, Opposite(d)} /\ p # n
  BY <1>1, SideOfNode, SideFacts
<1>5. /\ u \in Tree
      /\ u.root = IF p = Nil THEN y ELSE t.root
      /\ \A m \in Ptr : u.parent[m] = IF m = n THEN Dangling
                                     ELSE IF m = y THEN p
                                     ELSE IF m \in {l, r} THEN y
                                     ELSE IF m = x THEN IF q = n THEN y ELSE q
                                     ELSE t.parent[m]
      /\ \A e \in Side, m \in Ptr :
           u.child[e][m] = IF m = n THEN Dangling
                           ELSE IF m = y THEN IF e = "left" THEN l
                                              ELSE IF q = n THEN x ELSE r
                           ELSE IF m = p /\ p # Nil /\ e = d THEN y
                           ELSE IF m = q /\ e = "left" THEN x
                           ELSE t.child[e][m]
  BY DEF MovedFields
<1>6. /\ sub2 \in [Ptr -> SUBSET Key]
      /\ \A m \in Ptr : sub2[m] = IF m = n THEN {}
                                  ELSE IF m = y THEN sub[n] \ {n}
                                  ELSE IF m \in sub[r] THEN sub[m] \ {y}
                                  ELSE sub[m] \ {n}
  <2>1. sub \in [Ptr -> SUBSET Key] /\ n \in Ptr
    BY <1>1, <1>2 DEF Shape
  <2> QED BY <2>1 DEF MovedSub
<1>7. /\ sub[r] \subseteq Made(t)
      /\ \A m \in sub[r] : sub[m] \subseteq sub[r]
      /\ \A m \in sub[r] : m # r => t.parent[m] \in sub[r]
  BY <1>1, <1>3, SubtreeNodes
<1>8. \A m \in Made(t) : /\ t.parent[m] \in Made(t) \cup {Nil}
                         /\ t.parent[m] # Nil => \E e \in Side : t.child[e][t.parent[m]] = m
                         /\ \A e \in Side : /\ t.child[e][m] \in Made(t) \cup {Nil}
                                            /\ t.child[e][m] # Nil => t.parent[t.child[e][m]] = m
  BY <1>1 DEF Shape, LinksOK
<1> HIDE DEF l, r, x, p, q, d, sub2
<1>9. Made(u) = Made(t) \ {n}
  <2>1. \A m \in Key : (u.parent[m] # Dangling) <=> (m # n /\ t.parent[m] # Dangling)
    <3>1. ASSUME NEW m \in Key PROVE (u.parent[m] # Dangling) <=> (m # n /\ t.parent[m] # Dangling)
      <4>1. m \in Ptr /\ p \in Ptr /\ q \in Ptr /\ y \in Ptr
        BY <1>2, <1>3
      <4>2. m \in {y, l, r, x} => t.parent[m] # Dangling
        BY <1>2, <1>3 DEF Made
      <4> QED BY <4>1, <4>2, <1>2, <1>5
    <3> QED BY <3>1
  <2> QED BY <2>1 DEF Made
<1>10. ASSUME NEW m \in Made(t), m # n, NEW e \in Side,
              ~(m = y), ~(m = p /\ e = d), ~(m = q /\ e = "left")
       PROVE  /\ u.child[e][m] = t.child[e][m]
              /\ t.child[e][m] \in Made(t) \cup {Nil} /\ t.child[e][m] \in Ptr
              /\ t.child[e][m] # n /\ t.child[e][m] # y
              /\ t.child[e][m] # Nil => t.child[e][m] \notin {l, r, x}
  <2>1. u.child[e][m] = t.child[e][m]
    BY <1>2, <1>5, <1>10
  <2>2. t.child[e][m] \in Made(t) \cup {Nil} /\ (t.child[e][m] # Nil => t.parent[t.child[e][m]] = m)
    BY <1>8
  <2>3. t.child[e][m] # n
    <3> SUFFICES ASSUME t.child[e][m] = n PROVE FALSE
      OBVIOUS
    <3>1. m = p /\ m # Nil
      BY <2>2, <1>1, <1>2 DEF p
    <3> QED BY <3>1, <1>4, <1>10
  <2>4. t.child[e][m] # y
    <3> SUFFICES ASSUME t.child[e][m] = y PROVE FALSE
      OBVIOUS
    <3>1. m = q
      BY <2>2, <1>2, <1>3 DEF q
    <3> QED BY <3>1, <1>2, <1>3, <1>10
  <2>5. t.child[e][m] # Nil => t.child[e][m] \notin {l, r, x}
    BY <2>2, <1>2, <1>3, <1>10
  <2> QED BY <2>1, <2>2, <2>3, <2>4, <2>5, <1>2
<1>11. ASSUME NEW m \in Made(t), m # n
       PROVE  LinksOK(u, m)
  <2>1. u.parent[m] \in Made(u) \cup {Nil} /\ (u.parent[m] # Nil => \E e \in Side : u.child[e][u.parent[m]] = m)
    <3>1. CASE m = y
      <4>1. u.parent[m] = p
        BY <3>1, <1>2, <1>3, <1>5
      <4>2. p # Nil => p # n /\ p # y /\ p \in Ptr
        BY <1>2, <1>3
      <4> QED BY <3>1, <4>1, <4>2, <1>3, <1>4, <1>5, <1>9
    <3>2. CASE m = l
      <4>1. u.parent[m] = y /\ u.child["left"][y] = l
        BY <3>2, <1>2, <1>3, <1>5
      <4> QED BY <4>1, <3>2, <1>2, <1>3, <1>9
    <3>3. CASE m = r /\ m # y
      <4>1. u.parent[m] = y /\ u.child["right"][y] = r
        BY <3>3, <1>2, <1>3, <1>5
      <4> QED BY <4>1, <3>3, <1>2, <1>3, <1>9
    <3>4. CASE m = x /\ q = n
      <4>1. m # r /\ m # l /\ m # y
        BY <3>4, <1>3
      <4>2. u.parent[m] = y /\ u.child["right"][y] = x
        BY <3>4, <4>1, <1>2, <1>3, <1>5
      <4> QED BY <4>2, <3>4, <1>2, <1>3, <1>9
    <3>5. CASE m = x /\ q # n
      <4>1. m # r /\ m # l /\ m # y
        BY <3>5, <1>3
      <4>2. u.parent[m] = q
        BY <3>5, <4>1, <1>2, <1>3, <1>5
      <4>3. q # p
        BY <3>5, <1>2, <1>3
      <4>4. u.child["left"][q] = x
        BY <3>5, <4>3, <1>2, <1>3, <1>5
      <4> QED BY <4>2, <4>4, <3>5, <1>2, <1>3, <1>9
    <3>6. CASE m \notin {y, l, r, x} /\ t.parent[m] # Nil
      <4>1. u.parent[m] = t.parent[m]
        BY <3>6, <1>2, <1>5, <1>11
      <4>2. PICK e \in Side : t.child[e][t.parent[m]] = m
        BY <3>6, <1>8
      <4>3. t.parent[m] \in Made(t) /\ m # Nil
        BY <3>6, <1>2, <1>8
      <4>4. t.parent[m] # n
        BY <3>6, <4>2, <1>2 DEF l, r
      <4>5. t.parent[m] # y
        <5>1. t.child["left"][y] = Nil
          BY DEF Successor
        <5> QED BY <3>6, <4>2, <4>3, <5>1, <1>2 DEF x
      <4>6. ~(t.parent[m] = p /\ p # Nil /\ e = d) /\ ~(t.parent[m] = q /\ e = "left")
        BY <3>6, <4>2, <4>4, <1>3, <1>4, <1>11
      <4>7. u.child[e][t.parent[m]] = m
        BY <4>2, <4>3, <4>4, <4>5, <4>6, <1>2, <1>5
      <4> QED BY <4>1, <4>3, <4>4, <4>7, <1>9
    <3>7. CASE m \notin {y, l, r, x} /\ t.parent[m] = Nil
      BY <3>7, <1>2, <1>5, <1>11
    <3> QED BY <3>1, <3>2, <3>3, <3>4, <3>5, <3>6, <3>7
  <2>2. ASSUME NEW e \in Side
        PROVE  /\ u.child[e][m] \in Made(u) \cup {Nil}
               /\ u.child[e][m] # Nil => u.parent[u.child[e][m]] = m
    <3>1. CASE m = y /\ e = "left"
      <4>1. u.child[e][m] = l /\ u.parent[l] = y
        BY <3>1, <1>2, <1>3, <1>5
      <4> QED BY <4>1, <3>1, <1>3, <1>9
    <3>2. CASE m = y /\ e # "left" /\ q # n
      <4>1. u.child[e][m] = r /\ u.parent[r] = y
        BY <3>2, <1>2, <1>3, <1>5
      <4> QED BY <4>1, <3>2, <1>3, <1>9
    <3>3. CASE m = y /\ e # "left" /\ q = n
      <4>1. x # r /\ x # l /\ x # n /\ x # y
        BY <3>3, <1>3
      <4>2. x \in Ptr /\ m \in Ptr
        BY <1>2, <1>3
      <4>3. u.parent[x] = y
        BY <3>3, <4>1, <4>2, <1>5
      <4>4. u.child[e][m] = x
        BY <3>3, <4>2, <1>3, <1>5
      <4> QED BY <4>1, <4>3, <4>4, <3>3, <1>3, <1>9
    <3>4. CASE m = p /\ e = d /\ m # y
      <4>1. p \in Ptr /\ p # Nil /\ y \in Ptr
        BY <3>4, <1>2, <1>3
      <4>2. u.child[e][m] = y
        BY <3>4, <4>1, <1>5, <1>11
      <4>3. u.parent[y] = p
        BY <4>1, <1>3, <1>5
      <4> QED BY <4>2, <4>3, <3>4, <1>3, <1>9
    <3>5. CASE m = q /\ e = "left" /\ ~(m = p /\ e = d) /\ m # y
      <4>1. u.child[e][m] = x
        BY <3>5, <1>2, <1>5, <1>11
      <4>2. x # Nil => u.parent[x] = q
        BY <3>5, <1>2, <1>3, <1>5, <1>11
      <4> QED BY <4>1, <4>2, <3>5, <1>3, <1>9
    <3>6. CASE ~(m = y) /\ ~(m = p /\ e = d) /\ ~(m = q /\ e = "left")
      <4>1. /\ u.child[e][m] = t.child[e][m]
            /\ t.child[e][m] \in Made(t) \cup {Nil} /\ t.child[e][m] \in Ptr
            /\ t.child[e][m] # n /\ t.child[e][m] # y
            /\ t.child[e][m] # Nil => t.child[e][m] \notin {l, r, x}
        BY <3>6, <1>10, <1>11
      <4>2. t.child[e][m] # Nil => t.parent[t.child[e][m]] = m
        BY <1>8
      <4> QED BY <4>1, <4>2, <1>5, <1>9
    <3> QED BY <3>1, <3>2, <3>3, <3>4, <3>5, <3>6
  <2> QED BY <2>1, <2>2 DEF LinksOK
<1>12. ASSUME NEW m \in Made(t), m # n, m # y
       PROVE  OrderOK(u, sub2, m)
  <2> DEFINE gone == IF m \in sub[r] THEN y ELSE n
  <2>1. /\ sub[m] = {m} \cup sub[t.child["left"][m]] \cup sub[t.child["right"][m]]
        /\ \A e \in Side : \A j \in sub[t.child[e][m]] : Before(e, j, m)
    BY <1>1 DEF Shape, OrderOK
  <2>2. ASSUME NEW e \in Side
        PROVE  sub2[u.child[e][m]] = sub[t.child[e][m]] \ {gone}
    <3>1. CASE m = p /\ e = d
      <4>1. p # Nil /\ m \notin sub[r]
        BY <3>1, <1>2, <1>3
      <4>2. u.child[e][m] = y /\ t.child[e][m] = n
        BY <3>1, <4>1, <1>2, <1>4, <1>5, <1>12
      <4> QED BY <4>1, <4>2, <1>2, <1>3, <1>6
    <3>2. CASE m = q /\ e = "left" /\ ~(m = p /\ e = d)
      <4>1. m \in sub[r] /\ t.child[e][m] = y /\ u.child[e][m] = x
        BY <3>2, <1>2, <1>3, <1>5, <1>12
      <4>2. sub2[x] = sub[x]
        <5>1. CASE x = Nil
          BY <5>1, <1>2, <1>3, <1>6
        <5>2. CASE x # Nil
          <6>1. x \in Ptr /\ x \in sub[r]
            BY <5>2, <1>2, <1>3
          <6>2. sub2[x] = sub[x] \ {y}
            BY <6>1, <1>3, <1>6
          <6> QED BY <6>2, <1>3
        <5> QED BY <5>1, <5>2
      <4> QED BY <4>1, <4>2, <1>3
    <3>3. CASE ~(m = p /\ e = d) /\ ~(m = q /\ e = "left")
      <4> DEFINE c == t.child[e][m]
      <4>1. /\ u.child[e][m] = c /\ c \in Made(t) \cup {Nil} /\ c \in Ptr /\ c # n /\ c # y
            /\ c # Nil => c \notin {l, r, x}
        BY <3>3, <1>10, <1>12
      <4>2. c # Nil => t.parent[c] = m
        BY <1>8
      <4> HIDE DEF c
      <4>3. CASE c = Nil
        <5>1. sub2[c] = sub[c] \ {n} \/ sub2[c] = sub[c] \ {y}
          BY <4>1, <1>6
        <5> QED BY <4>1, <4>3, <5>1, <1>2 DEF c
      <4>4. CASE c # Nil /\ m \in sub[r]
        <5>1. c \in sub[m]
          BY <1>1, <4>1, <4>4, <2>1, <1>2, NodeFacts DEF c
        <5>2. c \in sub[r]
          BY <5>1, <4>4, <1>7
        <5> QED BY <5>2, <4>1, <4>4, <1>6 DEF c
      <4>5. CASE c # Nil /\ m \notin sub[r]
        <5>1. c \notin sub[r]
          BY <4>1, <4>2, <4>5, <1>7
        <5> QED BY <5>1, <4>1, <4>5, <1>6 DEF c
      <4> QED BY <4>3, <4>4, <4>5
    <3> QED BY <3>1, <3>2, <3>3
  <2>3. sub2[m] = sub[m] \ {gone} /\ m # gone
    BY <1>2, <1>6, <1>12
  <2> HIDE DEF gone
  <2>4. sub2[m] = {m} \cup sub2[u.child["left"][m]] \cup sub2[u.child["right"][m]]
    BY <2>1, <2>2, <2>3, <1>2
  <2> QED BY <2>1, <2>2, <2>4 DEF OrderOK
<1>13. OrderOK(u, sub2, y)
  <2>1. y \in Int /\ n \in Int /\ (\A j \in sub[l] : j \in Int) /\ (\A j \in sub[r] : j \in Int)
    BY <1>1, <1>2, <1>3, SubtreeNodes
  <2>2. sub2[y] = sub[l] \cup sub[r]
    <3>1. sub2[y] = sub[n] \ {n}
      BY <1>2, <1>3, <1>6
    <3> QED BY <3>1, <1>3
  <2>3. u.child["left"][y] = l /\ sub2[l] = sub[l] /\ \A j \in sub[l] : Before("left", j, y)
    <3>1. u.child["left"][y] = l
      BY <1>2, <1>3, <1>5
    <3>2. l \notin sub[r]
      BY <1>3
    <3>3. sub2[l] = sub[l] \ {n}
      BY <3>2, <1>2, <1>3, <1>6
    <3> QED BY <2>1, <3>1, <3>3, <1>3 DEF Before
  <2>4. u.child["right"][y] = (IF q = n THEN x ELSE r)
    BY <1>2, <1>3, <1>5
  <2>5. CASE q = n
    <3>1. sub2[x] = sub[x]
      <4>1. CASE x = Nil
        BY <4>1, <1>2, <1>3, <1>6
      <4>2. CASE x # Nil
        <5>1. x \in Ptr /\ x \in sub[r]
          BY <4>2, <1>2, <1>3
        <5>2. sub2[x] = sub[x] \ {y}
          BY <5>1, <1>3, <1>6
        <5> QED BY <5>2, <1>3
      <4> QED BY <4>1, <4>2
    <3>2. \A j \in sub[x] : Before("right", j, y)
      BY <1>3 DEF Before
    <3>3. sub[r] = {y} \cup sub[x]
      BY <2>5, <1>3
    <3> QED BY <2>2, <2>3, <2>4, <2>5, <3>1, <3>2, <3>3, <1>2 DEF OrderOK
  <2>6. CASE q # n
    <3>1. sub2[r] = sub[r] \ {y}
      BY <2>6, <1>2, <1>3, <1>6
    <3>2. \A j \in sub[r] \ {y} : Before("right", j, y)
      <4>1. \A j \in sub[r] : y <= j
        BY DEF Successor, r
      <4> QED BY <4>1, <2>1 DEF Before
    <3> QED BY <2>2, <2>3, <2>4, <2>6, <3>1, <3>2, <1>2, <1>3 DEF OrderOK
  <2> QED BY <2>5, <2>6
<1>14. /\ sub2[Nil] = {}
       /\ \A e \in Side : u.child[e][Nil] = Nil
       /\ \A m \in Key \ Made(u) : sub2[m] = {} /\ \A e \in Side : u.child[e][m] = Dangling
  <2>1. /\ sub[Nil] = {} /\ \A e \in Side : t.child[e][Nil] = Nil
        /\ \A m \in Key \ Made(t) : sub[m] = {} /\ \A e \in Side : t.child[e][m] = Dangling
    BY <1>1 DEF Shape
  <2>2. n # Nil /\ y # Nil /\ q # Nil
    BY <1>1, <1>2, <1>3
  <2>3. \A e \in Side : u.child[e][Nil] = Nil
    BY <2>1, <2>2, <1>2, <1>5
  <2>4. sub2[Nil] = {}
    BY <2>1, <2>2, <1>2, <1>6
  <2>5. ASSUME NEW m \in Key \ Made(u)
        PROVE  sub2[m] = {} /\ \A e \in Side : u.child[e][m] = Dangling
    <3>1. m \in Ptr /\ (m # n => m \in Key \ Made(t))
      BY <1>2, <1>9
    <3>2. m # n => (m # p \/ p = Nil) /\ m # y /\ m # q
      BY <3>1, <1>3
    <3>3. m # n => sub[m] = {}
      BY <3>1, <2>1
    <3>4. sub2[m] = {}
      BY <3>1, <3>2, <3>3, <1>6
    <3> QED BY <3>1, <3>2, <3>4, <2>1, <1>5
  <2> QED BY <2>3, <2>4, <2>5
<1>15. Shape(u, sub2)
  BY <1>5, <1>6, <1>9, <1>11, <1>12, <1>13, <1>14 DEF Shape
<1>16. /\ t.root \in Made(t) \cup {Nil} /\ r0 \in Made(t) \cup {Nil}
       /\ Made(t) = sub[t.root] \cup sub[r0]
       /\ sub[t.root] \cap sub[r0] = {}
       /\ \A m \in Made(t) : t.parent[m] = Nil <=> m \in {t.root, r0}
  BY DEF Trees
<1>17. /\ n \notin sub[r0] /\ r0 \notin sub[t.root] /\ r0 # n
       /\ sub[n] \subseteq sub[t.root] /\ t.root # Nil
       /\ (t.root # n => t.root \notin sub[n])
  <2>1. t.root # Nil
    BY <1>2
  <2>2. r0 \in sub[r0] \/ r0 = Nil
    BY <1>1, <1>2, <1>16, NodeFacts
  <2>3. sub[n] \subseteq sub[t.root] /\ Nil \notin sub[t.root]
    BY <2>1, <1>1, <1>2, <1>16, SubtreeNodes
  <2>4. n \notin sub[r0] /\ r0 \notin sub[t.root] /\ r0 # n
    BY <2>2, <2>3, <1>2, <1>3, <1>16
  <2>5. ASSUME t.root # n PROVE t.root \notin sub[n]
    <3>1. t.root \in sub[n] => t.parent[t.root] \in sub[n]
      BY <2>5, <1>1, SubtreeNodes
    <3>2. t.parent[t.root] = Nil
      BY <2>1, <1>16
    <3>3. Nil \notin sub[n]
      BY <1>1, <1>2, SubtreeNodes
    <3> QED BY <3>1, <3>2, <3>3
  <2> QED BY <2>1, <2>3, <2>4, <2>5
<1>18. sub2[r0] = sub[r0]
  <2>1. r0 \in Ptr /\ r0 # y /\ r0 \notin sub[r]
    BY <1>2, <1>3, <1>16, <1>17
  <2>2. sub2[r0] = sub[r0] \ {n}
    BY <2>1, <1>6, <1>17
  <2> QED BY <2>2, <1>17
<1>19. sub2[u.root] = sub[t.root] \ {n} /\ u.root \in Made(u) \cup {Nil}
  <2>1. CASE p = Nil
    <3>1. t.root = n
      BY <2>1, <1>1, <1>16, <1>17 DEF p
    <3>2. u.root = y
      BY <2>1, <1>5
    <3> QED BY <3>1, <3>2, <1>2, <1>3, <1>6, <1>9
  <2>2. CASE p # Nil
    <3>1. t.root # n
      BY <2>2, <1>1, <1>16 DEF p
    <3>2. u.root = t.root /\ t.root \in Ptr
      BY <2>2, <1>2, <1>5, <1>16
    <3>3. t.root # y /\ t.root \notin sub[r]
      BY <3>1, <1>3, <1>17
    <3> QED BY <3>1, <3>2, <3>3, <1>6, <1>9, <1>16
  <2> QED BY <2>1, <2>2
<1>20. ASSUME NEW m \in Made(u)
       PROVE  u.parent[m] = Nil <=> m \in {u.root, r0}
  <2>1. m \in Made(t) /\ m # n /\ m # Nil /\ m \in Ptr
    BY <1>2, <1>9
  <2>2. CASE m = y
    <3>1. u.parent[m] = p
      BY <2>1, <2>2, <1>5
    <3>2. y # r0 /\ (t.root # n => y # t.root)
      BY <1>3, <1>17
    <3>3. p = Nil <=> t.root = n
      BY <1>1, <1>16, <1>17 DEF p
    <3> QED BY <2>2, <3>1, <3>2, <3>3, <1>5
  <2>3. CASE m \in {l, r, x} /\ m # y
    <3>1. u.parent[m] # Nil
      BY <2>1, <2>3, <1>2, <1>3, <1>5
    <3>2. m \in sub[n]
      BY <2>1, <2>3, <1>3
    <3>3. m # r0 /\ (t.root # n => m # t.root)
      BY <3>2, <1>17
    <3>4. p = Nil <=> t.root = n
      BY <1>1, <1>16, <1>17 DEF p
    <3> QED BY <2>3, <3>1, <3>3, <3>4, <1>5
  <2>4. CASE m \notin {l, r, x, y}
    <3>1. u.parent[m] = t.parent[m]
      BY <2>1, <2>4, <1>5
    <3>2. p = Nil <=> t.root = n
      BY <1>1, <1>16, <1>17 DEF p
    <3> QED BY <2>1, <2>4, <3>1, <3>2, <1>5, <1>16
  <2> QED BY <2>2, <2>3, <2>4
<1>21. sub2[u.root] \cap sub2[r0] = {} /\ Made(u) = sub2[u.root] \cup sub2[r0] /\ r0 \in Made(u) \cup {Nil}
  BY <1>9, <1>16, <1>17, <1>18, <1>19
<1>22. Trees(u, r0, sub2)
  BY <1>15, <1>19, <1>20, <1>21 DEF Trees
<1> USE DEF sub2
<1> QED BY <1>9, <1>18, <1>19, <1>22

-----------------------------------------------------------------------------
(* The searches. A recursive function is a choice among the solutions of   *)
(* its equation: each proof shows one, and that they all agree on nodes.   *)

\* The key of S that comes first, seen from side s.
IsFirst(s, S, y) == y \in S /\ \A j \in S : j = y \/ Before(s, y, j)
\* A value of S; the proofs use it where S has one.
Pick(S) == CHOOSE y : y \in S

\* Subtree finds the subtrees: the witness of their shape is no choice. A key
\* without a node is alone.
LEMMA SubtreeOf ==
  ASSUME NEW t, NEW sub, Shape(t, sub), NEW n \in Ptr
  PROVE  Subtree(t, n) = (Key \cap {n}) \cup sub[n]
<1> DEFINE more(S) == S \cup (Key \cap {t.child[s][m] : s \in Side, m \in S})
           F(f) == [S \in SUBSET Key |-> IF more(S) = S THEN S ELSE f[more(S)]]
           closure == CHOOSE f : f = F(f)
           w(S) == S \cup UNION {sub[m] : m \in S}
           W == [S \in SUBSET Key |-> w(S)]
<1>1. Subtree(t, n) = closure[Key \cap {n}]
  BY DEF Subtree
<1>2. ASSUME NEW S \in SUBSET Key PROVE more(S) \in SUBSET Key /\ S \subseteq more(S)
  OBVIOUS
<1>3. ASSUME NEW S \in SUBSET Key, more(S) = S PROVE w(S) = S
  <2> DEFINE G == {m \in Made(t) : m \in S => sub[m] \subseteq S}
  <2>1. ASSUME NEW m \in Made(t), \A s \in Side : t.child[s][m] \in G \cup {Nil} PROVE m \in G
    <3> SUFFICES ASSUME m \in S PROVE sub[m] \subseteq S
      OBVIOUS
    <3>1. ASSUME NEW s \in Side PROVE sub[t.child[s][m]] \subseteq S
      <4>1. CASE t.child[s][m] = Nil
        BY <4>1 DEF Shape
      <4>2. CASE t.child[s][m] # Nil
        <5>1. t.child[s][m] \in G /\ t.child[s][m] \in Key
          BY <2>1, <4>2 DEF Made
        <5>2. t.child[s][m] \in S
          BY <1>3, <5>1
        <5> QED BY <5>1, <5>2
      <4> QED BY <4>1, <4>2
    <3> QED BY <3>1, SideFacts DEF Shape, OrderOK
  <2>2. Made(t) \subseteq G
    <3> HIDE DEF G
    <3> QED BY <2>1, TreeInduction
  <2>3. \A m \in S : sub[m] \subseteq S
    BY <2>2 DEF Shape
  <2> QED BY <2>3
<1>4. ASSUME NEW S \in SUBSET Key PROVE w(more(S)) = w(S)
  <2>1. ASSUME NEW s \in Side, NEW m \in S, t.child[s][m] \in Key
        PROVE  t.child[s][m] \in sub[m] /\ sub[t.child[s][m]] \subseteq sub[m]
    <3>1. m \in Made(t)
      BY <2>1, KeyAssumption DEF Shape
    <3>2. t.child[s][m] \in Made(t)
      BY <2>1, <3>1, KeyAssumption DEF Shape, LinksOK
    <3> QED BY <3>1, <3>2, NodeFacts
  <2> QED BY <2>1
<1>5. W = F(W)
  <2>1. ASSUME NEW S \in SUBSET Key
        PROVE  w(S) = IF more(S) = S THEN S ELSE W[more(S)]
    <3> HIDE DEF more, w
    <3> QED BY <1>2, <1>3, <1>4
  <2> HIDE DEF more, w
  <2> QED BY <2>1
<1> HIDE DEF W, F
<1>6. closure = F(closure)
  BY <1>5
<1> HIDE DEF closure
<1>11. \A S \in SUBSET Key : closure[S] = IF more(S) = S THEN S ELSE closure[more(S)]
  <2> HIDE DEF more
  <2> QED BY <1>6 DEF F
<1>7. \A S \in SUBSET Key : closure[S] = w(S)
  <2> SUFFICES ASSUME NEW S0 \in SUBSET Key, closure[S0] # w(S0) PROVE FALSE
    OBVIOUS
  <2> DEFINE T == {Key \ S : S \in {R \in SUBSET Key : closure[R] # w(R)}}
  <2>1. T \subseteq SUBSET Key /\ T # {}
    OBVIOUS
  <2>2. IsWellFoundedOn(StrictSubsetOrdering(Key), SUBSET Key)
    <3>1. FiniteSubsetsOf(Key) = SUBSET Key
      BY KeyAssumption, FS_FiniteSubsetsOfFinite
    <3>2. IsWellFoundedOn(StrictSubsetOrdering(Key), FiniteSubsetsOf(Key))
      BY KeyAssumption, FS_StrictSubsetOrderingWellFounded
    <3> QED BY <3>1, <3>2, Zenon
  <2> HIDE DEF T, w
  <2>3. PICK u \in T : \A v \in T : ~(<<v, u>> \in StrictSubsetOrdering(Key))
    BY <2>1, <2>2, WFMin
  <2>4. PICK S \in SUBSET Key : closure[S] # w(S) /\ u = Key \ S
    BY <2>3 DEF T
  <2>5. closure[S] = IF more(S) = S THEN S ELSE closure[more(S)]
    <3> HIDE DEF more, closure
    <3> QED BY <1>11, <2>4
  <2>6. more(S) # S /\ closure[more(S)] # w(more(S))
    BY <1>3, <1>4, <2>4, <2>5
  <2> HIDE DEF more
  <2>7. Key \ more(S) \in T
    BY <1>2, <2>6 DEF T
  <2>8. Key \ more(S) \subseteq u /\ Key \ more(S) # u
    BY <1>2, <2>4, <2>6
  <2> QED BY <2>1, <2>3, <2>7, <2>8 DEF StrictSubsetOrdering
<1>8. Key \cap {n} \in SUBSET Key
  OBVIOUS
<1>9. CASE n = Nil
  <2>1. Key \cap {n} = {} /\ sub[n] = {}
    BY <1>9, KeyAssumption DEF Shape
  <2> QED BY <1>1, <1>7, <1>8, <2>1
<1>10. CASE n \in Key
  <2>1. Key \cap {n} = {n}
    BY <1>10
  <2>2. w({n}) = {n} \cup sub[n]
    OBVIOUS
  <2> QED BY <1>1, <1>7, <1>8, <2>1, <2>2
<1> QED BY <1>9, <1>10 DEF Ptr

\* Where there is a node, or none, Subtree finds the set of the shape.
LEMMA SubtreeIs ==
  ASSUME NEW t, NEW sub, Shape(t, sub), NEW n \in Made(t) \cup {Nil}
  PROVE  Subtree(t, n) = sub[n]
<1>1. n \in Ptr /\ Made(t) \subseteq Key
  BY DEF Made, Ptr
<1>2. Subtree(t, n) = (Key \cap {n}) \cup sub[n]
  BY <1>1, SubtreeOf
<1>3. n \in Made(t) => n \in sub[n]
  BY NodeFacts, SideFacts
<1>4. Nil \notin Key
  BY KeyAssumption
<1> QED BY <1>1, <1>2, <1>3, <1>4

\* GetMinimum and GetMaximum find the first node of a subtree.
LEMMA OutermostIs ==
  ASSUME NEW t, NEW sub, Shape(t, sub), NEW s \in Side
  PROVE  /\ Outermost(t, Nil, s) = Nil
         /\ \A n \in Made(t) : LET y == Outermost(t, n, s)
                               IN  /\ IsFirst(s, sub[n], y)
                                   /\ t.child[s][y] = Nil
<1> DEFINE F(f) == [m \in AnyPtr |-> IF m = Dangling \/ t.child[s][m] = Nil THEN m
                                     ELSE f[t.child[s][m]]]
           down == CHOOSE f : f = F(f)
           firsts(n) == {y \in Key : IsFirst(s, sub[n], y)}
           W == [m \in AnyPtr |-> IF m \in Made(t) THEN Pick(firsts(m))
                                  ELSE IF m = Nil THEN Nil ELSE Dangling]
<1>1. \A n : Outermost(t, n, s) = down[n]
  BY DEF Outermost
<1>2. ASSUME NEW n \in Made(t)
      PROVE  firsts(n) = IF t.child[s][n] = Nil THEN {n} ELSE firsts(t.child[s][n])
  <2> DEFINE o == Opposite(s)
             c == t.child[s][n]
             d == t.child[o][n]
  <2>1. /\ o \in Side /\ n \in Int /\ sub[n] \subseteq Int /\ sub[n] \subseteq Key
        /\ sub[n] = {n} \cup sub[c] \cup sub[d]
        /\ c # Nil => c \in sub[c]
    <3>1. /\ o \in Side /\ n \in Key /\ sub[n] \subseteq Key
          /\ sub[n] = {n} \cup sub[c] \cup sub[d]
          /\ c \in Made(t) \cup {Nil}
      BY NodeFacts, SideFacts
    <3>2. c # Nil => c \in sub[c]
      BY <3>1, NodeFacts
    <3> QED BY <3>1, <3>2, KeyAssumption
  <2>2. /\ \A j \in sub[c] : Before(s, j, n)
        /\ \A j \in sub[d] : Before(o, j, n)
    BY SideFacts DEF Shape, OrderOK
  <2>3. sub[Nil] = {}
    BY DEF Shape
  <2>4. \A j \in Int, k \in Int : Before(o, j, k) <=> Before(s, k, j)
    BY DEF Before, Opposite, Side
  <2>5. \A i \in Int, j \in Int, k \in Int :
           /\ Before(s, i, j) /\ Before(s, j, k) => Before(s, i, k)
           /\ Before(s, i, j) => i # j /\ ~Before(s, j, i)
    BY DEF Before
  <2> HIDE DEF o, c, d
  <2>6. CASE c = Nil
    BY <2>1, <2>2, <2>3, <2>4, <2>5, <2>6 DEF IsFirst, c
  <2>7. CASE c # Nil
    <3>1. ASSUME NEW y, IsFirst(s, sub[n], y) PROVE IsFirst(s, sub[c], y)
      BY <2>1, <2>2, <2>4, <2>5, <2>7, <3>1 DEF IsFirst
    <3>2. ASSUME NEW y, IsFirst(s, sub[c], y) PROVE IsFirst(s, sub[n], y)
      BY <2>1, <2>2, <2>4, <2>5, <2>7, <3>2 DEF IsFirst
    <3> QED BY <2>7, <3>1, <3>2 DEF c
  <2> QED BY <2>6, <2>7
<1> HIDE DEF firsts
<1>3. W = F(W)
  <2> SUFFICES ASSUME NEW m \in AnyPtr
               PROVE  W[m] = IF m = Dangling \/ t.child[s][m] = Nil THEN m
                             ELSE W[t.child[s][m]]
    OBVIOUS
  <2>1. CASE m \in Made(t)
    <3>1. m \in Key /\ m # Dangling /\ t.child[s][m] \in Made(t) \cup {Nil}
      BY <2>1, NodeFacts
    <3>2. t.child[s][m] = Nil => Pick(firsts(m)) = m
      BY <1>2, <2>1 DEF Pick
    <3> QED BY <1>2, <2>1, <3>1, <3>2 DEF AnyPtr, Ptr, Made
  <2>2. CASE m = Nil
    BY <2>2, KeyAssumption DEF Shape, Made
  <2>3. CASE m = Dangling
    BY <2>3, KeyAssumption DEF Made
  <2>4. CASE m \in Key \ Made(t)
    <3>1. t.child[s][m] = Dangling /\ m # Nil /\ Dangling # Nil /\ Dangling \notin Made(t)
      BY <2>4, KeyAssumption DEF Shape, Made
    <3> QED BY <2>4, <3>1 DEF AnyPtr, Ptr
  <2> QED BY <2>1, <2>2, <2>3, <2>4 DEF AnyPtr, Ptr
<1> HIDE DEF W, F
<1>4. down = F(down)
  BY <1>3
<1> HIDE DEF down
<1>5. \A m \in AnyPtr : down[m] = IF m = Dangling \/ t.child[s][m] = Nil THEN m
                                  ELSE down[t.child[s][m]]
  BY <1>4 DEF F
<1>6. down[Nil] = Nil
  BY <1>5 DEF Shape, AnyPtr, Ptr
<1> DEFINE G == {n \in Made(t) : down[n] \in firsts(n) /\ t.child[s][down[n]] = Nil}
<1>7. ASSUME NEW n \in Made(t), \A e \in Side : t.child[e][n] \in G \cup {Nil} PROVE n \in G
  <2>1. n \in AnyPtr /\ n # Dangling
    BY NodeFacts DEF AnyPtr, Ptr
  <2> QED BY <1>2, <1>5, <1>7, <2>1
<1>8. Made(t) \subseteq G
  <2> HIDE DEF G
  <2> QED BY <1>7, TreeInduction
<1> QED BY <1>1, <1>6, <1>8 DEF firsts

\* Where Insert's search may end among the keys of S: at the key itself, or at
\* a neighbour of it that has no child on its side.
Ends(t, S, k) ==
    {p \in S : IF k \in S THEN p = k
               ELSE /\ t.child[IF k < p THEN "left" ELSE "right"][p] = Nil
                    /\ \A j \in S : ~(p < j /\ j < k) /\ ~(k < j /\ j < p)}

\* A search that goes on to a child can end where the child's search can.
LEMMA EndsStep ==
  ASSUME NEW t, NEW sub, Shape(t, sub), NEW k \in Key, NEW m \in Made(t)
  PROVE  LET c == t.child[IF k < m THEN "left" ELSE "right"][m]
         IN  Ends(t, sub[m], k) = IF m = k \/ c = Nil THEN {m} ELSE Ends(t, sub[c], k)
<1> DEFINE s == IF k < m THEN "left" ELSE "right"
           o == Opposite(s)
           c == t.child[s][m]
           d == t.child[o][m]
<1>1. s \in Side /\ o \in Side
  BY DEF Side, Opposite
<1>2. /\ m \in Key /\ sub[m] \subseteq Key
      /\ sub[m] = {m} \cup sub[c] \cup sub[d]
      /\ c \in Made(t) \cup {Nil}
  BY <1>1, NodeFacts
<1>3. m \in Int /\ k \in Int /\ sub[m] \subseteq Int
  BY <1>2, KeyAssumption
<1>4. /\ \A j \in sub[c] : Before(s, j, m)
      /\ \A j \in sub[d] : Before(o, j, m)
  BY <1>1 DEF Shape, OrderOK
<1>5. sub[Nil] = {}
  BY DEF Shape
<1>6. \A j \in sub[d] : IF k < m THEN m < j ELSE j < m
  BY <1>4 DEF Before, Opposite
<1>7. \A j \in sub[c] : IF k < m THEN j < m ELSE m < j
  BY <1>4 DEF Before
<1>8. t.child[IF k < m THEN "left" ELSE "right"][m] = c
  OBVIOUS
<1> HIDE DEF s, o, c, d
<1>9. CASE m = k
  BY <1>2, <1>9 DEF Ends
<1>10. CASE m # k /\ c = Nil
  <2>1. k \notin sub[m]
    BY <1>2, <1>3, <1>5, <1>6, <1>10
  <2>2. m \in Ends(t, sub[m], k)
    BY <1>2, <1>3, <1>5, <1>6, <1>8, <1>10, <2>1 DEF Ends
  <2>3. ASSUME NEW p \in Ends(t, sub[m], k) PROVE p = m
    BY <1>2, <1>3, <1>5, <1>6, <1>10, <2>1, <2>3 DEF Ends
  <2> QED BY <1>8, <1>10, <2>2, <2>3
<1>11. CASE m # k /\ c # Nil
  <2>1. k \in sub[m] <=> k \in sub[c]
    BY <1>2, <1>3, <1>6, <1>11
  <2>2. CASE k \in sub[c]
    BY <1>2, <1>8, <1>11, <2>1, <2>2 DEF Ends
  <2>3. CASE k \notin sub[c]
    <3>1. ASSUME NEW p \in Ends(t, sub[m], k) PROVE p \in Ends(t, sub[c], k)
      <4>1. p # m
        BY <1>8, <1>11, <2>1, <2>3, <3>1 DEF Ends
      <4>2. p \notin sub[d]
        BY <1>2, <1>3, <1>6, <1>11, <2>1, <2>3, <3>1 DEF Ends
      <4> QED BY <1>2, <2>1, <2>3, <3>1, <4>1, <4>2 DEF Ends
    <3>2. ASSUME NEW p \in Ends(t, sub[c], k) PROVE p \in Ends(t, sub[m], k)
      <4>1. p \in sub[c] /\ p \in sub[m] /\ p \in Int
        BY <1>2, <1>3, <3>2 DEF Ends
      <4>2. /\ t.child[IF k < p THEN "left" ELSE "right"][p] = Nil
            /\ \A j \in sub[c] : ~(p < j /\ j < k) /\ ~(k < j /\ j < p)
        BY <2>3, <3>2 DEF Ends
      <4>3. ASSUME NEW j \in sub[m] PROVE ~(p < j /\ j < k) /\ ~(k < j /\ j < p)
        BY <1>2, <1>3, <1>6, <1>7, <1>11, <4>1, <4>2
      <4> QED BY <2>1, <2>3, <4>1, <4>2, <4>3 DEF Ends
    <3> QED BY <1>8, <1>11, <3>1, <3>2
  <2> QED BY <2>2, <2>3
<1> QED BY <1>9, <1>10, <1>11

\* Insert's search ends at the key, or where it can be hung.
LEMMA PlaceIs ==
  ASSUME NEW t, NEW sub, Shape(t, sub), NEW k \in Key, t.root \in Made(t)
  PROVE  Place(t, k) \in Ends(t, sub[t.root], k)
<1> DEFINE next(m) == t.child[IF k < m THEN "left" ELSE "right"][m]
           F(f) == [m \in AnyPtr |->
                      IF m \in {k, Nil, Dangling} \/ next(m) = Nil THEN m ELSE f[next(m)]]
           down == CHOOSE f : f = F(f)
           W == [m \in AnyPtr |-> IF m \in Made(t) THEN Pick(Ends(t, sub[m], k))
                                  ELSE IF m \in {k, Nil} THEN m ELSE Dangling]
<1>1. Place(t, k) = down[t.root]
  BY DEF Place
<1>2. ASSUME NEW m \in Made(t)
      PROVE  /\ m \notin {Nil, Dangling} /\ m \in AnyPtr
             /\ next(m) \in Made(t) \cup {Nil} /\ next(m) \in AnyPtr
             /\ Ends(t, sub[m], k) = IF m = k \/ next(m) = Nil THEN {m}
                                     ELSE Ends(t, sub[next(m)], k)
  <2>1. m \notin {Nil, Dangling} /\ m \in AnyPtr
    BY NodeFacts, SideFacts DEF AnyPtr, Ptr
  <2>2. next(m) \in Made(t) \cup {Nil}
    BY NodeFacts DEF Side
  <2>3. next(m) \in AnyPtr
    BY <2>2 DEF AnyPtr, Ptr, Made
  <2> QED BY <2>1, <2>2, <2>3, EndsStep
<1>3. ASSUME NEW m \in Key \ Made(t) PROVE next(m) = Dangling
  BY DEF Shape, Side
<1> HIDE DEF next
<1>4. W = F(W)
  <2> SUFFICES ASSUME NEW m \in AnyPtr
               PROVE  W[m] = IF m \in {k, Nil, Dangling} \/ next(m) = Nil THEN m
                             ELSE W[next(m)]
    OBVIOUS
  <2>1. CASE m \in Made(t)
    <3>1. (m = k \/ next(m) = Nil) => Pick(Ends(t, sub[m], k)) = m
      <4> SUFFICES ASSUME m = k \/ next(m) = Nil PROVE Pick(Ends(t, sub[m], k)) = m
        OBVIOUS
      <4>1. Ends(t, sub[m], k) = {m}
        BY <1>2, <2>1
      <4>2. Pick({m}) = m
        BY DEF Pick
      <4> QED BY <4>1, <4>2
    <3> QED BY <1>2, <2>1, <3>1
  <2>2. CASE m \in Key \ Made(t)
    <3>1. m # Nil /\ m # Dangling /\ Dangling # Nil /\ Dangling \notin Made(t) /\ Dangling # k
      BY <2>2, KeyAssumption DEF Made
    <3> QED BY <1>3, <2>2, <3>1 DEF AnyPtr
  <2>3. CASE m \in {Nil, Dangling}
    BY <2>3, KeyAssumption DEF Made
  <2> QED BY <2>1, <2>2, <2>3 DEF AnyPtr, Ptr
<1> HIDE DEF W, F
<1>5. down = F(down)
  BY <1>4
<1> HIDE DEF down
<1>6. \A m \in AnyPtr : down[m] = IF m \in {k, Nil, Dangling} \/ next(m) = Nil THEN m
                                  ELSE down[next(m)]
  BY <1>5 DEF F
<1> DEFINE G == {m \in Made(t) : down[m] \in Ends(t, sub[m], k)}
<1>7. ASSUME NEW m \in Made(t), \A e \in Side : t.child[e][m] \in G \cup {Nil} PROVE m \in G
  <2>1. next(m) \in G \cup {Nil}
    BY <1>7 DEF next, Side
  <2> QED BY <1>2, <1>6, <1>7, <2>1
<1>8. Made(t) \subseteq G
  <2> HIDE DEF G
  <2> QED BY <1>7, TreeInduction
<1> QED BY <1>1, <1>8

\* FindNode finds the keys that are there.
LEMMA FindNodeIs ==
  ASSUME NEW t, NEW sub, Shape(t, sub), NEW k \in Key, t.root \in Made(t) \cup {Nil}
  PROVE  FindNode(t, k) = IF k \in sub[t.root] THEN k ELSE Nil
<1>1. CASE t.root = Nil
  BY <1>1 DEF FindNode, Shape
<1>2. CASE t.root # Nil
  <2>1. Place(t, k) \in Ends(t, sub[t.root], k)
    BY <1>2, PlaceIs
  <2> QED BY <1>2, <2>1 DEF FindNode, Ends
<1> QED BY <1>1, <1>2

\* The keys from k on, and those after it.
From(k) == {j \in Key : j >= k}
Past(k) == {j \in Key : k < j}

\* The first key of U in a subtree, or the best one found above it.
BoundIn(t, sub, U, m, best) ==
    IF m \notin Key THEN best
    ELSE IF m \notin Made(t) THEN IF m \in U THEN m ELSE best
    ELSE IF sub[m] \cap U = {} THEN best
    ELSE Pick({y \in Key : IsFirst("left", sub[m] \cap U, y)})

\* One step of the search for a bound.
LEMMA BoundStep ==
  ASSUME NEW t, NEW sub, Shape(t, sub), NEW U, U \subseteq Key,
         \A i \in U, j \in Key : i < j => j \in U,
         NEW m \in Key, NEW best \in Ptr
  PROVE  BoundIn(t, sub, U, m, best)
           = IF m \in U THEN BoundIn(t, sub, U, t.child["left"][m], m)
             ELSE BoundIn(t, sub, U, t.child["right"][m], best)
<1>1. CASE m \notin Made(t)
  <2>1. \A s \in Side : t.child[s][m] = Dangling
    BY <1>1 DEF Shape
  <2> QED BY <1>1, <2>1, KeyAssumption DEF BoundIn, Side
<1>2. CASE m \in Made(t)
  <2> DEFINE l == t.child["left"][m]
             r == t.child["right"][m]
  <2>1. /\ sub[m] = {m} \cup sub[l] \cup sub[r]
        /\ l \in Made(t) \cup {Nil} /\ r \in Made(t) \cup {Nil}
    BY <1>2 DEF Shape, OrderOK, LinksOK, Side
  <2>2. /\ \A j \in sub[l] : j < m
        /\ \A j \in sub[r] : m < j
    BY <1>2 DEF Shape, OrderOK, Before, Side
  <2>3. sub[m] \subseteq Key /\ m \in Int /\ sub[m] \subseteq Int
    BY <1>2, NodeFacts, SideFacts, KeyAssumption
  <2>4. sub[Nil] = {} /\ Nil \notin Key
    BY KeyAssumption DEF Shape
  <2>5. Made(t) \subseteq Key
    BY DEF Made
  <2> HIDE DEF l, r
  <2>6. \A c \in Made(t) \cup {Nil} : \A b : BoundIn(t, sub, U, c, b)
            = IF sub[c] \cap U = {} THEN b
              ELSE Pick({y \in Key : IsFirst("left", sub[c] \cap U, y)})
    BY <2>4, <2>5 DEF BoundIn
  <2>7. CASE m \notin U
    <3>1. sub[m] \cap U = sub[r] \cap U
      BY <2>1, <2>2, <2>3, <2>7
    <3> QED BY <1>2, <2>1, <2>6, <2>7, <3>1 DEF r
  <2>8. CASE m \in U /\ sub[l] \cap U = {}
    <3>1. m \in sub[m] \cap U /\ \A j \in sub[m] \cap U : j = m \/ m < j
      BY <2>1, <2>2, <2>8
    <3>2. {y \in Key : IsFirst("left", sub[m] \cap U, y)} = {m}
      BY <2>3, <3>1 DEF IsFirst, Before
    <3>3. Pick({m}) = m
      BY DEF Pick
    <3> QED BY <1>2, <2>1, <2>6, <2>8, <3>1, <3>2, <3>3 DEF l
  <2>9. CASE m \in U /\ sub[l] \cap U # {}
    <3>1. \A j \in sub[m] \cap U : j \in sub[l] \cap U \/ m <= j
      BY <2>1, <2>2, <2>3
    <3>2. \A y \in Key : IsFirst("left", sub[m] \cap U, y) <=> IsFirst("left", sub[l] \cap U, y)
      <4> SUFFICES ASSUME NEW y \in Key
                   PROVE  IsFirst("left", sub[m] \cap U, y) <=> IsFirst("left", sub[l] \cap U, y)
        OBVIOUS
      <4>1. y \in Int /\ sub[l] \subseteq sub[m]
        BY <2>1, KeyAssumption
      <4>2. ASSUME IsFirst("left", sub[m] \cap U, y) PROVE IsFirst("left", sub[l] \cap U, y)
        BY <2>2, <2>3, <2>9, <3>1, <4>1, <4>2 DEF IsFirst, Before
      <4>3. ASSUME IsFirst("left", sub[l] \cap U, y) PROVE IsFirst("left", sub[m] \cap U, y)
        BY <2>2, <2>3, <2>9, <3>1, <4>1, <4>3 DEF IsFirst, Before
      <4> QED BY <4>2, <4>3
    <3>3. {y \in Key : IsFirst("left", sub[m] \cap U, y)}
            = {y \in Key : IsFirst("left", sub[l] \cap U, y)}
      BY <3>2
    <3>4. sub[m] \cap U # {}
      BY <2>1, <2>9
    <3> QED BY <1>2, <2>1, <2>6, <2>9, <3>3, <3>4 DEF l
  <2> QED BY <2>7, <2>8, <2>9
<1> QED BY <1>1, <1>2

\* A set of keys has a first one.
LEMMA FirstExists ==
  ASSUME NEW S \in SUBSET Key, S # {}, NEW s \in Side
  PROVE  \E y \in S : IsFirst(s, S, y)
<1> DEFINE earlier(y) == {j \in S : Before(s, j, y)}
           T == {earlier(y) : y \in S}
<1>1. T \subseteq SUBSET Key /\ T # {}
  OBVIOUS
<1>2. IsWellFoundedOn(StrictSubsetOrdering(Key), SUBSET Key)
  <2>1. FiniteSubsetsOf(Key) = SUBSET Key
    BY KeyAssumption, FS_FiniteSubsetsOfFinite
  <2>2. IsWellFoundedOn(StrictSubsetOrdering(Key), FiniteSubsetsOf(Key))
    BY KeyAssumption, FS_StrictSubsetOrderingWellFounded
  <2> QED BY <2>1, <2>2, Zenon
<1> HIDE DEF T
<1>3. PICK u \in T : \A v \in T : ~(<<v, u>> \in StrictSubsetOrdering(Key))
  BY <1>1, <1>2, WFMin
<1>4. PICK y \in S : u = earlier(y)
  BY <1>3 DEF T
<1>5. S \subseteq Int
  BY KeyAssumption
<1>6. earlier(y) = {}
  <2> SUFFICES ASSUME NEW j \in earlier(y) PROVE FALSE
    OBVIOUS
  <2>1. earlier(j) \in T /\ earlier(j) \subseteq Key
    BY DEF T
  <2>2. j \in S /\ Before(s, j, y) /\ j \in Int /\ y \in Int
    BY <1>4, <1>5
  <2>3. \A i \in Int : Before(s, i, j) => Before(s, i, y)
    BY <2>2 DEF Before
  <2>4. ~Before(s, j, j)
    BY <2>2 DEF Before
  <2>5. earlier(j) \subseteq u /\ j \in u /\ j \notin earlier(j)
    BY <1>4, <1>5, <2>2, <2>3, <2>4
  <2> QED BY <1>1, <1>3, <2>1, <2>5 DEF StrictSubsetOrdering
<1>7. \A j \in S : j = y \/ Before(s, y, j)
  BY <1>5, <1>6 DEF Before
<1> QED BY <1>7 DEF IsFirst

\* The first key of S, or the sentinel when there is none.
FirstOrNil(s, S, y) == IF S = {} THEN y = Nil ELSE IsFirst(s, S, y)

\* What the recursion of both bounds leads to.
LEMMA BoundFound ==
  ASSUME NEW t, NEW sub, Shape(t, sub), NEW U, U \subseteq Key,
         \A i \in U, j \in Key : i < j => j \in U,
         NEW down,
         \A m \in AnyPtr, best \in Ptr :
            down[m][best] = IF m \notin Key THEN best
                            ELSE IF m \in U THEN down[t.child["left"][m]][m]
                            ELSE down[t.child["right"][m]][best],
         t.root \in Made(t) \cup {Nil}
  PROVE  FirstOrNil("left", sub[t.root] \cap U, down[t.root][Nil])
<1> DEFINE G == {m \in Made(t) : \A best \in Ptr : down[m][best] = BoundIn(t, sub, U, m, best)}
<1>1. ASSUME NEW best \in Ptr
      PROVE  down[Nil][best] = best /\ BoundIn(t, sub, U, Nil, best) = best
  BY KeyAssumption DEF BoundIn, AnyPtr, Ptr
<1>2. ASSUME NEW m \in Made(t), \A e \in Side : t.child[e][m] \in G \cup {Nil} PROVE m \in G
  <2> SUFFICES ASSUME NEW best \in Ptr PROVE down[m][best] = BoundIn(t, sub, U, m, best)
    OBVIOUS
  <2>1. m \in Key /\ m \in Ptr /\ m \in AnyPtr
    BY DEF Made, AnyPtr, Ptr
  <2>2. \A e \in Side, b \in Ptr :
           down[t.child[e][m]][b] = BoundIn(t, sub, U, t.child[e][m], b)
    BY <1>1, <1>2
  <2>3. BoundIn(t, sub, U, m, best)
           = IF m \in U THEN BoundIn(t, sub, U, t.child["left"][m], m)
             ELSE BoundIn(t, sub, U, t.child["right"][m], best)
    BY <2>1, BoundStep
  <2> QED BY <2>1, <2>2, <2>3 DEF Side
<1>3. Made(t) \subseteq G
  <2> HIDE DEF G
  <2> QED BY <1>2, TreeInduction
<1>4. down[t.root][Nil] = BoundIn(t, sub, U, t.root, Nil)
  BY <1>1, <1>3 DEF Ptr
<1>5. CASE t.root = Nil
  BY <1>1, <1>4, <1>5 DEF Shape, FirstOrNil, Ptr
<1>6. CASE t.root # Nil
  <2>1. t.root \in Made(t) /\ t.root \in Key
    BY <1>6 DEF Made
  <2>2. CASE sub[t.root] \cap U = {}
    BY <1>4, <2>1, <2>2 DEF BoundIn, FirstOrNil
  <2>3. CASE sub[t.root] \cap U # {}
    <3>1. PICK y \in sub[t.root] \cap U : IsFirst("left", sub[t.root] \cap U, y)
      BY <2>3, FirstExists DEF Side
    <3>2. y \in {z \in Key : IsFirst("left", sub[t.root] \cap U, z)}
      BY <3>1
    <3>3. BoundIn(t, sub, U, t.root, Nil) \in {z \in Key : IsFirst("left", sub[t.root] \cap U, z)}
      BY <2>1, <2>3, <3>2 DEF BoundIn, Pick
    <3> QED BY <1>4, <2>3, <3>3 DEF FirstOrNil
  <2> QED BY <2>2, <2>3
<1> QED BY <1>5, <1>6

\* LowerBound finds the first key of the tree that is not below k.
LEMMA LowerBoundIs ==
  ASSUME NEW t, NEW sub, Shape(t, sub), NEW k \in Key, t.root \in Made(t) \cup {Nil}
  PROVE  FirstOrNil("left", sub[t.root] \cap From(k), LowerBound(t, k))
<1> DEFINE F(f) == [m \in AnyPtr |-> [best \in Ptr |->
                      IF m \notin Key THEN best
                      ELSE IF m < k THEN f[t.child["right"][m]][best]
                      ELSE f[t.child["left"][m]][m]]]
           down == CHOOSE f : f = F(f)
           W == [m \in AnyPtr |-> [best \in Ptr |-> BoundIn(t, sub, From(k), m, best)]]
<1>1. LowerBound(t, k) = down[t.root][Nil]
  BY DEF LowerBound
<1>2. /\ From(k) \subseteq Key
      /\ \A i \in From(k), j \in Key : i < j => j \in From(k)
      /\ \A m \in Key : m < k <=> m \notin From(k)
  BY KeyAssumption DEF From
<1>3. ASSUME NEW m \in Key, NEW s \in Side PROVE t.child[s][m] \in AnyPtr /\ m \in Ptr
  BY DEF Shape, Tree, Ptr
<1>4. W = F(W)
  <2> SUFFICES ASSUME NEW m \in AnyPtr, NEW best \in Ptr
               PROVE  BoundIn(t, sub, From(k), m, best)
                        = IF m \notin Key THEN best
                          ELSE IF m < k THEN W[t.child["right"][m]][best]
                          ELSE W[t.child["left"][m]][m]
    OBVIOUS
  <2>1. CASE m \notin Key
    BY <2>1 DEF BoundIn
  <2>2. CASE m \in Key
    <3>1. BoundIn(t, sub, From(k), m, best)
             = IF m \in From(k) THEN BoundIn(t, sub, From(k), t.child["left"][m], m)
               ELSE BoundIn(t, sub, From(k), t.child["right"][m], best)
      BY <1>2, <2>2, BoundStep
    <3> QED BY <1>2, <1>3, <2>2, <3>1 DEF Side
  <2> QED BY <2>1, <2>2
<1> HIDE DEF W, F
<1>5. down = F(down)
  BY <1>4
<1> HIDE DEF down
<1>6. ASSUME NEW m \in AnyPtr, NEW best \in Ptr
      PROVE  down[m][best] = IF m \notin Key THEN best
                             ELSE IF m \in From(k) THEN down[t.child["left"][m]][m]
                             ELSE down[t.child["right"][m]][best]
  <2>1. down[m] = [b \in Ptr |-> IF m \notin Key THEN b
              ELSE IF m < k THEN down[t.child["right"][m]][b]
              ELSE down[t.child["left"][m]][m]]
    BY <1>5 DEF F
  <2> QED BY <1>2, <2>1
<1>7. ASSUME NEW U, U = From(k) PROVE FirstOrNil("left", sub[t.root] \cap U, down[t.root][Nil])
  <2>1. U \subseteq Key /\ \A i \in U, j \in Key : i < j => j \in U
    BY <1>2, <1>7
  <2>2. \A m \in AnyPtr, best \in Ptr :
           down[m][best] = IF m \notin Key THEN best
                           ELSE IF m \in U THEN down[t.child["left"][m]][m]
                           ELSE down[t.child["right"][m]][best]
    BY <1>6, <1>7
  <2> QED BY <2>1, <2>2, BoundFound
<1> QED BY <1>1, <1>7

\* UpperBound finds the first key of the tree above k.
LEMMA UpperBoundIs ==
  ASSUME NEW t, NEW sub, Shape(t, sub), NEW k \in Key, t.root \in Made(t) \cup {Nil}
  PROVE  FirstOrNil("left", sub[t.root] \cap Past(k), UpperBound(t, k))
<1> DEFINE F(f) == [m \in AnyPtr |-> [best \in Ptr |->
                      IF m \notin Key THEN best
                      ELSE IF k < m THEN f[t.child["left"][m]][m]
                      ELSE f[t.child["right"][m]][best]]]
           down == CHOOSE f : f = F(f)
           W == [m \in AnyPtr |-> [best \in Ptr |-> BoundIn(t, sub, Past(k), m, best)]]
<1>1. UpperBound(t, k) = down[t.root][Nil]
  BY DEF UpperBound
<1>2. /\ Past(k) \subseteq Key
      /\ \A i \in Past(k), j \in Key : i < j => j \in Past(k)
      /\ \A m \in Key : k < m <=> m \in Past(k)
  BY KeyAssumption DEF Past
<1>3. ASSUME NEW m \in Key, NEW s \in Side PROVE t.child[s][m] \in AnyPtr /\ m \in Ptr
  BY DEF Shape, Tree, Ptr
<1>4. W = F(W)
  <2> SUFFICES ASSUME NEW m \in AnyPtr, NEW best \in Ptr
               PROVE  BoundIn(t, sub, Past(k), m, best)
                        = IF m \notin Key THEN best
                          ELSE IF k < m THEN W[t.child["left"][m]][m]
                          ELSE W[t.child["right"][m]][best]
    OBVIOUS
  <2>1. CASE m \notin Key
    BY <2>1 DEF BoundIn
  <2>2. CASE m \in Key
    <3>1. BoundIn(t, sub, Past(k), m, best)
             = IF m \in Past(k) THEN BoundIn(t, sub, Past(k), t.child["left"][m], m)
               ELSE BoundIn(t, sub, Past(k), t.child["right"][m], best)
      BY <1>2, <2>2, BoundStep
    <3> QED BY <1>2, <1>3, <2>2, <3>1 DEF Side
  <2> QED BY <2>1, <2>2
<1> HIDE DEF W, F
<1>5. down = F(down)
  BY <1>4
<1> HIDE DEF down
<1>6. ASSUME NEW m \in AnyPtr, NEW best \in Ptr
      PROVE  down[m][best] = IF m \notin Key THEN best
                             ELSE IF m \in Past(k) THEN down[t.child["left"][m]][m]
                             ELSE down[t.child["right"][m]][best]
  <2>1. down[m] = [b \in Ptr |-> IF m \notin Key THEN b
              ELSE IF k < m THEN down[t.child["left"][m]][m]
              ELSE down[t.child["right"][m]][b]]
    BY <1>5 DEF F
  <2> QED BY <1>2, <2>1
<1>7. ASSUME NEW U, U = Past(k) PROVE FirstOrNil("left", sub[t.root] \cap U, down[t.root][Nil])
  <2>1. U \subseteq Key /\ \A i \in U, j \in Key : i < j => j \in U
    BY <1>2, <1>7
  <2>2. \A m \in AnyPtr, best \in Ptr :
           down[m][best] = IF m \notin Key THEN best
                           ELSE IF m \in U THEN down[t.child["left"][m]][m]
                           ELSE down[t.child["right"][m]][best]
    BY <1>6, <1>7
  <2> QED BY <2>1, <2>2, BoundFound
<1> QED BY <1>1, <1>7

\* The nodes of a tree that come after a subtree, seen from side o.
Beyond(sub, R, n, o) == {j \in sub[R] : j \notin sub[n] /\ Before(o, n, j)}

\* One step up: the parent is next, or what is beyond it is beyond the node.
LEMMA BeyondParent ==
  ASSUME NEW t, NEW sub, Shape(t, sub), NEW R \in Made(t), NEW m \in sub[R], m # R,
         NEW s \in Side
  PROVE  LET o == Opposite(s)
             p == t.parent[m]
         IN  /\ p \in Made(t) /\ p \in sub[R]
             /\ m = t.child[s][p] => Beyond(sub, R, m, o) = Beyond(sub, R, p, o)
             /\ m # t.child[s][p] => IsFirst(o, Beyond(sub, R, m, o), p)
<1> DEFINE o == Opposite(s)
           p == t.parent[m]
<1>1. p \in sub[R] /\ m \in Made(t) /\ sub[R] \subseteq Made(t) /\ sub[p] \subseteq sub[R]
  BY SubtreeNodes
<1>2. p \in Made(t) /\ m \in Key /\ p \in Key /\ sub[R] \subseteq Key
  BY <1>1 DEF Made
<1>3. p \in Int /\ m \in Int /\ sub[R] \subseteq Int /\ o \in Side /\ p # Nil
  BY <1>1, <1>2, KeyAssumption, SideFacts
<1>4. m \in sub[m] /\ p \in sub[p]
  BY <1>1, <1>2, NodeFacts
<1>5. /\ \A e \in Side : \A j \in sub[t.child[e][p]] : Before(e, j, p)
      /\ sub[p] = {p} \cup sub[t.child[s][p]] \cup sub[t.child[o][p]]
  BY <1>2, SideFacts, NodeFacts DEF Shape, OrderOK
<1>6. \A i \in Int, j \in Int, k \in Int :
         /\ Before(o, i, j) /\ Before(o, j, k) => Before(o, i, k)
         /\ Before(o, i, j) => i # j /\ ~Before(o, j, i)
         /\ Before(s, i, j) <=> Before(o, j, i)
  BY DEF Before, Opposite, Side
<1>7. m = t.child[s][p] \/ m = t.child[o][p]
  BY <1>1, <1>2, <1>3, SideFacts DEF Shape, LinksOK
<1>8. ASSUME NEW j \in sub[R], j \notin sub[p]
      PROVE  \/ \A i \in sub[p] : Before(o, i, j)
             \/ \A i \in sub[p] : Before(o, j, i)
  <2>1. PICK e \in Side : \A i \in sub[p] : Before(e, j, i)
    BY <1>1, <1>8, Convex
  <2>2. e = s \/ e = o
    BY SideFacts
  <2>3. sub[p] \subseteq Int
    BY <1>1, <1>3
  <2> QED BY <1>3, <1>6, <2>1, <2>2, <2>3
<1> HIDE DEF o, p
<1>9. CASE m = t.child[s][p]
  <2>1. sub[m] \subseteq sub[p] /\ p \notin sub[m] /\ Before(o, p, m) /\ m \in sub[p]
    BY <1>2, <1>3, <1>4, <1>5, <1>6, <1>9
  <2>2. ASSUME NEW j \in Beyond(sub, R, m, o) PROVE j \in Beyond(sub, R, p, o)
    BY <1>3, <1>5, <1>6, <1>9, <2>1, <2>2 DEF Beyond
  <2>3. ASSUME NEW j \in Beyond(sub, R, p, o) PROVE j \in Beyond(sub, R, m, o)
    <3>1. j \in sub[R] /\ j \notin sub[p] /\ Before(o, p, j) /\ j \notin sub[m] /\ j \in Int
      BY <1>3, <2>1, <2>3 DEF Beyond
    <3>2. \A i \in sub[p] : Before(o, i, j)
      BY <1>3, <1>4, <1>6, <1>8, <3>1
    <3> QED BY <2>1, <3>1, <3>2 DEF Beyond
  <2>4. m = t.child[s][p] => Beyond(sub, R, m, o) = Beyond(sub, R, p, o)
    BY <2>2, <2>3
  <2> QED BY <1>1, <1>2, <1>9, <2>4 DEF o, p
<1>10. CASE m # t.child[s][p]
  <2>1. m = t.child[o][p]
    BY <1>7, <1>10
  <2>2. sub[m] \subseteq sub[p] /\ p \notin sub[m] /\ Before(o, m, p) /\ m \in sub[p]
    BY <1>3, <1>4, <1>5, <1>6, <2>1
  <2>3. p \in Beyond(sub, R, m, o)
    BY <1>1, <2>2 DEF Beyond
  <2>4. ASSUME NEW j \in Beyond(sub, R, m, o), j # p PROVE Before(o, p, j)
    <3>1. j \in sub[R] /\ j \notin sub[m] /\ Before(o, m, j) /\ j \in Int
      BY <1>3, <2>4 DEF Beyond
    <3>2. CASE j \in sub[p]
      <4>1. j \in sub[t.child[s][p]]
        BY <1>5, <2>1, <2>4, <3>1, <3>2
      <4> QED BY <1>3, <1>5, <1>6, <3>1, <4>1
    <3>3. CASE j \notin sub[p]
      BY <1>3, <1>4, <1>6, <1>8, <2>2, <3>1, <3>3
    <3> QED BY <3>2, <3>3
  <2> QED BY <1>1, <1>2, <1>10, <2>3, <2>4 DEF o, p, IsFirst
<1> QED BY <1>9, <1>10

\* ++ and -- go to the next node of the tree they start in, or to the sentinel.
LEMMA NeighbourIs ==
  ASSUME NEW t, NEW r, NEW sub, Trees(t, r, sub), NEW R \in {t.root, r},
         NEW n \in sub[R], NEW s \in Side
  PROVE  FirstOrNil(Opposite(s), {j \in sub[R] : Before(Opposite(s), n, j)},
                    Neighbour(t, Iter(n), s))
<1> DEFINE o == Opposite(s)
           rootOf(m) == IF m \in sub[t.root] THEN t.root ELSE r
           beyond(m) == Beyond(sub, rootOf(m), m, o)
           F(f) == [m \in Key |-> LET p == t.parent[m]
                                  IN  IF p \notin {Iter(n).nil, Dangling} /\ m = t.child[s][p]
                                      THEN f[p] ELSE p]
           climb == CHOOSE f : f = F(f)
           next(m) == IF beyond(m) = {} THEN Nil
                      ELSE Pick({y \in Key : IsFirst(o, beyond(m), y)})
           W == [m \in Key |-> IF m \in Made(t) THEN next(m) ELSE Dangling]
<1> o \in Side /\ Shape(t, sub)
  BY SideFacts DEF Trees
<1>0. Iter(n).nil = Nil /\ Iter(n).at = n
  BY DEF Iter
<1>1. ASSUME NEW m \in Made(t)
      PROVE  /\ m \in sub[rootOf(m)] /\ m \in Key
             /\ rootOf(m) \in Made(t) /\ rootOf(m) \in {t.root, r}
             /\ t.parent[m] = Nil => m = rootOf(m)
             /\ t.parent[rootOf(m)] = Nil
  <2>1. m \in sub[rootOf(m)] /\ m \in Key
    BY DEF Trees, Made
  <2>2. rootOf(m) \in Made(t)
    BY <2>1 DEF Trees, Shape
  <2>3. t.parent[m] = Nil => m \in {t.root, r} /\ m \in sub[m]
    BY NodeFacts DEF Trees
  <2>4. t.parent[rootOf(m)] = Nil
    BY <2>2 DEF Trees
  <2> QED BY <2>1, <2>2, <2>3, <2>4 DEF Trees
<1>2. ASSUME NEW m \in Made(t), t.parent[m] # Nil
      PROVE  LET p == t.parent[m]
             IN  /\ p \in Made(t) /\ p \in Key /\ p # Dangling
                 /\ m = t.child[s][p] => next(m) = next(p)
                 /\ m # t.child[s][p] => next(m) = p
  <2> DEFINE p == t.parent[m]
             Q == rootOf(m)
  <2>1. Q \in Made(t) /\ m \in sub[Q] /\ m # Q /\ Q \in {t.root, r}
    BY <1>1, <1>2
  <2>2. /\ p \in Made(t) /\ p \in sub[Q]
        /\ m = t.child[s][p] => Beyond(sub, Q, m, o) = Beyond(sub, Q, p, o)
        /\ m # t.child[s][p] => IsFirst(o, Beyond(sub, Q, m, o), p)
    BY <2>1, BeyondParent
  <2>3. rootOf(p) = Q
    BY <2>1, <2>2 DEF Trees
  <2>4. p \in Key /\ p # Dangling
    BY <2>2, NodeFacts
  <2>5. ASSUME m # t.child[s][p] PROVE next(m) = p
    <3>1. Beyond(sub, Q, m, o) \subseteq Int /\ p \in Beyond(sub, Q, m, o)
      BY <2>1, <2>2, <2>5, NodeFacts, KeyAssumption DEF Beyond, IsFirst
    <3>2. {y \in Key : IsFirst(o, Beyond(sub, Q, m, o), y)} = {p}
      <4>1. \A y \in Int : ~(Before(o, p, y) /\ Before(o, y, p))
        BY <3>1 DEF Before
      <4> QED BY <2>2, <2>4, <2>5, <3>1, <4>1 DEF IsFirst
    <3>3. Pick({p}) = p
      BY DEF Pick
    <3> QED BY <3>1, <3>2, <3>3
  <2> QED BY <2>2, <2>3, <2>4, <2>5
<1>3. ASSUME NEW m \in Made(t), t.parent[m] = Nil PROVE next(m) = Nil
  <2>1. m = rootOf(m)
    BY <1>1, <1>3
  <2> QED BY <2>1 DEF Beyond
<1> HIDE DEF next
<1>4. W = F(W)
  <2> SUFFICES ASSUME NEW m \in Key
               PROVE  W[m] = IF t.parent[m] \notin {Nil, Dangling} /\ m = t.child[s][t.parent[m]]
                             THEN W[t.parent[m]] ELSE t.parent[m]
    BY <1>0
  <2>1. CASE m \notin Made(t)
    BY <2>1 DEF Made
  <2>2. CASE m \in Made(t) /\ t.parent[m] = Nil
    BY <1>3, <2>2
  <2>3. CASE m \in Made(t) /\ t.parent[m] # Nil
    BY <1>2, <2>3
  <2> QED BY <2>1, <2>2, <2>3
<1> HIDE DEF W, F
<1>5. climb = F(climb)
  BY <1>4
<1> HIDE DEF climb
<1>6. \A m \in Key : climb[m] =
         IF t.parent[m] \notin {Nil, Dangling} /\ m = t.child[s][t.parent[m]]
         THEN climb[t.parent[m]] ELSE t.parent[m]
  BY <1>0, <1>5 DEF F
<1> DEFINE G == {a \in Made(t) : climb[a] = next(a) => \A m \in sub[a] : climb[m] = next(m)}
<1>7. ASSUME NEW a \in Made(t), \A e \in Side : t.child[e][a] \in G \cup {Nil} PROVE a \in G
  <2> SUFFICES ASSUME climb[a] = next(a), NEW m \in sub[a], m # a PROVE climb[m] = next(m)
    OBVIOUS
  <2>1. PICK e \in Side : m \in sub[t.child[e][a]]
    BY SideFacts DEF Shape, OrderOK
  <2> DEFINE c == t.child[e][a]
  <2>2. c \in G /\ c \in Made(t) /\ t.parent[c] = a
    BY <1>7, <2>1, NodeFacts DEF Shape
  <2>3. a # Nil /\ a # Dangling /\ c \in Key
    BY <2>2, NodeFacts
  <2>4. climb[c] = next(c)
    BY <1>2, <1>6, <2>2, <2>3
  <2> QED BY <2>1, <2>2, <2>4
<1>8. Made(t) \subseteq G
  <2> HIDE DEF G
  <2> QED BY <1>7, TreeInduction
<1>9. \A m \in Made(t) : climb[m] = next(m)
  <2> SUFFICES ASSUME NEW m \in Made(t) PROVE climb[m] = next(m)
    OBVIOUS
  <2>1. /\ rootOf(m) \in Made(t) /\ t.parent[rootOf(m)] = Nil
        /\ m \in sub[rootOf(m)] /\ rootOf(m) \in Key
    BY <1>1 DEF Made
  <2>2. climb[rootOf(m)] = next(rootOf(m))
    BY <1>3, <1>6, <2>1
  <2> QED BY <1>8, <2>1, <2>2
<1>10. R \in Made(t) /\ n \in Made(t) /\ rootOf(n) = R /\ sub[R] \subseteq Made(t)
  BY DEF Trees, Shape
<1>11. n # Nil /\ n \in Key /\ sub[R] \subseteq Int /\ n \in Int /\ sub[R] \subseteq Key
  BY <1>10, NodeFacts, SideFacts, KeyAssumption DEF Made
<1>12. /\ sub[n] = {n} \cup sub[t.child[s][n]] \cup sub[t.child[o][n]]
       /\ t.child[s][n] \in Made(t) \cup {Nil} /\ n \in sub[n]
       /\ \A j \in sub[t.child[s][n]] : Before(s, j, n)
       /\ \A j \in sub[t.child[o][n]] : Before(o, j, n)
       /\ sub[n] \subseteq sub[R] /\ sub[Nil] = {}
  BY <1>10, NodeFacts, SubtreeNodes, SideFacts DEF Shape, OrderOK
<1>13. \A i \in Int, j \in Int, k \in Int :
         /\ Before(o, i, j) /\ Before(o, j, k) => Before(o, i, k)
         /\ Before(o, i, j) => i # j /\ ~Before(o, j, i)
         /\ Before(s, i, j) <=> Before(o, j, i)
  BY DEF Before, Opposite, Side
<1> DEFINE after == {j \in sub[R] : Before(o, n, j)}
<1>14. CASE t.child[s][n] = Nil
  <2>1. Neighbour(t, Iter(n), s) = climb[n]
    <3>1. n # Iter(n).nil
      BY <1>0, <1>11
    <3> QED BY <1>0, <1>14, <3>1 DEF Neighbour, climb, F
  <2>2. beyond(n) = after
    BY <1>10, <1>11, <1>12, <1>13, <1>14 DEF Beyond
  <2>3. CASE after = {}
    BY <1>9, <1>10, <2>1, <2>2, <2>3 DEF next, FirstOrNil
  <2>4. CASE after # {}
    <3>1. after \in SUBSET Key
      BY <1>11
    <3>2. \E y \in {z \in Key : IsFirst(o, after, z)} : TRUE
      <4> HIDE DEF after
      <4> QED BY <2>4, <3>1, FirstExists
    <3>3. next(n) \in {z \in Key : IsFirst(o, after, z)}
      BY <2>2, <2>4, <3>2 DEF next, Pick
    <3> QED BY <1>9, <1>10, <2>1, <2>4, <3>3 DEF FirstOrNil
  <2> QED BY <2>3, <2>4
<1>15. CASE t.child[s][n] # Nil
  <2> DEFINE c == t.child[s][n]
             y == Outermost(t, c, o)
  <2>1. Neighbour(t, Iter(n), s) = y
    <3>1. n # Iter(n).nil
      BY <1>0, <1>11
    <3> QED BY <1>0, <1>15, <3>1 DEF Neighbour
  <2>2. IsFirst(o, sub[c], y)
    BY <1>12, <1>15, OutermostIs
  <2> HIDE DEF y
  <2>3. y \in after
    BY <1>11, <1>12, <1>13, <2>2 DEF IsFirst
  <2>4. ASSUME NEW j \in after, j # y PROVE Before(o, y, j)
    <3>1. j \in sub[R] /\ Before(o, n, j) /\ j \in Int /\ y \in sub[n] /\ y \in Int
      BY <1>11, <1>12, <2>2, <2>4 DEF IsFirst
    <3>2. CASE j \in sub[n]
      BY <1>11, <1>12, <1>13, <2>2, <2>4, <3>1, <3>2 DEF IsFirst
    <3>3. CASE j \notin sub[n]
      <4>1. PICK e \in Side : \A i \in sub[n] : Before(e, j, i)
        BY <1>10, <3>1, <3>3, Convex
      <4>2. e = o \/ e = s
        BY SideFacts
      <4> QED BY <1>11, <1>12, <1>13, <3>1, <4>1, <4>2
    <3> QED BY <3>2, <3>3
  <2> QED BY <2>1, <2>3, <2>4 DEF FirstOrNil, IsFirst
<1> QED BY <1>14, <1>15

-----------------------------------------------------------------------------
(* Heights and colours.                                                    *)

\* What an edge and a node add to the black height.
Owes(t, z, n, s) == IF Lacking(t, z, n, s) THEN 1 ELSE 0
Black(t, n) == IF t.color[n] = "black" THEN 1 ELSE 0

\* h gives the black height of every node, by whichever side: no node owes on
\* both of its edges.
Heights(t, h, z) ==
    /\ h \in [Ptr -> Nat \ {0}]
    /\ \A n \in Ptr \ Made(t) : h[n] = 1
    /\ \A n \in Made(t), s \in Side : h[n] = h[t.child[s][n]] + Owes(t, z, n, s) + Black(t, n)
    /\ \A n \in Made(t) : \E s \in Side : ~Lacking(t, z, n, s)

\* Only the nodes of E may be red below a red parent.
Reds(t, E) == \A n \in Made(t) :
                 t.color[n] = "red" /\ t.color[t.parent[n]] = "red" => n \in E

\* The heights are those of BlackHeight.
LEMMA HeightIs ==
  ASSUME NEW t, NEW sub, Shape(t, sub), NEW h, NEW z, Heights(t, h, z)
  PROVE  BlackHeight(t, z) = h
<1> DEFINE F(f) == [n \in Ptr |->
                      IF n \notin Made(t) THEN 1
                      ELSE f[t.child["left"][n]]
                           + (IF Lacking(t, z, n, "left") THEN 1 ELSE 0)
                           + (IF t.color[n] = "black" THEN 1 ELSE 0)]
           b == CHOOSE f : f = F(f)
<1>1. BlackHeight(t, z) = b
  BY DEF BlackHeight
<1>2. h = F(h)
  <2>1. ASSUME NEW n \in Made(t)
        PROVE  h[n] = h[t.child["left"][n]]
                           + (IF Lacking(t, z, n, "left") THEN 1 ELSE 0)
                           + (IF t.color[n] = "black" THEN 1 ELSE 0)
    BY DEF Heights, Owes, Black, Side
  <2>2. h = [n \in Ptr |-> h[n]]
    BY DEF Heights
  <2>3. \A n \in Ptr : h[n] = F(h)[n]
    BY <2>1 DEF Heights
  <2> QED BY <2>2, <2>3
<1> HIDE DEF F
<1>3. b = F(b)
  BY <1>2
<1> HIDE DEF b
<1>4. \A n \in Ptr \ Made(t) : b[n] = 1
  BY <1>3 DEF F
<1> DEFINE G == {n \in Made(t) : b[n] = h[n]}
<1>5. ASSUME NEW n \in Made(t), \A e \in Side : t.child[e][n] \in G \cup {Nil} PROVE n \in G
  <2>1. b[t.child["left"][n]] = h[t.child["left"][n]]
    BY <1>4, <1>5, KeyAssumption DEF Heights, Side, Ptr, Made
  <2>2. n \in Ptr
    BY DEF Made, Ptr
  <2>3. b[n] = F(b)[n] /\ h[n] = F(h)[n]
    BY <1>2, <1>3
  <2> QED BY <2>1, <2>2, <2>3 DEF F
<1>6. Made(t) \subseteq G
  <2> HIDE DEF G
  <2> QED BY <1>5, TreeInduction
<1>7. b = [n \in Ptr |-> b[n]]
  BY <1>3 DEF F
<1>8. \A n \in Ptr : b[n] = h[n]
  BY <1>4, <1>6 DEF Heights
<1>9. h = [n \in Ptr |-> h[n]]
  BY DEF Heights
<1> QED BY <1>1, <1>7, <1>8, <1>9

\* A rotation in which the two nodes swap their colours, black above red, and
\* the node that falls ends up lower by one.
SwappedHeights(h, x, y) == [h EXCEPT ![x] = h[x] - 1, ![y] = h[x]]
SwappedColors(t, x, y, u) ==
    \A m \in Ptr : u.color[m] = IF m = x THEN "red" ELSE IF m = y THEN "black" ELSE t.color[m]

\* The node that lacks a black is not at or below the two, except as the other
\* child of the one that falls.
Aside(t, z, x, y, a) == \/ z = Dangling
                        \/ /\ z \in Ptr \ {x, y}
                           /\ t.parent[z] \in Made(t) \cup {Nil}
                           /\ t.parent[z] # y
                           /\ z = Nil /\ t.parent[Nil] = x => a = Nil

\* The same, of the nodes alone.
Apart(t, x, s) ==
    LET y == t.child[Opposite(s)][x]
        a == t.child[s][x]
        b == t.child[s][y]
        c == t.child[Opposite(s)][y]
        p == t.parent[x]
    IN  /\ t.parent[y] = x /\ x # y
        /\ a \in Made(t) \cup {Nil} /\ a # x /\ a # y
        /\ b \in Made(t) \cup {Nil} /\ b # x /\ b # y /\ (b # Nil => t.parent[b] = y)
        /\ c \in Made(t) \cup {Nil} /\ c # x /\ c # y
        /\ p \in Made(t) \cup {Nil} /\ p # x /\ p # y

\* The nodes around a rotation are apart.
LEMMA ApartIs ==
  ASSUME NEW t, NEW sub, Shape(t, sub), NEW x \in Made(t), NEW s \in Side,
         t.child[Opposite(s)][x] \in Made(t)
  PROVE  Apart(t, x, s)
BY RotationNodes DEF Apart

\* Such a rotation keeps every path as black as it was.
LEMMA SwapHeights ==
  ASSUME NEW t, NEW r, NEW sub, Trees(t, r, sub), NEW x \in sub[t.root], NEW s \in Side,
         NEW y \in Made(t), y = t.child[Opposite(s)][x], NEW a, a = t.child[s][x],
         NEW u, RotatedFields(t, x, s, u), SwappedColors(t, x, y, u),
         NEW h, NEW z, Heights(t, h, z), Aside(t, z, x, y, a),
         t.color[x] = "black", t.color[y] = "red"
  PROVE  Heights(u, SwappedHeights(h, x, y), z)
<1> DEFINE o == Opposite(s)
           b == t.child[s][y]
           c == t.child[o][y]
           p == t.parent[x]
           g == SwappedHeights(h, x, y)
<1>1. x \in Made(t) /\ Shape(t, sub)
  BY DEF Trees, Shape
<1>2. /\ o \in Side /\ o # s /\ Side = {s, o}
      /\ t.parent[y] = x /\ x # y
      /\ a \in Made(t) \cup {Nil} /\ a # x /\ a # y
      /\ b \in Made(t) \cup {Nil} /\ b # x /\ b # y /\ (b # Nil => t.parent[b] = y)
      /\ c \in Made(t) \cup {Nil} /\ c # x /\ c # y
      /\ p \in Made(t) \cup {Nil} /\ p # x /\ p # y
  <2>1. t.child[Opposite(s)][x] \in Made(t)
    OBVIOUS
  <2>2. Apart(t, x, s)
    BY <1>1, <2>1, ApartIs
  <2>3. o \in Side /\ o # s /\ Side = {s, o}
    BY SideFacts
  <2> QED BY <2>2, <2>3 DEF Apart
<1>3. /\ x \in Ptr /\ y \in Ptr /\ x # Nil /\ y # Nil /\ Nil \in Ptr /\ Made(t) \subseteq Ptr
      /\ a \in Ptr /\ b \in Ptr /\ c \in Ptr /\ p \in Ptr /\ Nil \notin Made(t) /\ Dangling # Nil
      /\ Dangling \notin Made(t) /\ Dangling \notin Ptr
  BY <1>1, <1>2, KeyAssumption DEF Made, Ptr
<1>4. /\ c # Nil => t.parent[c] = y
      /\ a # Nil => t.parent[a] = x
      /\ p # Nil => SideOf(t, x) \in Side /\ t.child[SideOf(t, x)][p] = x
  <2>1. p # Nil => SideOf(t, x) \in Side /\ t.child[SideOf(t, x)][p] = x
    BY <1>1, SideOfNode
  <2>2. c # Nil => t.parent[c] = y
    BY <1>1, <1>2 DEF Shape, LinksOK
  <2>3. a # Nil => t.parent[a] = x
    BY <1>1, NodeFacts
  <2> QED BY <2>1, <2>2, <2>3
<1>5. Made(u) = Made(t)
  BY RotateTrees, <1>3
<1>6. /\ h \in [Ptr -> Nat \ {0}]
      /\ h[x] = h[a] + Owes(t, z, x, s) + 1
      /\ h[x] = h[y] + Owes(t, z, x, o) + 1
      /\ h[y] = h[b] + Owes(t, z, y, s)
      /\ h[y] = h[c] + Owes(t, z, y, o)
      /\ h[Nil] = 1
  <2>1. /\ h \in [Ptr -> Nat \ {0}]
        /\ \A n \in Made(t), d \in Side :
             h[n] = h[t.child[d][n]] + Owes(t, z, n, d) + Black(t, n)
        /\ h[Nil] = 1
    BY <1>3 DEF Heights
  <2>2. Black(t, x) = 1 /\ Black(t, y) = 0
    BY DEF Black
  <2>3. /\ h[x] = h[a] + Owes(t, z, x, s) + Black(t, x)
        /\ h[x] = h[y] + Owes(t, z, x, o) + Black(t, x)
        /\ h[y] = h[b] + Owes(t, z, y, s) + Black(t, y)
        /\ h[y] = h[c] + Owes(t, z, y, o) + Black(t, y)
    BY <1>1, <1>2, <2>1
  <2>4. h[b] \in Nat /\ h[c] \in Nat
    BY <1>3, <2>1
  <2>5. Owes(t, z, y, s) \in Nat /\ Owes(t, z, y, o) \in Nat
    BY DEF Owes
  <2> QED BY <2>1, <2>2, <2>3, <2>4, <2>5
<1>7. /\ Owes(t, z, x, o) = 0 /\ Owes(t, z, y, s) = 0 /\ Owes(t, z, y, o) = 0
  BY <1>2, <1>3 DEF Owes, Lacking, Aside
<1> HIDE DEF o, b, c, p
<1>8. /\ h[a] + Owes(t, z, x, s) = h[x] - 1
      /\ h[y] = h[x] - 1 /\ h[b] = h[x] - 1 /\ h[c] = h[x] - 1
      /\ h[x] \in Nat /\ h[a] \in Nat \ {0} /\ Owes(t, z, x, s) \in {0, 1}
  <2>1. h[x] \in Nat /\ h[y] \in Nat \ {0} /\ h[a] \in Nat \ {0} /\ h[b] \in Nat /\ h[c] \in Nat
    BY <1>3, <1>6
  <2>2. Owes(t, z, x, s) \in {0, 1}
    BY DEF Owes
  <2> QED BY <1>6, <1>7, <2>1, <2>2
<1>9. /\ g \in [Ptr -> Nat \ {0}]
      /\ g[x] = h[x] - 1 /\ g[y] = h[x]
      /\ \A m \in Ptr : m # x /\ m # y => g[m] = h[m]
  <2>1. h[x] - 1 \in Nat \ {0}
    BY <1>8
  <2> QED BY <1>2, <1>3, <1>6, <1>8, <2>1 DEF SwappedHeights
<1>10. /\ \A n \in Ptr : u.parent[n] = IF n = y THEN p
                                     ELSE IF n = x THEN y
                                     ELSE IF n = b /\ b # Nil THEN x
                                     ELSE t.parent[n]
       /\ \A d \in Side, n \in Ptr :
             u.child[d][n] = IF n = x /\ d = o THEN b
                             ELSE IF n = y /\ d = s THEN x
                             ELSE IF n = p /\ p # Nil /\ d = SideOf(t, x) THEN y
                             ELSE t.child[d][n]
  BY DEF RotatedFields, o, b, p
<1> HIDE DEF g
<1>11. /\ u.child[s][x] = a /\ u.child[o][x] = b /\ u.child[s][y] = x /\ u.child[o][y] = c
       /\ u.parent[x] = y /\ u.parent[y] = p
  BY <1>2, <1>3, <1>10 DEF b, c, o, p
<1>12. z \in Ptr => u.parent[z] = IF z = b /\ b # Nil THEN x ELSE t.parent[z]
  BY <1>3, <1>10 DEF Aside
<1>13. /\ ~Lacking(u, z, y, s) /\ ~Lacking(u, z, y, o) /\ ~Lacking(u, z, x, o)
       /\ Lacking(u, z, x, s) <=> Lacking(t, z, x, s)
  <2>1. CASE z = Dangling
    BY <2>1 DEF Lacking
  <2>2. CASE z # Dangling
    <3>1. z \in Ptr \ {x, y} /\ t.parent[z] # y /\ (z = Nil /\ t.parent[Nil] = x => a = Nil)
      BY <2>2 DEF Aside
    <3>2. ~Lacking(u, z, y, s)
      BY <1>11, <3>1 DEF Lacking
    <3>3. ~Lacking(u, z, y, o)
      BY <1>3, <1>11, <1>12, <3>1 DEF Lacking
    <3>4. z # b \/ b = Nil
      BY <1>2, <3>1
    <3>5. u.parent[z] = t.parent[z]
      BY <1>12, <3>1, <3>4
    <3>6. Lacking(u, z, x, s) <=> Lacking(t, z, x, s)
      BY <1>11, <3>5 DEF Lacking
    <3>7. ~Lacking(u, z, x, o)
      <4> SUFFICES ASSUME Lacking(u, z, x, o) PROVE FALSE
        OBVIOUS
      <4>1. b = Nil /\ z = Nil /\ t.parent[Nil] = x /\ a = Nil
        BY <1>11, <3>1, <3>4, <3>5 DEF Lacking
      <4>2. Owes(t, z, x, s) = 1
        BY <1>3, <4>1 DEF Owes, Lacking
      <4> QED BY <1>6, <1>8, <4>1, <4>2
    <3> QED BY <3>2, <3>3, <3>6, <3>7
  <2> QED BY <2>1, <2>2
<1>14. ASSUME NEW n \in Made(u), n # x, n # y, NEW d \in Side
       PROVE  /\ g[n] = g[u.child[d][n]] + Owes(u, z, n, d) + Black(u, n)
              /\ Lacking(u, z, n, d) <=> Lacking(t, z, n, d)
  <2>1. n \in Made(t) /\ n \in Ptr /\ g[n] = h[n] /\ Black(u, n) = Black(t, n)
    BY <1>3, <1>5, <1>9, <1>14 DEF Black, SwappedColors
  <2>2. h[n] = h[t.child[d][n]] + Owes(t, z, n, d) + Black(t, n)
    BY <2>1 DEF Heights
  <2>3. t.child[d][n] \in Made(t) \cup {Nil} /\ (t.child[d][n] # Nil => t.parent[t.child[d][n]] = n)
    BY <1>1, <2>1, NodeFacts
  <2>4. CASE n = p /\ d = SideOf(t, x)
    <3>1. u.child[d][n] = y /\ t.child[d][n] = x
      BY <1>2, <1>3, <1>4, <1>10, <1>14, <2>1, <2>4
    <3>2. ~Lacking(u, z, n, d) /\ ~Lacking(t, z, n, d)
      BY <3>1 DEF Lacking, Aside
    <3> QED BY <1>9, <2>1, <2>2, <3>1, <3>2 DEF Owes
  <2>5. CASE ~(n = p /\ d = SideOf(t, x))
    <3>1. u.child[d][n] = t.child[d][n]
      BY <1>10, <1>14, <2>1, <2>5
    <3>2. t.child[d][n] # x /\ t.child[d][n] # y
      <4>1. t.child[d][n] # y
        BY <1>2, <1>3, <1>14, <2>3
      <4>2. t.child[d][n] # x
        <5> SUFFICES ASSUME t.child[d][n] = x PROVE FALSE
          OBVIOUS
        <5>1. n = p /\ n # Nil
          BY <1>3, <2>1, <2>3 DEF p
        <5>2. d # SideOf(t, x) /\ t.child[SideOf(t, x)][p] = x
          BY <1>4, <2>5, <5>1
        <5>3. d = Opposite(SideOf(t, x)) /\ t.child[Opposite(SideOf(t, x))][p] # x
          BY <1>1, <1>3, <1>4, <5>1, <5>2, SideFacts, SideOfNode DEF p
        <5> QED BY <5>1, <5>3
      <4> QED BY <4>1, <4>2
    <3>3. Lacking(u, z, n, d) <=> Lacking(t, z, n, d)
      BY <1>2, <1>12, <1>14, <3>1 DEF Lacking, Aside
    <3> QED BY <1>3, <1>9, <2>1, <2>2, <2>3, <3>1, <3>2, <3>3 DEF Owes
  <2> QED BY <2>4, <2>5
<1>15. ASSUME NEW d \in Side
       PROVE  /\ g[x] = g[u.child[d][x]] + Owes(u, z, x, d) + Black(u, x)
              /\ g[y] = g[u.child[d][y]] + Owes(u, z, y, d) + Black(u, y)
  <2>1. Black(u, x) = 0 /\ Black(u, y) = 1
    BY <1>2, <1>3 DEF Black, SwappedColors
  <2>2. g[a] = h[a] /\ g[b] = h[b] /\ g[c] = h[c]
    BY <1>2, <1>3, <1>9
  <2>3. /\ Owes(u, z, x, s) = Owes(t, z, x, s) /\ Owes(u, z, x, o) = 0
        /\ Owes(u, z, y, s) = 0 /\ Owes(u, z, y, o) = 0
    BY <1>13 DEF Owes
  <2>4. d = s \/ d = o
    BY <1>2
  <2> QED BY <1>8, <1>9, <1>11, <2>1, <2>2, <2>3, <2>4
<1>16. ASSUME NEW n \in Made(u) PROVE \E d \in Side : ~Lacking(u, z, n, d)
  <2>1. CASE n \in {x, y}
    BY <1>2, <1>13, <2>1
  <2>2. CASE n \notin {x, y}
    BY <1>5, <1>14, <2>2 DEF Heights
  <2> QED BY <2>1, <2>2
<1>17. ASSUME NEW n \in Ptr \ Made(u) PROVE g[n] = 1
  BY <1>1, <1>5, <1>9 DEF Heights
<1>18. \A n \in Made(u), d \in Side : g[n] = g[u.child[d][n]] + Owes(u, z, n, d) + Black(u, n)
  BY <1>14, <1>15
<1> QED BY <1>9, <1>16, <1>17, <1>18 DEF Heights, g

\* Such a rotation leaves no red node below a red one but where there was one, and
\* not at the node that rises.
LEMMA SwapReds ==
  ASSUME NEW t, NEW r, NEW sub, Trees(t, r, sub), NEW x \in sub[t.root], NEW s \in Side,
         NEW y \in Made(t), y = t.child[Opposite(s)][x],
         NEW u, RotatedFields(t, x, s, u), SwappedColors(t, x, y, u),
         NEW E, Reds(t, E), t.child[s][y] \notin E,
         t.color[y] = "red", t.color[t.child[s][x]] = "black", t.color[Nil] = "black"
  PROVE  Reds(u, E \ {t.child[Opposite(s)][y]})
<1> DEFINE o == Opposite(s)
           a == t.child[s][x]
           b == t.child[s][y]
           c == t.child[o][y]
           p == t.parent[x]
<1>1. x \in Made(t) /\ Shape(t, sub) /\ u \in Tree
  BY DEF Trees, Shape, RotatedFields
<1>2. /\ o \in Side /\ o # s /\ Side = {s, o}
      /\ t.parent[y] = x /\ x # y
      /\ a \in Made(t) \cup {Nil} /\ a # x /\ a # y
      /\ b \in Made(t) \cup {Nil} /\ b # x /\ b # y /\ (b # Nil => t.parent[b] = y)
      /\ c \in Made(t) \cup {Nil} /\ c # x /\ c # y
      /\ p \in Made(t) \cup {Nil} /\ p # x /\ p # y
  <2>1. t.child[Opposite(s)][x] \in Made(t)
    OBVIOUS
  <2>2. Apart(t, x, s)
    BY <1>1, <2>1, ApartIs
  <2>3. o \in Side /\ o # s /\ Side = {s, o}
    BY SideFacts
  <2> QED BY <2>2, <2>3 DEF Apart
<1>3. Made(t) \subseteq Ptr /\ Nil \in Ptr /\ Nil \notin Made(t)
  BY KeyAssumption DEF Made, Ptr
<1>4. Made(u) = Made(t)
  BY <1>2, <1>3, RotateTrees
<1>5. \A n \in Ptr : u.parent[n] = IF n = y THEN p
                                   ELSE IF n = x THEN y
                                   ELSE IF n = b /\ b # Nil THEN x
                                   ELSE t.parent[n]
  BY DEF RotatedFields
<1>6. b # Nil => t.color[b] # "red"
  BY <1>2 DEF Reds
<1>7. \A n \in Made(t) : t.parent[n] \in Made(t) \cup {Nil}
  BY <1>1 DEF Shape, LinksOK
<1>8. \A n \in Made(t) : /\ t.parent[n] = x => n \in {a, y}
                         /\ t.parent[n] = y => n \in {b, c}
  BY <1>1, <1>2, <1>3 DEF Shape, LinksOK
<1> HIDE DEF o, a, b, c, p
<1> SUFFICES ASSUME NEW n \in Made(t), u.color[n] = "red", u.color[u.parent[n]] = "red"
             PROVE  n \in E \ {c}
  BY <1>4 DEF Reds, o, c
<1>9. n # y /\ u.parent[n] # y /\ n # x
  <2>1. n # y
    BY <1>2, <1>3 DEF SwappedColors
  <2>2. u.parent[n] # y
    BY <1>2, <1>3 DEF SwappedColors
  <2> QED BY <1>3, <1>5, <2>1, <2>2
<1>10. t.color[n] = "red"
  BY <1>3, <1>9 DEF SwappedColors
<1>11. n # b
  BY <1>2, <1>3, <1>6, <1>10
<1>12. u.parent[n] = t.parent[n]
  BY <1>3, <1>5, <1>9, <1>11
<1>13. t.parent[n] # x
  BY <1>8, <1>9, <1>10 DEF a
<1>14. t.color[t.parent[n]] = "red"
  BY <1>3, <1>7, <1>9, <1>12, <1>13 DEF SwappedColors
<1>15. n # c
  <2> SUFFICES ASSUME n = c PROVE FALSE
    OBVIOUS
  <2>1. t.parent[n] = y
    BY <1>1, <1>2, <1>3 DEF Shape, LinksOK, c
  <2> QED BY <1>9, <1>12, <2>1
<1> QED BY <1>10, <1>14, <1>15 DEF Reds

\* The heights g after a rotation that leaves no node short: it is enough to
\* count at the two nodes that turn and at the one that rises with the second.
TurnCount(t, x, s, u, h, z, g, zz) ==
    LET y == t.child[Opposite(s)][x]
        a == t.child[s][x]
        b == t.child[s][y]
        c == t.child[Opposite(s)][y]
    IN  /\ \A n \in Made(t), d \in Side : n # x => ~Lacking(t, z, n, d)
        /\ \A n \in Made(t), d \in Side : ~Lacking(u, zz, n, d)
        /\ g \in [Ptr -> Nat \ {0}]
        /\ \A m \in Ptr : m \notin {x, y} /\ (m # c \/ m = Nil) => g[m] = h[m]
        /\ \A m \in Made(t) : m \notin {x, y, c} => u.color[m] = t.color[m]
        /\ g[x] = g[a] + Black(u, x) /\ g[x] = g[b] + Black(u, x)
        /\ g[y] = g[x] + Black(u, y) /\ g[y] = g[c] + Black(u, y)
        /\ g[y] = h[x]
        /\ c # Nil => g[c] + Black(t, c) = h[c] + Black(u, c)

\* Heights that are right at the nodes TurnCount names are right everywhere.
LEMMA TurnHeights ==
  ASSUME NEW t, NEW r, NEW sub, Trees(t, r, sub), NEW x \in sub[t.root], NEW s \in Side,
         t.child[Opposite(s)][x] # Nil,
         NEW u, RotatedFields(t, x, s, u),
         NEW h, NEW z, Heights(t, h, z),
         NEW g, NEW zz, TurnCount(t, x, s, u, h, z, g, zz)
  PROVE  Heights(u, g, zz)
<1> DEFINE o == Opposite(s)
           y == t.child[o][x]
           a == t.child[s][x]
           b == t.child[s][y]
           c == t.child[o][y]
           p == t.parent[x]
<1>1. x \in Made(t) /\ Shape(t, sub)
  BY DEF Trees, Shape
<1>0. y \in Made(t)
  BY <1>1, SideFacts DEF Shape, LinksOK
<1>2. /\ o \in Side /\ o # s /\ Side = {s, o}
      /\ t.parent[y] = x /\ x # y
      /\ a \in Made(t) \cup {Nil} /\ a # x /\ a # y
      /\ b \in Made(t) \cup {Nil} /\ b # x /\ b # y /\ (b # Nil => t.parent[b] = y)
      /\ c \in Made(t) \cup {Nil} /\ c # x /\ c # y
      /\ p \in Made(t) \cup {Nil} /\ p # x /\ p # y
  BY <1>0, <1>1, RotationNodes
<1>3. /\ x \in Ptr /\ y \in Ptr /\ x # Nil /\ y # Nil /\ Nil \in Ptr /\ Made(t) \subseteq Ptr
      /\ Nil \notin Made(t)
  BY <1>0, <1>1, <1>2, KeyAssumption DEF Made, Ptr
<1>4. p # Nil => SideOf(t, x) \in Side /\ t.child[SideOf(t, x)][p] = x
                 /\ t.child[Opposite(SideOf(t, x))][p] # x
  BY <1>1, SideOfNode
<1>5. Made(u) = Made(t)
  BY RotateTrees, <1>3
<1>6. \A d \in Side, n \in Ptr :
             u.child[d][n] = IF n = x /\ d = o THEN b
                             ELSE IF n = y /\ d = s THEN x
                             ELSE IF n = p /\ p # Nil /\ d = SideOf(t, x) THEN y
                             ELSE t.child[d][n]
  BY DEF RotatedFields
<1>20. /\ \A n \in Made(t), d \in Side : n # x => ~Lacking(t, z, n, d)
       /\ \A n \in Made(t), d \in Side : ~Lacking(u, zz, n, d)
       /\ g \in [Ptr -> Nat \ {0}]
       /\ \A m \in Ptr : m \notin {x, y} /\ (m # c \/ m = Nil) => g[m] = h[m]
       /\ \A m \in Made(t) : m \notin {x, y, c} => u.color[m] = t.color[m]
       /\ g[x] = g[a] + Black(u, x) /\ g[x] = g[b] + Black(u, x)
       /\ g[y] = g[x] + Black(u, y) /\ g[y] = g[c] + Black(u, y)
       /\ g[y] = h[x]
       /\ c # Nil => g[c] + Black(t, c) = h[c] + Black(u, c)
  BY DEF TurnCount
<1> HIDE DEF o, y, a, b, c, p
<1>7. /\ u.child[s][x] = a /\ u.child[o][x] = b /\ u.child[s][y] = x /\ u.child[o][y] = c
  BY <1>2, <1>3, <1>6 DEF a, c
<1>8. \A n \in Made(t), d \in Side : Owes(u, zz, n, d) = 0
  BY <1>20 DEF Owes
<1>9. \A n \in Made(t), d \in Side : n # x => Owes(t, z, n, d) = 0
  BY <1>20 DEF Owes
<1>10. /\ \A n \in Made(t), d \in Side : h[n] = h[t.child[d][n]] + Owes(t, z, n, d) + Black(t, n)
       /\ h \in [Ptr -> Nat \ {0}]
  BY DEF Heights
<1>11. \A n \in Made(t), d \in Side :
          /\ t.child[d][n] \in Made(t) \cup {Nil}
          /\ t.child[d][n] # Nil => t.parent[t.child[d][n]] = n
  BY <1>1, NodeFacts
<1>12. c # Nil => t.parent[c] = y
  BY <1>0, <1>2, <1>11 DEF c
<1>13. ASSUME NEW n \in Made(t), n # x, n # y, NEW d \in Side
       PROVE  /\ h[n] = g[u.child[d][n]] + Black(t, n)
              /\ h[u.child[d][n]] \in Nat
  <2>0. h[n] = h[t.child[d][n]] + Black(t, n)
    <3>1. h[t.child[d][n]] \in Nat /\ Black(t, n) \in Nat
      BY <1>3, <1>10, <1>11 DEF Black
    <3> QED BY <1>9, <1>10, <1>13, <3>1
  <2>1. CASE n = p /\ d = SideOf(t, x)
    <3>1. u.child[d][n] = y /\ t.child[d][n] = x
      BY <1>2, <1>3, <1>4, <1>6, <1>13, <2>1
    <3> QED BY <1>3, <1>10, <1>20, <2>0, <3>1
  <2>2. CASE ~(n = p /\ d = SideOf(t, x))
    <3>1. u.child[d][n] = t.child[d][n]
      BY <1>3, <1>6, <1>13, <2>2
    <3>2. t.child[d][n] # y /\ (t.child[d][n] # c \/ c = Nil)
      BY <1>0, <1>2, <1>3, <1>11, <1>12, <1>13
    <3>3. t.child[d][n] # x
      <4> SUFFICES ASSUME t.child[d][n] = x PROVE FALSE
        OBVIOUS
      <4>1. n = p /\ n # Nil
        BY <1>3, <1>11 DEF p
      <4>2. d = Opposite(SideOf(t, x))
        BY <1>4, <2>2, <4>1, SideFacts
      <4> QED BY <1>4, <4>1, <4>2
    <3>4. t.child[d][n] \in Ptr
      BY <1>3, <1>11
    <3> QED BY <1>10, <1>20, <2>0, <3>1, <3>2, <3>3, <3>4
  <2> QED BY <2>1, <2>2
<1>21. \A n \in Made(t), d \in Side : u.child[d][n] \in Ptr
  <2>1. \A n \in Made(t), d \in Side : t.child[d][n] \in Ptr
    BY <1>3, <1>11
  <2>2. b \in Ptr
    BY <1>2, <1>3
  <2> QED BY <1>3, <1>6, <2>1, <2>2
<1>14. ASSUME NEW n \in Made(t), NEW d \in Side
       PROVE  g[n] = g[u.child[d][n]] + Owes(u, zz, n, d) + Black(u, n)
  <2>1. Owes(u, zz, n, d) = 0 /\ Black(u, n) \in Nat /\ Black(t, n) \in Nat
    BY <1>8 DEF Black
  <2>2. CASE n = x
    <3>1. u.child[d][n] \in {a, b} /\ g[a] \in Nat /\ g[b] \in Nat
      BY <1>2, <1>3, <1>7, <1>20, <2>2
    <3>2. g[n] = g[u.child[d][n]] + Black(u, n)
      BY <1>20, <2>2, <3>1
    <3> QED BY <2>1, <3>1, <3>2
  <2>3. CASE n = y
    <3>1. u.child[d][n] \in {x, c} /\ g[x] \in Nat /\ g[c] \in Nat
      BY <1>2, <1>3, <1>7, <1>20, <2>3
    <3>2. g[n] = g[u.child[d][n]] + Black(u, n)
      BY <1>20, <2>3, <3>1
    <3> QED BY <2>1, <3>1, <3>2
  <2>4. CASE n = c
    <3>1. c # Nil /\ n # x /\ n # y
      BY <1>2, <1>3, <2>4
    <3>2. h[n] = g[u.child[d][n]] + Black(t, n) /\ g[n] + Black(t, n) = h[n] + Black(u, n)
      BY <1>13, <1>20, <2>4, <3>1
    <3>3. h[n] \in Nat /\ g[n] \in Nat /\ g[u.child[d][n]] \in Nat
      BY <1>3, <1>10, <1>20, <1>21
    <3> QED BY <2>1, <3>2, <3>3
  <2>5. CASE n \notin {x, y, c}
    <3>1. g[n] = h[n] /\ Black(u, n) = Black(t, n)
      BY <1>3, <1>20, <2>5 DEF Black
    <3>2. h[n] = g[u.child[d][n]] + Black(t, n)
      BY <1>13, <2>5
    <3>3. g[u.child[d][n]] \in Nat
      BY <1>20, <1>21
    <3> QED BY <2>1, <3>1, <3>2, <3>3
  <2> QED BY <2>2, <2>3, <2>4, <2>5
<1>15. \A n \in Ptr \ Made(u) : g[n] = 1
  BY <1>0, <1>1, <1>2, <1>5, <1>20 DEF Heights
<1>16. \A n \in Made(u) : \E d \in Side : ~Lacking(u, zz, n, d)
  BY <1>2, <1>5, <1>20
<1> QED BY <1>5, <1>14, <1>15, <1>16, <1>20 DEF Heights

\* The node that lacks a black hands that on to its parent when the sibling
\* turns red.
LEMMA DropHeights ==
  ASSUME NEW t, NEW r, NEW sub, Trees(t, r, sub), NEW p \in Made(t), NEW s \in Side,
         NEW w \in Made(t), w = t.child[Opposite(s)][p],
         NEW h, NEW z, Heights(t, h, z), Lacking(t, z, p, s), z # w,
         t.color[w] = "black", t.parent[z] = p
  PROVE  Heights(Paint(t, w, "red"), [h EXCEPT ![w] = h[w] - 1, ![p] = h[p] - 1], p)
<1> DEFINE o == Opposite(s)
           u == Paint(t, w, "red")
           g == [h EXCEPT ![w] = h[w] - 1, ![p] = h[p] - 1]
<1>1. Shape(t, sub) /\ t \in Tree /\ o \in Side /\ Side = {s, o} /\ o # s
  BY SideFacts DEF Trees, Shape
<1>2. w \in Ptr /\ p \in Ptr /\ Nil \notin Made(t) /\ Made(t) \subseteq Ptr /\ p # Dangling
  BY KeyAssumption DEF Made, Ptr
<1>3. /\ u.parent = t.parent /\ u.child = t.child
      /\ \A m \in Ptr : u.color[m] = IF m = w THEN "red" ELSE t.color[m]
  <2>1. "red" \in Color
    BY DEF Color
  <2> QED BY <1>1, <1>2, <2>1, PaintFields
<1> HIDE DEF u
<1>4. Made(u) = Made(t)
  BY <1>3 DEF Made
<1>5. \A n \in Made(t), d \in Side :
         /\ t.child[d][n] \in Made(t) \cup {Nil}
         /\ t.child[d][n] # Nil => t.parent[t.child[d][n]] = n
  BY <1>1, NodeFacts
<1>6. w # p /\ t.parent[w] = p
  BY <1>1, <1>2, <1>5, NodeFacts
<1>7. /\ h \in [Ptr -> Nat \ {0}]
      /\ \A n \in Made(t), d \in Side :
            h[n] = h[t.child[d][n]] + Owes(t, z, n, d) + Black(t, n)
  BY DEF Heights
<1>8. /\ \A n \in Made(t), d \in Side : Owes(t, z, n, d) \in {0, 1} /\ Black(t, n) \in {0, 1}
      /\ \A n \in Made(t), d \in Side : n # p => Owes(t, z, n, d) = 0
      /\ Owes(t, z, p, o) = 0 /\ Owes(t, z, p, s) = 1
      /\ Black(t, w) = 1 /\ Black(u, w) = 0
      /\ \A n \in Made(t) : n # w => Black(u, n) = Black(t, n)
  <2>1. Owes(t, z, p, o) = 0
    BY <1>1 DEF Owes, Lacking
  <2>2. Owes(t, z, p, s) = 1
    BY DEF Owes
  <2>3. \A n \in Made(t), d \in Side : n # p => Owes(t, z, n, d) = 0
    BY DEF Owes, Lacking
  <2>4. Black(t, w) = 1 /\ Black(u, w) = 0 /\ \A n \in Made(t) : n # w => Black(u, n) = Black(t, n)
    BY <1>2, <1>3 DEF Black
  <2> QED BY <2>1, <2>2, <2>3, <2>4 DEF Owes, Black
<1>9. h[w] - 1 \in Nat \ {0} /\ h[p] - 1 \in Nat \ {0}
  <2>1. h[t.child[s][w]] \in Nat \ {0} /\ h[z] \in Nat \ {0} /\ t.child[s][p] = z
    BY <1>2, <1>5, <1>7 DEF Lacking, Ptr
  <2>2. h[w] = h[t.child[s][w]] + Owes(t, z, w, s) + Black(t, w)
    BY <1>7
  <2>3. h[p] = h[z] + Owes(t, z, p, s) + Black(t, p)
    BY <1>7, <2>1
  <2>4. Owes(t, z, w, s) = 0
    BY <1>6, <1>8
  <2>5. Black(t, p) \in {0, 1}
    BY DEF Black
  <2> QED BY <1>8, <2>1, <2>2, <2>3, <2>4, <2>5
<1>10. /\ g \in [Ptr -> Nat \ {0}] /\ g[w] = h[w] - 1 /\ g[p] = h[p] - 1
       /\ \A m \in Ptr : m # w /\ m # p => g[m] = h[m]
  BY <1>2, <1>6, <1>7, <1>9
<1> HIDE DEF g
<1>11. ASSUME NEW n \in Made(t), NEW d \in Side
       PROVE  Owes(u, p, n, d) = IF t.child[d][n] = p THEN 1 ELSE 0
  <2>1. t.child[d][n] = p => t.parent[p] = n
    BY <1>2, <1>5
  <2> QED BY <1>2, <1>3, <2>1 DEF Owes, Lacking
<1>12. ASSUME NEW n \in Made(t), NEW d \in Side
       PROVE  g[n] = g[u.child[d][n]] + Owes(u, p, n, d) + Black(u, n)
  <2> DEFINE e == t.child[d][n]
  <2>1. e \in Ptr /\ h[e] \in Nat /\ h[n] \in Nat /\ n \in Ptr
    <3>1. e \in Ptr /\ n \in Ptr
      BY <1>2, <1>5 DEF Ptr
    <3> QED BY <1>7, <3>1
  <2>2. h[n] = h[e] + Owes(t, z, n, d) + Black(t, n)
    BY <1>7
  <2>3. e = w => n = p
    BY <1>2, <1>5, <1>6
  <2>4. n # p => Owes(t, z, n, d) = 0
    BY <1>8
  <2>5. u.child[d][n] = e /\ Black(t, n) \in {0, 1}
    BY <1>3 DEF Black
  <2> HIDE DEF e
  <2>6. CASE n = p
    <3>1. e # p
      BY <1>1, <2>6, NodeFacts DEF e
    <3>2. Owes(u, p, n, d) = 0
      BY <1>11, <3>1 DEF e
    <3>3. Black(u, n) = Black(t, n)
      BY <1>6, <1>8, <2>6
    <3>4. CASE d = o
      <4>1. e = w /\ Owes(t, z, n, d) = 0
        BY <1>8, <2>6, <3>4 DEF e
      <4> QED BY <1>10, <2>1, <2>2, <2>5, <2>6, <3>2, <3>3, <4>1
    <3>5. CASE d = s
      <4>1. e = z /\ Owes(t, z, n, d) = 1
        BY <1>8, <2>6, <3>5 DEF e, Lacking
      <4>2. g[e] = h[e]
        BY <1>10, <2>1, <3>1, <4>1
      <4> QED BY <1>10, <2>1, <2>2, <2>5, <2>6, <3>2, <3>3, <4>1, <4>2
    <3> QED BY <1>1, <3>4, <3>5
  <2>7. CASE n = w
    <3>1. e # p
      <4> SUFFICES ASSUME e = p PROVE FALSE
        OBVIOUS
      <4>1. p \in sub[w] /\ sub[w] \subseteq sub[p] /\ p \in sub[p]
        BY <1>1, <2>7, NodeFacts, SubtreeNodes DEF e
      <4> QED BY <1>1, <4>1, NodeFacts
    <3>2. Owes(u, p, n, d) = 0
      BY <1>11, <3>1 DEF e
    <3>3. g[e] = h[e]
      BY <1>6, <1>10, <2>1, <2>3, <2>7, <3>1
    <3> QED BY <1>6, <1>8, <1>10, <2>1, <2>2, <2>4, <2>5, <2>7, <3>2, <3>3
  <2>8. CASE n # p /\ n # w
    <3>1. g[n] = h[n] /\ Black(u, n) = Black(t, n) /\ e # w
      BY <1>8, <1>10, <2>1, <2>3, <2>8
    <3>2. CASE e = p
      <4>1. Owes(u, p, n, d) = 1
        BY <1>11, <3>2 DEF e
      <4> QED BY <1>10, <2>1, <2>2, <2>4, <2>5, <2>8, <3>1, <3>2, <4>1
    <3>3. CASE e # p
      <4>1. Owes(u, p, n, d) = 0 /\ g[e] = h[e]
        BY <1>10, <1>11, <2>1, <3>1, <3>3 DEF e
      <4> QED BY <2>1, <2>2, <2>4, <2>5, <2>8, <3>1, <4>1
    <3> QED BY <3>2, <3>3
  <2> QED BY <2>6, <2>7, <2>8
<1>13. \A n \in Ptr \ Made(u) : g[n] = 1
  BY <1>4, <1>10 DEF Heights
<1>14. ASSUME NEW n \in Made(u) PROVE \E d \in Side : ~Lacking(u, p, n, d)
  <2>1. n \in Made(t)
    BY <1>4, <1>14
  <2>2. t.child[s][n] # p \/ t.child[o][n] # p
    BY <1>1, <1>2, <2>1, NodeFacts
  <2> QED BY <1>1, <1>3, <2>2 DEF Lacking
<1>15. Heights(u, g, p)
  BY <1>4, <1>10, <1>12, <1>13, <1>14 DEF Heights
<1> QED BY <1>15 DEF u, g

\* The node that lacks a black once one of the colour c has gone from its place.
ShortAt(c, x) == IF c = "black" THEN x ELSE Dangling

\* Between fix-ups every child is as high as its sibling.
LEMMA LevelFacts ==
  ASSUME NEW t, NEW sub, Shape(t, sub), NEW h, Heights(t, h, Dangling)
  PROVE  /\ h \in [Ptr -> Nat \ {0}] /\ h[Nil] = 1
         /\ \A n \in Ptr \ Made(t) : h[n] = 1
         /\ \A n \in Made(t), d \in Side :
               /\ n \in Ptr /\ t.child[d][n] \in Ptr /\ Black(t, n) \in {0, 1}
               /\ h[n] \in Nat \ {0} /\ h[t.child[d][n]] \in Nat \ {0}
               /\ h[n] = h[t.child[d][n]] + Black(t, n)
<1>1. Nil \in Ptr \ Made(t) /\ Made(t) \subseteq Ptr
  BY KeyAssumption DEF Made, Ptr
<1>2. h \in [Ptr -> Nat \ {0}] /\ h[Nil] = 1 /\ \A n \in Ptr \ Made(t) : h[n] = 1
  BY <1>1 DEF Heights
<1>3. ASSUME NEW n \in Made(t), NEW d \in Side
      PROVE  /\ n \in Ptr /\ t.child[d][n] \in Ptr /\ Black(t, n) \in {0, 1}
             /\ h[n] \in Nat \ {0} /\ h[t.child[d][n]] \in Nat \ {0}
             /\ h[n] = h[t.child[d][n]] + Black(t, n)
  <2>1. n \in Ptr /\ t.child[d][n] \in Ptr
    BY <1>1 DEF Shape, LinksOK
  <2>2. Owes(t, Dangling, n, d) = 0
    BY DEF Owes, Lacking
  <2>3. h[n] = h[t.child[d][n]] + Owes(t, Dangling, n, d) + Black(t, n)
    BY DEF Heights
  <2>4. h[n] \in Nat \ {0} /\ h[t.child[d][n]] \in Nat \ {0}
    BY <1>2, <2>1
  <2> QED BY <2>1, <2>2, <2>3, <2>4 DEF Black
<1> QED BY <1>2, <1>3

\* A node cut out leaves its black to be made up for by the node that rises.
LEMMA SpliceHeights ==
  ASSUME NEW t, NEW r, NEW sub, Trees(t, r, sub), NEW n \in sub[t.root], NEW s \in Side,
         t.child[s][n] = Nil, NEW x, x = t.child[Opposite(s)][n],
         NEW u, SplicedFields(t, n, x, u), NEW h, Heights(t, h, Dangling)
  PROVE  Heights(u, [h EXCEPT ![n] = 1], ShortAt(t.color[n], x))
<1> DEFINE o == Opposite(s)
           p == t.parent[n]
           z == ShortAt(t.color[n], x)
           g == [h EXCEPT ![n] = 1]
<1>1. n \in Made(t) /\ Shape(t, sub) /\ o \in Side
  BY SideFacts DEF Trees, Shape
<1>2. /\ Made(t) \subseteq Ptr /\ Nil \in Ptr /\ Nil \notin Made(t)
      /\ x \in Made(t) \cup {Nil} /\ p \in Made(t) \cup {Nil} /\ Dangling \notin Ptr
  BY <1>1, KeyAssumption DEF Made, Ptr, Shape, LinksOK
<1>3. Made(u) = Made(t) \ {n}
  BY SpliceTrees
<1>4. /\ h \in [Ptr -> Nat \ {0}] /\ h[Nil] = 1
      /\ \A m \in Ptr \ Made(t) : h[m] = 1
      /\ \A m \in Made(t), d \in Side :
            /\ m \in Ptr /\ t.child[d][m] \in Ptr /\ Black(t, m) \in {0, 1}
            /\ h[m] \in Nat \ {0} /\ h[t.child[d][m]] \in Nat \ {0}
            /\ h[m] = h[t.child[d][m]] + Black(t, m)
  BY <1>1, LevelFacts
<1>5. h[n] = h[x] + Black(t, n) /\ h[n] = 1 + Black(t, n) /\ h[x] \in Nat
  BY <1>1, <1>4
<1>6. \A m \in Made(t), d \in Side : t.child[d][m] # Nil => t.parent[t.child[d][m]] = m
  BY <1>1 DEF Shape, LinksOK
<1>7. x # n /\ p # n
  <2>1. x # n
    BY <1>1, NodeFacts
  <2>2. p # n
    BY <1>1, <1>2, SideOfNode
  <2> QED BY <2>1, <2>2
<1>8. p # Nil => SideOf(t, n) \in Side /\ t.child[SideOf(t, n)][p] = n
  BY <1>1, SideOfNode
<1>9. /\ \A m \in Ptr : u.parent[m] = IF m = n THEN Dangling
                                     ELSE IF m = x THEN p ELSE t.parent[m]
      /\ \A d \in Side, m \in Ptr :
           u.child[d][m] = IF m = n THEN Dangling
                           ELSE IF m = p /\ p # Nil /\ d = SideOf(t, n) THEN x
                           ELSE t.child[d][m]
      /\ \A m \in Ptr : u.color[m] = IF m = n THEN "red" ELSE t.color[m]
  BY DEF SplicedFields
<1>10. /\ g \in [Ptr -> Nat \ {0}] /\ g[n] = 1 /\ \A m \in Ptr : m # n => g[m] = h[m]
  BY <1>1, <1>2, <1>4
<1>11. /\ z = x \/ z = Dangling
       /\ z = x <=> Black(t, n) = 1
  BY <1>2 DEF ShortAt, Black
<1> HIDE DEF o, p, z, g
<1>12. ASSUME NEW m \in Made(u), NEW d \in Side
       PROVE  /\ g[m] = g[u.child[d][m]] + Owes(u, z, m, d) + Black(u, m)
              /\ ~(m = p /\ d = SideOf(t, n)) => ~Lacking(u, z, m, d)
  <2>1. m \in Made(t) /\ m # n /\ m \in Ptr /\ m # Nil /\ g[m] = h[m] /\ Black(u, m) = Black(t, m)
    BY <1>2, <1>3, <1>9, <1>10, <1>12 DEF Black
  <2>2. /\ h[m] = h[t.child[d][m]] + Black(t, m)
        /\ h[t.child[d][m]] \in Nat /\ t.child[d][m] \in Ptr /\ Black(t, m) \in {0, 1}
    BY <1>4, <2>1
  <2>3. CASE m = p /\ d = SideOf(t, n)
    <3>1. u.child[d][m] = x /\ t.child[d][m] = n
      BY <1>8, <1>9, <2>1, <2>3
    <3>2. u.parent[x] = p
      BY <1>2, <1>7, <1>9
    <3>3. Owes(u, z, m, d) = Black(t, n)
      BY <1>2, <1>11, <2>3, <3>1, <3>2 DEF Owes, Lacking, Black
    <3>4. g[x] = h[x]
      BY <1>2, <1>7, <1>10
    <3> QED BY <1>5, <2>1, <2>2, <2>3, <3>1, <3>3, <3>4
  <2>4. CASE ~(m = p /\ d = SideOf(t, n))
    <3> DEFINE e == t.child[d][m]
    <3>1. u.child[d][m] = e
      BY <1>9, <2>1, <2>4
    <3>2. e # n
      <4> SUFFICES ASSUME e = n PROVE FALSE
        OBVIOUS
      <4>1. m = p /\ p # Nil
        BY <1>1, <1>2, <1>6, <2>1 DEF p
      <4>2. d = Opposite(SideOf(t, n))
        BY <1>8, <2>4, <4>1, SideFacts
      <4>3. t.child[Opposite(SideOf(t, n))][p] # n
        BY <1>1, <4>1, SideOfNode DEF p
      <4> QED BY <4>1, <4>2, <4>3
    <3>3. ~Lacking(u, z, m, d)
      <4> SUFFICES ASSUME Lacking(u, z, m, d) PROVE FALSE
        OBVIOUS
      <4>1. z = x /\ e = x /\ u.parent[x] = m
        BY <1>11, <3>1 DEF Lacking
      <4>2. m = p
        BY <1>2, <1>7, <1>9, <4>1
      <4>3. x = Nil
        <5> SUFFICES ASSUME x # Nil PROVE FALSE
          OBVIOUS
        <5>1. t.parent[x] = n /\ t.parent[x] = m
          BY <1>1, <1>6, <2>1, <4>1 DEF o
        <5> QED BY <2>1, <5>1
      <4>4. h[p] = h[n] + Black(t, p)
        BY <1>4, <1>8, <2>1, <4>2
      <4>5. h[p] = 1 + Black(t, p) /\ Black(t, p) \in {0, 1}
        BY <1>4, <2>2, <4>1, <4>2, <4>3
      <4>6. Black(t, n) = 1
        BY <1>11, <4>1
      <4> QED BY <1>5, <4>4, <4>5, <4>6
    <3>4. g[e] = h[e]
      BY <1>10, <2>2, <3>2
    <3> QED BY <2>1, <2>2, <2>4, <3>1, <3>3, <3>4 DEF Owes
  <2> QED BY <2>3, <2>4
<1>13. ASSUME NEW m \in Made(u) PROVE \E d \in Side : ~Lacking(u, z, m, d)
  <2>1. PICK d \in Side : d # SideOf(t, n)
    BY DEF Side
  <2> QED BY <1>12, <2>1
<1>14. \A m \in Ptr \ Made(u) : g[m] = 1
  BY <1>3, <1>4, <1>10
<1>15. Heights(u, g, z)
  BY <1>10, <1>12, <1>13, <1>14 DEF Heights
<1> QED BY <1>15 DEF g, z

\* A node cut out leaves a red node below a red one only if it was black itself.
LEMMA SpliceReds ==
  ASSUME NEW t, NEW r, NEW sub, Trees(t, r, sub), NEW n \in sub[t.root], NEW s \in Side,
         t.child[s][n] = Nil, NEW x, x = t.child[Opposite(s)][n],
         NEW u, SplicedFields(t, n, x, u), Reds(t, {}), t.color[Nil] = "black"
  PROVE  Reds(u, {ShortAt(t.color[n], x)})
<1>1. n \in Made(t) /\ Shape(t, sub) /\ Opposite(s) \in Side /\ Side = {s, Opposite(s)}
  BY SideFacts DEF Trees, Shape
<1>2. /\ Made(t) \subseteq Ptr /\ Nil \in Ptr /\ Nil \notin Made(t)
      /\ x \in Made(t) \cup {Nil} /\ t.parent[n] \in Made(t) \cup {Nil}
  BY <1>1, KeyAssumption DEF Made, Ptr, Shape, LinksOK
<1>3. Made(u) = Made(t) \ {n}
  BY SpliceTrees
<1>4. x # n /\ t.parent[n] # n
  <2>1. x # n
    BY <1>1, NodeFacts
  <2>2. t.parent[n] # n
    BY <1>1, <1>2, SideOfNode
  <2> QED BY <2>1, <2>2
<1>5. \A m \in Made(t) : t.parent[m] \in Made(t) \cup {Nil} /\ (t.parent[m] = n => m = x)
  BY <1>1, <1>2 DEF Shape, LinksOK
<1>6. /\ \A m \in Ptr : u.parent[m] = IF m = n THEN Dangling
                                     ELSE IF m = x THEN t.parent[n] ELSE t.parent[m]
      /\ \A m \in Ptr : u.color[m] = IF m = n THEN "red" ELSE t.color[m]
  BY DEF SplicedFields
<1>7. ASSUME NEW m \in Made(u), u.color[m] = "red", u.color[u.parent[m]] = "red"
      PROVE  m = ShortAt(t.color[n], x)
  <2>1. m \in Made(t) /\ m # n /\ t.color[m] = "red"
    BY <1>2, <1>3, <1>6, <1>7
  <2>2. CASE m = x
    <3>1. t.parent[x] = n
      BY <1>1, <1>2, <2>1, <2>2 DEF Shape, LinksOK
    <3>2. t.color[n] # "red"
      BY <2>1, <2>2, <3>1 DEF Reds
    <3>3. t.color[n] = "black"
      BY <1>1, <1>2, <3>2 DEF Shape, Tree, Color
    <3> QED BY <2>2, <3>3 DEF ShortAt
  <2>3. CASE m # x
    <3>1. u.parent[m] = t.parent[m] /\ t.parent[m] # n
      BY <1>2, <1>5, <1>6, <2>1, <2>3
    <3>2. t.color[t.parent[m]] = "red"
      BY <1>2, <1>5, <1>6, <1>7, <2>1, <3>1
    <3> QED BY <2>1, <3>2 DEF Reds
  <2> QED BY <2>2, <2>3
<1> QED BY <1>7 DEF Reds

\* The successor takes the height of the node it replaces; the black of the place
\* it has left is to be made up for there.
LEMMA MoveHeights ==
  ASSUME NEW t, NEW r0, NEW sub, Trees(t, r0, sub), NEW n \in sub[t.root],
         NEW y, Successor(t, sub, n, y), NEW u, MovedFields(t, n, y, u),
         NEW h, Heights(t, h, Dangling)
  PROVE  Heights(u, [h EXCEPT ![n] = 1, ![y] = h[n]],
                 ShortAt(t.color[y], t.child["right"][y]))
<1> DEFINE l == t.child["left"][n]
           r == t.child["right"][n]
           x == t.child["right"][y]
           p == t.parent[n]
           q == t.parent[y]
           z == ShortAt(t.color[y], x)
           g == [h EXCEPT ![n] = 1, ![y] = h[n]]
<1>1. n \in Made(t) /\ Shape(t, sub)
  BY DEF Trees, Shape
<1>2. /\ l \in Made(t) /\ r \in Made(t) /\ y \in Made(t) /\ q \in Made(t)
      /\ x \in Made(t) \cup {Nil} /\ p \in Made(t) \cup {Nil}
      /\ l # r /\ l # n /\ r # n /\ y # n /\ y # l /\ x # y /\ x # n /\ x # l
      /\ t.parent[l] = n /\ t.parent[r] = n /\ (x # Nil => t.parent[x] = y)
      /\ q # y /\ q # l /\ (q = n => y = r)
      /\ q # n => /\ q \in sub[r] /\ y # r /\ x # r
                  /\ t.child["left"][q] = y /\ t.child["right"][q] # y
      /\ n \notin sub[r] /\ r \in sub[r]
  BY <1>1, SuccessorNodes
<1>3. /\ Made(t) \subseteq Ptr /\ Nil \in Ptr /\ Nil \notin Made(t) /\ Dangling \notin Ptr
      /\ "left" \in Side /\ "right" \in Side /\ Side = {"left", "right"}
  BY <1>1, KeyAssumption DEF Made, Ptr, Shape, LinksOK, Side
<1>4. Made(u) = Made(t) \ {n}
  BY MoveTrees
<1>5. /\ h \in [Ptr -> Nat \ {0}] /\ h[Nil] = 1
      /\ \A m \in Ptr \ Made(t) : h[m] = 1
      /\ \A m \in Made(t), d \in Side :
            /\ m \in Ptr /\ t.child[d][m] \in Ptr /\ Black(t, m) \in {0, 1}
            /\ h[m] \in Nat \ {0} /\ h[t.child[d][m]] \in Nat \ {0}
            /\ h[m] = h[t.child[d][m]] + Black(t, m)
  BY <1>1, LevelFacts
<1>6. /\ h[n] = h[l] + Black(t, n) /\ h[n] = h[r] + Black(t, n)
      /\ h[y] = 1 + Black(t, y) /\ h[y] = h[x] + Black(t, y)
      /\ Black(t, n) \in {0, 1} /\ Black(t, y) \in {0, 1}
      /\ h[l] \in Nat /\ h[r] \in Nat /\ h[x] \in Nat /\ h[n] \in Nat \ {0} /\ h[y] \in Nat
  <2>1. t.child["left"][y] = Nil
    BY DEF Successor
  <2> QED BY <1>1, <1>2, <1>3, <1>5, <2>1
<1>7. \A m \in Made(t), d \in Side :
         t.child[d][m] # Nil => t.parent[t.child[d][m]] = m
  BY <1>1 DEF Shape, LinksOK
<1>8. p # Nil => SideOf(t, n) \in Side /\ t.child[SideOf(t, n)][p] = n
  BY <1>1, SideOfNode
<1>9. p # n /\ p # y /\ (p = q => p = Nil) /\ (p # Nil => p \notin sub[r])
  <2>1. p # Nil => p \notin sub[n] /\ sub[r] \subseteq sub[n] /\ y \in sub[r] /\ n \in sub[n]
    BY <1>1, SuccessorNodes DEF Successor
  <2>2. q \in sub[r] \cup {n}
    BY <1>2
  <2> QED BY <1>1, <1>2, <1>3, <2>1, <2>2
<1>10. /\ \A m \in Ptr : u.parent[m] = IF m = n THEN Dangling
                                     ELSE IF m = y THEN p
                                     ELSE IF m \in {l, r} THEN y
                                     ELSE IF m = x THEN IF q = n THEN y ELSE q
                                     ELSE t.parent[m]
       /\ \A d \in Side, m \in Ptr :
            u.child[d][m] = IF m = n THEN Dangling
                            ELSE IF m = y THEN IF d = "left" THEN l
                                               ELSE IF q = n THEN x ELSE r
                            ELSE IF m = p /\ p # Nil /\ d = SideOf(t, n) THEN y
                            ELSE IF m = q /\ d = "left" THEN x
                            ELSE t.child[d][m]
       /\ \A m \in Ptr : u.color[m] = IF m = n THEN "red"
                                     ELSE IF m = y THEN t.color[n]
                                     ELSE t.color[m]
  BY DEF MovedFields
<1>11. /\ g \in [Ptr -> Nat \ {0}] /\ g[n] = 1 /\ g[y] = h[n]
       /\ \A m \in Ptr : m # n /\ m # y => g[m] = h[m]
  BY <1>1, <1>2, <1>3, <1>5, <1>6
<1>12. /\ z = x \/ z = Dangling
       /\ z = x <=> Black(t, y) = 1
  BY <1>2, <1>3 DEF ShortAt, Black
<1> HIDE DEF l, r, x, p, q, z, g
<1>13. u.parent[x] = IF q = n THEN y ELSE q
  <2>1. x \in Ptr /\ x # n /\ x # y /\ x # l
    BY <1>2, <1>3
  <2>2. x # r
    <3>1. CASE q = n
      <4>1. y = r
        BY <1>2, <3>1
      <4> QED BY <1>2, <4>1
    <3>2. CASE q # n
      BY <1>2, <3>2
    <3> QED BY <3>1, <3>2
  <2> QED BY <1>10, <2>1, <2>2
\* Where y is now, and the one that owes is below the place it has left.
<1>14. ASSUME NEW d \in Side
       PROVE  /\ g[y] = g[u.child[d][y]] + Owes(u, z, y, d) + Black(u, y)
              /\ d = "left" => ~Lacking(u, z, y, d)
  <2>1. y \in Ptr /\ Black(u, y) = Black(t, n)
    BY <1>2, <1>3, <1>10 DEF Black
  <2>2. u.child["left"][y] = l /\ u.child["right"][y] = IF q = n THEN x ELSE r
    BY <1>2, <1>3, <1>10, <2>1
  <2>3. g[l] = h[l] /\ g[x] = h[x]
    BY <1>2, <1>3, <1>11
  <2>4. ~Lacking(u, z, y, "left")
    BY <1>2, <1>12, <2>2 DEF Lacking
  <2>5. CASE d = "left"
    BY <1>6, <1>11, <2>1, <2>2, <2>3, <2>4, <2>5 DEF Owes
  <2>6. CASE d = "right" /\ q = n
    <3>1. y = r
      BY <1>2, <2>6
    <3>2. Owes(u, z, y, "right") = Black(t, y)
      BY <1>2, <1>3, <1>12, <1>13, <2>2, <2>6 DEF Owes, Lacking, Black
    <3> QED BY <1>6, <1>11, <2>1, <2>2, <2>3, <2>6, <3>1, <3>2
  <2>7. CASE d = "right" /\ q # n
    <3>1. y # r /\ x # r /\ u.child[d][y] = r
      BY <1>2, <2>2, <2>7
    <3>2. g[r] = h[r]
      BY <1>2, <1>3, <1>11, <3>1
    <3>3. Owes(u, z, y, d) = 0
      BY <1>12, <3>1 DEF Owes, Lacking
    <3>4. g[y] = h[r] + Black(t, n) /\ g[u.child[d][y]] = h[r]
      BY <1>6, <1>11, <3>1, <3>2
    <3>5. g[y] = g[u.child[d][y]] + Owes(u, z, y, d) + Black(u, y)
      BY <1>6, <2>1, <3>3, <3>4
    <3> QED BY <2>7, <3>5
  <2> QED BY <1>3, <2>5, <2>6, <2>7
<1>15. ASSUME NEW m \in Made(u), m # y, NEW d \in Side
       PROVE  /\ g[m] = g[u.child[d][m]] + Owes(u, z, m, d) + Black(u, m)
              /\ ~(m = q /\ d = "left") => ~Lacking(u, z, m, d)
  <2>1. /\ m \in Made(t) /\ m # n /\ m \in Ptr /\ m # Nil /\ g[m] = h[m]
        /\ Black(u, m) = Black(t, m)
    <3>1. m \in Made(t) /\ m # n
      BY <1>4, <1>15
    <3>2. m \in Ptr /\ m # Nil
      BY <1>3, <3>1
    <3> QED BY <1>10, <1>11, <1>15, <3>1, <3>2 DEF Black
  <2>2. /\ h[m] = h[t.child[d][m]] + Black(t, m)
        /\ h[t.child[d][m]] \in Nat /\ t.child[d][m] \in Ptr /\ Black(t, m) \in {0, 1}
    BY <1>5, <2>1
  <2>3. CASE m = p /\ d = SideOf(t, n)
    <3>1. u.child[d][m] = y /\ t.child[d][m] = n
      BY <1>8, <1>10, <1>15, <2>1, <2>3
    <3>2. ~Lacking(u, z, m, d)
      BY <1>2, <1>3, <1>12, <3>1 DEF Lacking
    <3> QED BY <1>6, <1>11, <2>1, <2>2, <3>1, <3>2 DEF Owes
  <2>4. CASE m = q /\ d = "left"
    <3>1. m # p
      BY <1>9, <2>1, <2>4
    <3>2. u.child[d][m] = x
      BY <1>10, <1>15, <2>1, <2>4, <3>1
    <3>3. t.child[d][m] = y
      BY <1>2, <2>1, <2>4
    <3>4. Owes(u, z, m, d) = Black(t, y)
      BY <1>2, <1>3, <1>12, <1>13, <2>1, <2>4, <3>2 DEF Owes, Lacking, Black
    <3>5. g[x] = h[x]
      BY <1>2, <1>3, <1>11
    <3> QED BY <1>6, <2>1, <2>2, <2>4, <3>2, <3>3, <3>4, <3>5
  <2>5. CASE ~(m = p /\ d = SideOf(t, n)) /\ ~(m = q /\ d = "left")
    <3> DEFINE e == t.child[d][m]
    <3>1. u.child[d][m] = e
      BY <1>10, <1>15, <2>1, <2>5
    <3>2. e # n
      <4> SUFFICES ASSUME e = n PROVE FALSE
        OBVIOUS
      <4>1. m = p /\ p # Nil
        BY <1>1, <1>3, <1>7, <2>1 DEF p
      <4>2. d = Opposite(SideOf(t, n))
        BY <1>8, <2>5, <4>1, SideFacts
      <4>3. t.child[Opposite(SideOf(t, n))][p] # n
        BY <1>1, <4>1, SideOfNode DEF p
      <4> QED BY <4>1, <4>2, <4>3
    <3>3. e # y
      <4> SUFFICES ASSUME e = y PROVE FALSE
        OBVIOUS
      <4>1. m = q
        BY <1>2, <1>3, <1>7, <2>1 DEF q
      <4>2. d = "right"
        BY <1>3, <2>5, <4>1
      <4> QED BY <1>2, <2>1, <4>1, <4>2
    <3>4. ~Lacking(u, z, m, d)
      <4> SUFFICES ASSUME Lacking(u, z, m, d) PROVE FALSE
        OBVIOUS
      <4>1. z = x /\ e = x /\ u.parent[x] = m
        BY <1>12, <3>1 DEF Lacking
      <4>2. q # n /\ m = q /\ d = "right"
        BY <1>3, <1>13, <1>15, <2>1, <2>5, <4>1
      <4>3. x = Nil
        <5> SUFFICES ASSUME x # Nil PROVE FALSE
          OBVIOUS
        <5>1. t.parent[x] = y /\ t.parent[x] = m
          BY <1>2, <1>7, <2>1, <4>1
        <5> QED BY <1>15, <5>1
      <4>4. h[q] = h[y] + Black(t, q)
        BY <1>2, <1>3, <1>5, <2>1, <4>2
      <4>5. h[q] = 1 + Black(t, q) /\ Black(t, q) \in {0, 1}
        BY <1>5, <2>2, <4>1, <4>2, <4>3
      <4>6. Black(t, y) = 1
        BY <1>12, <4>1
      <4> QED BY <1>6, <4>4, <4>5, <4>6
    <3>5. g[e] = h[e]
      BY <1>11, <2>2, <3>2, <3>3
    <3> QED BY <2>1, <2>2, <2>5, <3>1, <3>4, <3>5 DEF Owes
  <2> QED BY <2>3, <2>4, <2>5
<1>16. ASSUME NEW m \in Made(u) PROVE \E d \in Side : ~Lacking(u, z, m, d)
  <2>1. CASE m = y
    BY <1>3, <1>14, <2>1
  <2>2. CASE m # y
    BY <1>3, <1>15, <2>2
  <2> QED BY <2>1, <2>2
<1>17. \A m \in Ptr \ Made(u) : g[m] = 1
  BY <1>2, <1>4, <1>5, <1>11
<1>18. Heights(u, g, z)
  BY <1>11, <1>14, <1>15, <1>16, <1>17 DEF Heights
<1> QED BY <1>18 DEF g, z, x

\* A red node below a red one can only be the one that has risen to the
\* successor's place, when that one was black.
LEMMA MoveReds ==
  ASSUME NEW t, NEW r0, NEW sub, Trees(t, r0, sub), NEW n \in sub[t.root],
         NEW y, Successor(t, sub, n, y), NEW u, MovedFields(t, n, y, u),
         Reds(t, {}), t.color[Nil] = "black"
  PROVE  Reds(u, {ShortAt(t.color[y], t.child["right"][y])})
<1> DEFINE l == t.child["left"][n]
           r == t.child["right"][n]
           x == t.child["right"][y]
           p == t.parent[n]
           q == t.parent[y]
<1>1. n \in Made(t) /\ Shape(t, sub)
  BY DEF Trees, Shape
<1>2. /\ l \in Made(t) /\ r \in Made(t) /\ y \in Made(t) /\ q \in Made(t)
      /\ x \in Made(t) \cup {Nil} /\ p \in Made(t) \cup {Nil}
      /\ l # r /\ l # n /\ r # n /\ y # n /\ y # l /\ x # y /\ x # n /\ x # l
      /\ t.parent[l] = n /\ t.parent[r] = n /\ (x # Nil => t.parent[x] = y)
      /\ q # y /\ (q = n => y = r) /\ (q # n => y # r /\ x # r)
  BY <1>1, SuccessorNodes
<1>3. Made(t) \subseteq Ptr /\ Nil \in Ptr /\ Nil \notin Made(t)
  BY KeyAssumption DEF Made, Ptr
<1>4. Made(u) = Made(t) \ {n}
  BY MoveTrees
<1>5. \A m \in Made(t) : /\ t.parent[m] \in Made(t) \cup {Nil}
                         /\ t.parent[m] = n => m \in {l, r}
                         /\ t.parent[m] = y => m = x
  <2>1. t.child["left"][y] = Nil
    BY DEF Successor
  <2> QED BY <1>1, <1>2, <1>3, <2>1 DEF Shape, LinksOK, Side
<1>6. /\ \A m \in Ptr : u.parent[m] = IF m = n THEN Dangling
                                     ELSE IF m = y THEN p
                                     ELSE IF m \in {l, r} THEN y
                                     ELSE IF m = x THEN IF q = n THEN y ELSE q
                                     ELSE t.parent[m]
      /\ \A m \in Ptr : u.color[m] = IF m = n THEN "red"
                                    ELSE IF m = y THEN t.color[n]
                                    ELSE t.color[m]
  BY DEF MovedFields
<1>7. p # n /\ p # y
  <2>1. p # Nil => p \notin sub[n] /\ sub[r] \subseteq sub[n] /\ y \in sub[r] /\ n \in sub[n]
    BY <1>1, SuccessorNodes DEF Successor
  <2> QED BY <1>1, <1>2, <1>3, <2>1
<1>8. \A m \in Made(t) : t.color[m] \in {"red", "black"}
  BY <1>1, <1>3 DEF Shape, Tree, Color
<1>9. \A m \in Made(t) : ~(t.color[m] = "red" /\ t.color[t.parent[m]] = "red")
  BY DEF Reds
<1> HIDE DEF l, r, x, p, q
<1>10. ASSUME NEW m \in Made(u), u.color[m] = "red", u.color[u.parent[m]] = "red"
       PROVE  m = ShortAt(t.color[y], x)
  <2>1. m \in Made(t) /\ m # n /\ m \in Ptr
    BY <1>3, <1>4, <1>10
  <2>2. CASE m = y
    <3>1. u.parent[m] = p /\ u.color[p] = t.color[p] /\ t.color[n] = "red"
      BY <1>2, <1>3, <1>6, <1>7, <1>10, <2>1, <2>2
    <3> QED BY <1>1, <1>9, <1>10, <3>1 DEF p
  <2>3. CASE m # y /\ m \in {l, r}
    <3>1. u.parent[m] = y /\ t.color[m] = "red" /\ t.color[n] = "red"
      BY <1>2, <1>3, <1>6, <1>10, <2>1, <2>3
    <3>2. t.parent[m] = n
      BY <1>2, <2>3
    <3> QED BY <1>9, <2>1, <3>1, <3>2
  <2>4. CASE m # y /\ m \notin {l, r} /\ m = x
    <3>1. t.color[m] = "red" /\ t.parent[m] = y
      BY <1>2, <1>3, <1>6, <1>10, <2>1, <2>4
    <3>2. t.color[y] = "black"
      BY <1>2, <1>8, <1>9, <2>1, <3>1
    <3> QED BY <2>4, <3>2 DEF ShortAt
  <2>5. CASE m # y /\ m \notin {l, r} /\ m # x
    <3>1. u.parent[m] = t.parent[m] /\ t.parent[m] # n /\ t.parent[m] # y
      BY <1>5, <1>6, <2>1, <2>5
    <3>2. t.parent[m] \in Ptr
      BY <1>3, <1>5, <2>1
    <3>3. t.color[m] = "red" /\ t.color[t.parent[m]] = "red"
      BY <1>6, <1>10, <2>1, <2>5, <3>1, <3>2
    <3> QED BY <1>9, <2>1, <3>3
  <2> QED BY <2>2, <2>3, <2>4, <2>5
<1> QED BY <1>10 DEF Reds, x

\* A new red leaf changes no height.
LEMMA LinkHeights ==
  ASSUME NEW t, NEW sub, Shape(t, sub), NEW k \in Key \ Made(t), NEW p \in Made(t),
         t.child[IF k < p THEN "left" ELSE "right"][p] = Nil,
         NEW h, Heights(t, h, Dangling)
  PROVE  Heights(Link(t, k, p), h, Dangling)
<1> DEFINE u == Link(t, k, p)
           e == IF k < p THEN "left" ELSE "right"
<1>1. /\ \A m \in Ptr : u.color[m] = IF m = k THEN "red" ELSE t.color[m]
      /\ \A m \in Ptr : u.parent[m] = IF m = k THEN p ELSE t.parent[m]
      /\ \A d \in Side, m \in Ptr :
           u.child[d][m] = IF m = p /\ d = e THEN k
                           ELSE IF m = k THEN Nil
                           ELSE t.child[d][m]
  BY LinkFields DEF Shape, Made
<1>2. /\ h \in [Ptr -> Nat \ {0}] /\ h[Nil] = 1
      /\ \A n \in Ptr \ Made(t) : h[n] = 1
      /\ \A n \in Made(t), d \in Side :
            /\ n \in Ptr /\ t.child[d][n] \in Ptr /\ Black(t, n) \in {0, 1}
            /\ h[n] \in Nat \ {0} /\ h[t.child[d][n]] \in Nat \ {0}
            /\ h[n] = h[t.child[d][n]] + Black(t, n)
  BY LevelFacts
<1>3. k \in Ptr /\ k # Nil /\ Made(t) \subseteq Ptr /\ p # Dangling /\ k \notin Made(t) /\ p # k
  BY KeyAssumption DEF Made, Ptr
<1>4. Made(u) = Made(t) \cup {k}
  BY <1>1, <1>3 DEF Made, Ptr
<1> HIDE DEF u
<1>5. ASSUME NEW n \in Made(u), NEW d \in Side
      PROVE  h[n] = h[u.child[d][n]] + Owes(u, Dangling, n, d) + Black(u, n)
  <2>1. Owes(u, Dangling, n, d) = 0
    BY DEF Owes, Lacking
  <2>2. CASE n = k
    <3>1. u.child[d][n] = Nil /\ Black(u, n) = 0
      BY <1>1, <1>3, <2>2 DEF Black
    <3>2. h[n] = 1 /\ h[Nil] = 1
      BY <1>2, <1>3, <2>2
    <3> QED BY <2>1, <3>1, <3>2
  <2>3. CASE n # k
    <3>1. n \in Made(t) /\ n \in Ptr /\ Black(u, n) = Black(t, n)
      BY <1>1, <1>3, <1>4, <2>3 DEF Black
    <3>2. CASE n = p /\ d = e
      <4>1. u.child[d][n] = k /\ t.child[d][n] = Nil /\ h[k] = 1 /\ h[Nil] = 1
        BY <1>1, <1>2, <1>3, <3>2
      <4> QED BY <1>2, <2>1, <3>1, <4>1
    <3>3. CASE ~(n = p /\ d = e)
      <4>1. u.child[d][n] = t.child[d][n]
        BY <1>1, <2>3, <3>1, <3>3
      <4> QED BY <1>2, <2>1, <3>1, <4>1
    <3> QED BY <3>2, <3>3
  <2> QED BY <2>2, <2>3
<1>6. /\ \A n \in Ptr \ Made(u) : h[n] = 1
      /\ \A n \in Made(u) : \E d \in Side : ~Lacking(u, Dangling, n, d)
  BY <1>2, <1>4 DEF Lacking, Side
<1>7. Heights(u, h, Dangling)
  BY <1>2, <1>5, <1>6 DEF Heights
<1> QED BY <1>7 DEF u

\* Only the new leaf may be red below a red parent.
LEMMA LinkReds ==
  ASSUME NEW t, NEW sub, Shape(t, sub), NEW k \in Key \ Made(t), NEW p \in Made(t), Reds(t, {})
  PROVE  Reds(Link(t, k, p), {k})
<1> DEFINE u == Link(t, k, p)
<1>1. /\ \A m \in Ptr : u.color[m] = IF m = k THEN "red" ELSE t.color[m]
      /\ \A m \in Ptr : u.parent[m] = IF m = k THEN p ELSE t.parent[m]
  BY LinkFields DEF Shape, Made
<1>2. k \in Ptr /\ k # Nil /\ Made(t) \subseteq Ptr /\ k \notin Made(t) /\ Nil \in Ptr
  BY KeyAssumption DEF Made, Ptr
<1>3. Made(u) \subseteq Made(t) \cup {k}
  BY <1>1, <1>2 DEF Made, Ptr
<1> HIDE DEF u
<1>4. ASSUME NEW n \in Made(u), u.color[n] = "red", u.color[u.parent[n]] = "red", n # k
      PROVE  FALSE
  <2>1. n \in Made(t) /\ n \in Ptr /\ t.parent[n] \in Made(t) \cup {Nil}
    BY <1>2, <1>3, <1>4 DEF Shape, LinksOK
  <2>2. t.color[n] = "red" /\ t.color[t.parent[n]] = "red"
    BY <1>1, <1>2, <1>4, <2>1
  <2> QED BY <2>1, <2>2 DEF Reds
<1>5. Reds(u, {k})
  BY <1>4 DEF Reds
<1> QED BY <1>5 DEF u

\* A red node painted black, which is the root, or is the one that lacks a black.
LEMMA BlackenHeights ==
  ASSUME NEW t, NEW sub, Shape(t, sub), NEW n \in Made(t), t.color[n] = "red",
         NEW h, NEW z, Heights(t, h, z), z = n \/ (z = Dangling /\ t.parent[n] = Nil)
  PROVE  Heights(Paint(t, n, "black"), [h EXCEPT ![n] = h[n] + 1], Dangling)
<1> DEFINE u == Paint(t, n, "black")
           g == [h EXCEPT ![n] = h[n] + 1]
<1>1. t \in Tree /\ n \in Ptr /\ n # Nil /\ Made(t) \subseteq Ptr /\ Nil \in Ptr
      /\ n # Dangling /\ Nil \notin Made(t)
  BY KeyAssumption DEF Shape, Made, Ptr
<1>2. /\ u.parent = t.parent /\ u.child = t.child
      /\ \A m \in Ptr : u.color[m] = IF m = n THEN "black" ELSE t.color[m]
  <2>1. "black" \in Color
    BY DEF Color
  <2> QED BY <1>1, <2>1, PaintFields
<1> HIDE DEF u
<1>3. Made(u) = Made(t)
  BY <1>2 DEF Made
<1>4. /\ h \in [Ptr -> Nat \ {0}]
      /\ \A m \in Made(t), d \in Side :
            h[m] = h[t.child[d][m]] + Owes(t, z, m, d) + Black(t, m)
  BY DEF Heights
<1>5. /\ g \in [Ptr -> Nat \ {0}] /\ g[n] = h[n] + 1
      /\ \A m \in Ptr : m # n => g[m] = h[m]
  BY <1>1, <1>4
<1>6. \A m \in Made(t), d \in Side :
         /\ t.child[d][m] \in Ptr /\ t.child[d][m] # m
         /\ t.child[d][m] # Nil => t.parent[t.child[d][m]] = m
  BY <1>1, NodeFacts
<1> HIDE DEF g
<1>7. ASSUME NEW m \in Made(t), NEW d \in Side
      PROVE  g[m] = g[u.child[d][m]] + Owes(u, Dangling, m, d) + Black(u, m)
  <2> DEFINE e == t.child[d][m]
  <2>1. u.child[d][m] = e /\ Owes(u, Dangling, m, d) = 0
    BY <1>2 DEF Owes, Lacking
  <2>2. e \in Ptr /\ h[e] \in Nat /\ h[m] \in Nat /\ m \in Ptr /\ Black(t, m) \in {0, 1}
    <3>1. e \in Ptr /\ m \in Ptr
      BY <1>1, <1>6
    <3> QED BY <1>4, <3>1 DEF Black
  <2>3. h[m] = h[e] + Owes(t, z, m, d) + Black(t, m)
    BY <1>4
  <2>4. CASE e = n
    <3>1. t.parent[n] = m /\ m # n
      BY <1>1, <1>6, <2>4
    <3>2. z = n
      BY <1>1, <3>1
    <3>3. Owes(t, z, m, d) = 1
      BY <1>1, <2>4, <3>1, <3>2 DEF Owes, Lacking
    <3>4. Black(u, m) = Black(t, m) /\ g[m] = h[m]
      BY <1>2, <1>5, <2>2, <3>1 DEF Black
    <3>5. g[e] = h[e] + 1
      BY <1>5, <2>4
    <3> QED BY <2>1, <2>2, <2>3, <3>3, <3>4, <3>5
  <2>5. CASE e # n
    <3>1. Owes(t, z, m, d) = 0
      BY <2>5 DEF Owes, Lacking
    <3>2. g[e] = h[e]
      BY <1>5, <2>2, <2>5
    <3>3. CASE m = n
      <4>1. Black(t, m) = 0 /\ Black(u, m) = 1 /\ g[m] = h[m] + 1
        BY <1>1, <1>2, <1>5, <3>3 DEF Black
      <4> QED BY <2>1, <2>2, <2>3, <3>1, <3>2, <4>1
    <3>4. CASE m # n
      <4>1. Black(t, m) = Black(u, m) /\ g[m] = h[m]
        BY <1>2, <1>5, <2>2, <3>4 DEF Black
      <4> QED BY <2>1, <2>2, <2>3, <3>1, <3>2, <4>1
    <3> QED BY <3>3, <3>4
  <2> QED BY <2>4, <2>5
<1>8. /\ \A m \in Ptr \ Made(u) : g[m] = 1
      /\ \A m \in Made(u) : \E d \in Side : ~Lacking(u, Dangling, m, d)
  BY <1>3, <1>5 DEF Heights, Lacking, Side
<1>9. Heights(u, g, Dangling)
  BY <1>3, <1>5, <1>7, <1>8 DEF Heights
<1> QED BY <1>9 DEF u, g

\* Neither heights nor what is owed change with other fields.
LEMMA SameHeights ==
  ASSUME NEW t, NEW h, NEW z, Heights(t, h, z), NEW u, NEW zz,
         Made(u) = Made(t),
         \A n \in Made(t) : u.color[n] = t.color[n],
         \A n \in Made(t), d \in Side : u.child[d][n] = t.child[d][n],
         \A n \in Made(t), d \in Side : Lacking(u, zz, n, d) <=> Lacking(t, z, n, d)
  PROVE  Heights(u, h, zz)
<1>1. \A n \in Made(t), d \in Side : Owes(u, zz, n, d) = Owes(t, z, n, d)
  BY DEF Owes
<1>2. \A n \in Made(t) : Black(u, n) = Black(t, n)
  BY DEF Black
<1> QED BY <1>1, <1>2 DEF Heights

\* A black node and its two red children swap their colours.
Flip(t, g, p, q) == Paint(Paint(Paint(t, p, "black"), q, "black"), g, "red")

\* The fields Flip changes.
FlippedFields(t, g, p, q, u) ==
    /\ u \in Tree /\ u.root = t.root /\ u.parent = t.parent /\ u.child = t.child
    /\ \A m \in Ptr : u.color[m] = IF m = g THEN "red"
                                  ELSE IF m \in {p, q} THEN "black"
                                  ELSE t.color[m]

\* The three assignments of InsertFixup's first case change those fields.
LEMMA FlipFields ==
  ASSUME NEW t \in Tree, NEW g \in Ptr, NEW p \in Ptr, NEW q \in Ptr
  PROVE  FlippedFields(t, g, p, q, Flip(t, g, p, q))
<1>0. "red" \in Color /\ "black" \in Color
  BY DEF Color
<1> DEFINE t1 == Paint(t, p, "black")
           t2 == Paint(t1, q, "black")
           t3 == Paint(t2, g, "red")
<1>1. /\ t1 \in Tree /\ t1.root = t.root /\ t1.parent = t.parent /\ t1.child = t.child
      /\ \A m \in Ptr : t1.color[m] = IF m = p THEN "black" ELSE t.color[m]
  BY <1>0, PaintFields
<1> HIDE DEF t1
<1>2. /\ t2 \in Tree /\ t2.root = t1.root /\ t2.parent = t1.parent /\ t2.child = t1.child
      /\ \A m \in Ptr : t2.color[m] = IF m = q THEN "black" ELSE t1.color[m]
  BY <1>0, <1>1, PaintFields
<1> HIDE DEF t2
<1>3. /\ t3 \in Tree /\ t3.root = t2.root /\ t3.parent = t2.parent /\ t3.child = t2.child
      /\ \A m \in Ptr : t3.color[m] = IF m = g THEN "red" ELSE t2.color[m]
  BY <1>0, <1>2, PaintFields
<1> HIDE DEF t3
<1>4. Flip(t, g, p, q) = t3
  BY DEF Flip, t1, t2, t3
<1> QED BY <1>1, <1>2, <1>3, <1>4 DEF FlippedFields

\* The flip raises the two children by one, and no other node.
LEMMA FlipHeights ==
  ASSUME NEW t, NEW sub, Shape(t, sub), NEW g \in Made(t), NEW s \in Side,
         NEW p \in Made(t), p = t.child[s][g], NEW q \in Made(t), q = t.child[Opposite(s)][g],
         t.color[g] = "black", t.color[p] = "red", t.color[q] = "red",
         NEW h, Heights(t, h, Dangling), NEW u, FlippedFields(t, g, p, q, u)
  PROVE  Heights(u, [h EXCEPT ![p] = h[p] + 1, ![q] = h[q] + 1], Dangling)
<1> DEFINE o == Opposite(s)
           f == [h EXCEPT ![p] = h[p] + 1, ![q] = h[q] + 1]
<1>1. /\ Made(t) \subseteq Ptr /\ Nil \in Ptr /\ Nil \notin Made(t) /\ t \in Tree
      /\ o \in Side /\ Side = {s, o}
  BY KeyAssumption, SideFacts DEF Shape, Made, Ptr
<1>2. g # p /\ g # q /\ p # q
  <2>1. p # q
    BY <1>1, NodeFacts
  <2> QED BY <2>1
<1>3. /\ u.parent = t.parent /\ u.child = t.child
      /\ \A m \in Ptr : u.color[m] = IF m = g THEN "red"
                                    ELSE IF m \in {p, q} THEN "black"
                                    ELSE t.color[m]
  BY DEF FlippedFields
<1>4. Made(u) = Made(t)
  BY <1>3 DEF Made
<1>5. /\ h \in [Ptr -> Nat \ {0}]
      /\ \A n \in Ptr \ Made(t) : h[n] = 1
      /\ \A n \in Made(t), d \in Side :
            /\ n \in Ptr /\ t.child[d][n] \in Ptr /\ Black(t, n) \in {0, 1}
            /\ h[n] \in Nat \ {0} /\ h[t.child[d][n]] \in Nat \ {0}
            /\ h[n] = h[t.child[d][n]] + Black(t, n)
  BY LevelFacts
<1>6. /\ f \in [Ptr -> Nat \ {0}] /\ f[p] = h[p] + 1 /\ f[q] = h[q] + 1
      /\ \A m \in Ptr : m # p /\ m # q => f[m] = h[m]
  BY <1>1, <1>2, <1>5
<1>7. \A m \in Made(t), d \in Side : t.child[d][m] # Nil => t.parent[t.child[d][m]] = m
  BY DEF Shape, LinksOK
<1>8. t.parent[p] = g /\ t.parent[q] = g
  BY <1>1, <1>7
<1> HIDE DEF f
<1>9. ASSUME NEW m \in Made(t), NEW d \in Side
      PROVE  f[m] = f[u.child[d][m]] + Owes(u, Dangling, m, d) + Black(u, m)
  <2> DEFINE e == t.child[d][m]
  <2>1. u.child[d][m] = e /\ Owes(u, Dangling, m, d) = 0
    BY <1>3 DEF Owes, Lacking
  <2>2. /\ h[m] = h[e] + Black(t, m) /\ Black(t, m) \in {0, 1} /\ e \in Ptr /\ m \in Ptr
        /\ h[e] \in Nat /\ h[m] \in Nat
    BY <1>5
  <2>3. CASE m = g
    <3>1. e \in {p, q}
      BY <1>1, <2>3
    <3>2. f[e] = h[e] + 1 /\ f[m] = h[m]
      BY <1>2, <1>6, <2>2, <2>3, <3>1
    <3>3. Black(t, m) = 1 /\ Black(u, m) = 0
      BY <1>3, <2>2, <2>3 DEF Black
    <3> QED BY <2>1, <2>2, <3>2, <3>3
  <2>4. CASE m # g
    <3>1. e # p /\ e # q
      BY <1>1, <1>7, <1>8, <2>4
    <3>2. f[e] = h[e]
      BY <1>6, <2>2, <3>1
    <3>3. CASE m \in {p, q}
      <4>1. Black(t, m) = 0 /\ Black(u, m) = 1 /\ f[m] = h[m] + 1
        BY <1>2, <1>3, <1>6, <2>2, <3>3 DEF Black
      <4> QED BY <2>1, <2>2, <3>2, <4>1
    <3>4. CASE m \notin {p, q}
      <4>1. Black(u, m) = Black(t, m) /\ f[m] = h[m]
        BY <1>3, <1>6, <2>2, <2>4, <3>4 DEF Black
      <4> QED BY <2>1, <2>2, <3>2, <4>1
    <3> QED BY <3>3, <3>4
  <2> QED BY <2>3, <2>4
<1>10. /\ \A m \in Ptr \ Made(u) : f[m] = 1
       /\ \A m \in Made(u) : \E d \in Side : ~Lacking(u, Dangling, m, d)
  BY <1>4, <1>5, <1>6 DEF Lacking, Side
<1>11. Heights(u, f, Dangling)
  BY <1>4, <1>6, <1>9, <1>10 DEF Heights
<1> QED BY <1>11 DEF f

\* The flip moves the red node below a red one two levels up.
LEMMA FlipReds ==
  ASSUME NEW t, NEW sub, Shape(t, sub), NEW g \in Made(t), NEW s \in Side,
         NEW p \in Made(t), p = t.child[s][g], NEW q \in Made(t), q = t.child[Opposite(s)][g],
         NEW n \in Made(t), t.parent[n] = p, Reds(t, {n}),
         NEW u, FlippedFields(t, g, p, q, u)
  PROVE  Reds(u, {g})
<1>1. Made(t) \subseteq Ptr /\ Nil \in Ptr /\ t \in Tree /\ Nil \notin Made(t)
  BY KeyAssumption DEF Shape, Made, Ptr
<1>2. /\ u.parent = t.parent
      /\ \A m \in Ptr : u.color[m] = IF m = g THEN "red"
                                    ELSE IF m \in {p, q} THEN "black"
                                    ELSE t.color[m]
  BY DEF FlippedFields
<1>3. Made(u) = Made(t)
  BY <1>2 DEF Made
<1>4. \A m \in Made(t) : t.parent[m] \in Ptr /\ (t.parent[m] = g => m \in {p, q})
  BY <1>1, SideFacts DEF Shape, LinksOK
<1>5. p # g
  BY <1>1, NodeFacts
<1>6. ASSUME NEW m \in Made(t), u.color[m] = "red", u.color[u.parent[m]] = "red", m # g
      PROVE  FALSE
  <2>1. t.color[m] = "red" /\ m \in Ptr /\ t.parent[m] \in Ptr /\ m \notin {p, q}
    BY <1>1, <1>2, <1>4, <1>6
  <2>2. t.parent[m] # g
    BY <1>4, <2>1
  <2>3. t.color[t.parent[m]] = "red" /\ t.parent[m] # p
    BY <1>2, <1>5, <1>6, <2>1, <2>2
  <2>4. m = n
    BY <2>1, <2>3 DEF Reds
  <2> QED BY <2>3, <2>4
<1>7. Reds(u, {g})
  BY <1>3, <1>6 DEF Reds
<1> QED BY <1>7

\* The fields of a tree whose nodes, those of S, are all deleted.
DroppedFields(t, S, a, u) ==
    /\ u \in Tree /\ u.root = a
    /\ \A m \in Ptr : u.color[m] = IF m \in S THEN "red" ELSE t.color[m]
    /\ \A m \in Ptr : u.parent[m] = IF m \in S THEN Dangling ELSE t.parent[m]
    /\ \A d \in Side, m \in Ptr : u.child[d][m] = IF m \in S THEN Dangling ELSE t.child[d][m]

\* Clear, and the move assignment, delete the nodes of S and set the root.
LEMMA DropFields ==
  ASSUME NEW t \in Tree, NEW S \in SUBSET Key, NEW a \in Ptr
  PROVE  DroppedFields(t, S, a, [Unmade(t, S) EXCEPT !.root = a])
<1> DEFINE v == Unmade(t, S)
           u == [v EXCEPT !.root = a]
<1>1. /\ v \in Tree
      /\ \A m \in Ptr : v.color[m] = IF m \in S THEN "red" ELSE t.color[m]
      /\ \A m \in Ptr : v.parent[m] = IF m \in S THEN Dangling ELSE t.parent[m]
      /\ \A d \in Side, m \in Ptr : v.child[d][m] = IF m \in S THEN Dangling ELSE t.child[d][m]
  BY UnmadeFields
<1> HIDE DEF v
<1>2. u.root = a /\ u.color = v.color /\ u.parent = v.parent /\ u.child = v.child /\ u \in Tree
  BY <1>1 DEF Tree
<1> HIDE DEF u
<1>3. DroppedFields(t, S, a, u)
  BY <1>1, <1>2 DEF DroppedFields
<1> QED BY <1>3 DEF u, v

\* The subtrees and the heights without the nodes of S.
DroppedSub(sub, S) == [m \in Ptr |-> IF m \in S THEN {} ELSE sub[m]]
DroppedHeights(h, S) == [m \in Ptr |-> IF m \in S THEN 1 ELSE h[m]]

\* The second tree is what is left.
LEMMA DropTree ==
  ASSUME NEW t, NEW r, NEW sub, Trees(t, r, sub), NEW a, NEW b, {a, b} = {Nil, r},
         NEW u, DroppedFields(t, sub[t.root], a, u)
  PROVE  LET g == DroppedSub(sub, sub[t.root])
         IN  /\ Trees(u, b, g) /\ g[a] = sub[a] /\ g[b] = sub[b]
             /\ Made(u) = sub[r]
             /\ \A h : Heights(t, h, Dangling) =>
                  Heights(u, DroppedHeights(h, sub[t.root]), Dangling)
             /\ Reds(t, {}) => Reds(u, {})
             /\ t.color[Nil] = "black" => u.color[Nil] = "black"
             /\ r # Nil => u.color[r] = t.color[r]
<1> DEFINE S == sub[t.root]
           g == DroppedSub(sub, S)
<1>1. Shape(t, sub) /\ t \in Tree /\ S \subseteq Key /\ S \subseteq Made(t)
  BY DEF Trees, Shape, Ptr, Made
<1>2. /\ Nil \in Ptr /\ Nil \notin Key /\ Made(t) \subseteq Key /\ Key \subseteq Ptr
      /\ Dangling # Nil /\ Nil \notin S /\ r \in Ptr
  BY <1>1, KeyAssumption DEF Made, Ptr, Trees
<1>3. sub[r] = Made(t) \ S /\ (r # Nil => r \in sub[r]) /\ a \in Ptr /\ b \in Ptr
  <2>1. r # Nil => r \in Made(t)
    BY DEF Trees
  <2>2. r # Nil => r \in sub[r]
    BY <1>1, <2>1, NodeFacts, SideFacts
  <2> QED BY <1>2, <2>2 DEF Trees
<1>4. /\ u \in Tree /\ u.root = a
      /\ \A m \in Ptr : u.color[m] = IF m \in S THEN "red" ELSE t.color[m]
      /\ \A m \in Ptr : u.parent[m] = IF m \in S THEN Dangling ELSE t.parent[m]
      /\ \A d \in Side, m \in Ptr : u.child[d][m] = IF m \in S THEN Dangling ELSE t.child[d][m]
  BY DEF DroppedFields
<1>5. Made(u) = Made(t) \ S
  BY <1>1, <1>2, <1>4 DEF Made
<1>6. ASSUME NEW n \in Made(t) \ S
      PROVE  /\ n \in Ptr /\ n \in Made(t) /\ sub[n] \subseteq Made(t) \ S
             /\ t.parent[n] \in (Made(t) \ S) \cup {Nil}
             /\ \A d \in Side : t.child[d][n] \in (Made(t) \ S) \cup {Nil}
  <2>1. n \in Made(t) /\ n \in sub[r] /\ r \in Made(t)
    BY <1>1, <1>2, <1>3 DEF Trees, Shape
  <2>2. sub[n] \subseteq Made(t) \ S
    BY <1>1, <1>3, <2>1, SubtreeNodes
  <2>3. t.parent[n] \in (Made(t) \ S) \cup {Nil}
    <3>1. CASE n = r
      BY <2>1, <3>1 DEF Trees
    <3>2. CASE n # r
      BY <1>1, <1>3, <2>1, <3>2, SubtreeNodes
    <3> QED BY <3>1, <3>2
  <2>4. ASSUME NEW d \in Side PROVE t.child[d][n] \in (Made(t) \ S) \cup {Nil}
    <3>1. t.child[d][n] \in Made(t) \cup {Nil}
      BY <1>1, <2>1, NodeFacts
    <3>2. t.child[d][n] # Nil => t.child[d][n] \in sub[n]
      BY <1>1, <2>1, <3>1, NodeFacts
    <3> QED BY <2>2, <3>1, <3>2
  <2> QED BY <1>2, <2>1, <2>2, <2>3, <2>4
<1> HIDE DEF S
<1>7. g = [m \in Ptr |-> IF m \in S THEN {} ELSE sub[m]]
  BY DEF DroppedSub
<1> HIDE DEF g
<1>8. Shape(u, g)
  <2>1. g \in [Ptr -> SUBSET Key] /\ g[Nil] = {}
    BY <1>1, <1>2, <1>7 DEF Shape
  <2>2. \A d \in Side : u.child[d][Nil] = Nil
    BY <1>1, <1>2, <1>4 DEF Shape
  <2>3. \A n \in Key \ Made(u) : g[n] = {} /\ \A d \in Side : u.child[d][n] = Dangling
    BY <1>1, <1>2, <1>4, <1>5, <1>7 DEF Shape
  <2>4. ASSUME NEW n \in Made(u) PROVE LinksOK(u, n)
    <3>1. n \in Made(t) \ S
      BY <1>5
    <3>2. LinksOK(t, n)
      BY <1>1, <3>1 DEF Shape
    <3>3. /\ u.parent[n] = t.parent[n] /\ t.parent[n] \in (Made(t) \ S) \cup {Nil}
          /\ \A d \in Side : u.child[d][n] = t.child[d][n]
      BY <1>4, <1>6, <3>1
    <3>4. \A d \in Side : t.child[d][n] \in Made(u) \cup {Nil}
      BY <1>5, <1>6, <3>1
    <3>5. t.parent[n] # Nil => \E d \in Side : u.child[d][t.parent[n]] = n
      BY <1>2, <1>4, <3>2, <3>3 DEF LinksOK
    <3>6. \A d \in Side : t.child[d][n] # Nil => u.parent[t.child[d][n]] = n
      BY <1>2, <1>4, <1>5, <3>2, <3>4 DEF LinksOK
    <3> QED BY <1>5, <3>3, <3>4, <3>5, <3>6 DEF LinksOK
  <2>5. ASSUME NEW n \in Made(u) PROVE OrderOK(u, g, n)
    <3>1. n \in Made(t) \ S /\ n \in Ptr
      BY <1>5, <1>6
    <3>2. OrderOK(t, sub, n)
      BY <1>1, <3>1 DEF Shape
    <3>3. /\ g[n] = sub[n]
          /\ \A d \in Side : u.child[d][n] = t.child[d][n] /\ g[t.child[d][n]] = sub[t.child[d][n]]
      <4>1. g[n] = sub[n]
        BY <1>7, <3>1
      <4>2. ASSUME NEW d \in Side PROVE u.child[d][n] = t.child[d][n]
        BY <1>4, <3>1
      <4>3. ASSUME NEW d \in Side PROVE t.child[d][n] \in Ptr /\ t.child[d][n] \notin S
        BY <1>2, <1>6, <3>1
      <4>4. \A m \in Ptr : m \notin S => g[m] = sub[m]
        BY <1>7
      <4> QED BY <4>1, <4>2, <4>3, <4>4
    <3> QED BY <3>2, <3>3 DEF OrderOK, Side
  <2> QED BY <1>4, <2>1, <2>2, <2>3, <2>4, <2>5 DEF Shape
<1>9. g[a] = sub[a] /\ g[b] = sub[b] /\ sub[Nil] = {} /\ g[Nil] = {} /\ g[r] = sub[r]
  <2>1. sub[Nil] = {} /\ g[Nil] = {}
    BY <1>1, <1>2, <1>7 DEF Shape
  <2>2. g[r] = sub[r]
    BY <1>2, <1>3, <1>7
  <2>3. \A m \in {Nil, r} : g[m] = sub[m]
    BY <2>1, <2>2
  <2>4. a \in {Nil, r} /\ b \in {Nil, r}
    OBVIOUS
  <2> QED BY <2>1, <2>2, <2>3, <2>4
<1>10. Trees(u, b, g)
  <2>1. r \in Made(u) \cup {Nil}
    BY <1>3, <1>5 DEF Trees
  <2>2. a \in Made(u) \cup {Nil} /\ b \in Made(u) \cup {Nil}
    BY <2>1
  <2>3. Made(u) = g[a] \cup g[b] /\ g[a] \cap g[b] = {}
    <3>1. CASE a = Nil
      <4>1. b = r
        BY <3>1
      <4> QED BY <1>3, <1>5, <1>9, <3>1, <4>1
    <3>2. CASE a # Nil
      <4>1. a = r /\ b = Nil
        BY <3>2
      <4> QED BY <1>3, <1>5, <1>9, <4>1
    <3> QED BY <3>1, <3>2
  <2>4. ASSUME NEW n \in Made(u) PROVE u.parent[n] = Nil <=> n \in {a, b}
    <3>1. n \in Made(t) /\ n \notin S /\ n # Nil /\ u.parent[n] = t.parent[n]
      BY <1>2, <1>4, <1>5, <1>6
    <3>2. t.root # Nil => t.root \in S
      <4>1. t.root # Nil => t.root \in Made(t)
        BY DEF Trees
      <4> QED BY <1>1, <4>1, NodeFacts, SideFacts DEF S
    <3>3. t.parent[n] = Nil <=> n \in {t.root, r}
      BY <3>1 DEF Trees
    <3>4. n \in {a, b} <=> n = r
      BY <3>1
    <3> QED BY <3>1, <3>2, <3>3, <3>4
  <2> QED BY <1>4, <1>8, <2>2, <2>3, <2>4 DEF Trees
<1>11. ASSUME NEW h, Heights(t, h, Dangling)
       PROVE  Heights(u, DroppedHeights(h, S), Dangling)
  <2> DEFINE f == DroppedHeights(h, S)
  <2>1. /\ h \in [Ptr -> Nat \ {0}] /\ h[Nil] = 1
        /\ \A n \in Ptr \ Made(t) : h[n] = 1
        /\ \A n \in Made(t), d \in Side :
              /\ n \in Ptr /\ t.child[d][n] \in Ptr /\ Black(t, n) \in {0, 1}
              /\ h[n] \in Nat \ {0} /\ h[t.child[d][n]] \in Nat \ {0}
              /\ h[n] = h[t.child[d][n]] + Black(t, n)
    BY <1>1, <1>11, LevelFacts
  <2>2. f \in [Ptr -> Nat \ {0}] /\ \A m \in Ptr : f[m] = IF m \in S THEN 1 ELSE h[m]
    BY <2>1 DEF DroppedHeights
  <2> HIDE DEF f
  <2>3. ASSUME NEW n \in Made(u), NEW d \in Side
        PROVE  f[n] = f[u.child[d][n]] + Owes(u, Dangling, n, d) + Black(u, n)
    <3>1. n \in Made(t) \ S /\ n \in Ptr
      BY <1>5, <1>6
    <3>2. u.child[d][n] = t.child[d][n] /\ t.child[d][n] \notin S /\ t.child[d][n] \in Ptr
      BY <1>2, <1>4, <1>6, <2>1, <3>1
    <3>3. f[n] = h[n] /\ f[t.child[d][n]] = h[t.child[d][n]]
      BY <2>2, <3>1, <3>2
    <3>4. Black(u, n) = Black(t, n) /\ Owes(u, Dangling, n, d) = 0
      BY <1>4, <3>1 DEF Black, Owes, Lacking
    <3> QED BY <2>1, <3>1, <3>2, <3>3, <3>4
  <2>4. \A n \in Ptr \ Made(u) : f[n] = 1
    BY <1>5, <2>1, <2>2
  <2>5. \A n \in Made(u) : \E d \in Side : ~Lacking(u, Dangling, n, d)
    BY DEF Lacking, Side
  <2>6. Heights(u, f, Dangling)
    BY <2>2, <2>3, <2>4, <2>5 DEF Heights
  <2> QED BY <2>6 DEF f
<1>12. Reds(t, {}) => Reds(u, {})
  BY <1>2, <1>4, <1>5, <1>6 DEF Reds
<1>13. /\ t.color[Nil] = "black" => u.color[Nil] = "black"
       /\ r # Nil => u.color[r] = t.color[r]
  BY <1>2, <1>3, <1>4
<1> QED BY <1>3, <1>5, <1>9, <1>10, <1>11, <1>12, <1>13 DEF S, g

\* The fields of an empty tree with its first key.
GrownFields(t, k, u) ==
    /\ u \in Tree /\ u.root = k
    /\ \A m \in Ptr : u.color[m] = IF m = k THEN "black" ELSE t.color[m]
    /\ \A m \in Ptr : u.parent[m] = IF m = k THEN Nil ELSE t.parent[m]
    /\ \A d \in Side, m \in Ptr : u.child[d][m] = IF m = k THEN Nil ELSE t.child[d][m]

\* Insert into an empty tree sets the fields of its root.
LEMMA GrowFields ==
  ASSUME NEW t \in Tree, NEW k \in Key
  PROVE  GrownFields(t, k, [SetParent(Paint(Leaf(t, k), k, "black"), k, Nil) EXCEPT !.root = k])
<1> DEFINE t1 == SetChild(t, "left", k, Nil)
           t2 == SetChild(t1, "right", k, Nil)
           t3 == Paint(t2, k, "black")
           t4 == SetParent(t3, k, Nil)
           u == [t4 EXCEPT !.root = k]
<1>9. k \in Ptr /\ Nil \in Ptr /\ Nil \in AnyPtr
  BY DEF Ptr, AnyPtr
<1>0. "left" \in Side /\ "right" \in Side /\ "black" \in Color
      /\ \A d \in Side : d = "left" \/ d = "right"
  BY DEF Side, Color
<1>1. /\ t1 \in Tree /\ t1.color = t.color /\ t1.parent = t.parent
      /\ \A d \in Side, m \in Ptr :
            t1.child[d][m] = IF m = k /\ d = "left" THEN Nil ELSE t.child[d][m]
  BY <1>9, <1>0, SetChildFields
<1> HIDE DEF t1
<1>2. /\ t2 \in Tree /\ t2.color = t1.color /\ t2.parent = t1.parent
      /\ \A d \in Side, m \in Ptr :
            t2.child[d][m] = IF m = k /\ d = "right" THEN Nil ELSE t1.child[d][m]
  BY <1>9, <1>0, <1>1, SetChildFields
<1> HIDE DEF t2
<1>3. /\ t3 \in Tree /\ t3.parent = t2.parent /\ t3.child = t2.child
      /\ \A m \in Ptr : t3.color[m] = IF m = k THEN "black" ELSE t2.color[m]
  BY <1>9, <1>0, <1>2, PaintFields
<1> HIDE DEF t3
<1>4. /\ t4 \in Tree /\ t4.color = t3.color /\ t4.child = t3.child
      /\ \A m \in Ptr : t4.parent[m] = IF m = k THEN Nil ELSE t3.parent[m]
  BY <1>9, <1>3, SetParentFields
<1> HIDE DEF t4
<1>6. u.root = k /\ u.color = t4.color /\ u.parent = t4.parent /\ u.child = t4.child /\ u \in Tree
  BY <1>9, <1>4 DEF Tree
<1>7. \A d \in Side, m \in Ptr : u.child[d][m] = IF m = k THEN Nil ELSE t.child[d][m]
  BY <1>0, <1>1, <1>2, <1>3, <1>4, <1>6
<1>8. GrownFields(t, k, u)
  <2> HIDE DEF u
  <2> QED BY <1>1, <1>2, <1>3, <1>4, <1>6, <1>7 DEF GrownFields
<1> QED BY <1>8 DEF u, t4, t3, t2, t1, Leaf

\* The subtrees and the heights with the tree of one node.
GrownSub(sub, k) == [sub EXCEPT ![k] = {k}]
GrownHeights(h, k) == [h EXCEPT ![k] = 2]

\* The first key of an empty tree.
LEMMA GrowTree ==
  ASSUME NEW t, NEW r, NEW sub, Trees(t, r, sub), t.root = Nil, NEW k \in Key \ Made(t),
         NEW u, GrownFields(t, k, u)
  PROVE  /\ Trees(u, r, GrownSub(sub, k))
         /\ Made(u) = Made(t) \cup {k}
         /\ \A h : Heights(t, h, Dangling) => Heights(u, GrownHeights(h, k), Dangling)
         /\ Reds(t, {}) => Reds(u, {})
         /\ u.root = k /\ u.color[k] = "black"
         /\ \A m \in Ptr : m # k => u.color[m] = t.color[m]
<1> DEFINE g == GrownSub(sub, k)
<1>1. Shape(t, sub) /\ t \in Tree
  BY DEF Trees, Shape
<1>2. /\ Nil \in Ptr /\ Nil \notin Key /\ Made(t) \subseteq Key /\ Key \subseteq Ptr /\ k \in Ptr
      /\ Dangling # Nil /\ k # Nil /\ k \notin Made(t) /\ Nil \in AnyPtr /\ k # Dangling
  BY KeyAssumption DEF Made, Ptr, AnyPtr
<1>3. /\ u \in Tree /\ u.root = k
      /\ \A m \in Ptr : u.color[m] = IF m = k THEN "black" ELSE t.color[m]
      /\ \A m \in Ptr : u.parent[m] = IF m = k THEN Nil ELSE t.parent[m]
      /\ \A d \in Side, m \in Ptr : u.child[d][m] = IF m = k THEN Nil ELSE t.child[d][m]
  BY DEF GrownFields
<1>4. Made(u) = Made(t) \cup {k}
  BY <1>2, <1>3 DEF Made
<1>5. \A n \in Made(t) : /\ n \in Ptr /\ n # k /\ sub[n] \subseteq Made(t)
                         /\ t.parent[n] \in Made(t) \cup {Nil}
                         /\ \A d \in Side : t.child[d][n] \in Made(t) \cup {Nil}
  BY <1>1, <1>2, SubtreeNodes DEF Shape, LinksOK
<1>6. g \in [Ptr -> SUBSET Key] /\ g[k] = {k} /\ g[Nil] = {} /\ \A m \in Ptr : m # k => g[m] = sub[m]
  BY <1>1, <1>2 DEF Shape, GrownSub
<1> HIDE DEF g
<1>7. Shape(u, g)
  <2>1. \A d \in Side : u.child[d][Nil] = Nil
    BY <1>1, <1>2, <1>3 DEF Shape
  <2>2. \A n \in Key \ Made(u) : g[n] = {} /\ \A d \in Side : u.child[d][n] = Dangling
    BY <1>1, <1>2, <1>3, <1>4, <1>6 DEF Shape
  <2>3. ASSUME NEW n \in Made(t) PROVE LinksOK(u, n) /\ OrderOK(u, g, n)
    <3>1. LinksOK(t, n) /\ OrderOK(t, sub, n)
      BY <1>1 DEF Shape
    <3>2. /\ u.parent[n] = t.parent[n]
          /\ \A d \in Side : u.child[d][n] = t.child[d][n]
      BY <1>3, <1>5
    <3>3. t.parent[n] # Nil => \E d \in Side : u.child[d][t.parent[n]] = n
      BY <1>2, <1>3, <1>5, <3>1 DEF LinksOK
    <3>4. \A d \in Side : t.child[d][n] # Nil => u.parent[t.child[d][n]] = n
      BY <1>2, <1>3, <1>5, <3>1 DEF LinksOK
    <3>5. LinksOK(u, n)
      BY <1>4, <1>5, <3>2, <3>3, <3>4 DEF LinksOK
    <3>6. g[n] = sub[n] /\ \A d \in Side : g[t.child[d][n]] = sub[t.child[d][n]]
      BY <1>2, <1>5, <1>6
    <3>7. OrderOK(u, g, n)
      BY <3>1, <3>2, <3>6 DEF OrderOK, Side
    <3> QED BY <3>5, <3>7
  <2>4. LinksOK(u, k) /\ OrderOK(u, g, k)
    BY <1>2, <1>3, <1>6 DEF LinksOK, OrderOK, Side
  <2> QED BY <1>3, <1>4, <1>6, <2>1, <2>2, <2>3, <2>4 DEF Shape
<1>8. Trees(u, r, g)
  <2>1. r \in Made(t) \cup {Nil} /\ r # k /\ r \in Ptr /\ Made(t) = sub[r]
    BY <1>1, <1>2 DEF Trees, Shape
  <2>2. Made(u) = g[k] \cup g[r] /\ g[k] \cap g[r] = {}
    BY <1>2, <1>4, <1>6, <2>1
  <2>3. \A n \in Made(u) : u.parent[n] = Nil <=> n \in {k, r}
    BY <1>2, <1>3, <1>4, <1>5 DEF Trees
  <2> QED BY <1>3, <1>4, <1>7, <2>1, <2>2, <2>3 DEF Trees
<1>9. ASSUME NEW h, Heights(t, h, Dangling) PROVE Heights(u, GrownHeights(h, k), Dangling)
  <2> DEFINE f == GrownHeights(h, k)
  <2>1. /\ h \in [Ptr -> Nat \ {0}] /\ h[Nil] = 1
        /\ \A n \in Ptr \ Made(t) : h[n] = 1
        /\ \A n \in Made(t), d \in Side :
              /\ n \in Ptr /\ t.child[d][n] \in Ptr /\ Black(t, n) \in {0, 1}
              /\ h[n] \in Nat \ {0} /\ h[t.child[d][n]] \in Nat \ {0}
              /\ h[n] = h[t.child[d][n]] + Black(t, n)
    BY <1>1, <1>9, LevelFacts
  <2>2. f \in [Ptr -> Nat \ {0}] /\ f[k] = 2 /\ f[Nil] = 1 /\ \A m \in Ptr : m # k => f[m] = h[m]
    BY <1>2, <2>1 DEF GrownHeights
  <2> HIDE DEF f
  <2>3. ASSUME NEW n \in Made(u), NEW d \in Side
        PROVE  f[n] = f[u.child[d][n]] + Owes(u, Dangling, n, d) + Black(u, n)
    <3>1. Owes(u, Dangling, n, d) = 0
      BY DEF Owes, Lacking
    <3>2. CASE n = k
      <4>1. u.child[d][n] = Nil /\ Black(u, n) = 1
        BY <1>2, <1>3, <3>2 DEF Black
      <4> QED BY <2>2, <3>1, <3>2, <4>1
    <3>3. CASE n # k
      <4>1. n \in Made(t) /\ n \in Ptr /\ Black(u, n) = Black(t, n)
        BY <1>2, <1>3, <1>4, <3>3 DEF Black
      <4>2. u.child[d][n] = t.child[d][n] /\ t.child[d][n] # k /\ t.child[d][n] \in Ptr
        BY <1>2, <1>3, <1>5, <2>1, <3>3, <4>1
      <4>3. f[n] = h[n] /\ f[t.child[d][n]] = h[t.child[d][n]]
        BY <2>2, <3>3, <4>1, <4>2
      <4> QED BY <2>1, <3>1, <4>1, <4>2, <4>3
    <3> QED BY <3>2, <3>3
  <2>4. \A n \in Ptr \ Made(u) : f[n] = 1
    BY <1>4, <2>1, <2>2
  <2>5. \A n \in Made(u) : \E d \in Side : ~Lacking(u, Dangling, n, d)
    BY DEF Lacking, Side
  <2>6. Heights(u, f, Dangling)
    BY <2>2, <2>3, <2>4, <2>5 DEF Heights
  <2> QED BY <2>6 DEF f
<1>10. Reds(t, {}) => Reds(u, {})
  BY <1>2, <1>3, <1>4, <1>5 DEF Reds
<1> QED BY <1>2, <1>3, <1>4, <1>8, <1>9, <1>10 DEF g

-----------------------------------------------------------------------------
(* The inductive invariant.                                                *)

\* The nodes below each node, as the pointers lead to them.
Subs(t) == [n \in Ptr |-> IF n \in Made(t) THEN Subtree(t, n) ELSE {}]

\* What the pointers, the colours and the heights of the two trees are when
\* the node z lacks a black, and the nodes of E may be red below a red parent.
Sound(t, r, z, E) ==
    /\ Trees(t, r, Subs(t))
    /\ Heights(t, BlackHeight(t, z), z)
    /\ Reds(t, E)
    /\ t.color[Nil] = "black" /\ t.color[r] = "black"

\* The nodes that may be red below a red parent: in an insertion the one the
\* fix-up is at, in a removal also the children of that one.
MayBeRed == CASE pc = "insert fixup" -> {node}
              [] pc = "remove fixup" -> {n \in Key : node \in {n, tree.parent[n]}}
              [] OTHER -> {}

\* Where a fix-up is; the root is red only there.
AtNode ==
    /\ node \in Ptr
    /\ tree.color[tree.root] = "red" =>
         pc \in {"insert fixup", "remove fixup"} /\ node = tree.root
    /\ pc = "insert fixup" => node \in Contents /\ tree.color[node] = "red"
    /\ pc = "remove fixup" =>
         /\ node \in Contents \cup {Nil}
         /\ IF node = tree.root THEN tree.parent[node] = Nil
            ELSE /\ tree.parent[node] \in Contents
                 /\ \E s \in Side : tree.child[s][tree.parent[node]] = node

\* What Remove's range is: its key and what comes after it, or nothing.
CallRange ==
    IF first = last THEN call.key \notin Contents
    ELSE /\ pc = "remove loop" /\ removed = 0
         /\ first = call.key /\ call.key \in Contents
         /\ FirstOrNil("left", Contents \cap Past(call.key), last)

\* The variables of the call in progress: Remove's range, and what Erase returns.
InCall ==
    /\ first \in Ptr /\ last \in Ptr /\ removed \in 0 .. Cardinality(Key)
    /\ \/ pc = "idle" /\ call = NoCall
       \/ /\ pc = "insert fixup" /\ call = [op |-> "insert", key |-> call.key]
          /\ call.key \in Contents
       \/ /\ pc \in {"remove loop", "remove fixup"}
          /\ call = [op |-> "remove", key |-> call.key]
          /\ call.key \in Key /\ CallRange
       \/ /\ pc \in {"remove fixup", "erase returns"}
          /\ call = [op |-> "erase", key |-> call.key]
          /\ call.key \in Key \ Nodes
          /\ FirstOrNil("left", Contents \cap Past(call.key), first)

\* An iterator is at a node, at the end or lost, and one that Find has made
\* takes its node for the sentinel.
IteratorIn(it, S) == /\ it \in [at : AnyPtr, nil : Ptr]
                     /\ it.at \in S \cup {Nil, Dangling}
                     /\ it.nil \in {Nil, it.at}

\* The client's iterator is one of nodes that are there.
AtCursor == IteratorIn(cursor, Nodes)

\* size() counts the nodes, in both trees.
Counted == size = Cardinality(Contents) /\ other = [root |-> other.root, size |-> Cardinality(Parked)]

\* The inductive invariant: two sound trees but for what the fix-up in progress has
\* yet to repair, and the variables of the call, the iterator and the sizes.
IInv == /\ Sound(tree, other.root, Short, MayBeRed)
        /\ AtNode /\ InCall /\ AtCursor /\ Counted

\* The subtrees that Shape is about are those the pointers lead to.
LEMMA SubsIs ==
  ASSUME NEW t, NEW r, NEW sub, Trees(t, r, sub)
  PROVE  /\ Subs(t) = sub
         /\ Subtree(t, r) = sub[r] /\ Subtree(t, t.root) = sub[t.root]
         /\ Made(t) \ Subtree(t, r) = sub[t.root]
<1>1. Shape(t, sub) /\ r \in Made(t) \cup {Nil} /\ t.root \in Made(t) \cup {Nil}
  BY DEF Trees
<1>2. Subtree(t, r) = sub[r] /\ Subtree(t, t.root) = sub[t.root]
  BY <1>1, SubtreeIs
<1>3. \A n \in Made(t) : Subtree(t, n) = sub[n]
  BY <1>1, SubtreeIs
<1>4. \A n \in Ptr \ Made(t) : sub[n] = {}
  BY <1>1 DEF Shape, Ptr
<1>5. sub = [n \in Ptr |-> sub[n]]
  BY <1>1 DEF Shape
<1>6. Subs(t) = sub
  BY <1>3, <1>4, <1>5 DEF Subs
<1> QED BY <1>2, <1>6 DEF Trees

\* What the invariant says of a state, in the form the steps use it.
LEMMA Now ==
  ASSUME IInv
  PROVE  /\ Trees(tree, other.root, Subs(tree)) /\ Shape(tree, Subs(tree)) /\ tree \in Tree
         /\ Contents = Subs(tree)[tree.root] /\ Parked = Subs(tree)[other.root]
         /\ Nodes = Made(tree) /\ Nodes = Contents \cup Parked /\ Contents \cap Parked = {}
         /\ Nodes \subseteq Key /\ Nil \notin Nodes /\ Dangling \notin Nodes
         /\ tree.root \in Contents \cup {Nil} /\ (tree.root = Nil => Contents = {})
         /\ other.root \in Parked \cup {Nil} /\ (other.root = Nil => Parked = {})
<1>1. Trees(tree, other.root, Subs(tree)) /\ Shape(tree, Subs(tree))
  BY DEF IInv, Sound, Trees
<1>2. /\ Contents = Subs(tree)[tree.root] /\ Parked = Subs(tree)[other.root]
      /\ Nodes = Made(tree)
  BY <1>1, SubsIs DEF Contents, Parked, Nodes
<1>3. \A n \in Made(tree) : n \in Subs(tree)[n]
  BY <1>1, NodeFacts, SideFacts
<1>4. Nodes \subseteq Key /\ Nil \notin Nodes /\ Dangling \notin Nodes
  BY <1>2, KeyAssumption DEF Made
<1>5. Subs(tree)[Nil] = {} /\ tree \in Tree
  BY <1>1 DEF Shape
<1> QED BY <1>1, <1>2, <1>3, <1>4, <1>5 DEF Trees

\* What is left to show of the next one, given the sets below its nodes.
LEMMA Then ==
  ASSUME NEW sub, Trees(tree', (other').root, sub)
  PROVE  /\ Contents' = sub[(tree').root] /\ Parked' = sub[(other').root]
         /\ Nodes' = Made(tree') /\ Nodes' = Contents' \cup Parked'
         /\ \A h : /\ Heights(tree', h, Short') /\ Reds(tree', MayBeRed')
                   /\ (tree').color[Nil] = "black" /\ (tree').color[(other').root] = "black"
                   => Sound(tree', (other').root, Short', MayBeRed')
<1>1. Contents' = sub[(tree').root] /\ Parked' = sub[(other').root] /\ Nodes' = Made(tree')
  BY SubsIs DEF Contents, Parked, Nodes
<1>2. ASSUME NEW h, Heights(tree', h, Short') PROVE BlackHeight(tree', Short') = h
  <2>1. Shape(tree', sub)
    BY DEF Trees
  <2> QED BY <1>2, <2>1, HeightIs
<1>3. Subs(tree') = sub
  BY SubsIs
<1> QED BY <1>1, <1>2, <1>3 DEF Sound, Trees

\* Where the iterators are that the code returns, and that KeySet sees.
LEMMA SetCursors ==
  /\ \A n : KeyAt(Iter(n)) = n /\ KeyAt(FoundIter(n)) = n
  /\ FoundIter(Nil) = EndIter
  /\ KeyAt(EndIter) = Nil /\ KeyAt(LostIter) = Dangling
  /\ KeyAt(cursor) = cursor.at
BY DEF KeyAt, Iter, FoundIter, EndIter, LostIter

\* LeastOf and GreatestOf are what the searches find.
LEMMA EndsOfSet ==
  ASSUME NEW S, S \subseteq Key, NEW y
  PROVE  /\ FirstOrNil("left", S, y) => Set!LeastOf(S) = y
         /\ FirstOrNil("right", S, y) => Set!GreatestOf(S) = y
<1>1. S \subseteq Int
  BY KeyAssumption
<1>2. CASE S = {}
  BY <1>2 DEF FirstOrNil, Set!LeastOf, Set!GreatestOf
<1>3. ASSUME S # {}, FirstOrNil("left", S, y) PROVE Set!LeastOf(S) = y
  <2>1. y \in S /\ \A j \in S : j = y \/ Before("left", y, j)
    BY <1>3 DEF FirstOrNil, IsFirst
  <2>2. \A j \in S : Before("left", y, j) => y < j
    BY DEF Before
  <2>3. \A j \in S : y <= j
    BY <1>1, <2>1, <2>2
  <2>4. \A k \in S : (\A j \in S : k <= j) => k = y
    BY <1>1, <2>1, <2>3
  <2>5. Set!LeastOf(S) = CHOOSE k \in S : \A j \in S : k <= j
    BY <1>3 DEF Set!LeastOf
  <2> QED BY <2>1, <2>3, <2>4, <2>5
<1>4. ASSUME S # {}, FirstOrNil("right", S, y) PROVE Set!GreatestOf(S) = y
  <2>1. y \in S /\ \A j \in S : j = y \/ Before("right", y, j)
    BY <1>4 DEF FirstOrNil, IsFirst
  <2>2. \A j \in S : Before("right", y, j) => j < y
    BY DEF Before
  <2>3. \A j \in S : j <= y
    BY <1>1, <2>1, <2>2
  <2>4. \A k \in S : (\A j \in S : j <= k) => k = y
    BY <1>1, <2>1, <2>3
  <2>5. Set!GreatestOf(S) = CHOOSE k \in S : \A j \in S : j <= k
    BY <1>4 DEF Set!GreatestOf
  <2> QED BY <2>1, <2>3, <2>4, <2>5
<1> QED BY <1>2, <1>3, <1>4

\* The variables of KeySet, and the idle state, as this module has them.
LEMMA SetState ==
  /\ Set!vars = <<Contents, Parked, KeyAt(cursor), call, removed>>
  /\ KeyAt(cursor)' = KeyAt(cursor') /\ KeyAt(cursor) = cursor.at
  /\ Set!NoCall = NoCall /\ (Set!Idle <=> call = NoCall)
BY DEF Set!vars, KeyAt, Set!NoCall, NoCall, Set!Idle

\* The iterators a call may return or leave.
LEMMA Iterators ==
  ASSUME NEW S, S \subseteq Key
  PROVE  /\ \A n \in S \cup {Nil} : IteratorIn(Iter(n), S) /\ IteratorIn(FoundIter(n), S)
         /\ IteratorIn(LostIter, S) /\ IteratorIn(EndIter, S)
         /\ \A it, T : IteratorIn(it, T) /\ T \subseteq S => IteratorIn(it, S)
         /\ \A it, T : IteratorIn(it, T) /\ (it.at \in T => it.at \in S) => IteratorIn(it, S)
<1>1. S \cup {Nil} \subseteq AnyPtr /\ S \cup {Nil} \subseteq Ptr /\ Dangling \in AnyPtr /\ Nil \in Ptr
  BY DEF AnyPtr, Ptr
<1>2. \A n \in S \cup {Nil} : IteratorIn(Iter(n), S) /\ IteratorIn(FoundIter(n), S)
  BY <1>1 DEF Iter, FoundIter, IteratorIn
<1>3. IteratorIn(LostIter, S) /\ IteratorIn(EndIter, S)
  BY <1>1 DEF LostIter, EndIter, Iter, IteratorIn
<1>4. \A it, T : IteratorIn(it, T) /\ (it.at \in T => it.at \in S) => IteratorIn(it, S)
  BY DEF IteratorIn
<1>5. \A it, T : IteratorIn(it, T) /\ T \subseteq S => IteratorIn(it, S)
  BY <1>4
<1> QED BY <1>2, <1>3, <1>4, <1>5

\* Outside the fix-ups the colours are in order.
Quiet == {"idle", "remove loop", "erase returns"}

\* Outside the fix-ups nothing is owed, and both roots are black.
LEMMA QuietFacts ==
  ASSUME IInv, pc \in Quiet
  PROVE  /\ Short = Dangling /\ MayBeRed = {}
         /\ Heights(tree, BlackHeight(tree, Dangling), Dangling) /\ Reds(tree, {})
         /\ tree.color[tree.root] = "black" /\ tree.color[Nil] = "black"
         /\ tree.color[other.root] = "black"
<1>1. Short = Dangling /\ MayBeRed = {}
  BY DEF Short, MayBeRed, Quiet
<1>2. tree.color[tree.root] # "red"
  BY DEF IInv, AtNode, Quiet
<1>3. tree.color[tree.root] \in {"red", "black"}
  BY Now DEF Tree, Color, Ptr
<1> QED BY <1>1, <1>2, <1>3 DEF IInv, Sound

\* A step that leaves the trees as they are.
LEMMA QuietStep ==
  ASSUME IInv, pc \in Quiet, pc' \in Quiet, UNCHANGED <<tree, other, size, node>>
  PROVE  /\ Contents' = Contents /\ Parked' = Parked /\ Nodes' = Nodes
         /\ InCall' /\ AtCursor' => IInv'
<1>1. Contents' = Contents /\ Parked' = Parked /\ Nodes' = Nodes
  BY DEF Contents, Parked, Nodes
<1>2. Short = Dangling /\ Short' = Dangling /\ MayBeRed = {} /\ MayBeRed' = {}
  BY DEF Short, MayBeRed, Quiet
<1>3. Sound(tree', (other').root, Short', MayBeRed')
  BY <1>2 DEF IInv
<1>4. AtNode'
  BY <1>1 DEF IInv, AtNode, Quiet
<1>5. Counted'
  BY <1>1 DEF IInv, Counted
<1> QED BY <1>1, <1>3, <1>4, <1>5 DEF IInv

-----------------------------------------------------------------------------
(* One lemma for each operation: the invariant holds after it, and it is a *)
(* step of KeySet or leaves its variables as they are.                     *)

\* Insert of a key that is there (red_black_tree.h:326) changes nothing.
LEMMA InsertDuplicateStep ==
  ASSUME IInv, NEW k \in Key, InsertDuplicate(k)
  PROVE  IInv' /\ [Set!Next]_(Set!vars)
<1>1. /\ pc = "idle" /\ FindNode(tree, k) = k /\ cursor' \in {cursor, EndIter}
      /\ UNCHANGED <<other, tree, size, pc, call, node, first, last, removed>>
  BY DEF InsertDuplicate, KeepOrTake
<1>2. /\ Contents' = Contents /\ Parked' = Parked /\ Nodes' = Nodes
      /\ InCall' /\ AtCursor' => IInv'
  BY <1>1, QuietStep DEF Quiet
<1>3. call = NoCall
  BY <1>1 DEF IInv, InCall
<1>4. InCall'
  BY <1>1, <1>2 DEF IInv, InCall
<1>5. AtCursor'
  BY <1>1, <1>2, Now, Iterators DEF IInv, AtCursor
<1>6. k \in Contents
  <2>1. Nil \notin Key
    BY KeyAssumption
  <2> QED BY <1>1, <2>1, Now, FindNodeIs DEF Trees
<1>7. KeyAt(cursor') \in {cursor.at, Nil}
  BY <1>1, SetCursors
<1>8. Set!InsertAgain(k)
  BY <1>1, <1>2, <1>3, <1>6, <1>7, SetState DEF Set!InsertAgain
<1> QED BY <1>2, <1>4, <1>5, <1>8 DEF Set!Next

\* begin, Find and the bounds find the node KeySet says they do.
LEMMA LookupsAnswer ==
  ASSUME IInv
  PROVE  /\ Outermost(tree, tree.root, "left") = Set!First
         /\ \A k \in Key : /\ FindNode(tree, k) = Set!Find(k)
                           /\ LowerBound(tree, k) = Set!LowerBound(k)
                           /\ UpperBound(tree, k) = Set!UpperBound(k)
         /\ {Set!First} \cup {Set!Find(k) : k \in Key} \cup {Set!LowerBound(k) : k \in Key}
              \cup {Set!UpperBound(k) : k \in Key} \subseteq Contents \cup {Nil}
<1> DEFINE S == Contents
<1>1. S \subseteq Key /\ S = Subs(tree)[tree.root]
  BY Now
<1>2. Shape(tree, Subs(tree)) /\ tree.root \in Made(tree) \cup {Nil}
  BY Now
<1>3. ASSUME NEW T, T \subseteq S, NEW y, FirstOrNil("left", T, y)
      PROVE  y = Set!LeastOf(T) /\ y \in S \cup {Nil}
  BY <1>1, <1>3, EndsOfSet DEF FirstOrNil, IsFirst
<1>4. Outermost(tree, tree.root, "left") = Set!First /\ Set!First \in S \cup {Nil}
  <2>1. FirstOrNil("left", S, Outermost(tree, tree.root, "left"))
    BY <1>1, <1>2, OutermostIs, Now, SideFacts DEF FirstOrNil, IsFirst
  <2> QED BY <1>3, <2>1 DEF Set!First
<1>5. ASSUME NEW k \in Key
      PROVE  FindNode(tree, k) = Set!Find(k) /\ Set!Find(k) \in S \cup {Nil}
  <2>1. FindNode(tree, k) = IF k \in S THEN k ELSE Nil
    BY <1>1, <1>2, FindNodeIs
  <2> QED BY <2>1 DEF Set!Find
<1>6. ASSUME NEW k \in Key
      PROVE  LowerBound(tree, k) = Set!LowerBound(k) /\ Set!LowerBound(k) \in S \cup {Nil}
  <2>1. FirstOrNil("left", S \cap From(k), LowerBound(tree, k))
    BY <1>1, <1>2, LowerBoundIs
  <2>2. S \cap From(k) = {j \in Contents : j >= k}
    BY <1>1 DEF From
  <2> QED BY <1>3, <2>1, <2>2 DEF Set!LowerBound
<1>7. ASSUME NEW k \in Key
      PROVE  UpperBound(tree, k) = Set!UpperBound(k) /\ Set!UpperBound(k) \in S \cup {Nil}
  <2>1. FirstOrNil("left", S \cap Past(k), UpperBound(tree, k))
    BY <1>1, <1>2, UpperBoundIs
  <2>2. S \cap Past(k) = {j \in Contents : j > k}
    BY <1>1, KeyAssumption DEF Past
  <2> QED BY <1>3, <2>1, <2>2 DEF Set!UpperBound
<1> QED BY <1>4, <1>5, <1>6, <1>7

\* begin, end, Find and the bounds return an iterator at a key KeySet allows.
LEMMA PositionStep ==
  ASSUME IInv, Position
  PROVE  IInv' /\ [Set!Next]_(Set!vars)
<1>1. /\ pc = "idle"
      /\ UNCHANGED <<other, tree, size, pc, call, node, first, last, removed>>
  BY DEF Position
<1>2. /\ Contents' = Contents /\ Parked' = Parked /\ Nodes' = Nodes
      /\ InCall' /\ AtCursor' => IInv'
  BY <1>1, QuietStep DEF Quiet
<1>3. call = NoCall
  BY <1>1 DEF IInv, InCall
<1>4. InCall'
  BY <1>1, <1>2 DEF IInv, InCall
<1>5. Contents \subseteq Key /\ Contents \subseteq Nodes /\ Nodes \subseteq Key
  BY Now
<1>6. ASSUME NEW n \in Contents \cup {Nil}, cursor' = Iter(n) \/ cursor' = FoundIter(n)
      PROVE  AtCursor' /\ KeyAt(cursor') = n
  <2>1. IteratorIn(Iter(n), Nodes) /\ IteratorIn(FoundIter(n), Nodes)
    BY <1>5, Iterators
  <2>2. IteratorIn(cursor', Nodes)
    BY <1>6, <2>1
  <2>3. AtCursor'
    BY <1>2, <2>2 DEF AtCursor
  <2> QED BY <1>6, <2>3, SetCursors
<1>7. CASE cursor' = EndIter
  <2>1. AtCursor' /\ KeyAt(cursor') = Nil
    BY <1>2, <1>5, <1>7, Iterators, SetCursors DEF AtCursor
  <2>2. Set!Position
    BY <1>1, <1>2, <1>3, <2>1, SetState DEF Set!Position
  <2> QED BY <1>2, <1>4, <2>1, <2>2 DEF Set!Next
<1>8. CASE cursor' = Iter(Outermost(tree, tree.root, "left"))
  <2>1. AtCursor' /\ KeyAt(cursor') = Set!First
    BY <1>6, <1>8, LookupsAnswer
  <2>2. Set!Position
    BY <1>1, <1>2, <1>3, <2>1, SetState DEF Set!Position
  <2> QED BY <1>2, <1>4, <2>1, <2>2 DEF Set!Next
<1>9. ASSUME NEW k \in Key,
             \/ cursor' = FoundIter(FindNode(tree, k))
             \/ cursor' = Iter(LowerBound(tree, k))
             \/ cursor' = Iter(UpperBound(tree, k))
      PROVE  IInv' /\ [Set!Next]_(Set!vars)
  <2>1. /\ Set!Find(k) \in Contents \cup {Nil} /\ Set!LowerBound(k) \in Contents \cup {Nil}
        /\ Set!UpperBound(k) \in Contents \cup {Nil}
    BY LookupsAnswer
  <2>2. /\ FindNode(tree, k) = Set!Find(k)
        /\ LowerBound(tree, k) = Set!LowerBound(k) /\ UpperBound(tree, k) = Set!UpperBound(k)
    BY LookupsAnswer
  <2>3. AtCursor' /\ KeyAt(cursor') \in {Set!Find(k), Set!LowerBound(k), Set!UpperBound(k)}
    BY <1>6, <1>9, <2>1, <2>2
  <2>4. Set!Position
    BY <1>1, <1>2, <1>3, <2>3, SetState DEF Set!Position
  <2> QED BY <1>2, <1>4, <2>3, <2>4 DEF Set!Next
<1> QED BY <1>7, <1>8, <1>9 DEF Position

\* A set of keys has one first key.
LEMMA FirstUnique ==
  ASSUME NEW s \in Side, NEW S, S \subseteq Key, NEW y, FirstOrNil(s, S, y),
         NEW z, FirstOrNil(s, S, z)
  PROVE  y = z
<1>1. S \subseteq Int
  BY KeyAssumption
<1>2. CASE S = {}
  BY <1>2 DEF FirstOrNil
<1>3. CASE S # {}
  <2>1. y \in S /\ z \in S /\ (z = y \/ Before(s, y, z)) /\ (y = z \/ Before(s, z, y))
    BY <1>3 DEF FirstOrNil, IsFirst
  <2> QED BY <1>1, <2>1 DEF Before
<1> QED BY <1>2, <1>3

\* Where ++ and -- lead from a node, by an iterator that knows the sentinel.
LEMMA NeighboursAnswer ==
  ASSUME IInv, NEW n \in Nodes
  PROVE  /\ Neighbour(tree, Iter(n), "right") = Set!After(n)
         /\ Neighbour(tree, Iter(n), "left") = Set!Before(n)
         /\ Set!After(n) \in Nodes \cup {Nil} /\ Set!Before(n) \in Nodes \cup {Nil}
<1>1. PICK R \in {tree.root, other.root} :
         n \in Subs(tree)[R] /\ Subs(tree)[R] = Set!SetOf(n)
  BY Now DEF Set!SetOf
<1> DEFINE S == Set!SetOf(n)
<1>2. S \subseteq Nodes /\ S \subseteq Key /\ n \in Key /\ n # Nil
  BY <1>1, Now, KeyAssumption DEF Set!SetOf
<1>3. ASSUME NEW s \in Side
      PROVE  /\ FirstOrNil(Opposite(s), {j \in S : Before(Opposite(s), n, j)},
                            Neighbour(tree, Iter(n), s))
             /\ Neighbour(tree, Iter(n), s) \in Nodes \cup {Nil}
  <2>1. FirstOrNil(Opposite(s), {j \in S : Before(Opposite(s), n, j)}, Neighbour(tree, Iter(n), s))
    BY <1>1, Now, NeighbourIs
  <2> HIDE DEF S
  <2> QED BY <1>2, <2>1 DEF FirstOrNil, IsFirst
<1>4. Neighbour(tree, Iter(n), "right") = Set!After(n)
  <2>1. {j \in S : Before("left", n, j)} = {j \in S : j > n}
    BY <1>2, KeyAssumption DEF Before
  <2>2. Set!LeastOf({j \in S : j > n}) = Neighbour(tree, Iter(n), "right")
    <3> HIDE DEF S
    <3>1. "right" \in Side /\ Opposite("right") = "left"
      BY DEF Side, Opposite
    <3> QED BY <1>2, <1>3, <2>1, <3>1, EndsOfSet
  <2> QED BY <1>2, <2>2 DEF Set!After
<1>5. Neighbour(tree, Iter(n), "left") = Set!Before(n)
  <2>1. {j \in S : Before("right", n, j)} = {j \in S : j < n}
    BY <1>2, KeyAssumption DEF Before
  <2>2. Set!GreatestOf({j \in S : j < n}) = Neighbour(tree, Iter(n), "left")
    <3> HIDE DEF S
    <3>1. "left" \in Side /\ Opposite("left") = "right"
      BY DEF Side, Opposite
    <3> QED BY <1>2, <1>3, <2>1, <3>1, EndsOfSet
  <2> QED BY <1>2, <2>2 DEF Set!Before
<1> QED BY <1>3, <1>4, <1>5 DEF Side

\* ++ and -- (red_black_tree.h:824) move the iterator to the neighbour in key order,
\* or, if Find has made it, leave it where it is.
LEMMA StepStep ==
  ASSUME IInv, Step
  PROVE  IInv' /\ [Set!Next]_(Set!vars)
<1>1. /\ pc = "idle" /\ cursor.at # Dangling
      /\ UNCHANGED <<other, tree, size, pc, call, node, first, last, removed>>
  BY DEF Step
<1>2. /\ Contents' = Contents /\ Parked' = Parked /\ Nodes' = Nodes
      /\ InCall' /\ AtCursor' => IInv'
  BY <1>1, QuietStep DEF Quiet
<1>3. call = NoCall
  BY <1>1 DEF IInv, InCall
<1>4. InCall'
  BY <1>1, <1>2 DEF IInv, InCall
<1>5. PICK s \in Side : cursor' = [cursor EXCEPT !.at = Neighbour(tree, cursor, s)]
  BY DEF Step
<1>6. IteratorIn(cursor, Nodes)
  BY DEF IInv, AtCursor
<1> DEFINE n == cursor.at
<1>7. CASE n = cursor.nil
  <2>1. Neighbour(tree, cursor, s) = n
    BY <1>7 DEF Neighbour
  <2>2. cursor' = cursor
    BY <1>5, <1>6, <2>1 DEF IteratorIn
  <2>3. AtCursor' /\ UNCHANGED Set!vars
    BY <1>1, <1>2, <1>6, <2>2, SetState DEF AtCursor, Set!vars
  <2> QED BY <1>2, <1>4, <2>3
<1>8. CASE n # cursor.nil
  <2>1. cursor.nil = Nil /\ n \in Nodes /\ cursor = Iter(n)
    BY <1>1, <1>6, <1>8 DEF IteratorIn, Iter
  <2> DEFINE y == Neighbour(tree, Iter(n), s)
  <2>2. cursor' = Iter(y)
    BY <1>5, <2>1 DEF Iter
  <2>3. y \in Nodes \cup {Nil} /\ y \in {Set!After(n), Set!Before(n)}
    BY <2>1, NeighboursAnswer DEF Side
  <2>4. AtCursor'
    BY <1>2, <2>2, <2>3, Now, Iterators DEF AtCursor
  <2>5. /\ KeyAt(cursor') \in {Set!After(cursor.at), Set!Before(cursor.at)}
        /\ KeyAt(cursor) # Nil
    BY <2>1, <2>2, <2>3, SetCursors, Now
  <2>6. Set!Step
    BY <1>1, <1>2, <1>3, <2>5, SetState DEF Set!Step
  <2> QED BY <1>2, <1>4, <2>4, <2>6 DEF Set!Next
<1> QED BY <1>7, <1>8

\* Remove (red_black_tree.h:364) starts with the range of its key, or an empty one.
LEMMA RemoveStep ==
  ASSUME IInv, NEW k \in Key, Remove(k)
  PROVE  IInv' /\ [Set!Next]_(Set!vars)
<1>1. /\ pc = "idle" /\ pc' = "remove loop"
      /\ first' = LowerBound(tree, k) /\ last' = UpperBound(tree, k) /\ removed' = 0
      /\ call' = [op |-> "remove", key |-> k]
      /\ UNCHANGED <<other, tree, size, node, cursor>>
  BY DEF Remove
<1>2. /\ Contents' = Contents /\ Parked' = Parked /\ Nodes' = Nodes
      /\ InCall' /\ AtCursor' => IInv'
  BY <1>1, QuietStep DEF Quiet
<1>3. call = NoCall
  BY <1>1 DEF IInv, InCall
<1>4. AtCursor'
  BY <1>1, <1>2 DEF IInv, AtCursor
<1> DEFINE S == Contents
<1>5. S \subseteq Key /\ S = Subs(tree)[tree.root]
  BY Now
<1>6. /\ FirstOrNil("left", S \cap From(k), first')
      /\ FirstOrNil("left", S \cap Past(k), last')
  BY <1>1, <1>5, Now, LowerBoundIs, UpperBoundIs
<1>7. first' \in Ptr /\ last' \in Ptr
  BY <1>5, <1>6 DEF FirstOrNil, IsFirst, Ptr
<1>8. removed' \in 0 .. Cardinality(Key)
  <2>1. Cardinality(Key) \in Nat
    BY KeyAssumption, FS_CardinalityType
  <2>2. 0 \in 0 .. Cardinality(Key)
    BY <2>1
  <2> QED BY <1>1, <2>2
<1>9. CallRange'
  <2>1. CASE k \in S
    <3>1. k \in S \cap From(k) /\ k \notin Past(k)
      BY <1>5, <2>1, KeyAssumption DEF From, Past
    <3>2. first' = k
      <4>1. IsFirst("left", S \cap From(k), first')
        BY <1>6, <3>1 DEF FirstOrNil
      <4>2. first' \in From(k) /\ (k = first' \/ Before("left", first', k))
        BY <3>1, <4>1 DEF IsFirst
      <4> QED BY <1>5, <4>2, KeyAssumption DEF From, Before
    <3>3. last' # k
      <4>1. k # Nil
        BY KeyAssumption
      <4> QED BY <1>6, <3>1, <4>1 DEF FirstOrNil, IsFirst
    <3> QED BY <1>1, <1>2, <1>6, <2>1, <3>2, <3>3 DEF CallRange
  <2>2. CASE k \notin S
    <3>1. S \cap From(k) = S \cap Past(k)
      BY <1>5, <2>2, KeyAssumption DEF From, Past
    <3>2. first' = last'
      BY <1>5, <1>6, <3>1, FirstUnique, SideFacts
    <3> QED BY <1>1, <1>2, <2>2, <3>2 DEF CallRange
  <2> QED BY <2>1, <2>2
<1>10. InCall'
  BY <1>1, <1>7, <1>8, <1>9 DEF InCall
<1>11. Set!RemoveKey(k)
  BY <1>1, <1>2, <1>3, SetState DEF Set!RemoveKey
<1> QED BY <1>2, <1>4, <1>10, <1>11 DEF Set!Next

\* Remove ends with its key gone, and counts one if it was there.
LEMMA RemoveReturnsStep ==
  ASSUME IInv, RemoveReturns
  PROVE  IInv' /\ [Set!Next]_(Set!vars)
<1>1. /\ pc = "remove loop" /\ first = last
      /\ pc' = "idle" /\ call' = NoCall /\ first' = Nil /\ last' = Nil
      /\ UNCHANGED <<other, tree, size, node, removed, cursor>>
  BY DEF RemoveReturns
<1>2. /\ Contents' = Contents /\ Parked' = Parked /\ Nodes' = Nodes
      /\ InCall' /\ AtCursor' => IInv'
  BY <1>1, QuietStep DEF Quiet
<1>3. call = [op |-> "remove", key |-> call.key] /\ call.key \notin Contents
  BY <1>1 DEF IInv, InCall, CallRange
<1>4. AtCursor'
  BY <1>1, <1>2 DEF IInv, AtCursor
<1>5. InCall'
  BY <1>1 DEF IInv, InCall, Ptr
<1>6. call.op = "remove" /\ call # NoCall
  BY <1>3 DEF NoCall
<1>7. Set!Return
  BY <1>1, <1>2, <1>3, <1>6, SetState DEF Set!Return
<1> QED BY <1>2, <1>4, <1>5, <1>7 DEF Set!Next

\* Erase returns the key after the one it took, or the end.
LEMMA EraseReturnsStep ==
  ASSUME IInv, EraseReturns
  PROVE  IInv' /\ [Set!Next]_(Set!vars)
<1>1. /\ pc = "erase returns" /\ cursor' = Iter(first)
      /\ pc' = "idle" /\ call' = NoCall /\ first' = Nil
      /\ UNCHANGED <<other, tree, size, node, last, removed>>
  BY DEF EraseReturns
<1>2. /\ Contents' = Contents /\ Parked' = Parked /\ Nodes' = Nodes
      /\ InCall' /\ AtCursor' => IInv'
  BY <1>1, QuietStep DEF Quiet
<1>3. /\ call = [op |-> "erase", key |-> call.key] /\ call.key \in Key \ Nodes
      /\ FirstOrNil("left", Contents \cap Past(call.key), first)
  BY <1>1 DEF IInv, InCall
<1>4. first \in Contents \cup {Nil}
  BY <1>3 DEF FirstOrNil, IsFirst
<1>5. AtCursor'
  BY <1>1, <1>2, <1>4, Now, Iterators DEF AtCursor
<1>6. InCall'
  BY <1>1 DEF IInv, InCall, Ptr
<1>7. call.op = "erase" /\ call # NoCall
  BY <1>3 DEF NoCall
<1>8. Set!After(call.key) = first
  <2>1. call.key # Nil /\ call.key \notin Parked
    BY <1>3, Now, KeyAssumption
  <2>2. Contents \cap Past(call.key) = {j \in Contents : j > call.key}
    BY <1>3, Now, KeyAssumption DEF Past
  <2>3. Contents \cap Past(call.key) \subseteq Key
    BY Now
  <2>4. Set!LeastOf(Contents \cap Past(call.key)) = first
    BY <1>3, <2>3, EndsOfSet
  <2> QED BY <2>1, <2>2, <2>4 DEF Set!After, Set!SetOf
<1>9. KeyAt(cursor') = first
  BY <1>1, SetCursors
<1>10. Set!Return
  BY <1>1, <1>2, <1>7, <1>8, <1>9, SetState DEF Set!Return
<1> QED BY <1>2, <1>5, <1>6, <1>10 DEF Set!Next

\* What is left to show of the next state when no fix-up is going on in it.
LEMMA QuietThen ==
  ASSUME NEW sub, Trees(tree', (other').root, sub), pc' \in Quiet, node' \in Ptr,
         NEW h, Heights(tree', h, Dangling), Reds(tree', {}),
         \A n \in {Nil, (tree').root, (other').root} : (tree').color[n] = "black"
  PROVE  /\ Contents' = sub[(tree').root] /\ Parked' = sub[(other').root]
         /\ Nodes' = Made(tree') /\ Nodes' = Contents' \cup Parked'
         /\ InCall' /\ AtCursor' /\ Counted' => IInv'
<1>1. Short' = Dangling /\ MayBeRed' = {}
  BY DEF Short, MayBeRed, Quiet
<1>2. Sound(tree', (other').root, Short', MayBeRed')
  BY <1>1, Then
<1>3. AtNode'
  BY DEF AtNode, Quiet
<1> QED BY <1>2, <1>3, Then DEF IInv

\* Losing the iterator that is at one of the keys that go.
LEMMA LoseCursor ==
  ASSUME IInv, cursor' = Without(Contents)
  PROVE  /\ KeyAt(cursor') = IF cursor.at \in Contents THEN Dangling ELSE cursor.at
         /\ \A S : Nodes \ Contents \subseteq S /\ S \subseteq Key => IteratorIn(cursor', S)
<1>1. cursor' = IF cursor.at \in Contents THEN LostIter ELSE cursor
  BY DEF Without
<1>2. KeyAt(cursor') = IF cursor.at \in Contents THEN Dangling ELSE cursor.at
  BY <1>1, SetCursors
<1>3. ASSUME NEW S, Nodes \ Contents \subseteq S, S \subseteq Key PROVE IteratorIn(cursor', S)
  <2>1. IteratorIn(cursor, Nodes)
    BY DEF IInv, AtCursor
  <2>2. CASE cursor.at \in Contents
    BY <1>1, <1>3, <2>2, Iterators
  <2>3. CASE cursor.at \notin Contents
    <3>1. cursor.at \in Nodes => cursor.at \in S
      BY <1>3, <2>3
    <3> QED BY <1>1, <1>3, <2>1, <2>3, <3>1, Iterators
  <2> QED BY <2>2, <2>3
<1> QED BY <1>2, <1>3

\* Clear (red_black_tree.h:199) deletes the nodes of this tree and of no other.
LEMMA ClearStep ==
  ASSUME IInv, Clear
  PROVE  IInv' /\ [Set!Next]_(Set!vars)
<1>1. /\ pc = "idle" /\ tree' = [Unmade(tree, Contents) EXCEPT !.root = Nil]
      /\ size' = 0 /\ cursor' = Without(Contents)
      /\ UNCHANGED <<other, pc, call, node, first, last, removed>>
  BY DEF Clear
<1> DEFINE sub == Subs(tree)
           r == other.root
           g == DroppedSub(sub, Contents)
           h == BlackHeight(tree, Dangling)
           hh == DroppedHeights(h, Contents)
<1>2. /\ Trees(tree, r, sub) /\ Contents = sub[tree.root] /\ Parked = sub[r]
      /\ sub[Nil] = {} /\ Contents \subseteq Key /\ Parked \subseteq Key
      /\ Nodes \ Contents = Parked
  BY Now DEF Shape
<1>3. /\ Heights(tree, h, Dangling) /\ Reds(tree, {})
      /\ tree.color[Nil] = "black" /\ tree.color[r] = "black"
  BY <1>1, QuietFacts DEF Quiet
<1> HIDE DEF sub, h
<1>4. DroppedFields(tree, Contents, Nil, tree')
  <2>1. tree \in Tree /\ Contents \in SUBSET Key /\ Nil \in Ptr /\ r \in Ptr
    BY Now DEF Ptr
  <2>2. DroppedFields(tree, Contents, Nil, [Unmade(tree, Contents) EXCEPT !.root = Nil])
    BY <2>1, DropFields
  <2> QED BY <1>1, <2>2
<1>5. /\ Trees(tree', r, g) /\ g[Nil] = sub[Nil] /\ g[r] = sub[r] /\ Made(tree') = sub[r]
      /\ Heights(tree', hh, Dangling) /\ Reds(tree', {})
      /\ (tree').color[Nil] = "black" /\ (r # Nil => (tree').color[r] = "black")
      /\ (tree').root = Nil
  <2>1. {Nil, r} = {Nil, r}
    OBVIOUS
  <2> HIDE DEF r, g, hh
  <2>2. /\ Trees(tree', r, g) /\ g[Nil] = sub[Nil] /\ g[r] = sub[r] /\ Made(tree') = sub[r]
        /\ \A f : Heights(tree, f, Dangling) => Heights(tree', DroppedHeights(f, Contents), Dangling)
        /\ Reds(tree, {}) => Reds(tree', {})
        /\ tree.color[Nil] = "black" => (tree').color[Nil] = "black"
        /\ r # Nil => (tree').color[r] = tree.color[r]
    BY <1>2, <1>4, <2>1, DropTree DEF g
  <2> QED BY <1>3, <1>4, <2>2 DEF DroppedFields, hh
<1> HIDE DEF g, hh
<1>6. /\ Contents' = {} /\ Parked' = Parked /\ Nodes' = Parked
      /\ InCall' /\ AtCursor' /\ Counted' => IInv'
  <2>1. other' = other /\ node' \in Ptr /\ pc' \in Quiet
    BY <1>1 DEF IInv, AtNode, Quiet
  <2> QED BY <1>2, <1>5, <2>1, QuietThen
<1>7. call = NoCall /\ InCall'
  BY <1>1 DEF IInv, InCall
<1>8. AtCursor'
  BY <1>1, <1>2, <1>6, LoseCursor DEF AtCursor
<1>9. Counted'
  <2>1. Cardinality({}) = 0
    BY FS_EmptySet
  <2> QED BY <1>1, <1>6, <2>1 DEF IInv, Counted
<1>10. Set!Clear
  BY <1>1, <1>6, <1>7, LoseCursor, SetState DEF Set!Clear
<1> QED BY <1>6, <1>7, <1>8, <1>9, <1>10 DEF Set!Next

\* A move assignment leaves the other tree empty and takes its nodes.
LEMMA MoveAssignStep ==
  ASSUME IInv, MoveAssign
  PROVE  IInv' /\ [Set!Next]_(Set!vars)
<1>1. /\ pc = "idle" /\ tree' = [Unmade(tree, Contents) EXCEPT !.root = other.root]
      /\ size' = other.size /\ other' = [root |-> Nil, size |-> 0]
      /\ cursor' = Without(Contents)
      /\ UNCHANGED <<pc, call, node, first, last, removed>>
  BY DEF MoveAssign
<1> DEFINE sub == Subs(tree)
           r == other.root
           g == DroppedSub(sub, Contents)
           h == BlackHeight(tree, Dangling)
           hh == DroppedHeights(h, Contents)
<1>2. /\ Trees(tree, r, sub) /\ Contents = sub[tree.root] /\ Parked = sub[r]
      /\ sub[Nil] = {} /\ Contents \subseteq Key /\ Parked \subseteq Key
      /\ Nodes \ Contents = Parked
  BY Now DEF Shape
<1>3. /\ Heights(tree, h, Dangling) /\ Reds(tree, {})
      /\ tree.color[Nil] = "black" /\ tree.color[r] = "black"
  BY <1>1, QuietFacts DEF Quiet
<1> HIDE DEF sub, h
<1>4. DroppedFields(tree, Contents, r, tree')
  <2>1. tree \in Tree /\ Contents \in SUBSET Key /\ Nil \in Ptr /\ r \in Ptr
    BY Now DEF Ptr
  <2>2. DroppedFields(tree, Contents, r, [Unmade(tree, Contents) EXCEPT !.root = r])
    BY <2>1, DropFields
  <2> QED BY <1>1, <2>2
<1>5. /\ Trees(tree', Nil, g) /\ g[Nil] = sub[Nil] /\ g[r] = sub[r] /\ Made(tree') = sub[r]
      /\ Heights(tree', hh, Dangling) /\ Reds(tree', {})
      /\ (tree').color[Nil] = "black" /\ (r # Nil => (tree').color[r] = "black")
      /\ (tree').root = r
  <2>1. {r, Nil} = {Nil, r}
    OBVIOUS
  <2> HIDE DEF r, g, hh
  <2>2. /\ Trees(tree', Nil, g) /\ g[Nil] = sub[Nil] /\ g[r] = sub[r] /\ Made(tree') = sub[r]
        /\ \A f : Heights(tree, f, Dangling) => Heights(tree', DroppedHeights(f, Contents), Dangling)
        /\ Reds(tree, {}) => Reds(tree', {})
        /\ tree.color[Nil] = "black" => (tree').color[Nil] = "black"
        /\ r # Nil => (tree').color[r] = tree.color[r]
    BY <1>2, <1>4, <2>1, DropTree DEF g
  <2> QED BY <1>3, <1>4, <2>2 DEF DroppedFields, hh
<1> HIDE DEF g, hh
<1>6. /\ Contents' = Parked /\ Parked' = {} /\ Nodes' = Parked
      /\ InCall' /\ AtCursor' /\ Counted' => IInv'
  <2>1. (other').root = Nil /\ node' \in Ptr /\ pc' \in Quiet
    BY <1>1 DEF IInv, AtNode, Quiet
  <2> QED BY <1>2, <1>5, <2>1, QuietThen
<1>7. call = NoCall /\ InCall'
  BY <1>1 DEF IInv, InCall
<1>8. AtCursor'
  BY <1>1, <1>2, <1>6, LoseCursor DEF AtCursor
<1>9. Counted'
  <2>1. Cardinality({}) = 0
    BY FS_EmptySet
  <2>2. other.size = Cardinality(Parked)
    BY DEF IInv, Counted
  <2> QED BY <1>1, <1>6, <2>1, <2>2 DEF Counted
<1>10. Set!Move
  BY <1>1, <1>6, <1>7, LoseCursor, SetState DEF Set!Move
<1> QED BY <1>6, <1>7, <1>8, <1>9, <1>10 DEF Set!Next

\* Each copied node is below the copy of its parent: the copy is the same tree.
LEMMA CopyIs ==
  ASSUME IInv
  PROVE  CopyRecursive(tree) = tree
<1> DEFINE t == tree
           sub == Subs(tree)
           from(n) == {m \in Subtree(t, t.root) : n \in {t.child[s][m] : s \in Side}}
<1>1. Trees(t, other.root, sub) /\ Shape(t, sub) /\ t \in Tree /\ Contents = sub[t.root]
  BY Now
<1>2. Subtree(t, t.root) = Contents
  BY <1>1, SubsIs
<1>3. ASSUME NEW n \in Contents, n # t.root PROVE (CHOOSE m \in from(n) : TRUE) = t.parent[n]
  <2>1. t.root \in Made(t) /\ n \in Made(t) /\ n # Nil
    BY <1>3, Now
  <2>2. t.parent[n] \in Contents
    BY <1>1, <1>3, <2>1, SubtreeNodes
  <2>3. \E s \in Side : t.child[s][t.parent[n]] = n
    <3>1. t.parent[n] # Nil
      BY <2>2, Now
    <3>2. LinksOK(t, n)
      BY <1>1, <2>1 DEF Shape
    <3> QED BY <3>1, <3>2 DEF LinksOK
  <2>4. \A m \in from(n) : m = t.parent[n]
    <3> SUFFICES ASSUME NEW m \in Contents, NEW s \in Side, n = t.child[s][m]
                 PROVE  m = t.parent[n]
      BY <1>2
    <3>1. m \in Made(t)
      BY Now
    <3>2. LinksOK(t, m)
      BY <1>1, <3>1 DEF Shape
    <3> QED BY <2>1, <3>2 DEF LinksOK
  <2>5. t.parent[n] \in from(n)
    BY <1>2, <2>2, <2>3
  <2> QED BY <2>4, <2>5
<1>4. t.root # Nil => t.parent[t.root] = Nil
  BY <1>1, Now DEF Trees
<1> DEFINE f == [p \in Ptr |-> IF p \notin Subtree(t, t.root) THEN t.parent[p]
                               ELSE IF p = t.root THEN Nil
                               ELSE CHOOSE m \in from(p) : TRUE]
<1>5. \A p \in Ptr : f[p] = t.parent[p]
  <2>1. \A p \in Contents : p # Nil
    BY Now
  <2> QED BY <1>2, <1>3, <1>4, <2>1
<1>6. f = t.parent
  <2>1. t.parent = [p \in Ptr |-> t.parent[p]]
    BY <1>1 DEF Tree
  <2> HIDE DEF t
  <2> QED BY <1>5, <2>1
<1>7. CopyRecursive(t) = [t EXCEPT !.parent = f]
  BY DEF CopyRecursive
<1> HIDE DEF f
<1> QED BY <1>1, <1>6, <1>7 DEF Tree

\* A copy assignment of a tree to itself has the same nodes; iterators are lost.
LEMMA CopyAssignStep ==
  ASSUME IInv, CopyAssign
  PROVE  IInv' /\ [Set!Next]_(Set!vars)
<1>1. /\ pc = "idle" /\ tree' = tree /\ cursor' = Without(Contents)
      /\ UNCHANGED <<other, size, pc, call, node, first, last, removed>>
  BY CopyIs DEF CopyAssign
<1>2. /\ Contents' = Contents /\ Parked' = Parked /\ Nodes' = Nodes
      /\ InCall' /\ AtCursor' => IInv'
  BY <1>1, QuietStep DEF Quiet
<1>3. call = NoCall
  BY <1>1 DEF IInv, InCall
<1>4. InCall'
  BY <1>1, <1>2 DEF IInv, InCall
<1>5. AtCursor'
  BY <1>1, <1>2, LoseCursor, Now DEF AtCursor
<1>6. Set!Copy
  BY <1>1, <1>2, <1>3, LoseCursor, SetState DEF Set!Copy
<1> QED BY <1>2, <1>4, <1>5, <1>6 DEF Set!Next

\* The two trees exchanged.
LEMMA ExchangeTrees ==
  ASSUME NEW t, NEW r, NEW sub, Trees(t, r, sub), NEW u \in Tree, u.root = r,
         u.color = t.color, u.parent = t.parent, u.child = t.child
  PROVE  /\ Trees(u, t.root, sub) /\ Made(u) = Made(t)
         /\ \A h : Heights(t, h, Dangling) => Heights(u, h, Dangling)
         /\ Reds(t, {}) => Reds(u, {})
<1>1. Made(u) = Made(t)
  BY DEF Made
<1>2. Shape(t, sub)
  BY DEF Trees
<1>3. Shape(u, sub)
  <2>1. \A n \in Made(t) : LinksOK(u, n) /\ OrderOK(u, sub, n)
    BY <1>1, <1>2 DEF Shape, LinksOK, OrderOK
  <2> QED BY <1>1, <1>2, <2>1 DEF Shape
<1>4. Trees(u, t.root, sub)
  BY <1>1, <1>3 DEF Trees
<1>5. \A h : Heights(t, h, Dangling) => Heights(u, h, Dangling)
  BY <1>1, SameHeights DEF Lacking
<1>6. Reds(t, {}) => Reds(u, {})
  BY <1>1 DEF Reds
<1> QED BY <1>1, <1>4, <1>5, <1>6

\* Swap (red_black_tree.h:209) exchanges roots and sizes, and iterators stay good.
LEMMA SwapStep ==
  ASSUME IInv, Swap
  PROVE  IInv' /\ [Set!Next]_(Set!vars)
<1>1. /\ pc = "idle" /\ tree' = [tree EXCEPT !.root = other.root]
      /\ size' = other.size /\ other' = [root |-> tree.root, size |-> size]
      /\ UNCHANGED <<pc, call, node, first, last, removed, cursor>>
  BY DEF Swap
<1> DEFINE sub == Subs(tree)
           h == BlackHeight(tree, Dangling)
<1>2. /\ Trees(tree, other.root, sub) /\ Contents = sub[tree.root] /\ Parked = sub[other.root]
      /\ tree \in Tree /\ other.root \in Ptr /\ Nodes = Made(tree)
  BY Now DEF Ptr
<1>3. /\ Heights(tree, h, Dangling) /\ Reds(tree, {})
      /\ \A n \in {Nil, tree.root, other.root} : tree.color[n] = "black"
  BY <1>1, QuietFacts DEF Quiet
<1> HIDE DEF sub, h
<1>4. /\ tree' \in Tree /\ (tree').root = other.root /\ (tree').color = tree.color
      /\ (tree').parent = tree.parent /\ (tree').child = tree.child
  BY <1>1, <1>2 DEF Tree
<1>5. /\ Trees(tree', tree.root, sub) /\ Made(tree') = Made(tree)
      /\ Heights(tree', h, Dangling) /\ Reds(tree', {})
  BY <1>2, <1>3, <1>4, ExchangeTrees
<1>6. /\ Contents' = Parked /\ Parked' = Contents /\ Nodes' = Nodes
      /\ InCall' /\ AtCursor' /\ Counted' => IInv'
  <2>1. (other').root = tree.root /\ node' \in Ptr /\ pc' \in Quiet
    BY <1>1 DEF IInv, AtNode, Quiet
  <2> QED BY <1>2, <1>3, <1>4, <1>5, <2>1, QuietThen
<1>7. call = NoCall /\ InCall'
  BY <1>1 DEF IInv, InCall
<1>8. AtCursor'
  BY <1>1, <1>6 DEF IInv, AtCursor
<1>9. Counted'
  <2>1. other.size = Cardinality(Parked) /\ size = Cardinality(Contents)
    BY DEF IInv, Counted
  <2> QED BY <1>1, <1>6, <2>1 DEF Counted
<1>10. Set!Swap
  BY <1>1, <1>6, <1>7, SetState DEF Set!Swap
<1> QED BY <1>6, <1>7, <1>8, <1>9, <1>10 DEF Set!Next

\* A parent left in the shared sentinel by another tree is never read before it is
\* set again.
LEMMA OtherTreeStep ==
  ASSUME IInv, OtherTree
  PROVE  IInv' /\ [Set!Next]_(Set!vars)
<1>1. /\ pc = "idle" /\ tree' = [tree EXCEPT !.parent[Nil] = Dangling]
      /\ UNCHANGED <<other, size, pc, call, node, first, last, removed, cursor>>
  BY DEF OtherTree
<1> DEFINE sub == Subs(tree)
           h == BlackHeight(tree, Dangling)
<1>2. /\ Trees(tree, other.root, sub) /\ Contents = sub[tree.root] /\ Parked = sub[other.root]
      /\ tree \in Tree /\ Nil \in Ptr /\ Nodes = Made(tree) /\ Dangling \in AnyPtr
      /\ Nil \notin Key /\ Made(tree) \subseteq Key /\ Key \subseteq Ptr
  BY Now, KeyAssumption DEF Ptr, AnyPtr
<1>3. /\ Heights(tree, h, Dangling) /\ Reds(tree, {})
      /\ \A n \in {Nil, tree.root, other.root} : tree.color[n] = "black"
  BY <1>1, QuietFacts DEF Quiet
<1> HIDE DEF sub, h
<1>4. /\ tree' \in Tree /\ (tree').root = tree.root /\ (tree').color = tree.color
      /\ (tree').child = tree.child /\ \A n \in Key : (tree').parent[n] = tree.parent[n]
  <2>1. tree' = SetParent(tree, Nil, Dangling)
    BY <1>1 DEF SetParent
  <2> QED BY <1>2, <2>1, SetParentFields
<1>5. Trees(tree', other.root, sub) /\ Made(tree') = Made(tree)
  BY <1>2, <1>4, SameLinks
<1>6. Heights(tree', h, Dangling)
  BY <1>3, <1>4, <1>5, SameHeights DEF Lacking
<1>7. Reds(tree', {})
  BY <1>2, <1>3, <1>4, <1>5 DEF Reds
<1>8. /\ Contents' = Contents /\ Parked' = Parked /\ Nodes' = Nodes
      /\ InCall' /\ AtCursor' /\ Counted' => IInv'
  <2>1. other' = other /\ node' \in Ptr /\ pc' \in Quiet
    BY <1>1 DEF IInv, AtNode, Quiet
  <2> QED BY <1>2, <1>3, <1>4, <1>5, <1>6, <1>7, <2>1, QuietThen
<1>9. call = NoCall /\ InCall'
  BY <1>1 DEF IInv, InCall
<1>10. AtCursor' /\ Counted'
  BY <1>1, <1>8 DEF IInv, AtCursor, Counted
<1>11. UNCHANGED Set!vars
  BY <1>1, <1>8, SetState DEF Set!vars
<1> QED BY <1>8, <1>9, <1>10, <1>11

\* The sets of keys are finite.
LEMMA Finite ==
  ASSUME IInv
  PROVE  /\ IsFiniteSet(Contents) /\ Cardinality(Contents) \in Nat
         /\ \A k \in Contents : Cardinality(Contents \ {k}) = Cardinality(Contents) - 1
         /\ \A k : k \notin Contents => Cardinality(Contents \cup {k}) = Cardinality(Contents) + 1
<1>1. IsFiniteSet(Key) /\ Contents \subseteq Key
  BY KeyAssumption, Now
<1>2. IsFiniteSet(Contents)
  BY <1>1, FS_Subset
<1>3. Cardinality(Contents) \in Nat
  BY <1>2, FS_CardinalityType
<1> QED BY <1>2, <1>3, FS_AddElement, FS_RemoveElement

\* Insert into an empty tree (red_black_tree.h:314) makes a black root.
LEMMA InsertIntoEmptyStep ==
  ASSUME IInv, NEW k \in Key, InsertIntoEmpty(k)
  PROVE  IInv' /\ [Set!Next]_(Set!vars)
<1>1. /\ pc = "idle" /\ k \notin Parked /\ tree.root = Nil
      /\ tree' = [SetParent(Paint(Leaf(tree, k), k, "black"), k, Nil) EXCEPT !.root = k]
      /\ size' = size + 1 /\ cursor' \in {cursor, Iter(k)}
      /\ UNCHANGED <<other, pc, call, node, first, last, removed>>
  BY DEF InsertIntoEmpty, KeepOrTake
<1> DEFINE sub == Subs(tree)
           g == GrownSub(sub, k)
           h == BlackHeight(tree, Dangling)
           hh == GrownHeights(h, k)
<1>2. /\ Trees(tree, other.root, sub) /\ tree.root = Nil /\ Contents = {} /\ Parked = sub[other.root]
      /\ tree \in Tree /\ Nodes = Made(tree) /\ Nodes = Parked /\ k \notin Made(tree)
      /\ other.root \in Ptr /\ other.root # k /\ sub \in [Ptr -> SUBSET Key]
      /\ k \in Ptr /\ Nil \in Ptr /\ k # Nil /\ Parked \subseteq Key
  <2>1. k # Nil
    BY KeyAssumption
  <2>2. Contents = {}
    BY <1>1, Now
  <2> QED BY <1>1, <2>1, <2>2, Now DEF Ptr, Shape
<1>3. /\ Heights(tree, h, Dangling) /\ Reds(tree, {})
      /\ \A n \in {Nil, tree.root, other.root} : tree.color[n] = "black"
  BY <1>1, QuietFacts DEF Quiet
<1> HIDE DEF sub, h
<1>4. GrownFields(tree, k, tree')
  BY <1>1, <1>2, GrowFields
<1>5. /\ Trees(tree', other.root, g) /\ Made(tree') = Made(tree) \cup {k}
      /\ \A f : Heights(tree, f, Dangling) => Heights(tree', GrownHeights(f, k), Dangling)
      /\ Reds(tree, {}) => Reds(tree', {})
      /\ (tree').root = k /\ (tree').color[k] = "black"
      /\ \A m \in Ptr : m # k => (tree').color[m] = tree.color[m]
  <2>1. Trees(tree, other.root, sub) /\ tree.root = Nil /\ k \in Key \ Made(tree)
    BY <1>2
  <2>2. GrownFields(tree, k, tree')
    BY <1>4
  <2> QED BY <2>1, <2>2, GrowTree
<1>6. Heights(tree', hh, Dangling) /\ Reds(tree', {})
  BY <1>3, <1>5
<1>7. g[k] = {k} /\ g[other.root] = Parked
  BY <1>2 DEF GrownSub
<1>8. \A n \in {Nil, (tree').root, other.root} : (tree').color[n] = "black"
  BY <1>2, <1>3, <1>5
<1> HIDE DEF g, hh
<1>9. /\ Contents' = {k} /\ Parked' = Parked /\ Nodes' = Nodes \cup {k}
      /\ InCall' /\ AtCursor' /\ Counted' => IInv'
  <2>1. other' = other /\ node' \in Ptr /\ pc' \in Quiet
    BY <1>1 DEF IInv, AtNode, Quiet
  <2>2. Trees(tree', (other').root, g) /\ \A n \in {Nil, (tree').root, (other').root} : (tree').color[n] = "black"
    BY <1>5, <1>8, <2>1
  <2> QED BY <1>2, <1>5, <1>6, <1>7, <2>1, <2>2, QuietThen
<1>10. call = NoCall /\ InCall'
  BY <1>1 DEF IInv, InCall
<1>11. AtCursor'
  <2>1. Nodes \cup {k} \subseteq Key /\ Nodes \subseteq Nodes \cup {k}
    BY <1>2
  <2>2. IteratorIn(cursor, Nodes)
    BY DEF IInv, AtCursor
  <2>3. IteratorIn(Iter(k), Nodes \cup {k})
    BY <2>1, Iterators
  <2>4. IteratorIn(cursor, Nodes \cup {k})
    BY <2>1, <2>2, Iterators
  <2>5. cursor' \in {cursor, Iter(k)}
    BY <1>1
  <2> QED BY <1>9, <2>3, <2>4, <2>5 DEF AtCursor
<1>12. Counted'
  <2>1. Cardinality({}) = 0 /\ Cardinality({k}) = 1
    BY FS_EmptySet, FS_Singleton
  <2>2. size = 0 /\ other = [root |-> other.root, size |-> Cardinality(Parked)]
    BY <1>2, <2>1 DEF IInv, Counted
  <2> QED BY <1>1, <1>9, <2>1, <2>2 DEF Counted
<1>13. Set!InsertNew(k)
  <2>1. KeyAt(cursor') \in {cursor.at, k}
    BY <1>1, <1>2, SetCursors
  <2> QED BY <1>1, <1>2, <1>9, <1>10, <2>1, SetState DEF Set!InsertNew
<1> QED BY <1>9, <1>10, <1>11, <1>12, <1>13 DEF Set!Next

\* What is left to show of the next state when it is in an insertion's fix-up.
LEMMA InsertThen ==
  ASSUME NEW sub, Trees(tree', (other').root, sub), pc' = "insert fixup",
         node' \in sub[(tree').root], (tree').color[node'] = "red",
         (tree').color[(tree').root] = "red" => node' = (tree').root,
         NEW h, Heights(tree', h, Dangling), Reds(tree', {node'}),
         (tree').color[Nil] = "black", (tree').color[(other').root] = "black"
  PROVE  /\ Contents' = sub[(tree').root] /\ Parked' = sub[(other').root]
         /\ Nodes' = Made(tree') /\ Nodes' = Contents' \cup Parked'
         /\ InCall' /\ AtCursor' /\ Counted' => IInv'
<1>1. Short' = Dangling /\ MayBeRed' = {node'}
  BY DEF Short, MayBeRed
<1>2. Sound(tree', (other').root, Short', MayBeRed')
  BY <1>1, Then
<1>3. Contents' = sub[(tree').root] /\ Parked' = sub[(other').root]
      /\ Nodes' = Made(tree') /\ Nodes' = Contents' \cup Parked'
  BY Then
<1>4. Contents' \subseteq Ptr
  BY <1>3 DEF Nodes, Made, Ptr
<1>5. AtNode'
  BY <1>3, <1>4 DEF AtNode
<1> QED BY <1>2, <1>3, <1>5 DEF IInv

\* Insert hangs its red node in its place (red_black_tree.h:348) before the fix-up.
LEMMA InsertLinksStep ==
  ASSUME IInv, NEW k \in Key, InsertLinks(k)
  PROVE  IInv' /\ [Set!Next]_(Set!vars)
<1> DEFINE p == Place(tree, k)
           sub == Subs(tree)
           h == BlackHeight(tree, Dangling)
           g == LinkedSub(sub, k, p)
<1>1. /\ pc = "idle" /\ k \notin Parked /\ tree.root # Nil /\ FindNode(tree, k) = Nil
      /\ tree' = Link(tree, k, p) /\ size' = size + 1 /\ pc' = "insert fixup"
      /\ call' = [op |-> "insert", key |-> k] /\ node' = k
      /\ UNCHANGED <<other, first, last, removed, cursor>>
  BY DEF InsertLinks
<1>2. /\ Trees(tree, other.root, sub) /\ Shape(tree, sub) /\ tree \in Tree
      /\ Contents = sub[tree.root] /\ Parked = sub[other.root]
      /\ Nodes = Made(tree) /\ Nodes = Contents \cup Parked /\ tree.root \in Contents
      /\ Nodes \subseteq Key /\ other.root \in Parked \cup {Nil}
  BY <1>1, Now
<1>3. k # Nil /\ k \notin Contents /\ k \in Ptr /\ Nil \in Ptr /\ other.root \in Ptr
  <2>1. k # Nil
    BY KeyAssumption
  <2>2. tree.root \in Made(tree) \cup {Nil}
    BY <1>2
  <2>3. FindNode(tree, k) = IF k \in Contents THEN k ELSE Nil
    BY <1>2, <2>2, FindNodeIs
  <2> QED BY <1>1, <1>2, <2>1, <2>3 DEF Ptr
<1>4. p \in Ends(tree, Contents, k)
  <2>1. tree.root \in Made(tree)
    BY <1>2
  <2> QED BY <1>2, <2>1, PlaceIs
<1>5. /\ p \in Contents /\ p \in Key
      /\ tree.child[IF k < p THEN "left" ELSE "right"][p] = Nil
      /\ \A j \in Contents : ~(p < j /\ j < k) /\ ~(k < j /\ j < p)
  BY <1>2, <1>3, <1>4 DEF Ends
<1>6. /\ Heights(tree, h, Dangling) /\ Reds(tree, {})
      /\ \A n \in {Nil, tree.root, other.root} : tree.color[n] = "black"
  BY <1>1, QuietFacts DEF Quiet
<1> HIDE DEF p, sub, h
<1>7. k \in Key \ Made(tree) /\ p \in sub[tree.root] /\ p \in Made(tree)
  BY <1>1, <1>2, <1>3, <1>5
<1>8. /\ Trees(tree', other.root, g) /\ g[tree.root] = Contents \cup {k}
      /\ g[other.root] = Parked /\ Made(tree') = Nodes \cup {k}
  <2>1. /\ Trees(tree, other.root, sub) /\ k \in Key \ Made(tree) /\ p \in sub[tree.root]
        /\ tree.child[IF k < p THEN "left" ELSE "right"][p] = Nil
        /\ \A j \in sub[tree.root] : ~(p < j /\ j < k) /\ ~(k < j /\ j < p)
    BY <1>2, <1>5, <1>7
  <2>2. /\ Trees(Link(tree, k, p), other.root, g) /\ g[tree.root] = sub[tree.root] \cup {k}
        /\ g[other.root] = sub[other.root] /\ Made(Link(tree, k, p)) = Made(tree) \cup {k}
    BY <2>1, LinkTrees
  <2> HIDE DEF g
  <2> QED BY <1>1, <1>2, <2>2
<1>9. Heights(tree', h, Dangling) /\ Reds(tree', {k})
  BY <1>1, <1>2, <1>5, <1>6, <1>7, LinkHeights, LinkReds
<1>10. /\ (tree').root = tree.root
       /\ \A m \in Ptr : (tree').color[m] = IF m = k THEN "red" ELSE tree.color[m]
  <2>1. tree \in Tree /\ p \in Key
    BY <1>2, <1>5
  <2>2. /\ Link(tree, k, p).root = tree.root
        /\ \A m \in Ptr : Link(tree, k, p).color[m] = IF m = k THEN "red" ELSE tree.color[m]
    BY <2>1, LinkFields
  <2> QED BY <1>1, <2>2
<1> HIDE DEF g
<1>11. /\ Contents' = Contents \cup {k} /\ Parked' = Parked /\ Nodes' = Nodes \cup {k}
       /\ InCall' /\ AtCursor' /\ Counted' => IInv'
  <2>1. other' = other /\ k \in g[(tree').root] /\ (tree').color[k] = "red"
    BY <1>1, <1>3, <1>8, <1>10
  <2>2. \A n \in {Nil, tree.root, other.root} : n \in Ptr /\ n # k
    BY <1>1, <1>2, <1>3 DEF Ptr
  <2>3. (tree').color[Nil] = "black" /\ (tree').color[other.root] = "black"
        /\ (tree').color[(tree').root] = "black"
    BY <1>6, <1>10, <2>2
  <2> QED BY <1>1, <1>8, <1>9, <1>10, <2>1, <2>3, InsertThen
<1>12. call = NoCall
  BY <1>1 DEF IInv, InCall
<1>13. InCall'
  BY <1>1, <1>11 DEF IInv, InCall
<1>14. AtCursor'
  <2>1. Nodes \cup {k} \subseteq Key /\ Nodes \subseteq Nodes \cup {k}
    BY <1>2
  <2>2. IteratorIn(cursor, Nodes)
    BY DEF IInv, AtCursor
  <2> QED BY <1>1, <1>11, <2>1, <2>2, Iterators DEF AtCursor
<1>15. Counted'
  <2>1. size = Cardinality(Contents) /\ other = [root |-> other.root, size |-> Cardinality(Parked)]
    BY DEF IInv, Counted
  <2>2. Cardinality(Contents \cup {k}) = Cardinality(Contents) + 1
    BY <1>3, Finite
  <2> QED BY <1>1, <1>11, <2>1, <2>2 DEF Counted
<1>16. Set!InsertNew(k)
  BY <1>1, <1>3, <1>11, <1>12, SetState DEF Set!InsertNew
<1> QED BY <1>11, <1>13, <1>14, <1>15, <1>16 DEF Set!Next

\* A painted tree turns as the tree does that it was.
LEMMA TurnPainted ==
  ASSUME NEW t, NEW sub, Shape(t, sub), NEW x \in Made(t), NEW s \in Side,
         t.child[Opposite(s)][x] \in Made(t),
         NEW v \in Tree, v.root = t.root, v.parent = t.parent, v.child = t.child
  PROVE  RotatedFields(t, x, s, Rotate(v, x, s)) /\ Rotate(v, x, s).color = v.color
<1>1. Made(v) = Made(t)
  BY DEF Made
<1>2. Shape(v, sub)
  <2>1. \A n \in Made(t) : LinksOK(v, n) /\ OrderOK(v, sub, n)
    BY <1>1 DEF Shape, LinksOK, OrderOK
  <2> QED BY <1>1, <2>1 DEF Shape
<1>3. RotatedFields(v, x, s, Rotate(v, x, s)) /\ Rotate(v, x, s).color = v.color
  BY <1>1, <1>2, RotateFields
<1>4. SideOf(v, x) = SideOf(t, x)
  BY DEF SideOf
<1> DEFINE u == Rotate(v, x, s)
<1> HIDE DEF u
<1>5. RotatedFields(v, x, s, u) => RotatedFields(t, x, s, u)
  BY <1>4 DEF RotatedFields
<1> QED BY <1>3, <1>5 DEF u

\* Two nodes painted, and turned.
LEMMA TurnSwapped ==
  ASSUME NEW t, NEW sub, Shape(t, sub), NEW x \in Made(t), NEW s \in Side,
         t.child[Opposite(s)][x] \in Made(t)
  PROVE  LET y == t.child[Opposite(s)][x]
             u == Rotate(Paint(Paint(t, y, "black"), x, "red"), x, s)
         IN  RotatedFields(t, x, s, u) /\ SwappedColors(t, x, y, u)
<1> DEFINE y == t.child[Opposite(s)][x]
           v1 == Paint(t, y, "black")
           v == Paint(v1, x, "red")
<1>1. t \in Tree /\ x \in Ptr /\ y \in Ptr /\ "black" \in Color /\ "red" \in Color
  BY DEF Shape, Made, Ptr, Color
<1> HIDE DEF y
<1>2. /\ v1 \in Tree /\ v1.root = t.root /\ v1.parent = t.parent /\ v1.child = t.child
      /\ \A m \in Ptr : v1.color[m] = IF m = y THEN "black" ELSE t.color[m]
  BY <1>1, PaintFields
<1> HIDE DEF v1
<1>3. /\ v \in Tree /\ v.root = t.root /\ v.parent = t.parent /\ v.child = t.child
      /\ \A m \in Ptr : v.color[m] = IF m = x THEN "red" ELSE v1.color[m]
  BY <1>1, <1>2, PaintFields
<1> HIDE DEF v
<1>4. RotatedFields(t, x, s, Rotate(v, x, s)) /\ Rotate(v, x, s).color = v.color
  BY <1>3, TurnPainted
<1>5. SwappedColors(t, x, y, Rotate(v, x, s))
  BY <1>2, <1>3, <1>4 DEF SwappedColors
<1> QED BY <1>4, <1>5 DEF v, v1, y

\* The nodes at which the loop of InsertFixup works.
LEMMA InsertNodes ==
  ASSUME IInv, ParentRed
  PROVE  LET p == tree.parent[node]
             g == tree.parent[p]
             s == SideOf(tree, p)
         IN  /\ pc = "insert fixup" /\ node \in Contents /\ p \in Contents /\ g \in Contents
             /\ s \in Side /\ tree.child[s][g] = p /\ tree.child[Opposite(s)][g] # p
             /\ node # p /\ p # g /\ node # g
             /\ \E d \in Side : tree.child[d][p] = node
             /\ tree.color[node] = "red" /\ tree.color[p] = "red" /\ tree.color[g] = "black"
             /\ tree.color[tree.root] = "black" /\ tree.color[Nil] = "black"
             /\ tree.color[other.root] = "black"
             /\ Heights(tree, BlackHeight(tree, Dangling), Dangling) /\ Reds(tree, {node})
<1> DEFINE sub == Subs(tree)
           p == tree.parent[node]
           g == tree.parent[p]
           s == SideOf(tree, p)
<1>1. pc = "insert fixup" /\ tree.color[p] = "red"
  BY DEF ParentRed
<1>2. /\ Trees(tree, other.root, sub) /\ Shape(tree, sub) /\ tree \in Tree
      /\ Contents = sub[tree.root] /\ Nodes = Made(tree) /\ Contents \subseteq Nodes
      /\ tree.root \in Contents \cup {Nil} /\ Nil \notin Nodes /\ Nodes \subseteq Ptr
  BY Now DEF Ptr
<1> HIDE DEF sub
<1>3. Short = Dangling /\ MayBeRed = {node}
  BY <1>1 DEF Short, MayBeRed
<1>4. /\ node \in Contents /\ tree.color[node] = "red"
      /\ tree.color[tree.root] = "red" => node = tree.root
  BY <1>1 DEF IInv, AtNode
<1>5. /\ tree.color[Nil] = "black" /\ tree.color[other.root] = "black"
      /\ Heights(tree, BlackHeight(tree, Dangling), Dangling) /\ Reds(tree, {node})
  BY <1>3 DEF IInv, Sound
<1>6. p # Nil
  BY <1>1, <1>5
<1>7. node # tree.root /\ tree.root \in Made(tree)
  <2>1. node \in Made(tree) /\ tree.root # Nil
    BY <1>2, <1>4, Now
  <2>2. tree.parent[node] = Nil <=> node \in {tree.root, other.root}
    BY <1>2, <2>1 DEF Trees
  <2> QED BY <1>2, <1>6, <2>1, <2>2
<1>8. p \in Contents
  BY <1>2, <1>4, <1>7, SubtreeNodes
<1>9. p # tree.root
  BY <1>1, <1>4, <1>7
<1>10. g \in Contents
  BY <1>2, <1>7, <1>8, <1>9, SubtreeNodes
<1>11. node \in Made(tree) /\ p \in Made(tree) /\ g # Nil
  BY <1>2, <1>4, <1>8, <1>10
<1>12. /\ s \in Side /\ tree.child[s][g] = p /\ tree.child[Opposite(s)][g] # p /\ p # g
       /\ node # p
  <2>1. /\ SideOf(tree, p) \in Side /\ tree.child[SideOf(tree, p)][g] = p
        /\ tree.child[Opposite(SideOf(tree, p))][g] # p /\ g # p
    BY <1>2, <1>11, SideOfNode
  <2>2. p # node
    BY <1>2, <1>6, <1>11, SideOfNode
  <2> QED BY <2>1, <2>2
<1>13. \E d \in Side : tree.child[d][p] = node
  <2>1. LinksOK(tree, node)
    BY <1>2, <1>11 DEF Shape
  <2> QED BY <1>6, <2>1 DEF LinksOK
<1>14. node # g
  <2> SUFFICES ASSUME node = g PROVE FALSE
    OBVIOUS
  <2>1. p \in sub[node] /\ node \in sub[p]
    <3>1. \A n \in Made(tree), d \in Side : tree.child[d][n] \in Made(tree)
                                            => tree.child[d][n] \in sub[n]
      BY <1>2, NodeFacts
    <3> QED BY <1>11, <1>12, <1>13, <3>1
  <2>2. PICK d \in Side : tree.child[d][p] = node
    BY <1>13
  <2>3. p \notin sub[node]
    BY <1>2, <1>11, <2>2, NodeFacts
  <2> QED BY <2>1, <2>3
<1>15. tree.color[g] = "black" /\ tree.color[tree.root] = "black"
  <2>1. tree.color[g] # "red"
    <3>1. tree.color[p] = "red" /\ tree.color[tree.parent[p]] = "red" => p \in {node}
      BY <1>5, <1>11 DEF Reds
    <3> QED BY <1>1, <1>12, <3>1
  <2>2. tree.color[tree.root] # "red"
    BY <1>4, <1>7
  <2>3. \A n \in Ptr : tree.color[n] \in {"red", "black"}
    BY <1>2 DEF Tree, Color
  <2> QED BY <1>2, <1>7, <1>10, <2>1, <2>2, <2>3
<1> QED BY <1>1, <1>4, <1>5, <1>8, <1>10, <1>12, <1>13, <1>14, <1>15

\* A fix-up's step leaves what KeySet sees as it is.
LEMMA FixupStep ==
  ASSUME Contents' = Contents, Parked' = Parked, UNCHANGED <<call, removed, cursor>>
  PROVE  UNCHANGED Set!vars
BY SetState DEF Set!vars

\* InsertFixup's first case: the node at which a rule is broken is the grandparent
\* next, the pointers being what they were.
LEMMA InsertUncleRedStep ==
  ASSUME IInv, InsertUncleRed
  PROVE  /\ IInv' /\ [Set!Next]_(Set!vars)
         /\ node' = tree.parent[tree.parent[node]] /\ (tree').parent = tree.parent
         /\ Trees(tree', other.root, Subs(tree))
<1> DEFINE p == tree.parent[node]
           g == tree.parent[p]
           s == SideOf(tree, p)
           u == tree.child[Opposite(s)][g]
           sub == Subs(tree)
           h == BlackHeight(tree, Dangling)
           hh == [h EXCEPT ![p] = h[p] + 1, ![u] = h[u] + 1]
<1>1. /\ ParentRed /\ tree.color[u] = "red" /\ tree' = Flip(tree, g, p, u) /\ node' = g
      /\ UNCHANGED <<other, size, pc, call, first, last, removed, cursor>>
  BY DEF InsertUncleRed, Flip
<1>2. /\ pc = "insert fixup" /\ node \in Contents /\ p \in Contents /\ g \in Contents
      /\ s \in Side /\ tree.child[s][g] = p
      /\ tree.color[p] = "red" /\ tree.color[g] = "black" /\ tree.color[Nil] = "black"
      /\ tree.color[tree.root] = "black" /\ tree.color[other.root] = "black"
      /\ Heights(tree, h, Dangling) /\ Reds(tree, {node})
  BY <1>1, InsertNodes
<1>3. /\ Trees(tree, other.root, sub) /\ Shape(tree, sub) /\ tree \in Tree
      /\ Contents = sub[tree.root] /\ Parked = sub[other.root]
      /\ Nodes = Made(tree) /\ Contents \subseteq Made(tree) /\ Made(tree) \subseteq Key
      /\ Contents \cap Parked = {} /\ other.root \in Parked \cup {Nil}
      /\ tree.root \in Contents \cup {Nil} /\ Nil \notin Made(tree) /\ Key \subseteq Ptr /\ Nil \in Ptr
  BY Now DEF Ptr
<1> HIDE DEF sub, h
<1>4. u \in Made(tree)
  <2>1. u \in Made(tree) \cup {Nil}
    <3>1. g \in Made(tree) /\ Opposite(s) \in Side /\ Shape(tree, sub)
      BY <1>2, <1>3, SideFacts
    <3> HIDE DEF g, s
    <3> QED BY <3>1, NodeFacts
  <2> QED BY <1>1, <1>2, <2>1
<1>5. FlippedFields(tree, g, p, u, tree')
  <2>1. g \in Ptr /\ p \in Ptr /\ u \in Ptr
    BY <1>2, <1>3, <1>4
  <2>2. FlippedFields(tree, g, p, u, Flip(tree, g, p, u))
    <3> HIDE DEF g, p, u
    <3> QED BY <1>3, <2>1, FlipFields
  <2> QED BY <1>1, <2>2
<1>6. /\ (tree').root = tree.root /\ (tree').parent = tree.parent /\ (tree').child = tree.child
      /\ tree' \in Tree
      /\ \A m \in Ptr : (tree').color[m] = IF m = g THEN "red"
                                          ELSE IF m \in {p, u} THEN "black" ELSE tree.color[m]
  BY <1>5 DEF FlippedFields
<1>7. Trees(tree', other.root, sub) /\ Made(tree') = Made(tree)
  BY <1>3, <1>6, SameLinks
<1>8. Heights(tree', hh, Dangling) /\ Reds(tree', {g})
  <2>1. /\ g \in Made(tree) /\ p \in Made(tree) /\ node \in Made(tree) /\ tree.parent[node] = p
        /\ p = tree.child[s][g] /\ u = tree.child[Opposite(s)][g]
    BY <1>2, <1>3
  <2>2. tree.color[u] = "red"
    BY <1>1
  <2> HIDE DEF g, p, u, s
  <2>3. Heights(tree', hh, Dangling)
    BY <1>2, <1>3, <1>4, <1>5, <2>1, <2>2, FlipHeights
  <2>4. Reds(tree', {g})
    BY <1>2, <1>3, <1>4, <1>5, <2>1, FlipReds
  <2> QED BY <2>3, <2>4
<1> HIDE DEF hh, g, p, u, s
<1>9. /\ (tree').color[Nil] = "black" /\ (tree').color[other.root] = "black"
      /\ (tree').color[tree.root] = "red" => g = tree.root
      /\ (tree').color[g] = "red"
  <2>1. Nil # g /\ other.root # g /\ tree.root \in Ptr /\ other.root \in Ptr /\ g \in Ptr
    BY <1>2, <1>3 DEF Trees
  <2> QED BY <1>2, <1>3, <1>6, <2>1
<1>10. /\ Contents' = Contents /\ Parked' = Parked /\ Nodes' = Nodes
       /\ InCall' /\ AtCursor' /\ Counted' => IInv'
  <2>1. /\ other' = other /\ node' = g /\ pc' = "insert fixup" /\ g \in sub[(tree').root]
        /\ (tree').root = tree.root
    BY <1>1, <1>2, <1>3, <1>6
  <2> QED BY <1>3, <1>7, <1>8, <1>9, <2>1, InsertThen
<1>11. InCall' /\ AtCursor' /\ Counted'
  BY <1>1, <1>2, <1>10 DEF IInv, InCall, AtCursor, Counted
<1>12. IInv' /\ [Set!Next]_(Set!vars)
  BY <1>1, <1>10, <1>11, FixupStep
<1> QED BY <1>1, <1>6, <1>7, <1>12 DEF g, p, sub

\* The turn that ends an insertion: the outer grandchild n of g is red below
\* a red parent p, and its uncle is black.
LEMMA OuterTurn ==
  ASSUME NEW t, NEW r, NEW sub, Trees(t, r, sub), NEW g \in sub[t.root], NEW s \in Side,
         NEW p \in Made(t), t.child[s][g] = p, NEW n, t.child[s][p] = n, n # Nil,
         t.color[g] = "black", t.color[p] = "red", t.color[Nil] = "black",
         t.color[t.child[Opposite(s)][g]] = "black",
         NEW h, Heights(t, h, Dangling), Reds(t, {n}),
         NEW u, u = Rotate(Paint(Paint(t, p, "black"), g, "red"), g, Opposite(s))
  PROVE  /\ Trees(u, r, RotatedSub(t, sub, g, Opposite(s)))
         /\ RotatedSub(t, sub, g, Opposite(s))[u.root] = sub[t.root]
         /\ RotatedSub(t, sub, g, Opposite(s))[r] = sub[r]
         /\ Made(u) = Made(t)
         /\ Heights(u, SwappedHeights(h, g, p), Dangling) /\ Reds(u, {})
         /\ SwappedColors(t, g, p, u)
         /\ u.root = IF t.parent[g] = Nil THEN p ELSE t.root
<1> DEFINE o == Opposite(s)
<1>1. Shape(t, sub) /\ g \in Made(t) /\ o \in Side /\ Opposite(o) = s /\ o # s
  BY SideFacts DEF Trees
<1> HIDE DEF o
<1>2. t.child[Opposite(o)][g] = p /\ t.child[Opposite(o)][g] # Nil
  BY <1>1, KeyAssumption DEF Made
<1>3. RotatedFields(t, g, o, u) /\ SwappedColors(t, g, p, u)
  <2>1. t.child[Opposite(o)][g] \in Made(t)
    BY <1>2
  <2>2. u = Rotate(Paint(Paint(t, p, "black"), g, "red"), g, o)
    BY DEF o
  <2> QED BY <1>1, <1>2, <2>1, <2>2, TurnSwapped
<1>4. /\ Trees(u, r, RotatedSub(t, sub, g, o))
      /\ RotatedSub(t, sub, g, o)[u.root] = sub[t.root]
      /\ RotatedSub(t, sub, g, o)[r] = sub[r]
      /\ Made(u) = Made(t)
  BY <1>1, <1>2, <1>3, RotateTrees
<1>5. Heights(u, SwappedHeights(h, g, p), Dangling)
  <2>1. Aside(t, Dangling, g, p, t.child[o][g])
    BY DEF Aside
  <2>2. p = t.child[Opposite(o)][g]
    BY <1>2
  <2> QED BY <1>1, <1>3, <2>1, <2>2, SwapHeights
<1>6. Reds(u, {})
  <2>1. t.child[o][p] \notin {n}
    BY <1>1, NodeFacts DEF o
  <2>2. t.color[t.child[o][g]] = "black"
    BY DEF o
  <2>3. p = t.child[Opposite(o)][g] /\ t.child[Opposite(o)][p] = n
    BY <1>1, <1>2
  <2>4. Reds(u, {n} \ {t.child[Opposite(o)][p]})
    BY <1>1, <1>3, <2>1, <2>2, <2>3, SwapReds
  <2> QED BY <2>3, <2>4 DEF Reds
<1>7. u.root = IF t.parent[g] = Nil THEN p ELSE t.root
  BY <1>2, <1>3 DEF RotatedFields
<1> QED BY <1>3, <1>4, <1>5, <1>6, <1>7 DEF o

\* The turn before it, of an inner grandchild and its parent, both red.
LEMMA InnerTurn ==
  ASSUME NEW t, NEW r, NEW sub, Trees(t, r, sub), NEW p \in sub[t.root], NEW s \in Side,
         t.parent[p] # Nil, t.child[s][t.parent[p]] = p, SideOf(t, p) = s,
         NEW n \in Made(t), t.child[Opposite(s)][p] = n,
         t.color[t.parent[p]] = "black", t.color[p] = "red", t.color[n] = "red",
         t.color[Nil] = "black", NEW h, Heights(t, h, Dangling), Reds(t, {n}),
         NEW u, u = Rotate(t, p, s)
  PROVE  /\ Trees(u, r, RotatedSub(t, sub, p, s))
         /\ RotatedSub(t, sub, p, s)[u.root] = sub[t.root]
         /\ RotatedSub(t, sub, p, s)[r] = sub[r]
         /\ Made(u) = Made(t) /\ u.root = t.root /\ u.color = t.color
         /\ Heights(u, h, Dangling) /\ Reds(u, {p})
         /\ u.parent[p] = n /\ u.parent[n] = t.parent[p]
         /\ u.child[s][t.parent[p]] = n /\ u.child[s][n] = p
         /\ u.child[Opposite(s)][t.parent[p]] = t.child[Opposite(s)][t.parent[p]]
         /\ u.parent[t.parent[p]] = t.parent[t.parent[p]]
<1> DEFINE o == Opposite(s)
           g == t.parent[p]
           a == t.child[s][p]
           b == t.child[s][n]
           c == t.child[o][n]
<1>1. /\ Shape(t, sub) /\ p \in Made(t) /\ o \in Side /\ o # s /\ t.child[o][p] \in Made(t)
      /\ g \in Made(t) /\ t \in Tree /\ t.child[o][p] = n /\ n # Nil /\ Nil \in Ptr
      /\ Made(t) \subseteq Ptr /\ p # Nil /\ Nil \notin Made(t)
  BY SideFacts, KeyAssumption DEF Trees, Shape, LinksOK, Made, Ptr
<1>2. /\ a \in Made(t) \cup {Nil} /\ a # p /\ a # n /\ n # p
      /\ b \in Made(t) \cup {Nil} /\ b # p /\ b # n /\ (b # Nil => t.parent[b] = n)
      /\ c \in Made(t) \cup {Nil} /\ c # p /\ c # n
      /\ g # p /\ g # n
  <2> HIDE DEF o
  <2> QED BY <1>1, RotationNodes DEF o
<1>3. RotatedFields(t, p, s, u) /\ u.color = t.color
  BY <1>1, RotateFields
<1>4. /\ Trees(u, r, RotatedSub(t, sub, p, s))
      /\ RotatedSub(t, sub, p, s)[u.root] = sub[t.root]
      /\ RotatedSub(t, sub, p, s)[r] = sub[r]
      /\ Made(u) = Made(t)
  BY <1>1, <1>3, RotateTrees
<1>5. /\ u.root = t.root
      /\ \A m \in Ptr : u.parent[m] = IF m = n THEN g ELSE IF m = p THEN n
                                     ELSE IF m = b /\ b # Nil THEN p ELSE t.parent[m]
      /\ \A d \in Side, m \in Ptr :
           u.child[d][m] = IF m = p /\ d = o THEN b ELSE IF m = n /\ d = s THEN p
                           ELSE IF m = g /\ d = s THEN n ELSE t.child[d][m]
  BY <1>1, <1>3 DEF RotatedFields
<1> HIDE DEF o, g, a, b, c
<1>6. b # g
  <2> SUFFICES ASSUME b = g PROVE FALSE
    OBVIOUS
  <2>1. p = t.child[s][g] /\ t.parent[p] = g
    BY DEF g
  <2>2. n \in sub[p] /\ b \in sub[n] /\ p \in sub[b]
    <3>1. \A m \in Made(t), d \in Side : t.child[d][m] \in Made(t) => t.child[d][m] \in sub[m]
      BY <1>1, NodeFacts
    <3> QED BY <1>1, <2>1, <3>1 DEF b
  <2>3. p \in sub[t.child[o][p]]
    BY <1>1, <2>2, SubtreeNodes
  <2> QED BY <1>1, <2>3, NodeFacts
<1>7. /\ u.parent[p] = n /\ u.parent[n] = g /\ u.child[s][g] = n /\ u.child[s][n] = p
      /\ u.child[o][g] = t.child[o][g] /\ u.parent[g] = t.parent[g]
  BY <1>1, <1>2, <1>5, <1>6
<1>8. Heights(u, h, Dangling)
  <2>1. \A m, d, v : ~Lacking(v, Dangling, m, d)
    BY DEF Lacking
  <2>2. /\ h \in [Ptr -> Nat \ {0}]
        /\ \A m \in Made(t), d \in Side :
              /\ m \in Ptr /\ t.child[d][m] \in Ptr /\ Black(t, m) \in {0, 1}
              /\ h[m] \in Nat \ {0} /\ h[t.child[d][m]] \in Nat \ {0}
              /\ h[m] = h[t.child[d][m]] + Black(t, m)
    BY <1>1, LevelFacts
  <2>3. /\ Black(t, p) = 0 /\ Black(u, p) = 0 /\ Black(t, n) = 0 /\ Black(u, n) = 0
        /\ Black(u, c) = Black(t, c)
    BY <1>3 DEF Black
  <2>4. h[p] = h[a] /\ h[p] = h[n] /\ h[n] = h[b] /\ h[n] = h[c] /\ h[p] \in Nat
    BY <1>1, <2>2, <2>3 DEF a, b, c
  <2>5. TurnCount(t, p, s, u, h, Dangling, h, Dangling)
    <3>1. /\ h[p] = h[a] + Black(u, p) /\ h[p] = h[b] + Black(u, p)
          /\ h[n] = h[p] + Black(u, n) /\ h[n] = h[c] + Black(u, n) /\ h[n] = h[p]
          /\ h[c] + Black(t, c) = h[c] + Black(u, c)
      BY <2>3, <2>4
    <3>2. \A m \in Made(t) : u.color[m] = t.color[m]
      BY <1>3
    <3>3. t.child[Opposite(s)][p] = n /\ t.child[s][p] = a /\ t.child[s][n] = b
          /\ t.child[Opposite(s)][n] = c
      BY <1>1 DEF o, a, b, c
    <3> QED BY <2>1, <2>2, <3>1, <3>2, <3>3 DEF TurnCount
  <2>6. t.child[Opposite(s)][p] # Nil
    BY <1>1
  <2> QED BY <1>3, <2>5, <2>6, TurnHeights
<1>9. Reds(u, {p})
  <2> SUFFICES ASSUME NEW m \in Made(t), u.color[m] = "red", u.color[u.parent[m]] = "red", m # p
               PROVE  FALSE
    BY <1>4 DEF Reds
  <2>1. t.color[m] = "red" /\ t.color[u.parent[m]] = "red" /\ m \in Ptr
    BY <1>1, <1>3
  <2>2. m # n
    BY <1>7, <2>1 DEF g
  <2>3. t.color[t.parent[m]] = "red"
    <3>1. CASE m = b
      BY <1>1, <1>2, <3>1
    <3>2. CASE m # b
      BY <1>5, <2>1, <2>2, <3>2
    <3> QED BY <3>1, <3>2
  <2> QED BY <2>1, <2>2, <2>3 DEF Reds
<1> QED BY <1>3, <1>4, <1>5, <1>7, <1>8, <1>9 DEF o, g

\* InsertFixup's other cases: one rotation, or two, and no rule is broken.
LEMMA InsertUncleBlackStep ==
  ASSUME IInv, InsertUncleBlack
  PROVE  IInv' /\ [Set!Next]_(Set!vars) /\ ~ParentRed'
<1> DEFINE n == node
           p == tree.parent[n]
           g == tree.parent[p]
           s == SideOf(tree, p)
           o == Opposite(s)
           sub == Subs(tree)
           h == BlackHeight(tree, Dangling)
           r == other.root
<1>1. /\ ParentRed /\ tree.color[tree.child[o][g]] = "black"
      /\ UNCHANGED <<other, size, pc, call, first, last, removed, cursor>>
  BY DEF InsertUncleBlack
<1>2. /\ pc = "insert fixup" /\ n \in Contents /\ p \in Contents /\ g \in Contents
      /\ s \in Side /\ tree.child[s][g] = p /\ n # p /\ p # g /\ n # g
      /\ \E d \in Side : tree.child[d][p] = n
      /\ tree.color[n] = "red" /\ tree.color[p] = "red" /\ tree.color[g] = "black"
      /\ tree.color[tree.root] = "black" /\ tree.color[Nil] = "black"
      /\ tree.color[r] = "black"
      /\ Heights(tree, h, Dangling) /\ Reds(tree, {n})
  BY <1>1, InsertNodes
<1>3. /\ Trees(tree, r, sub) /\ Shape(tree, sub) /\ tree \in Tree
      /\ Contents = sub[tree.root] /\ Parked = sub[r]
      /\ Nodes = Made(tree) /\ Contents \subseteq Made(tree) /\ Made(tree) \subseteq Key
      /\ Contents \cap Parked = {} /\ Parked \subseteq Made(tree) /\ r \in Parked \cup {Nil}
      /\ tree.root \in Contents \cup {Nil} /\ Nil \notin Made(tree) /\ Key \subseteq Ptr /\ Nil \in Ptr
  BY Now DEF Ptr
<1> HIDE DEF n, p, g, s, o, sub, h, r
<1>4. n \in Made(tree) /\ p \in Made(tree) /\ g \in Made(tree) /\ p # Nil /\ g # Nil /\ n # Nil
      /\ n \in Ptr /\ p \in Ptr /\ g \in Ptr /\ r \in Ptr /\ tree.root \in Ptr /\ r # g /\ Nil # g
      /\ o \in Side /\ Side = {s, o} /\ tree.parent[p] = g
  <2>1. o \in Side /\ Side = {s, o}
    BY <1>2, SideFacts DEF o
  <2>2. tree.parent[p] = g
    BY DEF g
  <2>3. n \in Made(tree) /\ p \in Made(tree) /\ g \in Made(tree)
    BY <1>2, <1>3
  <2>4. r # g /\ r \in Ptr /\ tree.root \in Ptr
    BY <1>2, <1>3
  <2> QED BY <1>3, <2>1, <2>2, <2>3, <2>4
\* The outer node is red below a black one that has taken the place of g.
<1>5. ASSUME NEW sub2, Trees(tree', r, sub2), sub2[(tree').root] = Contents, sub2[r] = Parked,
             Made(tree') = Made(tree), NEW h2, Heights(tree', h2, Dangling), Reds(tree', {}),
             NEW q \in {n, p}, SwappedColors(tree, g, q, tree'),
             (tree').root = IF tree.parent[g] = Nil THEN q ELSE tree.root,
             node' \in {n, p}, node' # q
      PROVE  IInv' /\ [Set!Next]_(Set!vars) /\ ~ParentRed'
  <2>1. \A m \in Ptr : (tree').color[m] = IF m = g THEN "red" ELSE IF m = q THEN "black"
                                         ELSE tree.color[m]
    BY <1>5 DEF SwappedColors
  <2>2. /\ (tree').color[Nil] = "black" /\ (tree').color[r] = "black"
        /\ (tree').color[node'] = "red" /\ node' \in Contents
    <3>1. Nil # q /\ r # q
      BY <1>2, <1>3, <1>4, <1>5
    <3>2. node' \in Ptr /\ node' \in Contents /\ node' # g /\ tree.color[node'] = "red"
      BY <1>2, <1>4, <1>5
    <3> QED BY <1>2, <1>3, <1>4, <1>5, <2>1, <3>1, <3>2
  <2>3. (tree').color[(tree').root] = "black"
    <3>1. tree.root = g => tree.parent[g] = Nil
      BY <1>3, <1>4 DEF Trees
    <3> QED BY <1>2, <1>4, <1>5, <2>1, <3>1
  <2>4. Reds(tree', {node'})
    BY <1>5 DEF Reds
  <2>5. /\ Contents' = Contents /\ Parked' = Parked /\ Nodes' = Nodes
        /\ InCall' /\ AtCursor' /\ Counted' => IInv'
    <3>1. other' = other /\ pc' = "insert fixup" /\ node' \in sub2[(tree').root]
          /\ ((tree').color[(tree').root] = "red" => node' = (tree').root)
      BY <1>1, <1>2, <1>5, <2>2, <2>3
    <3>2. (other').root = r
      BY <3>1 DEF r
    <3> QED BY <1>3, <1>5, <2>2, <2>4, <3>1, <3>2, InsertThen
  <2>6. InCall' /\ AtCursor' /\ Counted'
    BY <1>1, <1>2, <2>5 DEF IInv, InCall, AtCursor, Counted
  <2>7. ~ParentRed'
    BY <1>3, <1>5, <2>2 DEF ParentRed, Reds
  <2> QED BY <1>1, <2>5, <2>6, <2>7, FixupStep
<1>6. CASE n = tree.child[o][p]
  <2> DEFINE t1 == Rotate(tree, p, s)
             sub1 == RotatedSub(tree, sub, p, s)
  <2>1. /\ Trees(tree, r, sub) /\ p \in sub[tree.root] /\ tree.parent[p] # Nil
        /\ tree.child[s][tree.parent[p]] = p /\ SideOf(tree, p) = s
        /\ tree.child[o][p] = n
        /\ tree.color[tree.parent[p]] = "black"
    BY <1>2, <1>3, <1>4, <1>6 DEF s
  <2>2. /\ Trees(t1, r, sub1) /\ sub1[t1.root] = sub[tree.root] /\ sub1[r] = sub[r]
        /\ Made(t1) = Made(tree) /\ t1.root = tree.root /\ t1.color = tree.color
        /\ Heights(t1, h, Dangling) /\ Reds(t1, {p})
        /\ t1.parent[p] = n /\ t1.parent[n] = g /\ t1.child[s][g] = n /\ t1.child[s][n] = p
        /\ t1.child[o][g] = tree.child[o][g] /\ t1.parent[g] = tree.parent[g]
    <3>1. /\ n \in Made(tree) /\ s \in Side /\ tree.color[p] = "red" /\ tree.color[n] = "red"
          /\ tree.color[Nil] = "black" /\ Heights(tree, h, Dangling) /\ Reds(tree, {n})
          /\ tree.child[Opposite(s)][p] = n
      BY <1>2, <1>4, <2>1 DEF o
    <3> HIDE DEF t1, sub1
    <3>2. t1 = Rotate(tree, p, s) /\ sub1 = RotatedSub(tree, sub, p, s)
      BY DEF t1, sub1
    <3>3. /\ Trees(t1, r, sub1) /\ sub1[t1.root] = sub[tree.root] /\ sub1[r] = sub[r]
          /\ Made(t1) = Made(tree) /\ t1.root = tree.root /\ t1.color = tree.color
          /\ Heights(t1, h, Dangling) /\ Reds(t1, {p})
          /\ t1.parent[p] = n /\ t1.parent[n] = tree.parent[p] /\ t1.child[s][tree.parent[p]] = n
          /\ t1.child[s][n] = p
          /\ t1.child[Opposite(s)][tree.parent[p]] = tree.child[Opposite(s)][tree.parent[p]]
          /\ t1.parent[tree.parent[p]] = tree.parent[tree.parent[p]]
      BY <2>1, <3>1, <3>2, InnerTurn
    <3> QED BY <1>4, <3>3 DEF o
  <2>3. tree' = Rotate(Paint(Paint(t1, n, "black"), g, "red"), g, o) /\ node' = p
    <3> HIDE DEF t1
    <3> QED BY <1>6, <2>2 DEF InsertUncleBlack, t1, n, p, g, s, o
  <2> HIDE DEF t1, sub1
  <2> DEFINE sub2 == RotatedSub(t1, sub1, g, o)
  <2>4. /\ Trees(tree', r, sub2) /\ sub2[(tree').root] = sub1[t1.root] /\ sub2[r] = sub1[r]
        /\ Made(tree') = Made(t1)
        /\ Heights(tree', SwappedHeights(h, g, n), Dangling) /\ Reds(tree', {})
        /\ SwappedColors(t1, g, n, tree')
        /\ (tree').root = IF t1.parent[g] = Nil THEN n ELSE t1.root
    <3>1. /\ g \in sub1[t1.root] /\ n \in Made(t1) /\ t1.color[g] = "black"
          /\ t1.color[n] = "red" /\ t1.color[Nil] = "black"
          /\ t1.color[t1.child[o][g]] = "black"
      BY <1>1, <1>2, <1>3, <1>4, <2>2
    <3>2. /\ s \in Side /\ t1.child[s][g] = n /\ t1.child[s][n] = p /\ p # Nil
          /\ Trees(t1, r, sub1) /\ Heights(t1, h, Dangling) /\ Reds(t1, {p})
      BY <1>2, <1>4, <2>2
    <3> QED BY <2>3, <3>1, <3>2, OuterTurn DEF o
  <2>5. SwappedColors(tree, g, n, tree')
    BY <2>2, <2>4 DEF SwappedColors
  <2> HIDE DEF sub2
  <2> QED BY <1>2, <1>3, <1>5, <2>2, <2>3, <2>4, <2>5
<1>7. CASE n # tree.child[o][p]
  <2>1. tree.child[s][p] = n
    BY <1>2, <1>4, <1>7
  <2>2. tree' = Rotate(Paint(Paint(tree, p, "black"), g, "red"), g, o) /\ node' = n
    BY <1>7 DEF InsertUncleBlack, n, p, g, s, o
  <2> DEFINE sub2 == RotatedSub(tree, sub, g, o)
  <2>4. /\ Trees(tree', r, sub2) /\ sub2[(tree').root] = sub[tree.root] /\ sub2[r] = sub[r]
        /\ Made(tree') = Made(tree)
        /\ Heights(tree', SwappedHeights(h, g, p), Dangling) /\ Reds(tree', {})
        /\ SwappedColors(tree, g, p, tree')
        /\ (tree').root = IF tree.parent[g] = Nil THEN p ELSE tree.root
    <3>1. /\ g \in sub[tree.root] /\ p \in Made(tree)
      BY <1>2, <1>3, <1>4
    <3>2. /\ s \in Side /\ tree.child[s][g] = p /\ n # Nil
          /\ tree.color[g] = "black" /\ tree.color[p] = "red" /\ tree.color[Nil] = "black"
          /\ tree.color[tree.child[o][g]] = "black"
          /\ Trees(tree, r, sub) /\ Heights(tree, h, Dangling) /\ Reds(tree, {n})
      BY <1>1, <1>2, <1>3, <1>4 DEF n, p, g, s, o
    <3> QED BY <2>1, <2>2, <3>1, <3>2, OuterTurn DEF o
  <2> HIDE DEF sub2
  <2> QED BY <1>2, <1>3, <1>5, <2>2, <2>4
<1> QED BY <1>6, <1>7

\* The end of a fix-up: the node it is at is painted black.
LEMMA PaintedBlack ==
  ASSUME NEW t, NEW r, NEW sub, Trees(t, r, sub), NEW n \in sub[t.root] \cup {Nil},
         NEW z \in {n, Dangling}, NEW h, Heights(t, h, z),
         t.color[Nil] = "black",
         t.color[n] = "red" => z = n \/ t.parent[n] = Nil,
         t.color[n] = "black" => z = Dangling \/ t.parent[n] = Nil
  PROVE  LET u == Paint(t, n, "black")
         IN  /\ Trees(u, r, sub) /\ Made(u) = Made(t)
             /\ \E g : Heights(u, g, Dangling)
             /\ u \in Tree /\ u.root = t.root /\ u.parent = t.parent
             /\ \A m \in Ptr : u.color[m] = IF m = n THEN "black" ELSE t.color[m]
<1> DEFINE u == Paint(t, n, "black")
<1>1. Shape(t, sub) /\ t \in Tree /\ t.root \in Made(t) \cup {Nil} /\ sub[t.root] \subseteq Made(t)
  BY DEF Trees, Shape
<1>2. n \in Made(t) \cup {Nil} /\ n \in Ptr /\ Nil \notin Made(t) /\ Made(t) \subseteq Ptr
      /\ Dangling \notin Ptr /\ t.color[n] \in {"red", "black"}
  BY <1>1, KeyAssumption DEF Made, Ptr, Tree, Color
<1>3. /\ u \in Tree /\ u.root = t.root /\ u.parent = t.parent /\ u.child = t.child
      /\ \A m \in Ptr : u.color[m] = IF m = n THEN "black" ELSE t.color[m]
  <2>1. "black" \in Color
    BY DEF Color
  <2> QED BY <1>1, <1>2, <2>1, PaintFields
<1>4. Trees(u, r, sub) /\ Made(u) = Made(t)
  <2> HIDE DEF u
  <2> QED BY <1>3, SameLinks
<1>5. CASE t.color[n] = "red"
  <2>1. n \in Made(t)
    BY <1>2, <1>5
  <2>2. z = n \/ (z = Dangling /\ t.parent[n] = Nil)
    BY <1>5
  <2>3. Heights(u, [h EXCEPT ![n] = h[n] + 1], Dangling)
    BY <1>1, <1>5, <2>1, <2>2, BlackenHeights
  <2> QED BY <1>3, <1>4, <2>3
<1>6. CASE t.color[n] = "black"
  <2> HIDE DEF u
  <2>1. \A m \in Made(t), d \in Side : ~Lacking(t, z, m, d)
    BY <1>2, <1>6 DEF Lacking
  <2>2. \A m \in Made(t), d \in Side : ~Lacking(u, Dangling, m, d)
    BY DEF Lacking
  <2>3. Heights(u, h, Dangling)
    BY <1>2, <1>3, <1>4, <1>6, <2>1, <2>2, SameHeights
  <2> QED BY <1>3, <1>4, <2>3 DEF u
<1> QED BY <1>2, <1>5, <1>6

\* Insert returns with a black root and no rule broken.
LEMMA InsertReturnsStep ==
  ASSUME IInv, InsertReturns
  PROVE  IInv' /\ [Set!Next]_(Set!vars)
<1> DEFINE sub == Subs(tree)
           h == BlackHeight(tree, Dangling)
           r == other.root
           n == tree.root
<1>1. /\ pc = "insert fixup" /\ ~ParentRed /\ tree' = Paint(tree, n, "black")
      /\ cursor' \in {cursor, Iter(call.key)}
      /\ pc' = "idle" /\ call' = NoCall /\ node' = Nil
      /\ UNCHANGED <<other, size, first, last, removed>>
  BY DEF InsertReturns, KeepOrTake
<1>2. /\ Trees(tree, r, sub) /\ tree \in Tree
      /\ Contents = sub[n] /\ Parked = sub[r]
      /\ Nodes = Made(tree) /\ Contents \subseteq Nodes /\ Made(tree) \subseteq Key
      /\ Contents \cap Parked = {} /\ r \in Parked \cup {Nil} /\ n \in Contents \cup {Nil}
      /\ Nil \notin Made(tree) /\ Nil \in Ptr /\ Made(tree) \subseteq Ptr
      /\ Nodes = Contents \cup Parked
  BY Now DEF Ptr
<1>3. Short = Dangling /\ MayBeRed = {node}
  BY <1>1 DEF Short, MayBeRed
<1>4. /\ tree.color[Nil] = "black" /\ tree.color[r] = "black"
      /\ Heights(tree, h, Dangling) /\ Reds(tree, {node})
  BY <1>3 DEF IInv, Sound
<1>5. node \in Contents /\ tree.color[tree.parent[node]] # "red"
  BY <1>1 DEF IInv, AtNode, ParentRed
<1>6. Reds(tree, {})
  BY <1>4, <1>5 DEF Reds
<1>7. tree.parent[n] = Nil \/ n = Nil
  BY <1>2 DEF Trees
<1> HIDE DEF sub, h, r, n
<1>8. PICK g : /\ Trees(tree', r, sub) /\ Made(tree') = Made(tree)
               /\ Heights(tree', g, Dangling)
               /\ tree' \in Tree /\ (tree').root = n /\ (tree').parent = tree.parent
               /\ \A m \in Ptr : (tree').color[m] = IF m = n THEN "black" ELSE tree.color[m]
  <2>1. /\ n \in sub[tree.root] \cup {Nil}
        /\ tree.color[n] = "red" => Dangling = n \/ tree.parent[n] = Nil
    BY <1>2, <1>4, <1>7 DEF n
  <2>2. n = tree.root
    BY DEF n
  <2>3. LET u == Paint(tree, n, "black")
         IN  /\ Trees(u, r, sub) /\ Made(u) = Made(tree)
             /\ \E g : Heights(u, g, Dangling)
             /\ u \in Tree /\ u.root = tree.root /\ u.parent = tree.parent
             /\ \A m \in Ptr : u.color[m] = IF m = n THEN "black" ELSE tree.color[m]
    BY <1>2, <1>4, <2>1, PaintedBlack
  <2> QED BY <1>1, <2>2, <2>3
<1>9. Reds(tree', {})
  <2>1. \A m \in Made(tree) : m \in Ptr /\ tree.parent[m] \in Ptr
    BY <1>2 DEF Trees, Shape, LinksOK
  <2> QED BY <1>6, <1>8, <2>1 DEF Reds
<1>10. /\ Contents' = Contents /\ Parked' = Parked /\ Nodes' = Nodes
       /\ InCall' /\ AtCursor' /\ Counted' => IInv'
  <2>1. (other').root = r /\ node' \in Ptr /\ pc' \in Quiet
    BY <1>1, <1>2 DEF Quiet, r
  <2>2. r \in Ptr /\ n \in Ptr
    BY <1>2
  <2>3. \A m \in {Nil, (tree').root, (other').root} : (tree').color[m] = "black"
    BY <1>2, <1>4, <1>8, <2>1, <2>2
  <2> QED BY <1>2, <1>8, <1>9, <2>1, <2>3, QuietThen
<1>11. call = [op |-> "insert", key |-> call.key] /\ call.key \in Contents
  BY <1>1 DEF IInv, InCall
<1>12. InCall'
  BY <1>1 DEF IInv, InCall
<1>13. Counted'
  BY <1>1, <1>10 DEF IInv, Counted
<1>14. AtCursor'
  <2>1. IteratorIn(cursor, Nodes)
    BY DEF IInv, AtCursor
  <2>2. IteratorIn(Iter(call.key), Nodes)
    BY <1>2, <1>11, Iterators
  <2> QED BY <1>1, <1>10, <2>1, <2>2 DEF AtCursor
<1>15. KeyAt(cursor') \in {cursor.at, call.key}
  BY <1>1, <1>2, <1>11, SetCursors
<1>16. Set!Return
  <2>1. call.op = "insert" /\ call # NoCall
    BY <1>11 DEF NoCall
  <2> QED BY <1>1, <1>10, <1>15, <2>1, SetState DEF Set!Return
<1> QED BY <1>10, <1>12, <1>13, <1>14, <1>16 DEF Set!Next

\* Where the node x of a fix-up is, in the tree of the nodes S: the sentinel too
\* is below the parent it has.
Placed(t, S, x) ==
    /\ x \in S \cup {Nil}
    /\ IF x = t.root THEN t.parent[x] = Nil
       ELSE t.parent[x] \in S /\ \E s \in Side : t.child[s][t.parent[x]] = x

\* What RemoveOne leaves before its fix-up: the trees without the node, and
\* nothing out of order but at the node that has moved up.
Unlinked(t, r, sub, n, cut) ==
    LET u == cut.tree
        S == sub[t.root] \ {n}
        z == ShortAt(cut.gone, cut.x)
    IN  /\ cut.gone \in Color /\ Placed(u, S, cut.x)
        /\ \E f : Trees(u, r, f) /\ f[u.root] = S /\ f[r] = sub[r]
        /\ Made(u) = Made(t) \ {n}
        /\ \E g : Heights(u, g, z)
        /\ Reds(u, {z})
        /\ u.color[Nil] = "black" /\ u.color[r] = t.color[r]
        /\ u.color[u.root] = "red" => cut.gone = "black" /\ cut.x = u.root

\* RemoveOne of a node that lacks a child.
LEMMA SpliceUnlinks ==
  ASSUME NEW t, NEW r, NEW sub, Trees(t, r, sub), NEW n \in sub[t.root], NEW s \in Side,
         t.child[s][n] = Nil, NEW h, Heights(t, h, Dangling), Reds(t, {}),
         t.color[Nil] = "black", t.color[t.root] = "black",
         NEW cut, cut.x = t.child[Opposite(s)][n], cut.gone = t.color[n],
         SplicedFields(t, n, t.child[Opposite(s)][n], cut.tree)
  PROVE  Unlinked(t, r, sub, n, cut)
<1> DEFINE x == t.child[Opposite(s)][n]
           u == cut.tree
           S == sub[t.root] \ {n}
           p == t.parent[n]
<1>1. /\ Shape(t, sub) /\ t \in Tree /\ n \in Made(t) /\ Made(t) \subseteq Ptr /\ Nil \notin Made(t)
      /\ sub[t.root] \subseteq Made(t) /\ t.root \in Made(t) /\ n \in Ptr /\ Nil \in Ptr
      /\ r \in Ptr /\ r # n /\ p \in Made(t) \cup {Nil}
  <2>1. /\ Shape(t, sub) /\ t \in Tree /\ n \in Made(t) /\ Made(t) \subseteq Ptr /\ Nil \notin Made(t)
        /\ sub[t.root] \subseteq Made(t) /\ t.root \in Made(t) /\ n \in Ptr /\ Nil \in Ptr
        /\ r \in Made(t) \cup {Nil}
    BY KeyAssumption DEF Trees, Shape, Made, Ptr
  <2>2. r # n
    <3>1. r \in Made(t) => r \in sub[r]
      BY <2>1, NodeFacts, SideFacts
    <3> QED BY <2>1, <3>1 DEF Trees
  <2>3. p \in Made(t) \cup {Nil}
    BY <2>1 DEF Shape, LinksOK
  <2> QED BY <2>1, <2>2, <2>3
<1>2. x \in Made(t) \cup {Nil} /\ x # n /\ (x # Nil => t.parent[x] = n /\ x \in sub[n])
  <2>1. x \in Made(t) \cup {Nil} /\ (x # Nil => t.parent[x] = n)
    BY <1>1, NodeFacts, SideFacts
  <2>2. x # n /\ (x # Nil => x \in sub[n])
    <3>1. x # n
      BY <1>1, NodeFacts, SideFacts
    <3>2. sub[n] = {n} \cup sub[t.child[s][n]] \cup sub[x]
      BY <1>1, NodeFacts
    <3>3. x # Nil => x \in sub[x]
      BY <1>1, <2>1, NodeFacts, SideFacts
    <3> QED BY <3>1, <3>2, <3>3
  <2> QED BY <2>1, <2>2
<1>3. /\ SplicedFields(t, n, x, u) /\ cut.x = x /\ cut.gone = t.color[n]
  OBVIOUS
<1> HIDE DEF x, u
<1>4. /\ u \in Tree /\ u.root = IF p = Nil THEN x ELSE t.root
      /\ \A m \in Ptr : u.color[m] = IF m = n THEN "red" ELSE t.color[m]
      /\ u.parent[x] = p
      /\ p # Nil => u.child[SideOf(t, n)][p] = x
  <2>1. x \in Ptr
    BY <1>1, <1>2
  <2>2. p # Nil => p \in Ptr /\ p # n /\ SideOf(t, n) \in Side
    BY <1>1, SideOfNode
  <2> HIDE DEF p
  <2> QED BY <1>2, <1>3, <2>1, <2>2 DEF SplicedFields, p
<1>5. /\ Trees(u, r, CutSub(sub, n)) /\ CutSub(sub, n)[u.root] = S
      /\ CutSub(sub, n)[r] = sub[r] /\ Made(u) = Made(t) \ {n}
  <2>1. x = t.child[Opposite(s)][n]
    BY DEF x
  <2> QED BY <1>3, <2>1, SpliceTrees
<1>6. /\ Heights(u, [h EXCEPT ![n] = 1], ShortAt(t.color[n], x))
      /\ Reds(u, {ShortAt(t.color[n], x)})
  <2>1. x = t.child[Opposite(s)][n]
    BY DEF x
  <2>2. Heights(u, [h EXCEPT ![n] = 1], ShortAt(t.color[n], x))
    BY <1>3, <2>1, SpliceHeights
  <2> QED BY <1>3, <2>1, <2>2, SpliceReds
<1>7. n # t.root => p \in S /\ p # Nil
  <2>1. n # t.root => p \in sub[t.root]
    BY <1>1, SubtreeNodes
  <2>2. p # Nil => p # n
    BY <1>1, SideOfNode
  <2> QED BY <1>1, <2>1, <2>2
<1>8. n = t.root => p = Nil
  BY <1>1 DEF Trees
<1>9. Placed(u, S, x)
  <2>1. x \in S \cup {Nil}
    <3>1. sub[n] \subseteq sub[t.root]
      BY <1>1, SubtreeNodes
    <3> QED BY <1>2, <3>1
  <2>2. CASE p = Nil
    BY <1>4, <2>1, <2>2 DEF Placed
  <2>3. CASE p # Nil
    <3>1. SideOf(t, n) \in Side
      BY <1>1, <2>3, SideOfNode
    <3>2. x # u.root
      BY <1>1, <1>2, <1>4, <2>3 DEF Trees
    <3>3. p \in S
      BY <1>7, <1>8, <2>3
    <3> HIDE DEF p, S
    <3> QED BY <1>4, <2>1, <2>3, <3>1, <3>2, <3>3 DEF Placed
  <2> QED BY <2>2, <2>3
<1>10. u.color[Nil] = "black" /\ u.color[r] = t.color[r]
  BY <1>1, <1>4
<1>11. u.color[u.root] = "red" => cut.gone = "black" /\ cut.x = u.root
  <2>1. CASE n = t.root
    BY <1>3, <1>4, <1>8, <2>1
  <2>2. CASE n # t.root
    <3>1. u.root = t.root /\ t.root \in Ptr /\ t.root # n
      BY <1>1, <1>4, <1>7, <2>2
    <3> HIDE DEF p
    <3>2. u.color[u.root] = "black"
      BY <1>4, <3>1
    <3> QED BY <3>2
  <2> QED BY <2>1, <2>2
<1>12. cut.gone \in Color
  BY <1>1, <1>3 DEF Tree
<1> QED BY <1>3, <1>5, <1>6, <1>9, <1>10, <1>11, <1>12 DEF Unlinked, u

\* RemoveOne of a node with two children.
LEMMA MoveUnlinks ==
  ASSUME NEW t, NEW r0, NEW sub, Trees(t, r0, sub), NEW n \in sub[t.root],
         NEW y, Successor(t, sub, n, y), NEW h, Heights(t, h, Dangling), Reds(t, {}),
         t.color[Nil] = "black", t.color[t.root] = "black",
         NEW cut, cut.x = t.child["right"][y], cut.gone = t.color[y],
         MovedFields(t, n, y, cut.tree)
  PROVE  Unlinked(t, r0, sub, n, cut)
<1> DEFINE l == t.child["left"][n]
           r == t.child["right"][n]
           x == t.child["right"][y]
           p == t.parent[n]
           q == t.parent[y]
           u == cut.tree
           S == sub[t.root] \ {n}
<1>1. /\ Shape(t, sub) /\ t \in Tree /\ n \in Made(t) /\ Made(t) \subseteq Ptr /\ Nil \notin Made(t)
      /\ sub[t.root] \subseteq Made(t) /\ t.root \in Made(t) /\ n \in Ptr /\ Nil \in Ptr
      /\ r0 \in Made(t) \cup {Nil} /\ r0 \notin sub[t.root]
  <2>1. /\ Shape(t, sub) /\ t \in Tree /\ n \in Made(t) /\ Made(t) \subseteq Ptr /\ Nil \notin Made(t)
        /\ sub[t.root] \subseteq Made(t) /\ t.root \in Made(t) /\ n \in Ptr /\ Nil \in Ptr
        /\ r0 \in Made(t) \cup {Nil}
    BY KeyAssumption DEF Trees, Shape, Made, Ptr
  <2>2. r0 \in Made(t) => r0 \in sub[r0]
    BY <2>1, NodeFacts, SideFacts
  <2> QED BY <2>1, <2>2 DEF Trees
<1>2. /\ r \in Made(t) /\ l \in Made(t) /\ y \in Made(t) /\ q \in Made(t)
      /\ x \in Made(t) \cup {Nil} /\ p \in Made(t) \cup {Nil}
      /\ y # n /\ x # y /\ x # n /\ x # l /\ (x # Nil => t.parent[x] = y)
      /\ q # y /\ (q = n => y = r)
      /\ q # n => q \in sub[r] /\ y # r /\ x # r
      /\ p # Nil => p \notin sub[n]
      /\ sub[n] = {n} \cup sub[l] \cup sub[r]
      /\ y \in sub[r] /\ sub[x] \subseteq sub[r] /\ (x # Nil => x \in sub[x])
      /\ n \in sub[n] /\ t.parent[y] # Nil
  BY <1>1, SuccessorNodes
<1>3. sub[n] \subseteq sub[t.root]
  BY <1>1, SubtreeNodes
<1>4. MovedFields(t, n, y, u) /\ cut.x = x /\ cut.gone = t.color[y]
  OBVIOUS
<1>5. /\ Trees(u, r0, MovedSub(t, sub, n, y)) /\ MovedSub(t, sub, n, y)[u.root] = S
      /\ MovedSub(t, sub, n, y)[r0] = sub[r0] /\ Made(u) = Made(t) \ {n}
  BY MoveTrees
<1>6. \E g : Heights(u, g, ShortAt(t.color[y], x))
  BY MoveHeights
<1>7. Reds(u, {ShortAt(t.color[y], x)})
  BY MoveReds
<1>8. /\ u \in Tree /\ u.root = IF p = Nil THEN y ELSE t.root
      /\ \A m \in Ptr : u.color[m] = IF m = n THEN "red" ELSE IF m = y THEN t.color[n]
                                     ELSE t.color[m]
      /\ u.parent[x] = IF q = n THEN y ELSE q
      /\ q = n => u.child["right"][y] = x
      /\ q # n => u.child["left"][q] = x
  <2>1. /\ x \in Ptr /\ y \in Ptr /\ q \in Ptr /\ "left" \in Side /\ "right" \in Side
        /\ x \notin {n, y, l, r} /\ q # y /\ (q # n => q # p) /\ y # n
        /\ "right" # "left"
    BY <1>1, <1>2 DEF Side
  <2> HIDE DEF x, p, q, l, r, u
  <2>2. /\ u \in Tree
        /\ u.root = IF p = Nil THEN y ELSE t.root
        /\ \A m \in Ptr : u.color[m] = IF m = n THEN "red" ELSE IF m = y THEN t.color[n]
                                       ELSE t.color[m]
        /\ \A m \in Ptr : u.parent[m] = IF m = n THEN Dangling ELSE IF m = y THEN p
                                        ELSE IF m \in {l, r} THEN y
                                        ELSE IF m = x THEN IF q = n THEN y ELSE q
                                        ELSE t.parent[m]
        /\ \A d \in Side, m \in Ptr :
             u.child[d][m] = IF m = n THEN Dangling
                             ELSE IF m = y THEN IF d = "left" THEN l
                                                ELSE IF q = n THEN x ELSE r
                             ELSE IF m = p /\ p # Nil /\ d = SideOf(t, n) THEN y
                             ELSE IF m = q /\ d = "left" THEN x
                             ELSE t.child[d][m]
    BY <1>4 DEF MovedFields, x, p, q, l, r
  <2> QED BY <2>1, <2>2
<1> HIDE DEF x, p, q, l, r, u, S
<1>9. y \in S /\ (q # n => q \in S) /\ x \in S \cup {Nil}
  BY <1>2, <1>3 DEF S
<1>10. n # t.root => p # Nil
  BY <1>1 DEF Trees, p
<1>11. p # Nil => t.root # n /\ t.root # y
  BY <1>1, <1>2 DEF Trees, p, q
<1>12. Placed(u, S, x)
  <2>1. x # u.root
    <3>1. CASE p = Nil
      BY <1>2, <1>8, <3>1
    <3>2. CASE p # Nil
      <4>1. x # Nil => t.parent[x] # Nil
        BY <1>1, <1>2
      <4>2. t.parent[t.root] = Nil
        BY <1>1 DEF Trees
      <4> QED BY <1>1, <1>8, <3>2, <4>1, <4>2
    <3> QED BY <3>1, <3>2
  <2>2. u.parent[x] \in S /\ \E s \in Side : u.child[s][u.parent[x]] = x
    BY <1>8, <1>9 DEF Side
  <2> QED BY <1>9, <2>1, <2>2 DEF Placed
<1>13. u.color[Nil] = "black" /\ u.color[r0] = t.color[r0]
  <2>1. Nil # n /\ Nil # y /\ r0 # n /\ r0 # y /\ r0 \in Ptr
    BY <1>1, <1>2, <1>3
  <2> QED BY <1>1, <1>8, <2>1
<1>14. u.color[u.root] # "red"
  <2>1. t.root \in Ptr /\ y \in Ptr /\ y # n
    BY <1>1, <1>2
  <2> QED BY <1>8, <1>10, <1>11, <2>1
<1>15. cut.gone \in Color
  BY <1>1, <1>2, <1>4 DEF Tree
<1> QED BY <1>4, <1>5, <1>6, <1>7, <1>12, <1>13, <1>14, <1>15 DEF Unlinked, u, S, x

\* RemoveOne up to its fix-up (red_black_tree.h:517), in each of its cases.
LEMMA UnlinkUnlinks ==
  ASSUME NEW t, NEW r0, NEW sub, Trees(t, r0, sub), NEW n \in sub[t.root],
         NEW h, Heights(t, h, Dangling), Reds(t, {}),
         t.color[Nil] = "black", t.color[t.root] = "black"
  PROVE  Unlinked(t, r0, sub, n, Unlink(t, n))
<1> DEFINE l == t.child["left"][n]
           r == t.child["right"][n]
           y == Outermost(t, r, "left")
           cut == Unlink(t, n)
<1>1. Shape(t, sub) /\ n \in Made(t) /\ "left" \in Side /\ "right" \in Side
      /\ Opposite("left") = "right" /\ Opposite("right") = "left"
  BY DEF Trees, Side, Opposite
<1>2. l \in Made(t) \cup {Nil} /\ r \in Made(t) \cup {Nil} /\ Made(t) \subseteq Ptr /\ Nil \in Ptr
  BY <1>1, NodeFacts DEF Made, Ptr
<1>3. CASE l = Nil
  <2>1. cut = [tree |-> Unmade(Transplant(t, n, r), {n}), x |-> r, gone |-> t.color[n]]
    BY <1>3 DEF Unlink
  <2>2. SplicedFields(t, n, r, Unmade(Transplant(t, n, r), {n}))
    <3> HIDE DEF r
    <3> QED BY <1>1, <1>2, SpliceFields
  <2>3. cut.x = r /\ cut.gone = t.color[n] /\ SplicedFields(t, n, r, cut.tree)
    BY <2>1, <2>2
  <2> HIDE DEF cut
  <2> QED BY <1>1, <1>3, <2>3, SpliceUnlinks DEF cut
<1>4. CASE l # Nil /\ r = Nil
  <2>1. cut = [tree |-> Unmade(Transplant(t, n, l), {n}), x |-> l, gone |-> t.color[n]]
    BY <1>4 DEF Unlink
  <2>2. SplicedFields(t, n, l, Unmade(Transplant(t, n, l), {n}))
    <3> HIDE DEF l
    <3> QED BY <1>1, <1>2, SpliceFields
  <2>3. cut.x = l /\ cut.gone = t.color[n] /\ SplicedFields(t, n, l, cut.tree)
    BY <2>1, <2>2
  <2> HIDE DEF cut
  <2> QED BY <1>1, <1>4, <2>3, SpliceUnlinks DEF cut
<1>5. CASE l # Nil /\ r # Nil
  <2>1. IsFirst("left", sub[r], y) /\ t.child["left"][y] = Nil
    BY <1>1, <1>2, <1>5, OutermostIs
  <2>2. \A j \in sub[r] : y <= j
    <3>1. sub[r] \subseteq Int
      BY <1>1, <1>2, KeyAssumption DEF Shape
    <3>2. y \in sub[r] /\ \A j \in sub[r] : j = y \/ Before("left", y, j)
      BY <2>1 DEF IsFirst
    <3>3. \A j : Before("left", y, j) => y < j
      BY DEF Before
    <3> QED BY <3>1, <3>2, <3>3
  <2>3. Successor(t, sub, n, y)
    BY <1>5, <2>1, <2>2 DEF Successor, IsFirst
  <2>4. MovedFields(t, n, y, cut.tree) /\ cut.x = t.child["right"][y] /\ cut.gone = t.color[y]
    BY <1>1, <2>3, MoveFields
  <2> HIDE DEF cut, y
  <2> QED BY <2>3, <2>4, MoveUnlinks DEF cut
<1> QED BY <1>3, <1>4, <1>5

\* What is left to show of the next state when a removal's fix-up may go on.
LEMMA RemoveThen ==
  ASSUME NEW sub, Trees(tree', (other').root, sub), pc' = "remove fixup",
         Placed(tree', sub[(tree').root], node'),
         (tree').color[(tree').root] = "red" => node' = (tree').root,
         NEW h, Heights(tree', h, node'),
         NEW E, Reds(tree', E), \A m \in E : node' \in {m, (tree').parent[m]},
         (tree').color[Nil] = "black", (tree').color[(other').root] = "black"
  PROVE  /\ Contents' = sub[(tree').root] /\ Parked' = sub[(other').root]
         /\ Nodes' = Made(tree') /\ Nodes' = Contents' \cup Parked'
         /\ InCall' /\ AtCursor' /\ Counted' => IInv'
<1>1. Short' = node' /\ MayBeRed' = {n \in Key : node' \in {n, (tree').parent[n]}}
  BY DEF Short, MayBeRed
<1>2. Reds(tree', MayBeRed')
  <2>1. Made(tree') \subseteq Key
    BY DEF Made
  <2> QED BY <1>1, <2>1 DEF Reds
<1>3. Sound(tree', (other').root, Short', MayBeRed')
  BY <1>1, <1>2, Then
<1>4. Contents' = sub[(tree').root] /\ Parked' = sub[(other').root]
      /\ Nodes' = Made(tree') /\ Nodes' = Contents' \cup Parked'
  BY Then
<1>5. Contents' \subseteq Ptr /\ Nil \in Ptr
  BY <1>4 DEF Nodes, Made, Ptr
<1>6. AtNode'
  BY <1>4, <1>5 DEF AtNode, Placed
<1> QED BY <1>3, <1>4, <1>6 DEF IInv

\* Erasing a node, for Erase and for the loop of Remove.
LEMMA EraseNodeStep ==
  ASSUME IInv, pc \in Quiet, NEW n \in Contents, NEW afterwards \in Quiet,
         EraseNode(n, afterwards), other' = other
  PROVE  /\ Contents' = Contents \ {n} /\ Parked' = Parked /\ Nodes' = Nodes \ {n}
         /\ FirstOrNil("left", Contents' \cap Past(n), first')
         /\ pc' \in {"remove fixup", afterwards} /\ first' \in Ptr
         /\ InCall' /\ AtCursor' => IInv'
<1> DEFINE sub == Subs(tree)
           h == BlackHeight(tree, Dangling)
           r == other.root
           cut == Unlink(tree, n)
           S == sub[tree.root] \ {n}
           z == ShortAt(cut.gone, cut.x)
<1>1. /\ first' = Neighbour(tree, Iter(n), "right") /\ tree' = cut.tree /\ size' = size - 1
      /\ node' = IF cut.gone = "black" THEN cut.x ELSE Nil
      /\ pc' = IF cut.gone = "black" THEN "remove fixup" ELSE afterwards
  BY DEF EraseNode
<1>2. /\ Trees(tree, r, sub) /\ tree \in Tree /\ Contents = sub[tree.root] /\ Parked = sub[r]
      /\ Nodes = Made(tree) /\ Contents \subseteq Key /\ tree.root \in {tree.root, r}
      /\ Nodes = Contents \cup Parked /\ Contents \cap Parked = {}
  BY Now
<1>3. /\ Heights(tree, h, Dangling) /\ Reds(tree, {})
      /\ tree.color[tree.root] = "black" /\ tree.color[Nil] = "black" /\ tree.color[r] = "black"
  BY QuietFacts
<1> HIDE DEF sub, h, r
<1>4. Unlinked(tree, r, sub, n, cut)
  BY <1>2, <1>3, UnlinkUnlinks
<1> HIDE DEF cut
<1>5. PICK f : Trees(tree', r, f) /\ f[(tree').root] = S /\ f[r] = sub[r]
  BY <1>1, <1>4 DEF Unlinked
<1>6. PICK g : Heights(tree', g, z)
  BY <1>1, <1>4 DEF Unlinked
<1>7. /\ cut.gone \in Color /\ Placed(tree', S, cut.x) /\ Reds(tree', {z})
      /\ (tree').color[Nil] = "black" /\ (tree').color[r] = "black"
      /\ (tree').color[(tree').root] = "red" => cut.gone = "black" /\ cut.x = (tree').root
      /\ Made(tree') = Made(tree) \ {n}
  BY <1>1, <1>3, <1>4 DEF Unlinked
<1> HIDE DEF S, z
<1>8. /\ Contents' = Contents \ {n} /\ Parked' = Parked /\ Nodes' = Nodes \ {n}
      /\ InCall' /\ AtCursor' /\ Counted' => IInv'
  <2>1. (other').root = r
    BY DEF r
  <2>2. CASE cut.gone = "black"
    <3>1. z = cut.x /\ node' = cut.x /\ pc' = "remove fixup"
      BY <1>1, <2>2 DEF z, ShortAt
    <3> DEFINE E == {z}
    <3>2. Placed(tree', f[(tree').root], node') /\ \A m \in E : node' \in {m, (tree').parent[m]}
      BY <1>5, <1>7, <3>1
    <3>3. (tree').color[(tree').root] = "red" => node' = (tree').root
      BY <1>7, <3>1
    <3>4. Heights(tree', g, node') /\ Reds(tree', E)
      BY <1>6, <1>7, <3>1
    <3> HIDE DEF E
    <3>5. /\ Trees(tree', (other').root, f) /\ pc' = "remove fixup"
          /\ (tree').color[Nil] = "black" /\ (tree').color[(other').root] = "black"
      BY <1>5, <1>7, <2>1, <3>1
    <3>6. /\ Contents' = f[(tree').root] /\ Parked' = f[(other').root]
          /\ Nodes' = Made(tree')
          /\ InCall' /\ AtCursor' /\ Counted' => IInv'
      BY <3>2, <3>3, <3>4, <3>5, RemoveThen
    <3> QED BY <1>2, <1>5, <1>7, <2>1, <3>6 DEF S
  <2>3. CASE cut.gone # "black"
    <3>1. z = Dangling /\ node' = Nil /\ pc' \in Quiet /\ node' \in Ptr
      BY <1>1, <2>3 DEF z, ShortAt, Ptr
    <3>2. Reds(tree', {})
      BY <1>7, <3>1, KeyAssumption DEF Reds, Made
    <3>3. (tree').color[(tree').root] = "black"
      <4>1. (tree').color[(tree').root] \in Color
        <5>1. tree' \in Tree /\ (tree').root \in Ptr
          BY <1>5 DEF Trees, Shape, Made, Ptr
        <5> QED BY <5>1 DEF Tree
      <4> QED BY <1>7, <2>3, <4>1 DEF Color
    <3>4. \A m \in {Nil, (tree').root, (other').root} : (tree').color[m] = "black"
      BY <1>7, <2>1, <3>3
    <3>5. /\ Contents' = f[(tree').root] /\ Parked' = f[(other').root]
          /\ Nodes' = Made(tree')
          /\ InCall' /\ AtCursor' /\ Counted' => IInv'
      BY <1>5, <1>6, <2>1, <3>1, <3>2, <3>4, QuietThen
    <3> QED BY <1>2, <1>5, <1>7, <2>1, <3>5 DEF S
  <2> QED BY <2>2, <2>3
<1>9. Counted'
  <2>1. size = Cardinality(Contents) /\ other = [root |-> other.root, size |-> Cardinality(Parked)]
    BY DEF IInv, Counted
  <2>2. Cardinality(Contents \ {n}) = Cardinality(Contents) - 1
    BY Finite
  <2> QED BY <1>1, <1>8, <2>1, <2>2 DEF Counted
<1>10. FirstOrNil("left", Contents' \cap Past(n), first')
  <2>1. Opposite("right") = "left" /\ "right" \in Side
    BY DEF Opposite, Side
  <2>2. FirstOrNil("left", {j \in Contents : Before("left", n, j)}, first')
    <3>1. FirstOrNil(Opposite("right"), {j \in sub[tree.root] : Before(Opposite("right"), n, j)},
                     Neighbour(tree, Iter(n), "right"))
      BY <1>2, <2>1, NeighbourIs
    <3> QED BY <1>1, <1>2, <2>1, <3>1
  <2>3. {j \in Contents : Before("left", n, j)} = Contents' \cap Past(n)
    BY <1>2, <1>8, KeyAssumption DEF Before, Past
  <2> QED BY <2>2, <2>3
<1>11. first' \in Ptr
  BY <1>2, <1>8, <1>10 DEF FirstOrNil, IsFirst, Ptr
<1>12. pc' \in {"remove fixup", afterwards}
  BY <1>1
<1> QED BY <1>8, <1>9, <1>10, <1>11, <1>12

\* An iteration of Remove's loop takes its key and finds where to go on first.
LEMMA RemoveLoopStep ==
  ASSUME IInv, RemoveLoop
  PROVE  IInv' /\ [Set!Next]_(Set!vars)
<1>1. /\ pc = "remove loop" /\ first # last /\ EraseNode(first, "remove loop")
      /\ removed' = removed + 1
      /\ cursor' = IF cursor.at = first THEN LostIter ELSE cursor
      /\ UNCHANGED <<other, call, last>>
  BY DEF RemoveLoop
<1> DEFINE k == call.key
<1>2. /\ call = [op |-> "remove", key |-> k] /\ k \in Key /\ removed = 0
      /\ first = k /\ k \in Contents /\ last \in Ptr
      /\ FirstOrNil("left", Contents \cap Past(k), last)
  BY <1>1 DEF IInv, InCall, CallRange
<1>3. Contents \subseteq Key /\ Nodes \subseteq Key
  BY Now
<1> HIDE DEF k
<1>4. /\ Contents' = Contents \ {k} /\ Parked' = Parked /\ Nodes' = Nodes \ {k}
      /\ FirstOrNil("left", Contents' \cap Past(k), first')
      /\ pc' \in {"remove fixup", "remove loop"} /\ first' \in Ptr
      /\ InCall' /\ AtCursor' => IInv'
  <2>1. EraseNode(k, "remove loop")
    BY <1>1, <1>2
  <2>2. pc \in Quiet /\ "remove loop" \in Quiet /\ k \in Contents /\ other' = other
    BY <1>1, <1>2 DEF Quiet
  <2> QED BY <2>1, <2>2, EraseNodeStep
<1>5. first' = last'
  <2> DEFINE U == Contents \cap Past(k)
  <2>1. k \notin Past(k)
    BY <1>2, KeyAssumption DEF Past
  <2>2. Contents' \cap Past(k) = U /\ U \subseteq Key
    BY <1>3, <1>4, <2>1
  <2>3. FirstOrNil("left", U, last) /\ FirstOrNil("left", U, first') /\ "left" \in Side
    BY <1>2, <1>4, <2>2 DEF Side
  <2> HIDE DEF U
  <2>4. last = first'
    BY <2>2, <2>3, FirstUnique
  <2> QED BY <1>1, <2>4
<1>6. call'.key = k /\ call' = call
  BY <1>1 DEF k
<1>7. CallRange'
  BY <1>4, <1>5, <1>6 DEF CallRange
<1>8. removed' \in 0 .. Cardinality(Key)
  <2>1. IsFiniteSet(Key) /\ Key # {}
    BY <1>2, KeyAssumption
  <2>2. Cardinality(Key) \in Nat /\ Cardinality(Key) # 0
    BY <2>1, FS_CardinalityType, FS_EmptySet
  <2>3. 1 \in 0 .. Cardinality(Key)
    BY <2>2
  <2>4. removed' = 1
    <3>1. removed = 0 /\ removed' = removed + 1
      BY <1>1, <1>2
    <3> QED BY <3>1
  <2> QED BY <2>3, <2>4
<1>9. InCall'
  <2>1. last' \in Ptr
    BY <1>1, <1>2
  <2>2. pc' \in {"remove loop", "remove fixup"} /\ call' = [op |-> "remove", key |-> call'.key]
        /\ call'.key \in Key
    BY <1>2, <1>4, <1>6
  <2> QED BY <1>4, <1>7, <1>8, <2>1, <2>2 DEF InCall
<1>10. IteratorIn(cursor, Nodes)
  BY DEF IInv, AtCursor
<1>11. AtCursor'
  <2>1. Nodes \ {k} \subseteq Key
    BY <1>3
  <2>2. CASE cursor.at = k
    BY <1>1, <1>2, <1>4, <2>1, <2>2, Iterators DEF AtCursor
  <2>3. CASE cursor.at # k
    <3>1. cursor' = cursor /\ (cursor.at \in Nodes => cursor.at \in Nodes \ {k})
      BY <1>1, <1>2, <2>3
    <3> QED BY <1>4, <1>10, <2>1, <3>1, Iterators DEF AtCursor
  <2> QED BY <2>2, <2>3
<1>12. Set!TakeKey
  <2>1. KeyAt(cursor') = IF cursor.at = k THEN Dangling ELSE cursor.at
    BY <1>1, <1>2, SetCursors
  <2>2. call.op = "remove" /\ call.key = k
    BY <1>2
  <2> QED BY <1>1, <1>2, <1>4, <2>1, <2>2, SetState DEF Set!TakeKey
<1> QED BY <1>4, <1>9, <1>11, <1>12 DEF Set!Next

\* Erase (red_black_tree.h:690) takes the key of its iterator.
LEMMA EraseStep ==
  ASSUME IInv, Erase
  PROVE  IInv' /\ [Set!Next]_(Set!vars)
<1> DEFINE k == cursor.at
<1>1. /\ pc = "idle" /\ k \in Contents /\ EraseNode(k, "erase returns")
      /\ call' = [op |-> "erase", key |-> k] /\ cursor' = LostIter
      /\ UNCHANGED <<other, last, removed>>
  BY DEF Erase
<1>2. Contents \subseteq Key /\ Nodes \subseteq Key
  BY Now
<1> HIDE DEF k
<1>3. /\ Contents' = Contents \ {k} /\ Parked' = Parked /\ Nodes' = Nodes \ {k}
      /\ FirstOrNil("left", Contents' \cap Past(k), first')
      /\ pc' \in {"remove fixup", "erase returns"} /\ first' \in Ptr
      /\ InCall' /\ AtCursor' => IInv'
  <2>1. pc \in Quiet /\ "erase returns" \in Quiet /\ other' = other
    BY <1>1 DEF Quiet
  <2> QED BY <1>1, <2>1, EraseNodeStep
<1>4. call = NoCall /\ last \in Ptr /\ removed \in 0 .. Cardinality(Key)
  BY <1>1 DEF IInv, InCall
<1>5. InCall'
  <2>1. call'.key = k /\ call' = [op |-> "erase", key |-> call'.key]
    BY <1>1
  <2>2. k \in Key \ Nodes'
    BY <1>1, <1>2, <1>3
  <2>3. last' \in Ptr /\ removed' \in 0 .. Cardinality(Key)
    BY <1>1, <1>4
  <2> QED BY <1>3, <2>1, <2>2, <2>3 DEF InCall
<1>6. AtCursor'
  <2>1. Nodes \ {k} \subseteq Key
    BY <1>2
  <2> QED BY <1>1, <1>3, <2>1, Iterators DEF AtCursor
<1>7. Set!EraseHere
  <2>1. cursor.at = k
    BY DEF k
  <2>2. KeyAt(cursor') = Dangling
    BY <1>1, SetCursors
  <2> QED BY <1>1, <1>3, <1>4, <2>1, <2>2, SetState DEF Set!EraseHere
<1> QED BY <1>3, <1>5, <1>6, <1>7 DEF Set!Next


\* The black node z, or the sentinel, lacks a black on side s of p; elsewhere
\* all is in order.
Lame(t, r, sub, h, z, p, s) ==
    /\ Trees(t, r, sub) /\ Heights(t, h, z) /\ Reds(t, {})
    /\ p \in sub[t.root] /\ s \in Side /\ z \in Ptr
    /\ t.child[s][p] = z /\ t.parent[z] = p
    /\ t.color[z] = "black" /\ t.color[Nil] = "black"
    /\ t.color[t.root] = "black" /\ t.color[r] = "black"

\* Its sibling is a node, being higher than it is.
LEMMA LameNodes ==
  ASSUME NEW t, NEW r, NEW sub, NEW h, NEW z, NEW p, NEW s, Lame(t, r, sub, h, z, p, s)
  PROVE  LET w == t.child[Opposite(s)][p]
         IN  /\ Shape(t, sub) /\ t \in Tree /\ p \in Made(t) /\ Opposite(s) \in Side
             /\ s \in Side /\ Opposite(s) # s /\ Opposite(Opposite(s)) = s /\ Side = {s, Opposite(s)}
             /\ w \in Made(t) /\ w # z /\ w # p /\ z # p /\ t.parent[w] = p
             /\ z \in Made(t) \cup {Nil}
             /\ h[z] \in Nat \ {0} /\ h[w] = h[z] + 1
             /\ h[p] = h[w] + Black(t, p)
             /\ \A n \in Made(t), d \in Side : n # p => ~Lacking(t, z, n, d)
             /\ ~Lacking(t, z, p, Opposite(s)) /\ Lacking(t, z, p, s)
             /\ sub[p] \subseteq sub[t.root] /\ w \in sub[t.root]
<1> DEFINE o == Opposite(s)
           w == t.child[o][p]
<1>1. /\ Trees(t, r, sub) /\ Heights(t, h, z) /\ p \in sub[t.root] /\ s \in Side /\ z \in Ptr
      /\ t.child[s][p] = z /\ t.parent[z] = p
  BY DEF Lame
<1>2. /\ Shape(t, sub) /\ t \in Tree /\ t.root \in Made(t) \cup {Nil} /\ p \in Made(t)
  BY <1>1 DEF Trees, Shape
<1>3. /\ o \in Side /\ o # s /\ Opposite(o) = s /\ Side = {s, o}
  BY <1>1, SideFacts
<1> HIDE DEF o
<1>4. /\ z \in Made(t) \cup {Nil} /\ w \in Made(t) \cup {Nil} /\ z # p /\ w # p
      /\ w # Nil => t.parent[w] = p
      /\ z = w => z = Nil
      /\ p \in sub[p] /\ sub[p] = {p} \cup sub[z] \cup sub[w]
  <2>1. s \in Side /\ Opposite(s) = o
    BY <1>1 DEF o
  <2> QED BY <1>1, <1>2, <1>3, <2>1, NodeFacts
<1>5. Nil \notin Made(t) /\ Made(t) \subseteq Ptr /\ Dangling \notin Ptr
  BY KeyAssumption DEF Made, Ptr
<1>6. Lacking(t, z, p, s)
  BY <1>1, <1>5 DEF Lacking
<1>7. ~Lacking(t, z, p, o)
  BY <1>1, <1>2, <1>3, <1>6 DEF Heights
<1>8. w # z
  BY <1>1, <1>5, <1>7 DEF Lacking
<1>9. /\ h[p] = h[z] + 1 + Black(t, p) /\ h[p] = h[w] + Black(t, p)
      /\ h[z] \in Nat \ {0} /\ h[w] \in Nat \ {0}
  <2>1. Owes(t, z, p, s) = 1 /\ Owes(t, z, p, o) = 0
    BY <1>6, <1>7 DEF Owes
  <2>2. h[p] = h[z] + 1 + Black(t, p) /\ h[p] = h[w] + 0 + Black(t, p)
    BY <1>1, <1>2, <1>3, <2>1 DEF Heights
  <2>3. h[z] \in Nat \ {0} /\ h[w] \in Nat \ {0}
    BY <1>1, <1>4, <1>5 DEF Heights, Ptr
  <2>4. Black(t, p) \in {0, 1}
    BY DEF Black
  <2> QED BY <2>2, <2>3, <2>4
<1>10. h[w] = h[z] + 1
  <2>1. Black(t, p) \in {0, 1}
    BY DEF Black
  <2> QED BY <1>9, <2>1
<1>11. w \in Made(t)
  <2> SUFFICES ASSUME w = Nil PROVE FALSE
    BY <1>4
  <2>1. h[w] = 1
    BY <1>1, <1>5 DEF Heights, Ptr
  <2> QED BY <1>9, <1>10, <2>1
<1>12. \A n \in Made(t), d \in Side : n # p => ~Lacking(t, z, n, d)
  BY <1>1 DEF Lacking
<1>13. sub[p] \subseteq sub[t.root] /\ w \in sub[t.root]
  <2>1. t.root \in Made(t)
    BY <1>1, <1>2 DEF Shape
  <2>2. sub[p] \subseteq sub[t.root]
    BY <1>1, <1>2, <2>1, SubtreeNodes
  <2>3. w \in sub[w]
    BY <1>1, <1>2, <1>11, NodeFacts
  <2> QED BY <1>4, <2>2, <2>3
<1> HIDE DEF w
<1>14. /\ Shape(t, sub) /\ t \in Tree /\ p \in Made(t) /\ o \in Side
       /\ s \in Side /\ o # s /\ Opposite(o) = s /\ Side = {s, o}
       /\ w \in Made(t) /\ w # z /\ w # p /\ z # p /\ t.parent[w] = p
       /\ z \in Made(t) \cup {Nil}
  BY <1>1, <1>2, <1>3, <1>4, <1>5, <1>8, <1>11
<1>15. /\ h[z] \in Nat \ {0} /\ h[w] = h[z] + 1
       /\ h[p] = h[w] + Black(t, p)
  BY <1>9, <1>10
<1> QED BY <1>6, <1>7, <1>12, <1>13, <1>14, <1>15 DEF o, w

\* Case 1: a red sibling is rotated away, and the node has a black one.
LEMMA BlackSiblingIs ==
  ASSUME NEW t, NEW r, NEW sub, NEW h, NEW z, NEW p, NEW s, Lame(t, r, sub, h, z, p, s)
  PROVE  LET o == Opposite(s)
             w == t.child[o][p]
             u == IF t.color[w] = "red"
                  THEN Rotate(Paint(Paint(t, w, "black"), p, "red"), p, s)
                  ELSE t
         IN  \E sub1, h1 : /\ Lame(u, r, sub1, h1, z, p, s)
                           /\ sub1[u.root] = sub[t.root] /\ sub1[r] = sub[r]
                           /\ Made(u) = Made(t)
                           /\ u.color[u.child[o][p]] = "black"
                           /\ IF t.color[w] = "red" THEN u.color[p] = "red" ELSE u = t
<1> DEFINE o == Opposite(s)
           w == t.child[o][p]
           b == t.child[s][w]
           g == t.parent[p]
           u == Rotate(Paint(Paint(t, w, "black"), p, "red"), p, s)
           sub1 == RotatedSub(t, sub, p, s)
           h1 == SwappedHeights(h, p, w)
<1>1. /\ Trees(t, r, sub) /\ Heights(t, h, z) /\ Reds(t, {})
      /\ p \in sub[t.root] /\ s \in Side /\ z \in Ptr
      /\ t.child[s][p] = z /\ t.parent[z] = p
      /\ t.color[z] = "black" /\ t.color[Nil] = "black"
      /\ t.color[t.root] = "black" /\ t.color[r] = "black"
  BY DEF Lame
<1>2. /\ Shape(t, sub) /\ t \in Tree /\ p \in Made(t) /\ o \in Side /\ o # s /\ Opposite(o) = s
      /\ w \in Made(t) /\ w # z /\ w # p /\ z # p /\ t.parent[w] = p
      /\ z \in Made(t) \cup {Nil}
  BY LameNodes
<1>3. /\ Made(t) \subseteq Ptr /\ Nil \notin Made(t) /\ Nil \in Ptr /\ Dangling \notin Ptr
      /\ \A m \in Ptr : t.color[m] \in {"red", "black"}
  BY <1>2, KeyAssumption DEF Made, Ptr, Tree, Color
<1>4. CASE t.color[w] = "black"
  BY <1>1, <1>4
<1>5. CASE t.color[w] = "red"
  <2>1. t.child[Opposite(s)][p] = w /\ w \in Made(t) /\ w # Nil
    BY <1>2, <1>3
  <2>2. /\ b \in Made(t) \cup {Nil} /\ b # p /\ b # w /\ (b # Nil => t.parent[b] = w)
        /\ g \in Made(t) \cup {Nil} /\ g # p /\ g # w
    <3> HIDE DEF w
    <3> QED BY <1>1, <1>2, <2>1, RotationNodes
  <2>3. RotatedFields(t, p, s, u) /\ SwappedColors(t, p, w, u)
    <3> HIDE DEF o
    <3> QED BY <1>1, <1>2, <2>1, TurnSwapped DEF o
  <2>4. /\ Trees(u, r, sub1) /\ sub1[u.root] = sub[t.root] /\ sub1[r] = sub[r]
        /\ Made(u) = Made(t)
    <3> HIDE DEF u, w
    <3> QED BY <1>1, <1>3, <2>1, <2>3, RotateTrees
  <2>5. t.color[p] = "black" /\ p \in Ptr /\ w \in Ptr
    <3>1. ~(t.color[w] = "red" /\ t.color[t.parent[w]] = "red")
      BY <1>1, <1>2 DEF Reds
    <3> QED BY <1>2, <1>3, <1>5, <3>1
  <2>6. Heights(u, h1, z)
    <3>1. Aside(t, z, p, w, z)
      BY <1>1, <1>2 DEF Aside
    <3> HIDE DEF u, w
    <3> QED BY <1>1, <1>5, <2>1, <2>3, <2>5, <3>1, SwapHeights
  <2>7. Reds(u, {})
    <3> DEFINE E == {}
               c == t.child[Opposite(s)][w]
    <3>1. Reds(t, E) /\ t.child[s][w] \notin E /\ t.color[t.child[s][p]] = "black"
      BY <1>1
    <3>2. E \ {c} = {}
      OBVIOUS
    <3> HIDE DEF u, w, E
    <3>3. Reds(u, E \ {t.child[Opposite(s)][w]})
      BY <1>1, <1>5, <2>1, <2>3, <3>1, SwapReds
    <3> QED BY <3>2, <3>3
  <2> HIDE DEF u, w, b, g, sub1, h1, o
  <2>8. \A m \in Ptr : u.color[m] = IF m = p THEN "red" ELSE IF m = w THEN "black" ELSE t.color[m]
    BY <2>3 DEF SwappedColors
  <2>9. u.root = IF g = Nil THEN w ELSE t.root
    BY <1>2, <2>1, <2>3 DEF RotatedFields, g
  <2>10. u.parent[z] = p /\ u.parent[p] = w /\ u.child[s][p] = z /\ u.child[o][p] = b
    <3>1. /\ \A n \in Ptr : u.parent[n] = IF n = w THEN g ELSE IF n = p THEN w
                                       ELSE IF n = b /\ b # Nil THEN p ELSE t.parent[n]
          /\ \A d \in Side, n \in Ptr :
             u.child[d][n] = IF n = p /\ d = o THEN b ELSE IF n = w /\ d = s THEN p
                             ELSE IF n = g /\ g # Nil /\ d = SideOf(t, p) THEN w
                             ELSE t.child[d][n]
      BY <2>1, <2>3 DEF RotatedFields, g, b, o
    <3> QED BY <1>1, <1>2, <1>3, <2>2, <2>5, <3>1
  <2>11. u.color[u.root] = "black" /\ u.color[r] = "black" /\ u.color[Nil] = "black"
         /\ u.color[z] = "black" /\ u.color[p] = "red"
    <3>1. r # p /\ r \in Ptr
      <4>1. r \in Made(t) \cup {Nil} /\ sub[t.root] \cap sub[r] = {}
        BY <1>1 DEF Trees
      <4>2. p \in sub[p]
        BY <1>1, <1>2, NodeFacts
      <4> QED BY <1>1, <1>3, <4>1, <4>2
    <3>2. t.root # p \/ g = Nil
      BY <1>1, <1>2 DEF Trees, g
    <3>3. t.root \in Ptr
      BY <1>2 DEF Tree
    <3> QED BY <1>1, <1>2, <1>3, <2>5, <2>8, <2>9, <3>1, <3>2, <3>3
  <2>12. Lame(u, r, sub1, h1, z, p, s)
    <3>1. p \in sub1[u.root]
      BY <1>1, <2>4
    <3> QED BY <1>1, <2>4, <2>6, <2>7, <2>10, <2>11, <3>1 DEF Lame
  <2>13. u.color[u.child[o][p]] = "black"
    <3>1. LET w1 == u.child[Opposite(s)][p] IN w1 \in Made(u) /\ u.parent[w1] = p /\ u \in Tree
      BY <2>12, LameNodes
    <3>2. u.child[o][p] \in Made(u) /\ u.parent[u.child[o][p]] = p /\ u \in Tree
      BY <3>1 DEF o
    <3>3. u.color[u.child[o][p]] \in {"red", "black"}
      BY <1>3, <2>4, <3>2 DEF Tree, Color
    <3> QED BY <2>7, <2>11, <3>2, <3>3 DEF Reds
  <2> QED BY <1>5, <2>4, <2>11, <2>12, <2>13 DEF u, w, o
<1> QED BY <1>2, <1>3, <1>4, <1>5

\* Case 2: the sibling has two black children and turns red; its parent is the
\* one that lacks a black.
LEMMA SiblingTurnsRed ==
  ASSUME NEW t, NEW r, NEW sub, NEW h, NEW z, NEW p, NEW s, Lame(t, r, sub, h, z, p, s),
         NEW w, w = t.child[Opposite(s)][p], t.color[w] = "black",
         \A d \in Side : t.color[t.child[d][w]] = "black"
  PROVE  LET u == Paint(t, w, "red")
         IN  /\ Trees(u, r, sub) /\ Made(u) = Made(t)
             /\ \E g : Heights(u, g, p)
             /\ Reds(u, {w})
             /\ Placed(u, sub[t.root], p)
             /\ u.root = t.root /\ u.parent = t.parent /\ u.color[p] = t.color[p]
             /\ \A m \in {Nil, t.root, r} : u.color[m] = "black"
<1> DEFINE u == Paint(t, w, "red")
<1>1. /\ Trees(t, r, sub) /\ Heights(t, h, z) /\ Reds(t, {})
      /\ p \in sub[t.root] /\ s \in Side /\ z \in Ptr
      /\ t.child[s][p] = z /\ t.parent[z] = p
      /\ t.color[z] = "black" /\ t.color[Nil] = "black"
      /\ t.color[t.root] = "black" /\ t.color[r] = "black"
  BY DEF Lame
<1>2. /\ Shape(t, sub) /\ t \in Tree /\ p \in Made(t)
      /\ w \in Made(t) /\ w # z /\ w # p /\ z # p /\ t.parent[w] = p
      /\ Lacking(t, z, p, s)
  BY LameNodes
<1>3. /\ Made(t) \subseteq Ptr /\ Nil \notin Made(t) /\ Nil \in Ptr
      /\ r \in Made(t) \cup {Nil} /\ t.root \in Made(t) \cup {Nil}
  BY <1>1, KeyAssumption DEF Made, Ptr, Trees
<1>4. /\ u \in Tree /\ u.root = t.root /\ u.parent = t.parent /\ u.child = t.child
      /\ \A m \in Ptr : u.color[m] = IF m = w THEN "red" ELSE t.color[m]
  <2>1. "red" \in Color /\ w \in Ptr
    BY <1>2, <1>3 DEF Color
  <2> QED BY <1>2, <2>1, PaintFields
<1>5. \E g : Heights(u, g, p)
  <2>1. Heights(u, [h EXCEPT ![w] = h[w] - 1, ![p] = h[p] - 1], p)
    <3>1. z # w
      BY <1>2
    <3> HIDE DEF u
    <3>2. Heights(Paint(t, w, "red"), [h EXCEPT ![w] = h[w] - 1, ![p] = h[p] - 1], p)
      BY <1>1, <1>2, <3>1, DropHeights
    <3> QED BY <3>2 DEF u
  <2> QED BY <2>1
<1> HIDE DEF u
<1>6. Trees(u, r, sub) /\ Made(u) = Made(t)
  BY <1>1, <1>4, SameLinks
<1>7. Reds(u, {w})
  <2> SUFFICES ASSUME NEW m \in Made(t), u.color[m] = "red", u.color[t.parent[m]] = "red", m # w
               PROVE  FALSE
    BY <1>4, <1>6 DEF Reds
  <2>1. t.color[m] = "red"
    BY <1>3, <1>4
  <2>2. LinksOK(t, m)
    BY <1>2 DEF Shape
  <2>3. t.parent[m] \in Ptr
    BY <1>3, <2>2 DEF LinksOK
  <2>4. CASE t.parent[m] = w
    <3>1. \E d \in Side : t.child[d][w] = m
      BY <1>2, <1>3, <2>2, <2>4 DEF LinksOK
    <3> QED BY <2>1, <3>1
  <2>5. CASE t.parent[m] # w
    BY <1>1, <1>4, <2>1, <2>3, <2>5 DEF Reds
  <2> QED BY <2>4, <2>5
<1>8. Placed(u, sub[t.root], p)
  <2>1. CASE p = t.root
    BY <1>1, <1>2, <1>4, <2>1 DEF Placed, Trees
  <2>2. CASE p # t.root
    <3>1. t.root \in Made(t)
      BY <1>1, <1>3, <1>2 DEF Shape
    <3>2. t.parent[p] \in sub[t.root]
      BY <1>1, <1>2, <2>2, <3>1, SubtreeNodes
    <3>3. t.parent[p] # Nil
      BY <1>2, <1>3, <3>1, <3>2, SubtreeNodes
    <3>4. \E d \in Side : t.child[d][t.parent[p]] = p
      BY <1>2, <3>3 DEF Shape, LinksOK
    <3> QED BY <1>1, <1>4, <2>2, <3>2, <3>4 DEF Placed
  <2> QED BY <2>1, <2>2
<1>9. \A m \in {Nil, t.root, r} : u.color[m] = "black"
  <2>1. t.root # w /\ r # w
    BY <1>1, <1>2, <1>3 DEF Trees
  <2> QED BY <1>1, <1>2, <1>3, <1>4, <2>1
<1>10. u.color[p] = t.color[p]
  BY <1>2, <1>3, <1>4
<1> QED BY <1>4, <1>5, <1>6, <1>7, <1>8, <1>9, <1>10 DEF u

\* The node still lacks its black in the tree u, and has a black sibling there
\* with a red far child.
Turned(t, r, sub, z, p, s, u) ==
    \E sub1, h1 : /\ Lame(u, r, sub1, h1, z, p, s)
                  /\ sub1[u.root] = sub[t.root] /\ sub1[r] = sub[r]
                  /\ Made(u) = Made(t)
                  /\ u.color[u.child[Opposite(s)][p]] = "black"
                  /\ u.color[u.child[Opposite(s)][u.child[Opposite(s)][p]]] = "red"

\* Case 3: a red near child of the sibling is rotated to the place above it.
LEMMA NearTurnsUp ==
  ASSUME NEW t, NEW r, NEW sub, NEW h, NEW z, NEW p, NEW s, Lame(t, r, sub, h, z, p, s),
         t.color[t.child[Opposite(s)][p]] = "black",
         t.color[t.child[s][t.child[Opposite(s)][p]]] = "red",
         t.color[t.child[Opposite(s)][t.child[Opposite(s)][p]]] = "black"
  PROVE  LET o == Opposite(s)
             w == t.child[o][p]
             near == t.child[s][w]
             u == Rotate(Paint(Paint(t, near, "black"), w, "red"), w, o)
         IN  Turned(t, r, sub, z, p, s, u)
<1> DEFINE o == Opposite(s)
           w == t.child[o][p]
           near == t.child[s][w]
           far == t.child[o][w]
           b == t.child[o][near]
           u == Rotate(Paint(Paint(t, near, "black"), w, "red"), w, o)
           sub1 == RotatedSub(t, sub, w, o)
           h1 == SwappedHeights(h, w, near)
<1>1. /\ Trees(t, r, sub) /\ Heights(t, h, z) /\ Reds(t, {})
      /\ p \in sub[t.root] /\ s \in Side /\ z \in Ptr
      /\ t.child[s][p] = z /\ t.parent[z] = p
      /\ t.color[z] = "black" /\ t.color[Nil] = "black"
      /\ t.color[t.root] = "black" /\ t.color[r] = "black"
  BY DEF Lame
<1>2. /\ Shape(t, sub) /\ t \in Tree /\ p \in Made(t) /\ o \in Side /\ o # s /\ Opposite(o) = s
      /\ w \in Made(t) /\ w # z /\ w # p /\ z # p /\ t.parent[w] = p
      /\ z \in Made(t) \cup {Nil} /\ w \in sub[t.root]
  BY LameNodes
<1>3. /\ Made(t) \subseteq Ptr /\ Nil \notin Made(t) /\ Nil \in Ptr /\ Dangling \notin Ptr
      /\ \A m \in Ptr : t.color[m] \in {"red", "black"}
  BY <1>2, KeyAssumption DEF Made, Ptr, Tree, Color
<1> HIDE DEF o, w
<1>4. near \in Made(t) /\ near # Nil /\ far \in Made(t) \cup {Nil}
  <2>1. t.color[near] = "red"
    BY DEF w, o
  <2> QED BY <1>1, <1>2, <1>3, <2>1 DEF Shape, LinksOK
<1> HIDE DEF near, far, b
<1>5. /\ t.child[Opposite(o)][w] = near /\ t.child[o][w] = far /\ t.child[o][p] = w
  BY <1>2 DEF near, far, w
<1>17. t.color[w] = "black" /\ t.color[near] = "red" /\ t.color[far] = "black"
  BY DEF far, near, w, o
<1>6. /\ t.parent[near] = w /\ near # w
      /\ b \in Made(t) \cup {Nil} /\ b # w /\ b # near /\ (b # Nil => t.parent[b] = near)
      /\ p # near
  <2>1. /\ t.parent[near] = w /\ near # w
        /\ b \in Made(t) \cup {Nil} /\ b # w /\ b # near /\ (b # Nil => t.parent[b] = near)
        /\ t.parent[w] # near
    <3>1. Shape(t, sub) /\ w \in Made(t) /\ o \in Side /\ t.child[Opposite(o)][w] \in Made(t)
      BY <1>2, <1>4, <1>5
    <3>2. t.child[Opposite(o)][w] = near
      BY <1>5
    <3> QED BY <1>2, <3>1, <3>2, RotationNodes DEF b
  <2> QED BY <1>2, <2>1
<1>7. RotatedFields(t, w, o, u) /\ SwappedColors(t, w, near, u)
  BY <1>2, <1>4, <1>5, TurnSwapped
<1> HIDE DEF u
<1>8. /\ Trees(u, r, sub1) /\ sub1[u.root] = sub[t.root] /\ sub1[r] = sub[r]
      /\ Made(u) = Made(t)
  <2>1. Trees(t, r, sub) /\ w \in sub[t.root] /\ o \in Side /\ t.child[Opposite(o)][w] # Nil
    BY <1>1, <1>2, <1>4, <1>5
  <2> HIDE DEF sub1
  <2>2. sub1 = RotatedSub(t, sub, w, o)
    BY DEF sub1
  <2> QED BY <1>7, <2>1, <2>2, RotateTrees
<1>9. Heights(u, h1, z)
  <2>1. Aside(t, z, w, near, far)
    <3>1. z # near
      BY <1>1, <1>2, <1>6
    <3> QED BY <1>1, <1>2, <1>6, <3>1 DEF Aside
  <2> QED BY <1>1, <1>2, <1>4, <1>5, <1>7, <1>17, <2>1, SwapHeights
<1>10. Reds(u, {})
  <2> DEFINE E == {}
  <2>1. Reds(t, E) /\ t.child[o][near] \notin E /\ t.color[t.child[o][w]] = "black"
    BY <1>1, <1>5, <1>17
  <2>2. \A c : E \ {c} = {}
    OBVIOUS
  <2> HIDE DEF E
  <2>3. Reds(u, E \ {t.child[Opposite(o)][near]})
    BY <1>1, <1>2, <1>4, <1>5, <1>7, <1>17, <2>1, SwapReds
  <2> QED BY <2>2, <2>3
<1>11. \A m \in Ptr : u.color[m] = IF m = w THEN "red" ELSE IF m = near THEN "black" ELSE t.color[m]
  BY <1>7 DEF SwappedColors
<1>12. u.root = t.root
  <2>1. t.parent[w] # Nil
    BY <1>2, <1>3
  <2> QED BY <1>7, <2>1 DEF RotatedFields
<1>13. u.parent[z] = p /\ u.child[s][p] = z /\ u.child[o][p] = near /\ u.child[o][near] = w
  <2>1. /\ \A n \in Ptr : u.parent[n] = IF n = near THEN p ELSE IF n = w THEN near
                                       ELSE IF n = b /\ b # Nil THEN w ELSE t.parent[n]
        /\ \A d \in Side, n \in Ptr :
             u.child[d][n] = IF n = w /\ d = s THEN b ELSE IF n = near /\ d = o THEN w
                             ELSE IF n = p /\ p # Nil /\ d = SideOf(t, w) THEN near
                             ELSE t.child[d][n]
    <3>1. t.child[Opposite(o)][w] = near /\ t.parent[w] = p /\ Opposite(o) = s
      BY <1>2, <1>5
    <3> QED BY <1>7, <3>1 DEF RotatedFields, b
  <2>2. SideOf(t, w) = o
    <3>1. t.parent[w] # Nil
      BY <1>2, <1>3
    <3>2. SideOf(t, w) \in Side /\ t.child[SideOf(t, w)][p] = w
      BY <1>2, <3>1, SideOfNode
    <3> QED BY <1>1, <1>2, <1>5, <3>2, SideFacts DEF o
  <2>3. z # near /\ (z = b => b = Nil)
    BY <1>1, <1>2, <1>6
  <2>4. p \in Ptr /\ near \in Ptr /\ p # Nil
    BY <1>2, <1>3, <1>4
  <2> QED BY <1>1, <1>2, <1>6, <2>1, <2>2, <2>3, <2>4
<1>14. /\ u.color[u.root] = "black" /\ u.color[r] = "black" /\ u.color[Nil] = "black"
       /\ u.color[z] = "black" /\ u.color[p] = t.color[p] /\ u.color[near] = "black"
       /\ u.color[w] = "red"
  <2>1. r # w /\ t.root # w /\ r \in Ptr /\ t.root \in Ptr
    BY <1>1, <1>2, <1>3 DEF Trees
  <2>2. p \in Ptr /\ near \in Ptr /\ w \in Ptr /\ w # near /\ w # p
    BY <1>2, <1>3, <1>4, <1>6
  <2> QED BY <1>1, <1>2, <1>3, <1>6, <1>11, <1>12, <2>1, <2>2
<1>15. Lame(u, r, sub1, h1, z, p, s)
  BY <1>1, <1>8, <1>9, <1>10, <1>13, <1>14 DEF Lame
<1>16. /\ u.color[u.child[o][p]] = "black" /\ u.color[u.child[o][u.child[o][p]]] = "red"
       /\ u.color[p] = t.color[p]
  BY <1>13, <1>14
<1> HIDE DEF sub1, h1
<1>18. Turned(t, r, sub, z, p, s, u)
  BY <1>8, <1>15, <1>16 DEF Turned, o
<1> QED BY <1>18 DEF u, near, w, o

\* Case 4: the sibling rises with the parent's colour, and nothing is owed.
Risen(t, w, p, c) == Paint(Paint(Paint(t, w, t.color[p]), p, "black"), c, "black")

\* The trees u of the same nodes, in which nothing is owed and the fix-up, now
\* at the root, ends.
Cured(t, r, sub, u) ==
    \E sub1, g : /\ Trees(u, r, sub1)
                 /\ sub1[u.root] = sub[t.root] /\ sub1[r] = sub[r]
                 /\ Made(u) = Made(t)
                 /\ Heights(u, g, u.root) /\ Reds(u, {})
                 /\ Placed(u, sub[t.root], u.root)
                 /\ \A m \in {Nil, u.root, r} : u.color[m] = "black"

\* Case 4 gives the node its black, at the place where the sibling has risen.
LEMMA SiblingRises ==
  ASSUME NEW t, NEW r, NEW sub, NEW h, NEW z, NEW p, NEW s, Lame(t, r, sub, h, z, p, s),
         t.color[t.child[Opposite(s)][p]] = "black",
         t.color[t.child[Opposite(s)][t.child[Opposite(s)][p]]] = "red"
  PROVE  LET w == t.child[Opposite(s)][p]
             far == t.child[Opposite(s)][w]
             u == Rotate(Risen(t, w, p, far), p, s)
         IN  Cured(t, r, sub, u)
<1> DEFINE o == Opposite(s)
           w == t.child[o][p]
           far == t.child[o][w]
           near == t.child[s][w]
           v1 == Paint(t, w, t.color[p])
           v2 == Paint(v1, p, "black")
           v == Paint(v2, far, "black")
           u == Rotate(v, p, s)
           sub1 == RotatedSub(t, sub, p, s)
           g == [h EXCEPT ![p] = h[w], ![w] = h[p], ![far] = h[far] + 1]
<1>1. /\ Trees(t, r, sub) /\ Heights(t, h, z) /\ Reds(t, {})
      /\ p \in sub[t.root] /\ s \in Side /\ z \in Ptr
      /\ t.child[s][p] = z /\ t.parent[z] = p
      /\ t.color[z] = "black" /\ t.color[Nil] = "black"
      /\ t.color[t.root] = "black" /\ t.color[r] = "black"
  BY DEF Lame
<1>2. /\ Shape(t, sub) /\ t \in Tree /\ p \in Made(t) /\ o \in Side /\ o # s /\ Opposite(o) = s
      /\ w \in Made(t) /\ w # z /\ w # p /\ z # p /\ t.parent[w] = p /\ Side = {s, o}
      /\ z \in Made(t) \cup {Nil} /\ w \in sub[t.root]
  BY LameNodes
<1>3. /\ Made(t) \subseteq Ptr /\ Nil \notin Made(t) /\ Nil \in Ptr /\ Dangling \notin Ptr
      /\ \A m \in Ptr : t.color[m] \in {"red", "black"}
      /\ r \in Made(t) \cup {Nil} /\ t.root \in Made(t) \cup {Nil}
  BY <1>1, <1>2, KeyAssumption DEF Made, Ptr, Tree, Color, Trees
<1> HIDE DEF o, w
<1>4. far \in Made(t) /\ near \in Made(t) \cup {Nil} /\ t.parent[far] = w
  <2>1. t.color[far] = "red"
    BY DEF w, o
  <2> QED BY <1>1, <1>2, <1>3, <2>1 DEF Shape, LinksOK
<1> HIDE DEF near, far
<1>5. t.child[Opposite(s)][p] = w /\ t.child[Opposite(s)][w] = far
  BY DEF far, w, o
<1>19. t.color[w] = "black" /\ t.color[far] = "red"
  BY DEF far, w, o
<1>6. /\ near # p /\ near # w /\ far # p /\ far # w /\ t.parent[p] # w /\ t.parent[p] # p
      /\ near # Nil => t.parent[near] = w
      /\ near # far
  <2>1. /\ near # p /\ near # w /\ far # p /\ far # w /\ t.parent[p] # w /\ t.parent[p] # p
        /\ near # Nil => t.parent[near] = w
    <3>1. Shape(t, sub) /\ p \in Made(t) /\ s \in Side /\ t.child[Opposite(s)][p] \in Made(t)
      BY <1>1, <1>2, <1>5
    <3>2. far # p /\ far # w
      <4>1. t.child[Opposite(s)][t.child[Opposite(s)][p]] # p
            /\ t.child[Opposite(s)][t.child[Opposite(s)][p]] # t.child[Opposite(s)][p]
        BY <3>1, RotationNodes
      <4> QED BY <1>5, <4>1
    <3> QED BY <1>5, <3>1, <3>2, RotationNodes DEF near
  <2>2. near = t.child[Opposite(s)][w] => near = Nil
    BY <1>1, <1>2, NodeFacts DEF near
  <2> QED BY <1>3, <1>4, <1>5, <2>1, <2>2
<1>7. /\ v \in Tree /\ v.root = t.root /\ v.parent = t.parent /\ v.child = t.child
      /\ \A m \in Ptr : v.color[m] = IF m \in {p, far} THEN "black"
                                    ELSE IF m = w THEN t.color[p] ELSE t.color[m]
  <2>1. /\ w \in Ptr /\ p \in Ptr /\ far \in Ptr /\ t.color[p] \in Color /\ "black" \in Color
    BY <1>2, <1>3, <1>4 DEF Color
  <2>2. /\ v1 \in Tree /\ v1.root = t.root /\ v1.parent = t.parent /\ v1.child = t.child
        /\ \A m \in Ptr : v1.color[m] = IF m = w THEN t.color[p] ELSE t.color[m]
    <3>1. t \in Tree /\ w \in Ptr /\ t.color[p] \in Color
      BY <1>2, <2>1
    <3> QED BY <3>1, PaintFields
  <2> HIDE DEF v1
  <2>3. /\ v2 \in Tree /\ v2.root = t.root /\ v2.parent = t.parent /\ v2.child = t.child
        /\ \A m \in Ptr : v2.color[m] = IF m = p THEN "black" ELSE v1.color[m]
    BY <2>1, <2>2, PaintFields
  <2> HIDE DEF v2
  <2>4. /\ v \in Tree /\ v.root = t.root /\ v.parent = t.parent /\ v.child = t.child
        /\ \A m \in Ptr : v.color[m] = IF m = far THEN "black" ELSE v2.color[m]
    BY <2>1, <2>3, PaintFields
  <2> HIDE DEF v
  <2> QED BY <1>6, <2>2, <2>3, <2>4
<1>8. RotatedFields(t, p, s, u) /\ u.color = v.color
  <2> HIDE DEF v
  <2> QED BY <1>1, <1>2, <1>5, <1>7, TurnPainted
<1>9. u = Rotate(Risen(t, w, p, far), p, s)
  BY DEF Risen
<1> HIDE DEF v1, v2, v, u
<1>10. /\ Trees(u, r, sub1) /\ sub1[u.root] = sub[t.root] /\ sub1[r] = sub[r]
       /\ Made(u) = Made(t)
  <2>1. t.child[Opposite(s)][p] # Nil
    BY <1>2, <1>3, <1>5
  <2> HIDE DEF sub1
  <2>2. sub1 = RotatedSub(t, sub, p, s)
    BY DEF sub1
  <2> QED BY <1>1, <1>8, <2>1, <2>2, RotateTrees
<1>11. u.root = IF t.parent[p] = Nil THEN w ELSE t.root
  BY <1>5, <1>8 DEF RotatedFields
<1>12. /\ \A m \in Ptr : u.color[m] = IF m \in {p, far} THEN "black"
                                     ELSE IF m = w THEN t.color[p] ELSE t.color[m]
  BY <1>7, <1>8
<1>13. \A m \in Ptr : u.parent[m] = IF m = w THEN t.parent[p] ELSE IF m = p THEN w
                                   ELSE IF m = near /\ near # Nil THEN p ELSE t.parent[m]
  BY <1>5, <1>8 DEF RotatedFields, near
<1>14. Reds(u, {})
  <2> SUFFICES ASSUME NEW m \in Made(t), u.color[m] = "red", u.color[u.parent[m]] = "red"
               PROVE  FALSE
    BY <1>10 DEF Reds
  <2>1. m \in Ptr /\ m \notin {p, far}
    BY <1>3, <1>12
  <2>2. t.parent[m] \in Ptr /\ t.parent[p] \in Ptr /\ w \in Ptr /\ p \in Ptr /\ far \in Ptr
    BY <1>2, <1>3, <1>4 DEF Shape, LinksOK
  <2>3. CASE m = w
    <3>1. t.color[p] = "red" /\ t.color[t.parent[p]] = "red"
      <4>1. far # t.parent[p]
        <5> SUFFICES ASSUME far = t.parent[p] PROVE FALSE
          OBVIOUS
        <5>1. \A n \in Made(t), d \in Side : t.child[d][n] \in Made(t) => t.child[d][n] \in sub[n]
          BY <1>2, NodeFacts
        <5>2. far \in sub[w]
          BY <1>2, <1>4, <1>5, <5>1 DEF o
        <5>3. t.parent[p] # Nil
          BY <1>3, <1>4
        <5>4. p \in sub[far]
          BY <1>2, <1>4, <5>1, <5>3 DEF Shape, LinksOK
        <5>5. p \in sub[w]
          BY <1>2, <5>2, <5>4, SubtreeNodes
        <5> QED BY <1>2, <1>5, <5>5, NodeFacts DEF o
      <4> QED BY <1>6, <1>12, <1>13, <2>2, <2>3, <4>1
    <3> QED BY <1>1, <1>2, <3>1 DEF Reds
  <2>4. CASE m # w
    <3>1. t.color[m] = "red"
      BY <1>12, <2>1, <2>4
    <3>2. m # near
      BY <1>3, <1>12, <1>13, <2>1, <2>2, <2>4
    <3>3. u.parent[m] = t.parent[m]
      BY <1>13, <2>1, <2>4, <3>2
    <3>4. t.parent[m] # w
      <4> SUFFICES ASSUME t.parent[m] = w PROVE FALSE
        OBVIOUS
      <4>1. \E d \in Side : t.child[d][w] = m
        BY <1>2, <1>3 DEF Shape, LinksOK
      <4> QED BY <1>2, <1>5, <2>1, <3>2, <4>1 DEF o, near
    <3>5. t.color[t.parent[m]] = "red"
      BY <1>12, <2>2, <3>3, <3>4
    <3> QED BY <1>1, <3>1, <3>5 DEF Reds
  <2> QED BY <2>3, <2>4
<1>15. /\ u.parent[u.root] = Nil /\ u.root \in Ptr /\ u.root # Nil
  <2>1. u.root \in Made(u) \cup {Nil} /\ p \in sub1[u.root] /\ sub1[Nil] = {}
    BY <1>1, <1>10 DEF Trees, Shape
  <2>2. u.root \in Made(u)
    BY <2>1
  <2> QED BY <1>3, <1>10, <2>2 DEF Trees
<1>16. Heights(u, g, u.root)
  <2>1. /\ h \in [Ptr -> Nat \ {0}]
        /\ h[z] \in Nat \ {0} /\ h[w] = h[z] + 1
        /\ h[p] = h[w] + Black(t, p)
        /\ \A n \in Made(t), d \in Side : n # p => ~Lacking(t, z, n, d)
    <3>1. h \in [Ptr -> Nat \ {0}]
      BY <1>1 DEF Heights
    <3>2. /\ h[z] \in Nat \ {0} /\ h[w] = h[z] + 1
          /\ h[p] = h[w] + Black(t, p)
          /\ \A n \in Made(t), d \in Side : n # p => ~Lacking(t, z, n, d)
      BY LameNodes DEF w, o
    <3> QED BY <3>1, <3>2
  <2>2. \A n \in Made(t), d \in Side : ~Lacking(u, u.root, n, d)
    BY <1>3, <1>15 DEF Lacking
  <2>3. h[w] = h[near] + 1 /\ h[w] = h[far] + 1 /\ h[near] \in Nat \ {0} /\ h[far] \in Nat \ {0}
    <3>1. Owes(t, z, w, s) = 0 /\ Owes(t, z, w, Opposite(s)) = 0 /\ Black(t, w) = 1
      BY <1>1, <1>2, <1>19, <2>1 DEF Owes, Black, o
    <3>2. h[near] \in Nat \ {0} /\ h[far] \in Nat \ {0}
      BY <1>3, <1>4, <2>1
    <3>3. h[w] = h[near] + 0 + 1 /\ h[w] = h[far] + 0 + 1
      BY <1>1, <1>2, <1>5, <3>1 DEF Heights, near, o
    <3> QED BY <3>2, <3>3
  <2>4. Black(u, p) = 1 /\ Black(u, w) = Black(t, p) /\ Black(u, far) = 1 /\ Black(t, far) = 0
        /\ Black(t, p) \in {0, 1}
    BY <1>2, <1>3, <1>4, <1>6, <1>12, <1>19 DEF Black
  <2>5. /\ g \in [Ptr -> Nat \ {0}]
        /\ g[p] = h[w] /\ g[w] = h[p] /\ g[far] = h[far] + 1
        /\ \A m \in Ptr \ {p, w, far} : g[m] = h[m]
    <3>1. p \in Ptr /\ w \in Ptr /\ far \in Ptr /\ h[w] \in Nat \ {0} /\ h[p] \in Nat \ {0}
          /\ h[far] + 1 \in Nat \ {0}
      BY <1>2, <1>3, <1>4, <2>1, <2>3
    <3> QED BY <1>2, <1>6, <2>1, <3>1
  <2> HIDE DEF g
  <2>6. g[z] = h[z] /\ g[near] = h[near]
    <3>1. z # far
      BY <1>1, <1>2, <1>4
    <3> QED BY <1>1, <1>2, <1>3, <1>4, <1>6, <2>5, <3>1
  <2>7. /\ g[p] = g[z] + Black(u, p) /\ g[p] = g[near] + Black(u, p)
        /\ g[w] = g[p] + Black(u, w) /\ g[w] = g[far] + Black(u, w)
        /\ g[w] = h[p]
        /\ g[far] + Black(t, far) = h[far] + Black(u, far)
    BY <2>1, <2>3, <2>4, <2>5, <2>6
  <2>8. TurnCount(t, p, s, u, h, z, g, u.root)
    <3>1. \A m \in Ptr : m \notin {p, w} /\ (m # far \/ m = Nil) => g[m] = h[m]
      BY <1>3, <1>4, <2>5
    <3>2. \A m \in Made(t) : m \notin {p, w, far} => u.color[m] = t.color[m]
      BY <1>3, <1>12
    <3>3. t.child[s][p] = z /\ t.child[s][w] = near
      BY <1>1 DEF near
    <3> QED BY <1>5, <2>1, <2>2, <2>5, <2>7, <3>1, <3>2, <3>3 DEF TurnCount
  <2>9. t.child[Opposite(s)][p] # Nil
    BY <1>2, <1>3, <1>5
  <2> QED BY <1>1, <1>8, <2>8, <2>9, TurnHeights
<1>17. \A m \in {Nil, u.root, r} : u.color[m] = "black"
  <2>1. r \notin {p, w, far}
    <3>1. sub[t.root] \cap sub[r] = {} /\ (r # Nil => t.parent[r] = Nil)
      BY <1>1, <1>3 DEF Trees
    <3>2. p \in sub[p]
      BY <1>1, <1>2, NodeFacts
    <3> QED BY <1>1, <1>2, <1>3, <1>4, <3>1, <3>2
  <2>2. t.root \notin {w, far} /\ (t.root = p <=> t.parent[p] = Nil)
    <3>1. \A n \in Made(t) : t.parent[n] = Nil <=> n \in {t.root, r}
      BY <1>1 DEF Trees
    <3> QED BY <1>2, <1>3, <1>4, <2>1, <3>1
  <2>3. u.color[u.root] = "black"
    BY <1>1, <1>2, <1>3, <1>6, <1>11, <1>12, <2>2
  <2> QED BY <1>1, <1>2, <1>3, <1>4, <1>12, <2>1, <2>3
<1>18. Placed(u, sub[t.root], u.root)
  <2>1. u.root \in sub[t.root]
    <3>1. u.root \in Made(u)
      BY <1>10, <1>15 DEF Trees
    <3>2. u.root \in sub1[u.root]
      <4>1. Shape(u, sub1)
        BY <1>10 DEF Trees
      <4> HIDE DEF sub1
      <4> QED BY <1>1, <3>1, <4>1, NodeFacts
    <3> QED BY <1>10, <3>2
  <2> QED BY <1>15, <2>1 DEF Placed
<1> HIDE DEF sub1, g
<1>20. Cured(t, r, sub, u)
  BY <1>10, <1>14, <1>16, <1>17, <1>18 DEF Cured
<1> QED BY <1>9, <1>20 DEF far, w, o

\* Where the loop of RemoveFixup works.
LEMMA RemoveNodes ==
  ASSUME IInv, LacksBlack
  PROVE  /\ pc = "remove fixup" /\ Short = node
         /\ Lame(tree, other.root, Subs(tree), BlackHeight(tree, node), node,
                 tree.parent[node], SideOf(tree, node))
<1> DEFINE sub == Subs(tree)
           r == other.root
           p == tree.parent[node]
           s == SideOf(tree, node)
           h == BlackHeight(tree, node)
<1>1. pc = "remove fixup" /\ node # tree.root /\ tree.color[node] = "black"
  BY DEF LacksBlack
<1>2. Short = node /\ MayBeRed = {n \in Key : node \in {n, tree.parent[n]}}
  BY <1>1 DEF Short, MayBeRed
<1>3. /\ Trees(tree, r, sub) /\ tree \in Tree /\ Contents = sub[tree.root]
      /\ Nodes = Made(tree) /\ Contents \subseteq Nodes
  BY Now
<1>4. /\ Heights(tree, h, node) /\ Reds(tree, MayBeRed)
      /\ tree.color[Nil] = "black" /\ tree.color[r] = "black"
  BY <1>2 DEF IInv, Sound
<1>5. /\ node \in Ptr /\ p \in Contents /\ \E d \in Side : tree.child[d][p] = node
      /\ tree.color[tree.root] # "red"
  BY <1>1 DEF IInv, AtNode
<1>6. s \in Side /\ tree.child[s][p] = node
  BY <1>5 DEF SideOf, Side
<1>7. Reds(tree, {})
  BY <1>1, <1>2, <1>4 DEF Reds
<1>8. tree.color[tree.root] = "black"
  BY <1>3, <1>5 DEF Tree, Color
<1> HIDE DEF sub, h, s
<1>9. Lame(tree, r, sub, h, node, p, s)
  BY <1>1, <1>3, <1>4, <1>5, <1>6, <1>7, <1>8 DEF Lame
<1> QED BY <1>1, <1>2, <1>9 DEF sub, h, s

\* What is left to show of the next state after a step of RemoveFixup.
LEMMA RemoveFixupThen ==
  ASSUME IInv, pc = "remove fixup",
         UNCHANGED <<other, size, pc, call, first, last, removed, cursor>>,
         NEW sub, Trees(tree', other.root, sub), sub[(tree').root] = Contents,
         sub[other.root] = Parked, Made(tree') = Nodes,
         Placed(tree', Contents, node'),
         NEW h, Heights(tree', h, node'),
         NEW E, Reds(tree', E), \A m \in E : node' \in {m, (tree').parent[m]},
         \A m \in {Nil, (tree').root, other.root} : (tree').color[m] = "black"
  PROVE  IInv' /\ [Set!Next]_(Set!vars)
<1>1. (other').root = other.root /\ pc' = "remove fixup"
  OBVIOUS
<1>2. /\ Trees(tree', (other').root, sub) /\ Placed(tree', sub[(tree').root], node')
      /\ (tree').color[(tree').root] = "red" => node' = (tree').root
      /\ (tree').color[Nil] = "black" /\ (tree').color[(other').root] = "black"
  BY <1>1
<1>3. /\ Contents' = Contents /\ Parked' = Parked /\ Nodes' = Nodes
      /\ InCall' /\ AtCursor' /\ Counted' => IInv'
  <2>1. /\ Contents' = sub[(tree').root] /\ Parked' = sub[(other').root]
        /\ Nodes' = Made(tree') /\ Nodes' = Contents' \cup Parked'
        /\ InCall' /\ AtCursor' /\ Counted' => IInv'
    BY <1>1, <1>2, RemoveThen
  <2> QED BY <1>1, <2>1
<1>4. InCall' /\ AtCursor' /\ Counted'
  BY <1>3 DEF IInv, InCall, AtCursor, Counted, CallRange
<1> QED BY <1>3, <1>4, FixupStep

\* An iteration of RemoveFixup goes on one level up, or ends the loop.
LEMMA RemoveFixupStepStep ==
  ASSUME IInv, RemoveFixupStep
  PROVE  /\ IInv' /\ [Set!Next]_(Set!vars)
         /\ \/ (tree').color[node'] = "red"
            \/ node' = (tree').root
            \/ /\ node' = tree.parent[node] /\ (tree').parent = tree.parent
               /\ Trees(tree', other.root, Subs(tree))
<1> DEFINE s == SideOf(tree, node)
           o == Opposite(s)
           r == other.root
           t1 == BlackSibling(s)
           p == t1.parent[node]
           w == t1.child[o][p]
           near == t1.child[s][w]
           far == t1.child[o][w]
           t3 == IF t1.color[far] = "black"
                 THEN Rotate(Paint(Paint(t1, near, "black"), w, "red"), w, o)
                 ELSE t1
           w3 == t3.child[o][t3.parent[node]]
           t4 == Risen(t3, w3, p, t3.child[o][w3])
           t5 == Rotate(t4, p, s)
<1>1. /\ LacksBlack
      /\ \/ /\ t1.color[near] = "black" /\ t1.color[far] = "black"
            /\ tree' = Paint(t1, w, "red")
            /\ node' = p
         \/ /\ "red" \in {t1.color[near], t1.color[far]}
            /\ tree' = t5
            /\ node' = t5.root
      /\ UNCHANGED <<other, size, pc, call, first, last, removed, cursor>>
  BY DEF RemoveFixupStep, Risen
<1>2. /\ pc = "remove fixup"
      /\ Lame(tree, r, Subs(tree), BlackHeight(tree, node), node, tree.parent[node], s)
  BY <1>1, RemoveNodes
<1>3. Contents = Subs(tree)[tree.root] /\ Parked = Subs(tree)[r] /\ Nodes = Made(tree)
  BY Now
<1> HIDE DEF s
<1>4. PICK sub1, h1 : /\ Lame(t1, r, sub1, h1, node, tree.parent[node], s)
                      /\ sub1[t1.root] = Contents /\ sub1[r] = Parked
                      /\ Made(t1) = Nodes
                      /\ t1.color[t1.child[o][tree.parent[node]]] = "black"
                      /\ t1 = tree \/ t1.color[tree.parent[node]] = "red"
  <2>1. t1 = IF tree.color[tree.child[o][tree.parent[node]]] = "red"
             THEN Rotate(Paint(Paint(tree, tree.child[o][tree.parent[node]], "black"),
                               tree.parent[node], "red"), tree.parent[node], s)
             ELSE tree
    BY DEF BlackSibling
  <2> DEFINE p0 == tree.parent[node]
             w0 == tree.child[Opposite(s)][p0]
             u0 == IF tree.color[w0] = "red"
                   THEN Rotate(Paint(Paint(tree, w0, "black"), p0, "red"), p0, s)
                   ELSE tree
             sub0 == Subs(tree)
             h0 == BlackHeight(tree, node)
  <2>2. t1 = u0
    BY <2>1
  <2>3. Lame(tree, r, sub0, h0, node, p0, s)
    BY <1>2
  <2> HIDE DEF t1, p0, sub0, h0, r
  <2>4. \E sub1, h1 : /\ Lame(u0, r, sub1, h1, node, p0, s)
                      /\ sub1[u0.root] = sub0[tree.root] /\ sub1[r] = sub0[r]
                      /\ Made(u0) = Made(tree)
                      /\ u0.color[u0.child[Opposite(s)][p0]] = "black"
                      /\ IF tree.color[w0] = "red" THEN u0.color[p0] = "red" ELSE u0 = tree
    BY <2>3, BlackSiblingIs
  <2> HIDE DEF u0, w0
  <2>5. Contents = sub0[tree.root] /\ Parked = sub0[r] /\ Nodes = Made(tree)
    BY <1>3 DEF sub0, r
  <2>6. \E sub1, h1 : /\ Lame(t1, r, sub1, h1, node, p0, s)
                      /\ sub1[t1.root] = Contents /\ sub1[r] = Parked
                      /\ Made(t1) = Nodes
                      /\ t1.color[t1.child[o][p0]] = "black"
                      /\ t1 = tree \/ t1.color[p0] = "red"
    BY <2>2, <2>4, <2>5
  <2> QED BY <2>6 DEF p0
<1> HIDE DEF t1
<1>5. p = tree.parent[node] /\ t1.color[w] = "black" /\ s \in Side
  BY <1>4 DEF Lame
<1>6. Lame(t1, r, sub1, h1, node, p, s)
  BY <1>4, <1>5
<1> HIDE DEF p
<1>7. CASE t1.color[near] = "black" /\ t1.color[far] = "black" /\ tree' = Paint(t1, w, "red")
           /\ node' = p
  <2>1. \A d \in Side : t1.color[t1.child[d][w]] = "black"
    <3> HIDE DEF w
    <3> QED BY <1>5, <1>7, SideFacts
  <2>2. w = t1.child[Opposite(s)][p]
    OBVIOUS
  <2> HIDE DEF w
  <2>3. /\ Trees(tree', r, sub1) /\ Made(tree') = Made(t1)
        /\ \E g : Heights(tree', g, p)
        /\ Reds(tree', {w})
        /\ Placed(tree', sub1[t1.root], p)
        /\ (tree').root = t1.root /\ (tree').parent = t1.parent /\ (tree').color[p] = t1.color[p]
        /\ \A m \in {Nil, t1.root, r} : (tree').color[m] = "black"
    <3> DEFINE u == Paint(t1, w, "red")
    <3>1. t1.color[w] = "black"
      BY <1>5 DEF w
    <3>2. /\ Trees(u, r, sub1) /\ Made(u) = Made(t1)
          /\ \E g : Heights(u, g, p)
          /\ Reds(u, {w})
          /\ Placed(u, sub1[t1.root], p)
          /\ u.root = t1.root /\ u.parent = t1.parent /\ u.color[p] = t1.color[p]
          /\ \A m \in {Nil, t1.root, r} : u.color[m] = "black"
      BY <1>6, <2>1, <2>2, <3>1, SiblingTurnsRed
    <3> HIDE DEF u
    <3>3. tree' = u
      BY <1>7 DEF u
    <3> QED BY <3>2, <3>3
  <2>4. PICK g : Heights(tree', g, p)
    BY <2>3
  <2>5. (tree').parent[w] = p
    BY <1>6, <2>2, <2>3, LameNodes
  <2>6. IInv' /\ [Set!Next]_(Set!vars)
    <3> DEFINE E == {w}
    <3>1. /\ Trees(tree', other.root, sub1) /\ sub1[(tree').root] = Contents
          /\ sub1[other.root] = Parked /\ Made(tree') = Nodes
          /\ Placed(tree', Contents, node') /\ Heights(tree', g, node')
          /\ \A m \in {Nil, (tree').root, other.root} : (tree').color[m] = "black"
      BY <1>4, <1>7, <2>3, <2>4
    <3>2. Reds(tree', E) /\ \A m \in E : node' \in {m, (tree').parent[m]}
      BY <1>7, <2>3, <2>5
    <3> HIDE DEF E
    <3> QED BY <1>1, <1>2, <3>1, <3>2, RemoveFixupThen
  <2>7. CASE t1 = tree
    <3>1. sub1 = Subs(tree)
      BY <1>6, <2>7, SubsIs DEF Lame
    <3> QED BY <1>5, <1>7, <2>3, <2>6, <2>7, <3>1
  <2>8. CASE t1.color[tree.parent[node]] = "red"
    BY <1>5, <1>7, <2>3, <2>6, <2>8
  <2> QED BY <1>4, <2>7, <2>8
<1>8. CASE "red" \in {t1.color[near], t1.color[far]} /\ tree' = t5 /\ node' = t5.root
  <2>1. PICK sub3, h3 : /\ Lame(t3, r, sub3, h3, node, p, s)
                        /\ sub3[t3.root] = Contents /\ sub3[r] = Parked
                        /\ Made(t3) = Nodes
                        /\ t3.color[t3.child[o][p]] = "black"
                        /\ t3.color[t3.child[o][t3.child[o][p]]] = "red"
    <3>1. CASE t1.color[far] = "black"
      <4>1. t1.color[near] = "red"
        BY <1>8, <3>1
      <4>2. t3 = Rotate(Paint(Paint(t1, near, "black"), w, "red"), w, o)
        BY <3>1
      <4> DEFINE u == Rotate(Paint(Paint(t1, near, "black"), w, "red"), w, o)
      <4>3. t1.color[t1.child[Opposite(s)][p]] = "black"
            /\ t1.color[t1.child[s][t1.child[Opposite(s)][p]]] = "red"
            /\ t1.color[t1.child[Opposite(s)][t1.child[Opposite(s)][p]]] = "black"
        BY <1>5, <3>1, <4>1
      <4>4. Turned(t1, r, sub1, node, p, s, u)
        <5> HIDE DEF r
        <5> QED BY <1>6, <4>3, NearTurnsUp
      <4> HIDE DEF u, t3
      <4>5. t3 = u
        BY <4>2 DEF u
      <4> QED BY <1>4, <4>4, <4>5 DEF Turned, o
    <3>2. CASE t1.color[far] # "black"
      <4>1. t1.color[far] = "red" /\ t3 = t1
        <5>1. w \in Made(t1) /\ t1 \in Tree /\ Shape(t1, sub1) /\ o \in Side
          BY <1>6, LameNodes
        <5>2. far \in Ptr
          <6> HIDE DEF w, o
          <6> QED BY <5>1 DEF Shape, LinksOK, Made, Ptr
        <5>3. t1.color[far] \in Color
          <6> HIDE DEF far
          <6> QED BY <5>1, <5>2 DEF Tree
        <5> QED BY <3>2, <5>3 DEF Color
      <4> QED BY <1>4, <1>5, <1>6, <4>1
    <3> QED BY <3>1, <3>2
  <2> HIDE DEF t3
  <2>2. w3 = t3.child[o][p]
    BY <2>1 DEF Lame
  <2>3. tree' = Rotate(Risen(t3, t3.child[o][p], p, t3.child[o][t3.child[o][p]]), p, s)
        /\ node' = (tree').root
    BY <1>8, <2>2
  <2>4. PICK sub5, g : /\ Trees(tree', r, sub5)
                       /\ sub5[(tree').root] = sub3[t3.root] /\ sub5[r] = sub3[r]
                       /\ Made(tree') = Made(t3)
                       /\ Heights(tree', g, (tree').root) /\ Reds(tree', {})
                       /\ Placed(tree', sub3[t3.root], (tree').root)
                       /\ \A m \in {Nil, (tree').root, r} : (tree').color[m] = "black"
    <3> DEFINE x == t3.child[Opposite(s)][p]
               c == t3.child[Opposite(s)][x]
               u == Rotate(Risen(t3, x, p, c), p, s)
    <3>1. Lame(t3, r, sub3, h3, node, p, s)
          /\ t3.color[t3.child[Opposite(s)][p]] = "black"
          /\ t3.color[t3.child[Opposite(s)][t3.child[Opposite(s)][p]]] = "red"
      BY <2>1
    <3>2. Cured(t3, r, sub3, u)
      <4> HIDE DEF r
      <4> QED BY <3>1, SiblingRises
    <3>3. tree' = u
      BY <2>3
    <3> HIDE DEF u
    <3> QED BY <3>2, <3>3 DEF Cured
  <2>5. IInv' /\ [Set!Next]_(Set!vars)
    <3> DEFINE E == {}
    <3>1. /\ Trees(tree', other.root, sub5) /\ sub5[(tree').root] = Contents
          /\ sub5[other.root] = Parked /\ Made(tree') = Nodes
          /\ Placed(tree', Contents, node') /\ Heights(tree', g, node')
          /\ \A m \in {Nil, (tree').root, other.root} : (tree').color[m] = "black"
      BY <2>1, <2>3, <2>4
    <3>2. Reds(tree', E) /\ \A m \in E : node' \in {m, (tree').parent[m]}
      BY <2>4
    <3> HIDE DEF E
    <3> QED BY <1>1, <1>2, <3>1, <3>2, RemoveFixupThen
  <2> QED BY <2>3, <2>5
<1> QED BY <1>1, <1>7, <1>8


\* RemoveFixup ends by painting its node black, after which nothing is owed.
LEMMA RemoveFixupEndsStep ==
  ASSUME IInv, RemoveFixupEnds
  PROVE  IInv' /\ [Set!Next]_(Set!vars)
<1> DEFINE sub == Subs(tree)
           h == BlackHeight(tree, node)
           r == other.root
<1>1. /\ pc = "remove fixup" /\ ~LacksBlack /\ tree' = Paint(tree, node, "black")
      /\ node' = Nil
      /\ pc' = IF call.op = "erase" THEN "erase returns" ELSE "remove loop"
      /\ UNCHANGED <<other, size, call, first, last, removed, cursor>>
  BY DEF RemoveFixupEnds
<1>2. /\ Trees(tree, r, sub) /\ tree \in Tree
      /\ Contents = sub[tree.root] /\ Parked = sub[r]
      /\ Nodes = Made(tree) /\ Contents \subseteq Nodes
      /\ tree.root \in Contents \cup {Nil} /\ r \in Parked \cup {Nil}
      /\ Nodes = Contents \cup Parked /\ Contents \cap Parked = {}
      /\ Nil \notin Made(tree) /\ Nil \in Ptr /\ Made(tree) \subseteq Ptr
  BY Now DEF Ptr
<1>3. Short = node /\ MayBeRed = {n \in Key : node \in {n, tree.parent[n]}}
  BY <1>1 DEF Short, MayBeRed
<1>4. /\ tree.color[Nil] = "black" /\ tree.color[r] = "black"
      /\ Heights(tree, h, node) /\ Reds(tree, MayBeRed)
  BY <1>3 DEF IInv, Sound
<1>5. /\ node \in Contents \cup {Nil} /\ node \in Ptr
      /\ tree.color[tree.root] = "red" => node = tree.root
      /\ node = tree.root => tree.parent[node] = Nil
  BY <1>1 DEF IInv, AtNode
<1>6. node = tree.root \/ tree.color[node] # "black"
  BY <1>1 DEF LacksBlack
<1> HIDE DEF sub, h, r
<1>7. PICK g : /\ Trees(tree', r, sub) /\ Made(tree') = Made(tree)
               /\ Heights(tree', g, Dangling)
               /\ tree' \in Tree /\ (tree').root = tree.root /\ (tree').parent = tree.parent
               /\ \A m \in Ptr : (tree').color[m] = IF m = node THEN "black" ELSE tree.color[m]
  <2>1. PICK z : z = node
    OBVIOUS
  <2>2. /\ node \in sub[tree.root] \cup {Nil} /\ z \in {node, Dangling}
        /\ tree.color[node] = "red" => z = node \/ tree.parent[node] = Nil
        /\ tree.color[node] = "black" => z = Dangling \/ tree.parent[node] = Nil
        /\ Heights(tree, h, z) /\ Trees(tree, r, sub) /\ tree.color[Nil] = "black"
    BY <1>2, <1>4, <1>5, <1>6, <2>1
  <2>3. LET u == Paint(tree, node, "black")
        IN  /\ Trees(u, r, sub) /\ Made(u) = Made(tree)
            /\ \E g : Heights(u, g, Dangling)
            /\ u \in Tree /\ u.root = tree.root /\ u.parent = tree.parent
            /\ \A m \in Ptr : u.color[m] = IF m = node THEN "black" ELSE tree.color[m]
    <3>1. /\ node \in sub[tree.root] \cup {Nil} /\ z \in {node, Dangling}
      BY <2>2
    <3>2. tree.color[node] = "red" => z = node \/ tree.parent[node] = Nil
      BY <2>2
    <3>3. tree.color[node] = "black" => z = Dangling \/ tree.parent[node] = Nil
      BY <2>2
    <3>4. Heights(tree, h, z) /\ Trees(tree, r, sub) /\ tree.color[Nil] = "black"
      BY <2>2
    <3> QED BY <3>1, <3>2, <3>3, <3>4, PaintedBlack
  <2> QED BY <1>1, <2>3
<1>8. Reds(tree', {})
  <2> SUFFICES ASSUME NEW m \in Made(tree), (tree').color[m] = "red",
                      (tree').color[tree.parent[m]] = "red"
               PROVE  FALSE
    BY <1>7 DEF Reds
  <2>1. m \in Ptr /\ tree.parent[m] \in Ptr
    BY <1>2 DEF Trees, Shape, LinksOK
  <2>2. m # node /\ tree.parent[m] # node
    BY <1>5, <1>7, <2>1
  <2>3. tree.color[m] = "red" /\ tree.color[tree.parent[m]] = "red"
    BY <1>7, <2>1, <2>2
  <2>4. m \in MayBeRed
    BY <1>4, <2>3 DEF Reds
  <2> QED BY <1>3, <2>2, <2>4
<1>9. /\ Contents' = Contents /\ Parked' = Parked /\ Nodes' = Nodes
      /\ InCall' /\ AtCursor' /\ Counted' => IInv'
  <2>1. (other').root = r /\ node' \in Ptr /\ pc' \in Quiet
    BY <1>1, <1>2 DEF Quiet, r
  <2>2. r \in Ptr /\ tree.root \in Ptr /\ tree.color[tree.root] \in Color
    BY <1>2 DEF Tree
  <2>3. (tree').color[(tree').root] = "black"
    BY <1>5, <1>7, <2>2 DEF Color
  <2>4. \A m \in {Nil, (tree').root, (other').root} : (tree').color[m] = "black"
    BY <1>2, <1>4, <1>7, <2>1, <2>2, <2>3
  <2> QED BY <1>2, <1>7, <1>8, <2>1, <2>4, QuietThen
<1>10. InCall'
  <2>1. /\ first \in Ptr /\ last \in Ptr /\ removed \in 0 .. Cardinality(Key)
        /\ \/ /\ call = [op |-> "remove", key |-> call.key]
              /\ call.key \in Key /\ CallRange
           \/ /\ call = [op |-> "erase", key |-> call.key]
              /\ call.key \in Key \ Nodes
              /\ FirstOrNil("left", Contents \cap Past(call.key), first)
    BY <1>1 DEF IInv, InCall
  <2>2. CASE call = [op |-> "erase", key |-> call.key]
    <3>1. call.op = "erase"
      BY <2>2
    <3>2. pc' = "erase returns" /\ call' = call
      BY <1>1, <3>1
    <3>3. call.key \in Key \ Nodes /\ FirstOrNil("left", Contents \cap Past(call.key), first)
      <4>1. call # [op |-> "remove", key |-> call.key]
        BY <3>1
      <4> QED BY <2>1, <4>1
    <3>4. call' = [op |-> "erase", key |-> call'.key] /\ call'.key = call.key
      BY <2>2, <3>2
    <3> QED BY <1>1, <1>9, <2>1, <3>2, <3>3, <3>4 DEF InCall
  <2>3. CASE call = [op |-> "remove", key |-> call.key]
    <3>1. call.op = "remove"
      BY <2>3
    <3>2. pc' = "remove loop" /\ call' = call
      BY <1>1, <3>1
    <3>3. call.key \in Key /\ CallRange
      <4>1. call # [op |-> "erase", key |-> call.key]
        BY <3>1
      <4> QED BY <2>1, <4>1
    <3>4. CallRange'
      BY <1>1, <1>9, <3>2, <3>3 DEF CallRange
    <3>5. call' = [op |-> "remove", key |-> call'.key] /\ call'.key = call.key
      BY <2>3, <3>2
    <3> QED BY <1>1, <2>1, <3>2, <3>3, <3>4, <3>5 DEF InCall
  <2> QED BY <2>1, <2>2, <2>3
<1>11. AtCursor' /\ Counted'
  BY <1>1, <1>9 DEF IInv, AtCursor, Counted
<1> QED BY <1>1, <1>9, <1>10, <1>11, FixupStep

\* Two empty trees.
LEMMA InitInvariant ==
  ASSUME Init
  PROVE  IInv /\ Set!Init
<1> DEFINE sub == [n \in Ptr |-> {}]
           h == [n \in Ptr |-> 1]
<1>1. /\ tree = EmptyTree /\ size = 0 /\ other = [root |-> Nil, size |-> 0]
      /\ pc = "idle" /\ call = NoCall /\ node = Nil /\ first = Nil /\ last = Nil
      /\ removed = 0 /\ cursor = EndIter
  BY DEF Init
<1>2. /\ tree.root = Nil /\ other.root = Nil /\ Nil \in Ptr /\ Nil \notin Key
      /\ tree.color = [p \in Ptr |-> IF p = Nil THEN "black" ELSE "red"]
      /\ tree.parent = [p \in Ptr |-> IF p = Nil THEN Nil ELSE Dangling]
      /\ tree.child = [s \in Side |-> [p \in Ptr |-> IF p = Nil THEN Nil ELSE Dangling]]
      /\ tree = [root |-> tree.root, color |-> tree.color, parent |-> tree.parent,
                 child |-> tree.child]
  BY <1>1, KeyAssumption DEF EmptyTree, Ptr
<1>3. Made(tree) = {}
  BY <1>2 DEF Made, Ptr
<1>4. tree \in Tree
  BY <1>2 DEF Tree, Color, AnyPtr
<1>5. Shape(tree, sub)
  BY <1>2, <1>3, <1>4 DEF Shape, Ptr
<1>6. Trees(tree, Nil, sub)
  BY <1>2, <1>3, <1>5 DEF Trees
<1>7. Heights(tree, h, Dangling)
  BY <1>3 DEF Heights
<1>8. Short = Dangling /\ MayBeRed = {} /\ Reds(tree, {})
  BY <1>1, <1>3 DEF Short, MayBeRed, Reds
<1>9. Subs(tree) = sub /\ BlackHeight(tree, Dangling) = h
  <2> HIDE DEF sub, h
  <2>1. Subs(tree) = sub
    BY <1>6, SubsIs
  <2>2. BlackHeight(tree, Dangling) = h
    BY <1>5, <1>7, HeightIs
  <2> QED BY <2>1, <2>2
<1> HIDE DEF h
<1>10. Sound(tree, other.root, Short, MayBeRed)
  BY <1>2, <1>6, <1>7, <1>8, <1>9 DEF Sound
<1>11. Contents = {} /\ Parked = {} /\ Nodes = {}
  <2>1. Subtree(tree, Nil) = sub[Nil]
    <3> HIDE DEF sub
    <3> QED BY <1>6, SubsIs
  <2> QED BY <1>2, <1>3, <2>1 DEF Contents, Parked, Nodes
<1>12. AtNode
  BY <1>1, <1>2 DEF AtNode
<1>13. Cardinality(Key) \in Nat /\ Cardinality({}) = 0
  BY KeyAssumption, FS_CardinalityType, FS_EmptySet
<1>14. InCall
  <2>1. 0 \in 0 .. Cardinality(Key)
    BY <1>13
  <2> QED BY <1>1, <1>2, <2>1 DEF InCall
<1>15. AtCursor /\ Counted
  <2>1. IteratorIn(EndIter, {})
    BY Iterators
  <2> QED BY <1>1, <1>11, <1>13, <2>1 DEF AtCursor, Counted
<1>16. Set!Init
  BY <1>1, <1>11, SetCursors, SetState DEF Set!Init
<1> QED BY <1>10, <1>12, <1>14, <1>15, <1>16 DEF IInv

\* Every step keeps the invariant and is a step of KeySet, or a stuttering one.
LEMMA StepInvariant ==
  ASSUME IInv, [Next]_vars
  PROVE  IInv' /\ [Set!Next]_(Set!vars)
<1>1. ASSUME NEW k \in Key, InsertIntoEmpty(k) \/ InsertDuplicate(k) \/ InsertLinks(k) \/ Remove(k)
      PROVE  IInv' /\ [Set!Next]_(Set!vars)
  BY <1>1, InsertIntoEmptyStep, InsertDuplicateStep, InsertLinksStep, RemoveStep
<1>2. CASE Erase \/ Clear \/ CopyAssign \/ Swap \/ MoveAssign \/ Position \/ Step
  BY <1>2, EraseStep, ClearStep, CopyAssignStep, SwapStep, MoveAssignStep, PositionStep,
     StepStep
<1>3. CASE InsertUncleRed \/ InsertUncleBlack \/ InsertReturns
  BY <1>3, InsertUncleRedStep, InsertUncleBlackStep, InsertReturnsStep
<1>4. CASE RemoveLoop \/ RemoveReturns \/ EraseReturns
  BY <1>4, RemoveLoopStep, RemoveReturnsStep, EraseReturnsStep
<1>5. CASE RemoveFixupStep \/ RemoveFixupEnds
  BY <1>5, RemoveFixupStepStep, RemoveFixupEndsStep
<1>6. CASE OtherTree
  BY <1>6, OtherTreeStep
<1>7. CASE UNCHANGED vars
  <2>1. UNCHANGED <<tree, size, other, pc, call, node, first, last, removed, cursor>>
    BY <1>7 DEF vars
  <2>2. IInv'
    BY <2>1 DEF IInv, Sound, Subs, AtNode, InCall, CallRange, AtCursor, Counted, Short, MayBeRed,
                Contents, Parked, Nodes
  <2>3. Contents' = Contents /\ Parked' = Parked
    BY <2>1 DEF Contents, Parked, Nodes
  <2> QED BY <2>1, <2>2, <2>3, FixupStep
<1> QED BY <1>1, <1>2, <1>3, <1>4, <1>5, <1>6, <1>7 DEF Next, Client, Code

\* Every state of every run satisfies the inductive invariant.
THEOREM Invariance == Spec => []IInv
<1>1. Init => IInv
  BY InitInvariant
<1>2. IInv /\ [Next]_vars => IInv'
  BY StepInvariant
<1> QED BY <1>1, <1>2, PTL DEF Spec

\* The invariant, with the witnesses gone, gives the types and the search trees.
LEMMA InvariantIsSearchTree == IInv => TypeOK /\ SearchTree
<1> SUFFICES ASSUME IInv PROVE TypeOK /\ SearchTree
  OBVIOUS
<1> DEFINE sub == Subs(tree)
           r == other.root
<1>1. /\ Trees(tree, r, sub) /\ Shape(tree, sub) /\ tree \in Tree
      /\ Contents = sub[tree.root] /\ Parked = sub[r]
      /\ Nodes = Made(tree) /\ Nodes = Contents \cup Parked /\ Contents \cap Parked = {}
      /\ Nodes \subseteq Key
      /\ tree.root \in Contents \cup {Nil} /\ r \in Parked \cup {Nil}
  BY Now
<1> HIDE DEF sub, r
<1>2. IsFiniteSet(Key) /\ Nil \in Ptr /\ Nodes \subseteq Ptr /\ Nil \notin Key
  BY <1>1, KeyAssumption DEF Ptr
<1>3. size = Cardinality(Contents)
      /\ other = [root |-> other.root, size |-> Cardinality(Parked)]
  BY DEF IInv, Counted
<1>4. size \in 0 .. Cardinality(Key) /\ other \in [root : Ptr, size : 0 .. Cardinality(Key)]
  <2>1. Contents \subseteq Key /\ Parked \subseteq Key
    BY <1>1
  <2>2. \A S : S \subseteq Key => Cardinality(S) \in 0 .. Cardinality(Key)
    <3> SUFFICES ASSUME NEW S, S \subseteq Key PROVE Cardinality(S) \in 0 .. Cardinality(Key)
      OBVIOUS
    <3>1. IsFiniteSet(S) /\ Cardinality(S) <= Cardinality(Key)
      BY <1>2, FS_Subset
    <3>2. Cardinality(S) \in Nat /\ Cardinality(Key) \in Nat
      BY <1>2, <3>1, FS_CardinalityType
    <3> QED BY <3>1, <3>2
  <2>3. Cardinality(Contents) \in 0 .. Cardinality(Key)
        /\ Cardinality(Parked) \in 0 .. Cardinality(Key)
    BY <2>1, <2>2
  <2>4. other.root \in Ptr
    BY <1>1, <1>2 DEF r
  <2> QED BY <1>3, <2>3, <2>4
<1>5. TypeOK
  <2>1. /\ tree.root \in Ptr
        /\ tree.color \in [Ptr -> {"red", "black"}]
        /\ tree.parent \in [Ptr -> AnyPtr]
        /\ \A s \in Side : tree.child[s] \in [Ptr -> AnyPtr]
    BY <1>1 DEF Tree, Color
  <2>2. /\ first \in Ptr /\ last \in Ptr /\ removed \in 0 .. Cardinality(Key)
        /\ pc \in {"idle", "insert fixup", "remove loop", "remove fixup", "erase returns"}
    BY DEF IInv, InCall
  <2>3. node \in Ptr
    BY DEF IInv, AtNode
  <2>4. cursor \in [at : AnyPtr, nil : Ptr]
    <3>1. IteratorIn(cursor, Nodes)
      BY DEF IInv, AtCursor
    <3>2. cursor \in [at : AnyPtr, nil : Ptr]
      BY <3>1 DEF IteratorIn
    <3> QED BY <3>2
  <2> QED BY <1>4, <2>1, <2>2, <2>3, <2>4 DEF TypeOK
<1>6. \A n \in Made(tree) \cup {Nil} : Subtree(tree, n) = sub[n]
  BY <1>1, SubtreeIs
<1>7. Subtree(tree, tree.root) = Contents
  BY <1>1, <1>6
<1>8. \A root \in {tree.root, other.root} \cap Key : tree.parent[root] = Nil
  BY <1>1, <1>2 DEF Trees, r
<1>9. ASSUME NEW n \in Nodes, NEW s \in Side, tree.child[s][n] # Nil
      PROVE  tree.child[s][n] \in Key /\ tree.parent[tree.child[s][n]] = n
  BY <1>1, <1>9 DEF Shape, LinksOK
<1>10. ASSUME NEW n \in Nodes
       PROVE  /\ \A m \in Subtree(tree, tree.child["left"][n]) : m < n
              /\ \A m \in Subtree(tree, tree.child["right"][n]) : n < m
  <2>1. OrderOK(tree, sub, n) /\ LinksOK(tree, n) /\ "left" \in Side /\ "right" \in Side
    BY <1>1 DEF Shape, Side
  <2>2. Subtree(tree, tree.child["left"][n]) = sub[tree.child["left"][n]]
        /\ Subtree(tree, tree.child["right"][n]) = sub[tree.child["right"][n]]
    BY <1>6, <2>1 DEF LinksOK
  <2> QED BY <2>1, <2>2 DEF OrderOK, Before
<1>11. tree.color[Nil] = "black" /\ \A s \in Side : tree.child[s][Nil] = Nil
  BY <1>1 DEF IInv, Sound, Shape
<1>12. other.size = Cardinality(Parked)
  BY <1>3
<1> QED BY <1>3, <1>5, <1>7, <1>8, <1>9, <1>10, <1>11, <1>12 DEF SearchTree

\* Every variable has a value the C++ types and the algorithm allow.
THEOREM TypeCorrect == Spec => []TypeOK
<1>1. IInv => TypeOK
  BY InvariantIsSearchTree
<1> QED BY <1>1, Invariance, PTL

\* After each step of Insert, Remove, Erase, Clear, Swap and the assignments, and
\* between the iterations of both fix-ups (red_black_tree.h:387, 573), the pointers
\* are those of two search trees without a common node, size() is the number of
\* nodes, and the sentinel is black and without children.
THEOREM AlwaysSearchTree == Spec => []SearchTree
<1>1. IInv => SearchTree
  BY InvariantIsSearchTree
<1> QED BY <1>1, Invariance, PTL

\* The invariant gives the red-black rules: the heights are those of BlackHeight.
LEMMA InvariantIsRedBlack == IInv => RedBlack
<1> SUFFICES ASSUME IInv PROVE RedBlack
  OBVIOUS
<1> DEFINE h == BlackHeight(tree, Short)
<1>1. Heights(tree, h, Short) /\ Reds(tree, MayBeRed) /\ tree.color[other.root] = "black"
  BY DEF IInv, Sound
<1>2. Nodes = Made(tree) /\ Shape(tree, Subs(tree)) /\ Nodes \subseteq Key
  BY Now
<1> HIDE DEF h
<1>3. ASSUME NEW n \in Nodes
      PROVE  h[tree.child["left"][n]] + (IF Lacking(tree, Short, n, "left") THEN 1 ELSE 0)
             = h[tree.child["right"][n]] + (IF Lacking(tree, Short, n, "right") THEN 1 ELSE 0)
  <2> DEFINE a == h[tree.child["left"][n]]
             b == h[tree.child["right"][n]]
  <2>1. "left" \in Side /\ "right" \in Side
    BY DEF Side
  <2>2. tree.child["left"][n] \in Ptr /\ tree.child["right"][n] \in Ptr
    BY <1>2, <2>1 DEF Shape, LinksOK, Made, Ptr
  <2>3. a \in Nat /\ b \in Nat
    BY <1>1, <2>2 DEF Heights
  <2>4. h[n] = a + Owes(tree, Short, n, "left") + Black(tree, n)
        /\ h[n] = b + Owes(tree, Short, n, "right") + Black(tree, n)
    BY <1>1, <1>2, <2>1 DEF Heights
  <2>5. Owes(tree, Short, n, "left") \in {0, 1} /\ Owes(tree, Short, n, "right") \in {0, 1}
        /\ Black(tree, n) \in {0, 1}
    BY DEF Owes, Black
  <2> HIDE DEF a, b
  <2>6. a + Owes(tree, Short, n, "left") = b + Owes(tree, Short, n, "right")
    BY <2>3, <2>4, <2>5
  <2> QED BY <2>6 DEF Owes, a, b
<1>4. ASSUME NEW n \in Nodes, tree.color[n] = "red", tree.color[tree.parent[n]] = "red"
      PROVE  \/ pc = "insert fixup" /\ n = node
             \/ pc = "remove fixup" /\ node \in {n, tree.parent[n]}
  <2>1. n \in MayBeRed
    BY <1>1, <1>2, <1>4 DEF Reds
  <2>2. CASE pc = "insert fixup"
    BY <2>1, <2>2 DEF MayBeRed
  <2>3. CASE pc = "remove fixup"
    BY <2>1, <2>3 DEF MayBeRed
  <2>4. CASE pc \notin {"insert fixup", "remove fixup"}
    BY <2>1, <2>4 DEF MayBeRed
  <2> QED BY <2>2, <2>3, <2>4
<1>5. tree.color[tree.root] = "red" =>
         pc \in {"insert fixup", "remove fixup"} /\ node = tree.root
  BY DEF IInv, AtNode
<1> QED BY <1>1, <1>3, <1>4, <1>5 DEF RedBlack, h

\* Every path has as many black nodes, but for the one that RemoveFixup
\* (red_black_tree.h:573) has to make up for, no red node has a red parent but where
\* a fix-up is, and calls return with a black root.
THEOREM AlwaysRedBlack == Spec => []RedBlack
<1>1. IInv => RedBlack
  BY InvariantIsRedBlack
<1> QED BY <1>1, Invariance, PTL

\* Between two calls the lookups and the steps of an iterator that knows the
\* sentinel give the keys KeySet does.
LEMMA InvariantAnswers == IInv => Answers
<1> SUFFICES ASSUME IInv, cursor.nil = Nil PROVE StepsRight(cursor)
  BY LookupsAnswer DEF Answers
<1>1. CASE cursor.at \in Nodes
  <2>1. cursor = Iter(cursor.at)
    BY <1>1 DEF IInv, AtCursor, IteratorIn, Iter
  <2> QED BY <1>1, <2>1, NeighboursAnswer DEF StepsRight
<1>2. CASE cursor.at = Nil
  BY <1>2 DEF StepsRight
<1>3. CASE cursor.at \notin Nodes \cup {Nil}
  <2>1. cursor.at = Dangling
    BY <1>3 DEF IInv, AtCursor, IteratorIn
  <2> QED BY <2>1 DEF StepsRight
<1> QED BY <1>1, <1>2, <1>3

\* The tree is an ordered set: each call changes the set by its own key and once,
\* Remove (red_black_tree.h:364) counts what it took, and iterators keep their place.
\* What Find and the bounds (red_black_tree.h:123) return between two calls is the
\* right key, and so is where ++ and -- lead (red_black_tree.h:824), of an iterator
\* that knows the sentinel.
THEOREM TreeIsKeySet == Spec => ImplementsKeySet
<1>1. Init => Set!Init
  BY InitInvariant
<1>2. IInv /\ [Next]_vars => [Set!Next]_(Set!vars)
  BY StepInvariant
<1>3. Spec => Set!Spec
  BY <1>1, <1>2, Invariance, PTL DEF Spec, Set!Spec
<1>4. Spec => []Answers
  BY InvariantAnswers, Invariance, PTL
<1> QED BY <1>3, <1>4 DEF ImplementsKeySet

\* The nodes above p, and p.
Above(t, sub, p) == {m \in Made(t) : p \in sub[m]}

\* How deep a node is, counted in the shape of the tree.
LEMMA DepthIs ==
  ASSUME NEW t, NEW sub, Shape(t, sub), NEW n, t.parent[n] \in Made(t) \cup {Nil}
  PROVE  Depth(t, n) = Cardinality(Above(t, sub, t.parent[n]))
<1>1. Nil \notin Key /\ Made(t) \subseteq Key /\ Key \subseteq Ptr
  BY KeyAssumption DEF Made, Ptr
<1>2. ASSUME NEW m \in Key
      PROVE  t.parent[n] \in Subtree(t, m) <=> m \in Above(t, sub, t.parent[n])
  <2>1. CASE m \in Made(t)
    <3>1. Subtree(t, m) = sub[m]
      BY <2>1, SubtreeIs
    <3> QED BY <2>1, <3>1 DEF Above
  <2>2. CASE m \notin Made(t)
    <3>1. Subtree(t, m) = {m}
      <4>1. Subtree(t, m) = (Key \cap {m}) \cup sub[m]
        BY <1>1, SubtreeOf
      <4>2. sub[m] = {}
        BY <2>2 DEF Shape
      <4> QED BY <4>1, <4>2
    <3>2. t.parent[n] # m
      BY <1>1, <2>2
    <3> QED BY <2>2, <3>1, <3>2 DEF Above
  <2> QED BY <2>1, <2>2
<1>3. {m \in Key : t.parent[n] \in Subtree(t, m)} = Above(t, sub, t.parent[n])
  BY <1>1, <1>2 DEF Above
<1> QED BY <1>3 DEF Depth

\* There are fewer nodes above the parent.
LEMMA AboveParent ==
  ASSUME NEW t, NEW sub, Shape(t, sub), NEW p \in Made(t)
  PROVE  /\ Cardinality(Above(t, sub, p)) \in Nat
         /\ Cardinality(Above(t, sub, t.parent[p])) \in Nat
         /\ Cardinality(Above(t, sub, t.parent[p])) < Cardinality(Above(t, sub, p))
<1> DEFINE q == t.parent[p]
           A == Above(t, sub, q)
           B == Above(t, sub, p)
<1>1. IsFiniteSet(Key) /\ Made(t) \subseteq Key /\ Nil \notin Key
  BY KeyAssumption DEF Made
<1>2. q \in Made(t) \cup {Nil} /\ (q # Nil => \E s \in Side : t.child[s][q] = p)
  BY DEF Shape, LinksOK
<1>3. p \in sub[p] /\ \A m \in Made(t) : sub[m] \subseteq Made(t)
  BY SubtreeNodes, NodeFacts, SideFacts
<1>4. p \in B /\ p \notin A
  <2>1. q \notin sub[p]
    <3> SUFFICES ASSUME q \in sub[p] PROVE FALSE
      OBVIOUS
    <3>1. q \in Made(t) /\ q # Nil
      BY <1>1, <1>3
    <3>2. PICK s \in Side : t.child[s][q] = p
      BY <1>2, <3>1
    <3> QED BY <3>1, <3>2, NodeFacts
  <2> QED BY <1>3, <2>1 DEF Above
<1>5. A \subseteq B
  <2> SUFFICES ASSUME NEW m \in Made(t), q \in sub[m] PROVE p \in sub[m]
    BY DEF Above
  <2>1. q \in Made(t) /\ q # Nil
    BY <1>1, <1>3
  <2>2. PICK s \in Side : t.child[s][q] = p
    BY <1>2, <2>1
  <2>3. p \in sub[q]
    BY <1>3, <2>1, <2>2, NodeFacts
  <2>4. sub[q] \subseteq sub[m]
    BY SubtreeNodes
  <2> QED BY <2>3, <2>4
<1>6. IsFiniteSet(B) /\ B \subseteq Key
  <2>1. B \subseteq Key
    BY <1>1 DEF Above
  <2> QED BY <1>1, <2>1, FS_Subset
<1> HIDE DEF A, B
<1>7. IsFiniteSet(A) /\ Cardinality(A) <= Cardinality(B) /\ Cardinality(A) # Cardinality(B)
  <2>1. A \in SUBSET B
    BY <1>5
  <2>2. /\ IsFiniteSet(A)
        /\ Cardinality(A) <= Cardinality(B)
        /\ Cardinality(B) = Cardinality(A) => B = A
    BY <1>6, <2>1, FS_Subset
  <2> QED BY <1>4, <2>2
<1>8. Cardinality(A) \in Nat /\ Cardinality(B) \in Nat
  BY <1>6, <1>7, FS_CardinalityType
<1>9. Cardinality(A) < Cardinality(B)
  BY <1>7, <1>8
<1> QED BY <1>8, <1>9 DEF A, B, q

\* A step of a loop that goes on takes it up one level, or two.
LEMMA FixupStepClimbs ==
  ASSUME IInv, [Next]_vars, ParentRed \/ LacksBlack, (ParentRed \/ LacksBlack)'
  PROVE  Depth(tree', node') < Depth(tree, node) \/ UNCHANGED vars
<1> DEFINE sub == Subs(tree)
           p == tree.parent[node]
           g == tree.parent[p]
<1>1. Shape(tree, sub) /\ Contents \subseteq Made(tree)
  BY Now
<1>2. CASE InsertUncleRed
  <2>1. /\ node' = g /\ (tree').parent = tree.parent /\ Trees(tree', other.root, sub)
        /\ ParentRed
    BY <1>2, InsertUncleRedStep DEF InsertUncleRed
  <2>2. p \in Made(tree) /\ g \in Made(tree)
    BY <1>1, <2>1, InsertNodes
  <2>3. Shape(tree', sub) /\ Made(tree') = Made(tree)
    BY <2>1 DEF Trees, Made
  <2> HIDE DEF p, g, sub
  <2>4. tree.parent[g] \in Made(tree) \cup {Nil} /\ tree.parent[p] = g /\ tree.parent[node] = p
    BY <1>1, <2>2 DEF Shape, LinksOK, p, g
  <2>5. Depth(tree, node) = Cardinality(Above(tree, sub, p))
    BY <1>1, <2>2, <2>4, DepthIs
  <2>6. Depth(tree', g) = Cardinality(Above(tree, sub, tree.parent[g]))
    <3>1. (tree').parent[g] = tree.parent[g] /\ (tree').parent[g] \in Made(tree') \cup {Nil}
      BY <2>1, <2>3, <2>4
    <3>2. Depth(tree', g) = Cardinality(Above(tree', sub, (tree').parent[g]))
      BY <2>3, <3>1, DepthIs
    <3> QED BY <2>3, <3>1, <3>2 DEF Above
  <2>7. /\ Cardinality(Above(tree, sub, p)) \in Nat
        /\ Cardinality(Above(tree, sub, g)) \in Nat
        /\ Cardinality(Above(tree, sub, tree.parent[g])) \in Nat
        /\ Cardinality(Above(tree, sub, g)) < Cardinality(Above(tree, sub, p))
        /\ Cardinality(Above(tree, sub, tree.parent[g])) < Cardinality(Above(tree, sub, g))
    BY <1>1, <2>2, <2>4, AboveParent
  <2> QED BY <2>1, <2>5, <2>6, <2>7
<1>3. CASE RemoveFixupStep
  <2>1. LacksBlack /\ pc' = "remove fixup"
    BY <1>3 DEF RemoveFixupStep, LacksBlack
  <2>2. LacksBlack'
    BY <2>1 DEF ParentRed
  <2>3. /\ node' = p /\ (tree').parent = tree.parent /\ Trees(tree', other.root, sub)
    BY <1>3, <2>2, RemoveFixupStepStep DEF LacksBlack
  <2>4. p \in Made(tree)
    <3>1. Lame(tree, other.root, sub, BlackHeight(tree, node), node, p, SideOf(tree, node))
      BY <2>1, RemoveNodes
    <3> HIDE DEF sub, p
    <3> QED BY <3>1, LameNodes
  <2>5. Shape(tree', sub) /\ Made(tree') = Made(tree)
    BY <2>3 DEF Trees, Made
  <2> HIDE DEF p, sub
  <2>6. tree.parent[p] \in Made(tree) \cup {Nil} /\ tree.parent[node] = p
    BY <1>1, <2>4 DEF Shape, LinksOK, p
  <2>7. Depth(tree, node) = Cardinality(Above(tree, sub, p))
    BY <1>1, <2>4, <2>6, DepthIs
  <2>8. Depth(tree', p) = Cardinality(Above(tree, sub, tree.parent[p]))
    <3>1. (tree').parent[p] = tree.parent[p] /\ (tree').parent[p] \in Made(tree') \cup {Nil}
      BY <2>3, <2>5, <2>6
    <3>2. Depth(tree', p) = Cardinality(Above(tree', sub, (tree').parent[p]))
      BY <2>5, <3>1, DepthIs
    <3> QED BY <2>5, <3>1, <3>2 DEF Above
  <2>9. Cardinality(Above(tree, sub, tree.parent[p])) < Cardinality(Above(tree, sub, p))
    BY <1>1, <2>4, AboveParent
  <2> QED BY <2>3, <2>7, <2>8, <2>9
<1>4. CASE InsertUncleBlack
  <2>1. ~ParentRed'
    BY <1>4, InsertUncleBlackStep
  <2>2. pc' = "insert fixup"
    BY <1>4 DEF InsertUncleBlack, ParentRed
  <2> QED BY <2>1, <2>2 DEF LacksBlack
<1>5. pc \in {"insert fixup", "remove fixup"} /\ pc' \in {"insert fixup", "remove fixup"}
  BY DEF ParentRed, LacksBlack
<1>6. ~InsertReturns /\ ~RemoveFixupEnds
  BY <1>5 DEF InsertReturns, RemoveFixupEnds, ParentRed
<1>7. ~(RemoveLoop \/ RemoveReturns \/ EraseReturns)
  BY <1>5 DEF RemoveLoop, RemoveReturns, EraseReturns
<1>8. ~Client /\ ~OtherTree
  <2>1. pc # "idle"
    BY <1>5
  <2>2. ~OtherTree
    BY <2>1 DEF OtherTree
  <2>3. \A k \in Key : ~(InsertIntoEmpty(k) \/ InsertDuplicate(k) \/ InsertLinks(k) \/ Remove(k))
    BY <2>1 DEF InsertIntoEmpty, InsertDuplicate, InsertLinks, Remove
  <2>4. ~(Erase \/ Clear \/ CopyAssign \/ Swap \/ MoveAssign \/ Position \/ Step)
    BY <2>1 DEF Erase, Clear, CopyAssign, Swap, MoveAssign, Position, Step
  <2> QED BY <2>2, <2>3, <2>4 DEF Client
<1> QED BY <1>2, <1>3, <1>4, <1>6, <1>7, <1>8 DEF Next, Code

\* Every iteration of the loops of InsertFixup (red_black_tree.h:394) and RemoveFixup
\* (red_black_tree.h:574) that is followed by another one takes it nearer to the
\* root, so that a call ends after as many as the tree has levels at most.
THEOREM FixupsClimb == Spec => FixupClimbs
<1>1. IInv /\ [Next]_vars =>
        [(ParentRed \/ LacksBlack) /\ (ParentRed \/ LacksBlack)' =>
           Depth(tree', node') < Depth(tree, node)]_vars
  BY FixupStepClimbs
<1> QED BY <1>1, Invariance, PTL DEF Spec, FixupClimbs

=============================================================================
