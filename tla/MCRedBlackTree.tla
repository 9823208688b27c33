--------------------------- MODULE MCRedBlackTree ---------------------------
(***************************************************************************)
(* The red-black tree for TLC. Trees take every set of FreeKeys, and above *)
(* them only grow by the next key and shrink by the last one, which leads  *)
(* to trees of FreeKeys alone that are blacker than inserting them makes.  *)
(* The client holds an iterator other than end() only while the tree's     *)
(* keys are among IteratorKeys, and parks a tree only while the keys of    *)
(* both are among ParkKeys.                                                *)
(***************************************************************************)
EXTENDS RedBlackTree

CONSTANTS FreeKeys,     \* keys that come and go in any order
          IteratorKeys, \* the bound on the trees iterators are held in
          ParkKeys      \* the bound on the two trees

Within(S) == \/ S \subseteq FreeKeys
             \/ \E m \in S : S = {k \in Key : k <= m}

IteratorBound == cursor # EndIter => Contents \subseteq IteratorKeys
ParkBound == other.root # Nil => Nodes \subseteq ParkKeys

MCNext ==
    \/ \E k \in Key :
         \/ InsertIntoEmpty(k) /\ Within({k}) /\ IteratorBound' /\ ParkBound'
         \/ InsertLinks(k) /\ Within(Contents') /\ IteratorBound' /\ ParkBound'
         \/ InsertDuplicate(k) /\ IteratorBound'
         \/ Remove(k) /\ Within(Contents \ {k})
    \/ InsertReturns /\ IteratorBound'
    \/ InsertUncleRed
    \/ InsertUncleBlack
    \/ RemoveLoop
    \/ RemoveFixupStep
    \/ RemoveFixupEnds
    \/ RemoveReturns
    \/ Erase
    \/ EraseReturns
    \/ Position /\ IteratorBound'
    \/ Step
    \/ Clear
    \/ CopyAssign
    \/ Swap /\ ParkBound'
    \/ MoveAssign
    \/ OtherTree

MCSpec == Init /\ [][MCNext]_vars
=============================================================================
