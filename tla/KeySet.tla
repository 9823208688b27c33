------------------------------- MODULE KeySet -------------------------------
(***************************************************************************)
(* What the red-black tree of m3 promises its client: an ordered set of    *)
(* keys with calls that take effect once, and one iterator of the client,  *)
(* which survives every call that does not remove the key it is at, stays  *)
(* with its key when two sets are swapped or one is moved, and can be      *)
(* stepped both ways.  RedBlackTree is shown to implement this.            *)
(*                                                                         *)
(* keys are those there is an element of.  How many elements a key has,    *)
(* and which of them an insertion of it returns, is left open here: the    *)
(* documented multiset is compiled out of the code.                        *)
(***************************************************************************)
EXTENDS Integers, FiniteSets

CONSTANTS Key,  \* the keys the client uses
          End,  \* where end() is
          Lost  \* where an iterator is when its key is gone

VARIABLES keys,     \* the contents of the set
          parked,   \* those of a second set, with other keys
          cursor,   \* the key the client's iterator is at, End or Lost
          call,     \* the call in progress
          removed   \* what the last Remove(key) has counted

vars == <<keys, parked, cursor, call, removed>>

NoCall == [op |-> "none", key |-> End]

LeastOf(S) == IF S = {} THEN End ELSE CHOOSE k \in S : \A j \in S : k <= j
GreatestOf(S) == IF S = {} THEN End ELSE CHOOSE k \in S : \A j \in S : j <= k

\* What begin(), Find and the bounds answer, and where ++ and -- of an iterator
\* at a key lead, however the client came by it.
First == LeastOf(keys)
Find(k) == IF k \in keys THEN k ELSE End
LowerBound(k) == LeastOf({j \in keys : j >= k})
UpperBound(k) == LeastOf({j \in keys : j > k})

SetOf(k) == IF k \in parked THEN parked ELSE keys
After(k) == LeastOf({j \in SetOf(k) : j > k})
Before(k) == GreatestOf({j \in SetOf(k) : j < k})

Init == /\ keys = {} /\ parked = {}
        /\ cursor = End
        /\ call = NoCall
        /\ removed = 0

Idle == call = NoCall

\* A new key goes in at once; the call may return with the same step (an
\* empty tree) or later. The client keeps the iterator it gets, or its own.
InsertNew(k) ==
    /\ Idle
    /\ k \notin keys \cup parked
    /\ keys' = keys \cup {k}
    /\ \/ /\ call' = [op |-> "insert", key |-> k]
          /\ UNCHANGED cursor
       \/ /\ keys = {}
          /\ call' = NoCall
          /\ cursor' \in {cursor, k}
    /\ UNCHANGED <<parked, removed>>

\* A key that is there already leaves the keys as they are. The iterator the
\* client gets is the one thing left open.
InsertAgain(k) ==
    /\ Idle
    /\ k \in keys
    /\ cursor' \in keys \cup {End, cursor}
    /\ UNCHANGED <<parked, keys, call, removed>>

RemoveKey(k) ==
    /\ Idle
    /\ call' = [op |-> "remove", key |-> k]
    /\ removed' = 0
    /\ UNCHANGED <<parked, keys, cursor>>

TakeKey ==
    /\ call.op = "remove"
    /\ call.key \in keys
    /\ keys' = keys \ {call.key}
    /\ removed' = removed + 1
    /\ cursor' = IF cursor = call.key THEN Lost ELSE cursor
    /\ UNCHANGED <<parked, call>>

\* Erasing by iterator: the iterator is given up and a new one returned.
EraseHere ==
    /\ Idle
    /\ cursor \in keys
    /\ keys' = keys \ {cursor}
    /\ \/ /\ call' = [op |-> "erase", key |-> cursor]
          /\ cursor' = Lost
       \/ /\ call' = NoCall
          /\ cursor' = After(cursor)
    /\ UNCHANGED <<parked, removed>>

Return ==
    /\ ~Idle
    /\ call.op = "remove" => call.key \notin keys
    /\ call' = NoCall
    /\ cursor' \in CASE call.op = "insert" -> {cursor, call.key}
                     [] call.op = "erase" -> {After(call.key)}
                     [] call.op = "remove" -> {cursor}
    /\ UNCHANGED <<parked, keys, removed>>

Clear ==
    /\ Idle
    /\ keys' = {}
    /\ cursor' = IF cursor \in keys THEN Lost ELSE cursor
    /\ UNCHANGED <<parked, call, removed>>

\* A set replaced by a copy of itself.
Copy ==
    /\ Idle
    /\ cursor' = IF cursor \in keys THEN Lost ELSE cursor
    /\ UNCHANGED <<keys, parked, call, removed>>

Swap ==
    /\ Idle
    /\ keys' = parked /\ parked' = keys
    /\ UNCHANGED <<cursor, call, removed>>

Move ==
    /\ Idle
    /\ keys' = parked /\ parked' = {}
    /\ cursor' = IF cursor \in keys THEN Lost ELSE cursor
    /\ UNCHANGED <<call, removed>>

\* The client asks for another iterator.
Position ==
    /\ Idle
    /\ \/ cursor' \in {First, End}
       \/ \E k \in Key : cursor' \in {Find(k), LowerBound(k), UpperBound(k)}
    /\ UNCHANGED <<parked, keys, call, removed>>

\* Where an iterator goes from end() is left open.
Step ==
    /\ Idle
    /\ cursor # Lost
    /\ cursor' \in IF cursor = End THEN Key \cup {End}
                                  ELSE {After(cursor), Before(cursor)}
    /\ UNCHANGED <<parked, keys, call, removed>>

Next == \/ Position \/ Step \/ TakeKey \/ EraseHere \/ Return \/ Clear
        \/ Copy \/ Swap \/ Move
        \/ \E k \in Key : InsertNew(k) \/ InsertAgain(k) \/ RemoveKey(k)

Spec == Init /\ [][Next]_vars
=============================================================================
