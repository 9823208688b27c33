------------------------------- MODULE KeyMap -------------------------------
(***************************************************************************)
(* What the hash table of m3 promises its client: a map from keys to       *)
(* values, and the answer of the last call.  A call that throws may leave  *)
(* its own key changed or not, and nothing else.  HashTable is shown to    *)
(* implement this.                                                         *)
(***************************************************************************)
CONSTANTS Key, Value,
          Absent,      \* std::nullopt: the key has no value
          Capacities   \* what Rehash may be asked for

VARIABLES map,     \* the value of each key
          answer   \* the last call and what came of it

vars == <<map, answer>>

Said(call, what) == answer' = [call |-> call, what |-> what]

Init == /\ map = [k \in Key |-> Absent]
        /\ answer = [call |-> <<>>, what |-> Absent]

Insert(k, v) == map' = [map EXCEPT ![k] = v] /\ Said(<<"insert", k, v>>, "returned")

InsertThrows(k, v) ==
    /\ map' = [map EXCEPT ![k] = v] \/ UNCHANGED map
    /\ Said(<<"insert", k, v>>, "threw")

Find(k) == Said(<<"find", k>>, map[k]) /\ UNCHANGED map

Remove(k) == /\ map' = [map EXCEPT ![k] = Absent]
             /\ Said(<<"remove", k>>, IF map[k] = Absent THEN "missing" ELSE "erased")

Rehash(count) == \E what \in {"returned", "threw"} :
                    Said(<<"rehash", count>>, what) /\ UNCHANGED map

Next == \/ \E count \in Capacities : Rehash(count)
        \/ \E k \in Key : \/ Find(k) \/ Remove(k)
                          \/ \E v \in Value : Insert(k, v) \/ InsertThrows(k, v)

Spec == Init /\ [][Next]_vars
=============================================================================
