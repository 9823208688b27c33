----------------------------- MODULE MCHashTable -----------------------------
(* The hash table for TLC: hashes that collide for some capacities, and two *)
(* keys whose hashes are equal.                                             *)
EXTENDS HashTable

MCHash == [k \in Key |-> IF k = 5 THEN 0 ELSE 2 * k]
=============================================================================
