------------------------------ MODULE HashTable ------------------------------
(***************************************************************************)
(* HashTable of m3: chaining in std::list buckets, growth when the load    *)
(* factor passes 0.75, Rehash by hand.  One action is one call; where a    *)
(* call may throw between two of its assignments, it has an action that    *)
(* ends there.  Nothing iterates over a bucket but the search for a key    *)
(* and Rehash, so that a bucket is the set of its entries.                 *)
(***************************************************************************)
EXTENDS Integers, FiniteSets, FiniteSetsExt

CONSTANTS Key, Value, Absent,
          Hash,        \* std::hash
          Capacities   \* what the client passes to the constructor and Rehash

ASSUME TableAssumption == /\ Absent \notin Value
                          /\ Hash \in [Key -> Nat]
                          /\ Capacities \subseteq Nat

VARIABLES table,      \* table_
          size,       \* size_
          capacity,   \* capacity_
          answer      \* the last call and what came of it

vars == <<table, size, capacity, answer>>

Said(call, what) == answer' = [call |-> call, what |-> what]

Entry == [key : Key, value : Value]
Buckets(cap) == 0 .. cap - 1
Empty(cap) == [b \in Buckets(cap) |-> {}]

\* explicit HashTable(size_t cap)
Init == /\ capacity \in Capacities
        /\ table = Empty(capacity)
        /\ size = 0
        /\ answer = [call |-> <<>>, what |-> Absent]

-----------------------------------------------------------------------------
\* hash % capacity_ is undefined for a table constructed with capacity 0:
\* until a Rehash has given it buckets, the client may not look up a key.
Usable == capacity > 0

Index(k, cap) == Hash[k] % cap

\* The entries with the key in its bucket: none or, while keys are not
\* stored twice, one.
FindEntry(k) == {e \in table[Index(k, capacity)] : e.key = k}

Entries(t) == UNION {t[b] : b \in DOMAIN t}

\* size_ > capacity_ * kLoadFactor
Overfull(n, cap) == 4 * n > 3 * cap

\* Mutant: the load factor of the present size, without the one to come.
MinBucketsTight(n) == (4 * n) \div 3

\* (size() + 1) / kLoadFactor, converted to size_t
MinBuckets(n) == (4 * (n + 1)) \div 3

NewCapacity(count, n) == IF count > MinBuckets(n) THEN count ELSE MinBuckets(n)

\* Mutant: the new bucket is computed with the old capacity.
MovedByOldIndex(t, cap) ==
    [b \in Buckets(cap) |-> {e \in Entries(t) : Index(e.key, capacity) = b}]

\* newTable in Rehash.
Moved(t, cap) == [b \in Buckets(cap) |-> {e \in Entries(t) : Index(e.key, cap) = b}]

\* The rest of Rehash once newTable is complete.
Adopt(t, n, count) ==
    /\ capacity' = NewCapacity(count, n)
    /\ table' = Moved(t, NewCapacity(count, n))

-----------------------------------------------------------------------------
\* Mutant: an update is appended behind the old entry.
InsertTwice(k, v) ==
    /\ Usable /\ FindEntry(k) # {}
    /\ table' = [table EXCEPT ![Index(k, capacity)] =
                   @ \cup {[key |-> k, value |-> v]}]
    /\ Said(<<"insert", k, v>>, "returned")
    /\ UNCHANGED <<size, capacity>>

\* Insert of a key that is there.
InsertUpdates(k, v) ==
    /\ Usable /\ FindEntry(k) # {}
    /\ table' = [table EXCEPT ![Index(k, capacity)] =
                   (@ \ FindEntry(k)) \cup {[key |-> k, value |-> v]}]
    /\ Said(<<"insert", k, v>>, "returned")
    /\ UNCHANGED <<size, capacity>>

\* The new entry in its bucket, and size_ counts it.
Append(k, v) == [table EXCEPT ![Index(k, capacity)] =
                   @ \cup {[key |-> k, value |-> v]}]

\* Mutant: the growth is decided before the new entry is counted.
InsertGrowsLate(k, v) ==
    /\ Usable /\ FindEntry(k) = {}
    /\ size' = size + 1
    /\ IF Overfull(size, capacity)
         THEN Adopt(Append(k, v), size + 1, 2 * capacity)
         ELSE table' = Append(k, v) /\ UNCHANGED capacity
    /\ Said(<<"insert", k, v>>, "returned")

\* Insert of a new key, with the growth it may lead to.
InsertNew(k, v) ==
    /\ Usable /\ FindEntry(k) = {}
    /\ size' = size + 1
    /\ IF Overfull(size + 1, capacity)
         THEN Adopt(Append(k, v), size + 1, 2 * capacity)
         ELSE table' = Append(k, v) /\ UNCHANGED capacity
    /\ Said(<<"insert", k, v>>, "returned")

\* Rehash throws in Insert: for want of memory, or because an entry cannot
\* be copied.  The entry that led to it stays where it is.
InsertGrowthFails(k, v) ==
    /\ Usable /\ FindEntry(k) = {}
    /\ Overfull(size + 1, capacity)
    /\ size' = size + 1
    /\ table' = Append(k, v)
    /\ Said(<<"insert", k, v>>, "threw")
    /\ UNCHANGED capacity

\* The entry cannot be made or, for a key that is there, assigned.
InsertFails(k, v) ==
    /\ Usable
    /\ Said(<<"insert", k, v>>, "threw")
    /\ UNCHANGED <<table, size, capacity>>

Find(k) ==
    /\ Usable
    /\ Said(<<"find", k>>, IF FindEntry(k) = {} THEN Absent
                    ELSE (CHOOSE e \in FindEntry(k) : TRUE).value)
    /\ UNCHANGED <<table, size, capacity>>

\* Mutant: size_ goes down whether or not the key was there.
RemoveCounts(k) ==
    /\ Usable
    /\ table' = [table EXCEPT ![Index(k, capacity)] = @ \ FindEntry(k)]
    /\ size' = size - 1
    /\ Said(<<"remove", k>>, IF FindEntry(k) = {} THEN "missing" ELSE "erased")
    /\ UNCHANGED capacity

Remove(k) ==
    /\ Usable
    /\ table' = [table EXCEPT ![Index(k, capacity)] = @ \ FindEntry(k)]
    /\ size' = IF FindEntry(k) = {} THEN size ELSE size - 1
    /\ Said(<<"remove", k>>, IF FindEntry(k) = {} THEN "missing" ELSE "erased")
    /\ UNCHANGED capacity

Rehash(count) ==
    /\ Adopt(table, size, count)
    /\ Said(<<"rehash", count>>, "returned")
    /\ UNCHANGED size

\* Everything that can throw in Rehash comes before the table is replaced.
RehashFails(count) ==
    /\ Said(<<"rehash", count>>, "threw")
    /\ UNCHANGED <<table, size, capacity>>

\* [load factor, longest bucket] as GetStatistic returns them; the load
\* factor as its two operands.
GetStatistic ==
    IF capacity = 0 THEN [load |-> <<0, 1>>, longest |-> 0]
    ELSE [load |-> <<size, capacity>>,
          longest |-> Max({Cardinality(table[b]) : b \in DOMAIN table})]

Next ==
    \/ \E k \in Key, v \in Value :
         \/ InsertUpdates(k, v) \/ InsertNew(k, v)
         \/ InsertGrowthFails(k, v) \/ InsertFails(k, v)
    \/ \E k \in Key : Find(k) \/ Remove(k)
    \/ \E count \in Capacities : Rehash(count) \/ RehashFails(count)

Spec == Init /\ [][Next]_vars

-----------------------------------------------------------------------------
\* Types, and the layout that looking a key up relies on: as many buckets as
\* capacity_ says, every entry in the bucket of its hash, no key twice, and
\* size_ the number of entries, also after a call that threw halfway
\* (hash_table.h:85-137).
Layout ==
    /\ capacity \in Nat /\ size \in Nat
    /\ table \in [Buckets(capacity) -> SUBSET Entry]
    /\ \A b \in Buckets(capacity) : \A e \in table[b] : Index(e.key, capacity) = b
    /\ \A d, e \in Entries(table) : d.key = e.key => d = e
    /\ size = Cardinality(Entries(table))

\* A Rehash that returns leaves at least one bucket, as many as it was asked
\* for, and a load factor of at most 0.75, although the number of buckets is
\* rounded down where the comment says up (hash_table.h:72-73, 123).  What
\* GetStatistic says fits the entries: no bucket is longer than all together.
LoadBounded ==
    LET s == GetStatistic IN
    /\ \A count \in Capacities :
         answer = [call |-> <<"rehash", count>>, what |-> "returned"]
           => /\ capacity > 0 /\ capacity >= count
              /\ ~Overfull(s.load[1], s.load[2])
    /\ s.longest <= size /\ (s.longest = 0 <=> size = 0)

\* "Automatic rehashing when `load_factor > 0.75`" (README.md:128 of m3): an
\* Insert that stores a key and returns leaves the load factor at most that,
\* also when the growth of an earlier one failed and left it above
\* (hash_table.h:92-97).
GrowthCatchesUp ==
    [][size' > size /\ answer'.what = "returned" => ~Overfull(size', capacity')]_vars

\* The table is the map of its entries (KeyMap): an exception anywhere in
\* Insert or Rehash loses no key but may have stored its own.
Map == INSTANCE KeyMap WITH
         map <- [k \in Key |->
                   IF \E e \in Entries(table) : e.key = k
                     THEN (CHOOSE e \in Entries(table) : e.key = k).value
                     ELSE Absent]
ImplementsKeyMap == Map!Spec
=============================================================================
