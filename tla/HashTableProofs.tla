-------------------------- MODULE HashTableProofs --------------------------
(***************************************************************************)
(* Proofs about HashTable.  The set of entries says all there is to say    *)
(* about a table in which every entry is in the bucket of its hash: each   *)
(* call is first shown to change the set of entries as it should, whatever *)
(* it does with the buckets, and everything else is shown of that set.     *)
(***************************************************************************)
EXTENDS HashTable, FiniteSetTheorems, WellFoundedInduction, TLAPS

\* As many buckets as cap says, every entry in the bucket of its hash.
LaidOut(t, cap) ==
    /\ cap \in Nat
    /\ t \in [Buckets(cap) -> SUBSET Entry]
    /\ \A b \in Buckets(cap) : \A e \in t[b] : Index(e.key, cap) = b

KeysOnce(E) == \A d, e \in E : d.key = e.key => d = e

\* What every call preserves.
IInv ==
    /\ LaidOut(table, capacity)
    /\ KeysOnce(Entries(table))
    /\ IsFiniteSet(Entries(table))
    /\ size = Cardinality(Entries(table))

\* The entries after k is removed, and after it has been given the value v.
Without(E, k) == {e \in E : e.key # k}
With(E, k, v) == Without(E, k) \cup {[key |-> k, value |-> v]}

\* The map that a set of entries stands for.
MapOf(E) == [k \in Key |-> IF \E e \in E : e.key = k
                             THEN (CHOOSE e \in E : e.key = k).value
                             ELSE Absent]

-----------------------------------------------------------------------------
\* The bucket of a key is one of the table's, if it has any.
LEMMA IndexInRange ==
    ASSUME NEW k \in Key, NEW cap \in Nat, cap > 0
    PROVE  Index(k, cap) \in Buckets(cap)
BY TableAssumption DEF Index, Buckets

\* What NewCapacity answers: never 0, never less than asked for, and enough
\* for the load factor although (n + 1) / 0.75 is rounded down.
LEMMA CapacityFits ==
    ASSUME NEW count \in Nat, NEW n \in Nat
    PROVE  /\ NewCapacity(count, n) \in Nat
           /\ NewCapacity(count, n) > 0
           /\ NewCapacity(count, n) >= count
           /\ ~Overfull(n, NewCapacity(count, n))
<1>1. /\ MinBuckets(n) \in Nat /\ MinBuckets(n) > 0
      /\ 4 * n <= 3 * MinBuckets(n)
  BY DEF MinBuckets
<1> QED BY <1>1 DEF NewCapacity, Overfull

LEMMA EntriesAre ==
    ASSUME NEW t, NEW cap, LaidOut(t, cap)
    PROVE  /\ Entries(t) \subseteq Entry
           /\ \A e : e \in Entries(t) <=> \E b \in Buckets(cap) : e \in t[b]
BY DEF LaidOut, Entries

\* An entry can only be in the bucket of its hash.
LEMMA EntryInItsBucket ==
    ASSUME NEW t, NEW cap, LaidOut(t, cap), NEW e \in Entries(t)
    PROVE  e \in Entry /\ e \in t[Index(e.key, cap)] /\ cap > 0
<1>1. PICK b \in Buckets(cap) : e \in t[b]
  BY EntriesAre
<1>2. b = Index(e.key, cap) /\ cap > 0
  BY <1>1 DEF LaidOut, Buckets
<1> QED BY <1>1, <1>2, EntriesAre

\* An empty table.
LEMMA EmptyIsLaidOut ==
    ASSUME NEW cap \in Nat
    PROVE  LaidOut(Empty(cap), cap) /\ Entries(Empty(cap)) = {}
BY DEF LaidOut, Empty, Entries

\* u is t with the bucket of k changed to have the entries of D, all of them
\* with the key k, instead of those that had it.
Replaced(t, u, cap, k, D) ==
    /\ LaidOut(t, cap) /\ cap > 0 /\ k \in Key
    /\ D \in SUBSET Entry /\ \A d \in D : d.key = k
    /\ u \in [Buckets(cap) -> SUBSET Entry]
    /\ u[Index(k, cap)] = Without(t[Index(k, cap)], k) \cup D
    /\ \A b \in Buckets(cap) : b # Index(k, cap) => u[b] = t[b]

\* The bucket of k is where all the entries with k are.
LEMMA BucketReplaced ==
    ASSUME NEW t, NEW u, NEW cap, NEW k, NEW D, Replaced(t, u, cap, k, D)
    PROVE  /\ LaidOut(u, cap)
           /\ Entries(u) = Without(Entries(t), k) \cup D
<1>0. /\ LaidOut(t, cap) /\ cap > 0 /\ k \in Key
      /\ D \in SUBSET Entry /\ \A d \in D : d.key = k
      /\ u \in [Buckets(cap) -> SUBSET Entry]
  BY DEF Replaced
<1> DEFINE i == Index(k, cap)
<1>1. i \in Buckets(cap)
  BY <1>0, IndexInRange DEF LaidOut
<1>2. /\ u[i] = Without(t[i], k) \cup D
      /\ \A b \in Buckets(cap) : b # i => u[b] = t[b]
  BY DEF Replaced
<1>3. \A b \in Buckets(cap) : \A e \in u[b] : Index(e.key, cap) = b
  BY <1>0, <1>1, <1>2 DEF LaidOut, Without
<1>4. LaidOut(u, cap)
  BY <1>0, <1>2, <1>3 DEF LaidOut
<1>5. ASSUME NEW e PROVE e \in Entries(u) <=> e \in Without(Entries(t), k) \cup D
  <2>1. CASE e \in D
    BY <2>1, <1>1, <1>2, <1>4, EntriesAre
  <2>2. CASE e \notin D
    <3>1. ASSUME e \in Entries(u) PROVE e \in Entries(t) /\ e.key # k
      <4>1. PICK b \in Buckets(cap) : e \in u[b]
        BY <3>1, <1>4, EntriesAre
      <4>2. e \in t[b] /\ (b = i => e.key # k)
        BY <4>1, <1>2, <2>2 DEF Without
      <4>3. Index(e.key, cap) = b
        BY <1>0, <4>2 DEF LaidOut
      <4> QED BY <1>0, <4>2, <4>3, EntriesAre
    <3>2. ASSUME e \in Entries(t), e.key # k PROVE e \in Entries(u)
      <4>1. PICK b \in Buckets(cap) : e \in t[b]
        BY <1>0, <3>2, EntriesAre
      <4>2. e \in u[b]
        BY <4>1, <3>2, <1>2 DEF Without
      <4> QED BY <4>2, <1>4, EntriesAre
    <3> QED BY <2>2, <3>1, <3>2 DEF Without
  <2> QED BY <2>1, <2>2
<1> QED BY <1>4, <1>5

\* Rehash moves every entry to its new bucket and loses none.
LEMMA MovedIsLaidOut ==
    ASSUME NEW t, Entries(t) \subseteq Entry, NEW cap \in Nat, cap > 0
    PROVE  LaidOut(Moved(t, cap), cap) /\ Entries(Moved(t, cap)) = Entries(t)
<1> DEFINE E == Entries(t)
           u == Moved(t, cap)
<1>1. u = [b \in Buckets(cap) |-> {e \in E : Index(e.key, cap) = b}]
  BY DEF Moved
<1>2. E \subseteq Entry
  OBVIOUS
<1> HIDE DEF E, u
<1>3. LaidOut(u, cap)
  BY <1>1, <1>2 DEF LaidOut
<1>4. \A e \in E : Index(e.key, cap) \in Buckets(cap)
  BY <1>2, IndexInRange DEF Entry
<1>5. Entries(u) = E
  BY <1>1, <1>3, <1>4, EntriesAre
<1> QED BY <1>3, <1>5 DEF E, u

\* The search looks into one bucket only and still finds what there is.
LEMMA SearchIsComplete ==
    ASSUME IInv, Usable, NEW k \in Key
    PROVE  FindEntry(k) = {e \in Entries(table) : e.key = k}
<1>1. Index(k, capacity) \in Buckets(capacity)
  BY IndexInRange DEF IInv, LaidOut, Usable
<1>2. FindEntry(k) \subseteq {e \in Entries(table) : e.key = k}
  BY <1>1, EntriesAre DEF FindEntry, IInv
<1>3. {e \in Entries(table) : e.key = k} \subseteq FindEntry(k)
  BY EntryInItsBucket DEF FindEntry, IInv
<1> QED BY <1>2, <1>3

\* A search finds at most one entry.
LEMMA FoundOnce ==
    ASSUME IInv, Usable, NEW k \in Key, NEW d \in FindEntry(k)
    PROVE  FindEntry(k) = {d} /\ d \in Entries(table) /\ d.key = k
BY SearchIsComplete DEF IInv, KeysOnce

-----------------------------------------------------------------------------
(* What a call does to the set of entries. *)

LEMMA AppendAddsEntry ==
    ASSUME IInv, Usable, NEW k \in Key, NEW v \in Value, FindEntry(k) = {}
    PROVE  /\ LaidOut(Append(k, v), capacity)
           /\ Entries(Append(k, v)) = With(Entries(table), k, v)
           /\ With(Entries(table), k, v) = Entries(table) \cup {[key |-> k, value |-> v]}
           /\ [key |-> k, value |-> v] \notin Entries(table)
<1> DEFINE new == [key |-> k, value |-> v]
           i == Index(k, capacity)
           u == Append(k, v)
<1>1. new \in Entry /\ new.key = k
  BY DEF Entry
<1>2. i \in Buckets(capacity)
  BY IndexInRange DEF IInv, LaidOut, Usable
<1>3. table \in [Buckets(capacity) -> SUBSET Entry]
  BY DEF IInv, LaidOut
<1>4. /\ u \in [Buckets(capacity) -> SUBSET Entry]
      /\ u[i] = table[i] \cup {new}
      /\ \A b \in Buckets(capacity) : b # i => u[b] = table[b]
  BY <1>1, <1>2, <1>3 DEF Append
<1>5. \A e \in table[i] : e.key # k
  BY DEF FindEntry
<1>6. \A e \in Entries(table) : e.key # k
  BY SearchIsComplete
<1> HIDE DEF new, i, u
<1>7. u[i] = Without(table[i], k) \cup {new}
  BY <1>4, <1>5 DEF Without
<1>8. /\ LaidOut(u, capacity)
      /\ Entries(u) = Without(Entries(table), k) \cup {new}
  <2>1. Replaced(table, u, capacity, k, {new})
    BY <1>1, <1>4, <1>7 DEF Replaced, i, IInv, Usable
  <2> QED BY <2>1, BucketReplaced
<1> QED BY <1>1, <1>6, <1>8 DEF With, Without, new, u

LEMMA InsertUpdatesEffect ==
    ASSUME IInv, NEW k \in Key, NEW v \in Value, InsertUpdates(k, v)
    PROVE  /\ LaidOut(table', capacity')
           /\ Entries(table)' = With(Entries(table), k, v)
           /\ \E d \in Entries(table) : d.key = k
           /\ size' = size /\ capacity' = capacity
<1> DEFINE new == [key |-> k, value |-> v]
           i == Index(k, capacity)
<1>1. new \in Entry /\ new.key = k
  BY DEF Entry
<1>2. Usable /\ i \in Buckets(capacity)
  BY IndexInRange DEF IInv, LaidOut, Usable, InsertUpdates
<1>3. table \in [Buckets(capacity) -> SUBSET Entry]
  BY DEF IInv, LaidOut
<1>4. /\ table' \in [Buckets(capacity) -> SUBSET Entry]
      /\ table'[i] = (table[i] \ FindEntry(k)) \cup {new}
      /\ \A b \in Buckets(capacity) : b # i => table'[b] = table[b]
  BY <1>1, <1>2, <1>3 DEF InsertUpdates
<1>5. table[i] \ FindEntry(k) = Without(table[i], k)
  BY DEF FindEntry, Without
<1>6. \E d \in Entries(table) : d.key = k
  BY <1>2, FoundOnce DEF InsertUpdates
<1>7. size' = size /\ capacity' = capacity
  BY DEF InsertUpdates
<1> HIDE DEF new, i
<1>8. /\ LaidOut(table', capacity)
      /\ Entries(table') = Without(Entries(table), k) \cup {new}
  <2>1. Replaced(table, table', capacity, k, {new})
    BY <1>1, <1>2, <1>4, <1>5 DEF Replaced, i, IInv, Usable
  <2> QED BY <2>1, BucketReplaced
<1>9. Entries(table)' = Entries(table')
  BY DEF Entries
<1> QED BY <1>6, <1>7, <1>8, <1>9 DEF With, new

LEMMA RemoveEffect ==
    ASSUME IInv, NEW k \in Key, Remove(k)
    PROVE  /\ LaidOut(table', capacity')
           /\ Entries(table)' = Without(Entries(table), k)
           /\ FindEntry(k) = {e \in Entries(table) : e.key = k}
           /\ capacity' = capacity
<1> DEFINE i == Index(k, capacity)
<1>1. Usable /\ i \in Buckets(capacity)
  BY IndexInRange DEF IInv, LaidOut, Usable, Remove
<1>2. table \in [Buckets(capacity) -> SUBSET Entry]
  BY DEF IInv, LaidOut
<1>3. /\ table' \in [Buckets(capacity) -> SUBSET Entry]
      /\ table'[i] = table[i] \ FindEntry(k)
      /\ \A b \in Buckets(capacity) : b # i => table'[b] = table[b]
  BY <1>1, <1>2 DEF Remove
<1>4. table'[i] = Without(table[i], k) \cup {}
  BY <1>3 DEF FindEntry, Without
<1>5. capacity' = capacity
  BY DEF Remove
<1> HIDE DEF i
<1>6. /\ LaidOut(table', capacity)
      /\ Entries(table') = Without(Entries(table), k) \cup {}
  <2>1. Replaced(table, table', capacity, k, {})
    BY <1>1, <1>3, <1>4 DEF Replaced, i, IInv, Usable
  <2> QED BY <2>1, BucketReplaced
<1>7. Entries(table)' = Entries(table')
  BY DEF Entries
<1> QED BY <1>1, <1>5, <1>6, <1>7, SearchIsComplete DEF Without

\* Rehash, called by the client or by Insert.
LEMMA AdoptEffect ==
    ASSUME NEW t, Entries(t) \subseteq Entry,
           NEW n \in Nat, NEW count \in Nat, Adopt(t, n, count)
    PROVE  /\ LaidOut(table', capacity')
           /\ Entries(table)' = Entries(t)
           /\ capacity' > 0 /\ capacity' >= count
           /\ ~Overfull(n, capacity')
<1> DEFINE cap == NewCapacity(count, n)
<1>1. cap \in Nat /\ cap > 0 /\ cap >= count /\ ~Overfull(n, cap)
  BY CapacityFits
<1>2. capacity' = cap /\ table' = Moved(t, cap)
  BY DEF Adopt
<1> HIDE DEF cap
<1>3. LaidOut(table', cap) /\ Entries(table') = Entries(t)
  BY <1>1, <1>2, MovedIsLaidOut
<1>4. Entries(table)' = Entries(table')
  BY DEF Entries
<1> QED BY <1>1, <1>2, <1>3, <1>4

LEMMA InsertNewEffect ==
    ASSUME IInv, NEW k \in Key, NEW v \in Value, InsertNew(k, v)
    PROVE  /\ LaidOut(table', capacity')
           /\ Entries(table)' = With(Entries(table), k, v)
           /\ With(Entries(table), k, v) = Entries(table) \cup {[key |-> k, value |-> v]}
           /\ [key |-> k, value |-> v] \notin Entries(table)
           /\ size' = size + 1
           /\ ~Overfull(size', capacity')
<1> DEFINE t == Append(k, v)
<1>0. size \in Nat /\ capacity \in Nat
  BY FS_CardinalityType DEF IInv, LaidOut
<1>1. Usable /\ FindEntry(k) = {} /\ size' = size + 1
  BY DEF InsertNew
<1>2. /\ LaidOut(t, capacity)
      /\ Entries(t) = With(Entries(table), k, v)
      /\ With(Entries(table), k, v) = Entries(table) \cup {[key |-> k, value |-> v]}
      /\ [key |-> k, value |-> v] \notin Entries(table)
  BY <1>1, AppendAddsEntry
<1>3. CASE Overfull(size + 1, capacity)
  <2>1. Adopt(t, size + 1, 2 * capacity)
    BY <1>3 DEF InsertNew
  <2>2. Entries(t) \subseteq Entry
    BY <1>2, EntriesAre
  <2> HIDE DEF t
  <2>3. /\ LaidOut(table', capacity')
        /\ Entries(table)' = Entries(t)
        /\ ~Overfull(size + 1, capacity')
    BY <1>0, <2>1, <2>2, AdoptEffect
  <2> QED BY <1>1, <1>2, <2>3
<1>4. CASE ~Overfull(size + 1, capacity)
  <2>1. table' = t /\ capacity' = capacity
    BY <1>4 DEF InsertNew
  <2>2. Entries(table)' = Entries(table')
    BY DEF Entries
  <2> QED BY <1>1, <1>2, <1>4, <2>1, <2>2
<1> QED BY <1>3, <1>4

LEMMA InsertGrowthFailsEffect ==
    ASSUME IInv, NEW k \in Key, NEW v \in Value, InsertGrowthFails(k, v)
    PROVE  /\ LaidOut(table', capacity')
           /\ Entries(table)' = With(Entries(table), k, v)
           /\ With(Entries(table), k, v) = Entries(table) \cup {[key |-> k, value |-> v]}
           /\ [key |-> k, value |-> v] \notin Entries(table)
           /\ size' = size + 1
<1>1. /\ Usable /\ FindEntry(k) = {} /\ size' = size + 1
      /\ table' = Append(k, v) /\ capacity' = capacity
  BY DEF InsertGrowthFails
<1>2. Entries(table)' = Entries(table')
  BY DEF Entries
<1> QED BY <1>1, <1>2, AppendAddsEntry

LEMMA RehashEffect ==
    ASSUME IInv, NEW count \in Capacities, Rehash(count)
    PROVE  /\ LaidOut(table', capacity')
           /\ Entries(table)' = Entries(table)
           /\ size' = size
           /\ capacity' > 0 /\ capacity' >= count
           /\ ~Overfull(size', capacity')
<1>1. size \in Nat /\ Entries(table) \subseteq Entry
  BY FS_CardinalityType, EntriesAre DEF IInv
<1>2. Adopt(table, size, count) /\ size' = size
  BY DEF Rehash
<1>3. count \in Nat
  BY TableAssumption
<1> QED BY <1>1, <1>2, <1>3, AdoptEffect

-----------------------------------------------------------------------------
(* IInv is inductive. *)

LEMMA GivenAValue ==
    ASSUME NEW E \in SUBSET Entry, KeysOnce(E), NEW k \in Key, NEW v \in Value
    PROVE  With(E, k, v) \subseteq Entry /\ KeysOnce(With(E, k, v))
<1> DEFINE new == [key |-> k, value |-> v]
<1>1. new \in Entry /\ new.key = k
  BY DEF Entry
<1> HIDE DEF new
<1> QED BY <1>1 DEF With, Without, KeysOnce, new

\* A new entry is one more.
LEMMA OneMore ==
    ASSUME NEW E, IsFiniteSet(E), NEW e, e \notin E
    PROVE  /\ IsFiniteSet(E \cup {e})
           /\ Cardinality(E \cup {e}) = Cardinality(E) + 1
BY FS_AddElement

\* Without a key that has an entry there is one less.
LEMMA OneLess ==
    ASSUME NEW E, IsFiniteSet(E), KeysOnce(E), NEW d \in E
    PROVE  /\ Without(E, d.key) = E \ {d}
           /\ IsFiniteSet(E \ {d})
           /\ Cardinality(E \ {d}) = Cardinality(E) - 1
<1>1. Without(E, d.key) = E \ {d}
  BY DEF Without, KeysOnce
<1> QED BY <1>1, FS_RemoveElement

\* An update leaves as many entries as there were.
LEMMA UpdateCountsTheSame ==
    ASSUME NEW E, IsFiniteSet(E), KeysOnce(E), NEW d \in E, NEW v
    PROVE  /\ IsFiniteSet(With(E, d.key, v))
           /\ Cardinality(With(E, d.key, v)) = Cardinality(E)
<1> DEFINE new == [key |-> d.key, value |-> v]
<1>1. /\ IsFiniteSet(Without(E, d.key))
      /\ Cardinality(Without(E, d.key)) = Cardinality(E) - 1
  BY OneLess
<1>2. new \notin Without(E, d.key)
  BY DEF Without
<1>3. With(E, d.key, v) = Without(E, d.key) \cup {new}
  BY DEF With
<1> HIDE DEF new
<1>4. /\ IsFiniteSet(With(E, d.key, v))
      /\ Cardinality(With(E, d.key, v)) = Cardinality(E) - 1 + 1
  BY <1>1, <1>2, <1>3, OneMore
<1>5. Cardinality(E) \in Nat
  BY FS_CardinalityType
<1> QED BY <1>4, <1>5

LEMMA InitInvariant == Init => IInv
<1> SUFFICES ASSUME Init PROVE IInv
  OBVIOUS
<1>1. capacity \in Nat
  BY TableAssumption DEF Init
<1>2. table = Empty(capacity) /\ size = 0
  BY DEF Init
<1>3. LaidOut(table, capacity) /\ Entries(table) = {}
  BY <1>1, <1>2, EmptyIsLaidOut
<1>4. IsFiniteSet({}) /\ Cardinality({}) = 0
  BY FS_EmptySet
<1> QED BY <1>2, <1>3, <1>4 DEF IInv, KeysOnce

LEMMA InsertUpdatesStep ==
    ASSUME IInv, NEW k \in Key, NEW v \in Value, InsertUpdates(k, v)
    PROVE  IInv'
<1> DEFINE E == Entries(table)
<1>1. /\ E \subseteq Entry /\ KeysOnce(E) /\ IsFiniteSet(E)
      /\ size = Cardinality(E)
  BY EntriesAre DEF IInv
<1>2. /\ LaidOut(table', capacity') /\ Entries(table)' = With(E, k, v)
      /\ size' = size
  BY InsertUpdatesEffect
<1>3. PICK d \in E : d.key = k
  BY InsertUpdatesEffect
<1> HIDE DEF E
<1>4. KeysOnce(With(E, k, v))
  BY <1>1, GivenAValue
<1>5. IsFiniteSet(With(E, k, v)) /\ Cardinality(With(E, k, v)) = Cardinality(E)
  BY <1>1, <1>3, UpdateCountsTheSame
<1> QED BY <1>1, <1>2, <1>4, <1>5 DEF IInv

\* Both ways an Insert of a new key stores it.
LEMMA StoresOneMore ==
    ASSUME IInv, NEW k \in Key, NEW v \in Value,
           LaidOut(table', capacity'),
           Entries(table)' = With(Entries(table), k, v),
           With(Entries(table), k, v) = Entries(table) \cup {[key |-> k, value |-> v]},
           [key |-> k, value |-> v] \notin Entries(table),
           size' = size + 1
    PROVE  IInv'
<1> DEFINE E == Entries(table)
           new == [key |-> k, value |-> v]
<1>1. /\ E \subseteq Entry /\ KeysOnce(E) /\ IsFiniteSet(E)
      /\ size = Cardinality(E)
  BY EntriesAre DEF IInv
<1>2. With(E, k, v) = E \cup {new} /\ new \notin E /\ Entries(table)' = With(E, k, v)
  OBVIOUS
<1> HIDE DEF E, new
<1>3. KeysOnce(With(E, k, v))
  BY <1>1, GivenAValue
<1>4. /\ IsFiniteSet(With(E, k, v))
      /\ Cardinality(With(E, k, v)) = Cardinality(E) + 1
  BY <1>1, <1>2, OneMore
<1> QED BY <1>1, <1>2, <1>3, <1>4 DEF IInv

LEMMA RemoveStep == ASSUME IInv, NEW k \in Key, Remove(k) PROVE IInv'
<1> DEFINE E == Entries(table)
<1>1. KeysOnce(E) /\ IsFiniteSet(E) /\ size = Cardinality(E)
  BY DEF IInv
<1>2. /\ LaidOut(table', capacity') /\ Entries(table)' = Without(E, k)
      /\ FindEntry(k) = {e \in E : e.key = k}
  BY RemoveEffect
<1>3. size' = IF FindEntry(k) = {} THEN size ELSE size - 1
  BY DEF Remove
<1> HIDE DEF E
<1>4. KeysOnce(Without(E, k))
  BY <1>1 DEF KeysOnce, Without
<1>5. CASE FindEntry(k) = {}
  <2>1. Without(E, k) = E
    BY <1>2, <1>5 DEF Without
  <2> QED BY <1>1, <1>2, <1>3, <1>5, <2>1 DEF IInv
<1>6. CASE FindEntry(k) # {}
  <2>1. PICK d \in E : d.key = k
    BY <1>2, <1>6
  <2>2. /\ IsFiniteSet(Without(E, k))
        /\ Cardinality(Without(E, k)) = Cardinality(E) - 1
    BY <1>1, <2>1, OneLess
  <2> QED BY <1>1, <1>2, <1>3, <1>4, <1>6, <2>2 DEF IInv
<1> QED BY <1>5, <1>6

LEMMA StepInvariant == IInv /\ [Next]_vars => IInv'
<1> SUFFICES ASSUME IInv, [Next]_vars PROVE IInv'
  OBVIOUS
<1>1. ASSUME NEW k \in Key, NEW v \in Value, InsertUpdates(k, v) PROVE IInv'
  BY <1>1, InsertUpdatesStep
<1>2. ASSUME NEW k \in Key, NEW v \in Value, InsertNew(k, v) PROVE IInv'
  BY <1>2, InsertNewEffect, StoresOneMore
<1>3. ASSUME NEW k \in Key, NEW v \in Value, InsertGrowthFails(k, v) PROVE IInv'
  BY <1>3, InsertGrowthFailsEffect, StoresOneMore
<1>4. ASSUME NEW k \in Key, Remove(k) PROVE IInv'
  BY <1>4, RemoveStep
<1>5. ASSUME NEW count \in Capacities, Rehash(count) PROVE IInv'
  BY <1>5, RehashEffect DEF IInv
<1>6. ASSUME UNCHANGED <<table, size, capacity>> PROVE IInv'
  BY <1>6 DEF IInv, LaidOut, Entries, KeysOnce
<1> QED BY <1>1, <1>2, <1>3, <1>4, <1>5, <1>6
      DEF Next, vars, InsertFails, Find, RehashFails

\* The inductive invariant holds in every reachable state.
THEOREM Invariance == Spec => []IInv
<1>1. Init => IInv
  BY InitInvariant
<1>2. IInv /\ [Next]_vars => IInv'
  BY StepInvariant
<1> QED BY <1>1, <1>2, PTL DEF Spec

\* The table is laid out as looking a key up relies on, for every hash
\* function and every capacity the client may ask for (hash_table.h:85-137).
THEOREM TableLaidOut == Spec => []Layout
<1>1. IInv => Layout
  <2> SUFFICES ASSUME IInv PROVE Layout
    OBVIOUS
  <2>1. size \in Nat
    BY FS_CardinalityType DEF IInv
  <2> QED BY <2>1 DEF IInv, Layout, LaidOut, KeysOnce
<1> QED BY <1>1, Invariance, PTL

-----------------------------------------------------------------------------
(* The load factor and the statistic. *)

\* What a Rehash that returned has left behind.
RehashKeepsLoad ==
    \A count \in Capacities :
      answer = [call |-> <<"rehash", count>>, what |-> "returned"]
        => capacity > 0 /\ capacity >= count /\ ~Overfull(size, capacity)

LEMMA RehashKeepsLoadInit == Init => RehashKeepsLoad
<1>1. ASSUME NEW count, answer = [call |-> <<>>, what |-> Absent],
             answer = [call |-> <<"rehash", count>>, what |-> "returned"]
      PROVE  FALSE
  <2>1. answer.call = <<>> /\ answer.call = <<"rehash", count>>
    BY <1>1
  <2> QED BY <2>1
<1> QED BY <1>1 DEF Init, RehashKeepsLoad

\* The answer of another call is not that of a Rehash that returned.
LEMMA RehashKeepsLoadStep == IInv /\ RehashKeepsLoad /\ [Next]_vars => RehashKeepsLoad'
<1> SUFFICES ASSUME IInv, RehashKeepsLoad, [Next]_vars,
                    NEW count \in Capacities,
                    answer' = [call |-> <<"rehash", count>>, what |-> "returned"]
             PROVE  capacity' > 0 /\ capacity' >= count /\ ~Overfull(size', capacity')
  BY DEF RehashKeepsLoad
<1>0. answer'.call = <<"rehash", count>> /\ answer'.what = "returned"
  OBVIOUS
<1>1. ASSUME NEW k \in Key, NEW v \in Value,
             \/ InsertUpdates(k, v) \/ InsertNew(k, v)
             \/ InsertGrowthFails(k, v) \/ InsertFails(k, v)
      PROVE  FALSE
  <2>1. answer'.call = <<"insert", k, v>>
    BY <1>1 DEF InsertUpdates, InsertNew, InsertGrowthFails, InsertFails, Said
  <2> QED BY <1>0, <2>1
<1>2. ASSUME NEW k \in Key, Find(k) \/ Remove(k) PROVE FALSE
  <2>1. answer'.call = <<"find", k>> \/ answer'.call = <<"remove", k>>
    BY <1>2 DEF Find, Remove, Said
  <2> QED BY <1>0, <2>1
<1>3. ASSUME NEW c \in Capacities, Rehash(c)
      PROVE  capacity' > 0 /\ capacity' >= count /\ ~Overfull(size', capacity')
  <2>1. answer'.call = <<"rehash", c>>
    BY <1>3 DEF Rehash, Said
  <2>2. c = count
    BY <1>0, <2>1
  <2> QED BY <1>3, <2>2, RehashEffect
<1>4. ASSUME NEW c \in Capacities, RehashFails(c) PROVE FALSE
  <2>1. answer'.what = "threw"
    BY <1>4 DEF RehashFails, Said
  <2> QED BY <1>0, <2>1
<1>5. CASE UNCHANGED vars
  BY <1>5 DEF vars, RehashKeepsLoad
<1> QED BY <1>1, <1>2, <1>3, <1>4, <1>5 DEF Next

\* A set of numbers with a bound has a greatest one.
LEMMA MaxOf ==
  ASSUME NEW S \in SUBSET Nat, NEW n \in Nat, S # {}, \A x \in S : x <= n
  PROVE  Max(S) \in S /\ \A x \in S : x <= Max(S)
<1> DEFINE T == {x .. n : x \in S}
           U == 0 .. n
<1>1. T \subseteq SUBSET U /\ T # {}
  <2>1. \A x \in S : x .. n \subseteq U
    OBVIOUS
  <2> QED BY <2>1
<1>2. IsFiniteSet(U)
  BY FS_Interval
<1> HIDE DEF T, U
<1>3. FiniteSubsetsOf(U) = SUBSET U
  BY <1>2, FS_FiniteSubsetsOfFinite
<1>4. IsWellFoundedOn(StrictSubsetOrdering(U), SUBSET U)
  BY <1>3, FS_StrictSubsetOrderingWellFounded
<1>5. PICK t \in T : \A u \in T : ~(<<u, t>> \in StrictSubsetOrdering(U))
  BY <1>1, <1>4, WFMin
<1>6. \A u \in T : u \subseteq t => u = t
  BY <1>1, <1>5 DEF StrictSubsetOrdering
<1>7. PICK x \in S : t = x .. n
  BY DEF T
<1>8. ASSUME NEW y \in S PROVE x >= y
  <2>1. SUFFICES ASSUME y > x PROVE FALSE
    OBVIOUS
  <2>2. y .. n \in T
    BY DEF T
  <2>3. y .. n \subseteq t
    BY <2>1, <1>7
  <2>4. x \in t /\ x \notin y .. n
    BY <2>1, <1>7
  <2> QED BY <2>2, <2>3, <2>4, <1>6
<1> QED BY <1>8 DEF Max

\* The longest bucket is a bucket, and every bucket is a set of entries.
LEMMA LongestBucket ==
    ASSUME IInv
    PROVE  LET longest == GetStatistic.longest
           IN  longest <= size /\ (longest = 0 <=> size = 0)
<1> DEFINE E == Entries(table)
           Lengths == {Cardinality(table[b]) : b \in DOMAIN table}
<1>1. IsFiniteSet(E) /\ size = Cardinality(E) /\ size \in Nat
  BY FS_CardinalityType DEF IInv
<1>2. DOMAIN table = Buckets(capacity) /\ capacity \in Nat
  BY DEF IInv, LaidOut
<1>3. CASE capacity = 0
  <2>1. E = {}
    BY <1>2, <1>3 DEF Entries, Buckets
  <2>2. size = 0
    BY <1>1, <2>1, FS_EmptySet
  <2> QED BY <1>3, <2>2 DEF GetStatistic
<1>4. CASE capacity # 0
  <2>1. \A b \in DOMAIN table :
          /\ IsFiniteSet(table[b]) /\ table[b] \subseteq E
          /\ Cardinality(table[b]) \in Nat /\ Cardinality(table[b]) <= size
    <3>1. ASSUME NEW b \in DOMAIN table
          PROVE  /\ IsFiniteSet(table[b]) /\ table[b] \subseteq E
                 /\ Cardinality(table[b]) \in Nat /\ Cardinality(table[b]) <= size
      <4>1. table[b] \subseteq E
        BY DEF Entries
      <4> HIDE DEF E
      <4> QED BY <4>1, <1>1, FS_Subset, FS_CardinalityType
    <3> QED BY <3>1
  <2>2. 0 \in DOMAIN table
    BY <1>2, <1>4 DEF Buckets
  <2>3. /\ Lengths \in SUBSET Nat /\ Lengths # {}
        /\ \A x \in Lengths : x <= size
    BY <2>1, <2>2
  <2> HIDE DEF Lengths
  <2>4. Max(Lengths) \in Lengths /\ \A x \in Lengths : x <= Max(Lengths)
    BY <1>1, <2>3, MaxOf
  <2>5. ASSUME Max(Lengths) = 0 PROVE size = 0
    <3>1. \A b \in DOMAIN table : Cardinality(table[b]) = 0
      <4>1. ASSUME NEW b \in DOMAIN table PROVE Cardinality(table[b]) = 0
        <5>1. Cardinality(table[b]) \in Lengths
          BY DEF Lengths
        <5> QED BY <5>1, <2>1, <2>4, <2>5
      <4> QED BY <4>1
    <3>2. \A b \in DOMAIN table : table[b] = {}
      BY <3>1, <2>1, FS_EmptySet
    <3>3. E = {}
      BY <3>2 DEF Entries
    <3> QED BY <3>3, <1>1, FS_EmptySet
  <2>6. Max(Lengths) <= size /\ Max(Lengths) \in Nat
    BY <2>3, <2>4
  <2>7. GetStatistic.longest = Max(Lengths)
    BY <1>4 DEF GetStatistic, Lengths
  <2> QED BY <1>1, <2>5, <2>6, <2>7
<1> QED BY <1>3, <1>4

\* A Rehash that returns leaves enough buckets, and the statistic fits the
\* entries (hash_table.h:72-73, 123).
THEOREM LoadFits == Spec => []LoadBounded
<1>1. Init => IInv /\ RehashKeepsLoad
  BY InitInvariant, RehashKeepsLoadInit
<1>2. IInv /\ RehashKeepsLoad /\ [Next]_vars => (IInv /\ RehashKeepsLoad)'
  BY StepInvariant, RehashKeepsLoadStep
<1>3. IInv /\ RehashKeepsLoad => LoadBounded
  <2> SUFFICES ASSUME IInv, RehashKeepsLoad PROVE LoadBounded
    OBVIOUS
  <2>1. LET longest == GetStatistic.longest
        IN  longest <= size /\ (longest = 0 <=> size = 0)
    BY LongestBucket
  <2>2. ASSUME NEW count \in Capacities,
               answer = [call |-> <<"rehash", count>>, what |-> "returned"]
        PROVE  /\ capacity > 0 /\ capacity >= count
               /\ ~Overfull(GetStatistic.load[1], GetStatistic.load[2])
    <3>1. capacity > 0 /\ capacity >= count /\ ~Overfull(size, capacity)
      BY <2>2 DEF RehashKeepsLoad
    <3>2. GetStatistic.load = <<size, capacity>>
      BY <3>1 DEF GetStatistic
    <3> QED BY <3>1, <3>2
  <2> QED BY <2>1, <2>2 DEF LoadBounded
<1> QED BY <1>1, <1>2, <1>3, PTL DEF Spec

\* An Insert that stores a key and returns leaves the load factor at most
\* 0.75, whatever growth failed before it (hash_table.h:92-97).
THEOREM GrowthIsEnough == Spec => GrowthCatchesUp
<1>1. IInv /\ [Next]_vars =>
        [size' > size /\ answer'.what = "returned" => ~Overfull(size', capacity')]_vars
  <2> SUFFICES ASSUME IInv, Next, size' > size, answer'.what = "returned"
               PROVE  ~Overfull(size', capacity')
    OBVIOUS
  <2>0. size \in Nat
    BY FS_CardinalityType DEF IInv
  <2>1. ASSUME NEW k \in Key, NEW v \in Value, InsertNew(k, v)
        PROVE  ~Overfull(size', capacity')
    BY <2>1, InsertNewEffect
  <2>2. ASSUME NEW k \in Key, NEW v \in Value, InsertGrowthFails(k, v) PROVE FALSE
    <3>1. answer'.what = "threw"
      BY <2>2 DEF InsertGrowthFails, Said
    <3> QED BY <3>1
  <2>3. ASSUME NEW k \in Key, Remove(k) PROVE FALSE
    BY <2>0, <2>3 DEF Remove
  <2>4. ASSUME size' = size PROVE FALSE
    BY <2>0, <2>4
  <2> QED BY <2>1, <2>2, <2>3, <2>4
        DEF Next, InsertUpdates, InsertFails, Find, Rehash, RehashFails
<1> QED BY <1>1, Invariance, PTL DEF Spec, GrowthCatchesUp

-----------------------------------------------------------------------------
(* The table implements the map of its entries. *)

LEMMA ValueOfEntry ==
    ASSUME NEW E \in SUBSET Entry, KeysOnce(E), NEW d \in E
    PROVE  d.key \in Key /\ d.value \in Value /\ MapOf(E)[d.key] = d.value
<1>1. d.key \in Key /\ d.value \in Value
  BY DEF Entry
<1>2. (CHOOSE e \in E : e.key = d.key) = d
  BY DEF KeysOnce
<1>3. MapOf(E)[d.key] = (CHOOSE e \in E : e.key = d.key).value
  BY <1>1 DEF MapOf
<1> QED BY <1>1, <1>2, <1>3

LEMMA NoEntryNoValue ==
    ASSUME NEW E, NEW k \in Key, \A e \in E : e.key # k
    PROVE  MapOf(E)[k] = Absent
BY DEF MapOf

LEMMA MapOfWith ==
    ASSUME NEW E \in SUBSET Entry, KeysOnce(E), NEW k \in Key, NEW v \in Value
    PROVE  MapOf(With(E, k, v)) = [MapOf(E) EXCEPT ![k] = v]
<1> DEFINE F == With(E, k, v)
           new == [key |-> k, value |-> v]
<1>1. F \in SUBSET Entry /\ KeysOnce(F)
  BY GivenAValue
<1>2. new \in F /\ new.key = k /\ new.value = v
  BY DEF With
<1>3. \A e : e.key # k => (e \in F <=> e \in E)
  BY DEF With, Without
<1> HIDE DEF F, new
<1>4. MapOf(F)[k] = v
  BY <1>1, <1>2, ValueOfEntry
<1>5. ASSUME NEW j \in Key, j # k PROVE MapOf(F)[j] = MapOf(E)[j]
  <2>1. CASE \E e \in E : e.key = j
    <3>1. PICK e \in E : e.key = j
      BY <2>1
    <3>2. e \in F
      BY <3>1, <1>3, <1>5
    <3> QED BY <3>1, <3>2, <1>1, ValueOfEntry
  <2>2. CASE \A e \in E : e.key # j
    <3>1. \A e \in F : e.key # j
      BY <2>2, <1>3, <1>5
    <3> QED BY <3>1, <2>2, NoEntryNoValue
  <2> QED BY <2>1, <2>2
<1>6. DOMAIN MapOf(E) = Key /\ MapOf(F) = [j \in Key |-> MapOf(F)[j]]
  BY DEF MapOf
<1>7. MapOf(F) = [MapOf(E) EXCEPT ![k] = v]
  BY <1>4, <1>5, <1>6
<1> QED BY <1>7 DEF F

LEMMA MapOfWithout ==
    ASSUME NEW E \in SUBSET Entry, KeysOnce(E), NEW k \in Key
    PROVE  MapOf(Without(E, k)) = [MapOf(E) EXCEPT ![k] = Absent]
<1> DEFINE F == Without(E, k)
<1>1. F \in SUBSET Entry /\ KeysOnce(F)
  BY DEF KeysOnce, Without
<1>2. \A e : e \in F <=> e \in E /\ e.key # k
  BY DEF Without
<1> HIDE DEF F
<1>3. MapOf(F)[k] = Absent
  BY <1>2, NoEntryNoValue
<1>4. ASSUME NEW j \in Key, j # k PROVE MapOf(F)[j] = MapOf(E)[j]
  <2>1. CASE \E e \in E : e.key = j
    <3>1. PICK e \in E : e.key = j
      BY <2>1
    <3>2. e \in F
      BY <3>1, <1>2, <1>4
    <3> QED BY <3>1, <3>2, <1>1, ValueOfEntry
  <2>2. CASE \A e \in E : e.key # j
    <3>1. \A e \in F : e.key # j
      BY <2>2, <1>2
    <3> QED BY <3>1, <2>2, NoEntryNoValue
  <2> QED BY <2>1, <2>2
<1>5. DOMAIN MapOf(E) = Key /\ MapOf(F) = [j \in Key |-> MapOf(F)[j]]
  BY DEF MapOf
<1>6. MapOf(F) = [MapOf(E) EXCEPT ![k] = Absent]
  BY <1>3, <1>4, <1>5
<1> QED BY <1>6 DEF F

\* The map that KeyMap is given, before and after a step.
TheMap == MapOf(Entries(table))

\* Both ways an Insert ends that has given the key its value.
LEMMA MapIsGivenValue ==
    ASSUME IInv, NEW k \in Key, NEW v \in Value,
           Entries(table)' = With(Entries(table), k, v)
    PROVE  TheMap' = [TheMap EXCEPT ![k] = v]
<1>1. Entries(table) \in SUBSET Entry /\ KeysOnce(Entries(table))
  BY EntriesAre DEF IInv
<1>2. MapOf(With(Entries(table), k, v)) = [MapOf(Entries(table)) EXCEPT ![k] = v]
  BY <1>1, MapOfWith
<1>3. TheMap' = MapOf(Entries(table)')
  BY DEF TheMap, MapOf
<1> QED BY <1>2, <1>3 DEF TheMap

LEMMA FindAnswers ==
    ASSUME IInv, NEW k \in Key, Find(k)
    PROVE  Said(<<"find", k>>, TheMap[k])
<1> DEFINE E == Entries(table)
<1>1. Usable /\ E \in SUBSET Entry /\ KeysOnce(E)
  BY EntriesAre DEF IInv, Find
<1>2. FindEntry(k) = {e \in E : e.key = k}
  BY <1>1, SearchIsComplete
<1>3. CASE FindEntry(k) = {}
  <2>1. TheMap[k] = Absent
    BY <1>2, <1>3, NoEntryNoValue DEF TheMap
  <2> QED BY <1>3, <2>1 DEF Find
<1>4. CASE FindEntry(k) # {}
  <2>1. PICK d \in FindEntry(k) : d = CHOOSE e \in FindEntry(k) : TRUE
    BY <1>4
  <2>2. d \in E /\ d.key = k
    BY <1>2, <2>1
  <2>3. TheMap[k] = d.value
    BY <1>1, <2>2, ValueOfEntry DEF TheMap
  <2> QED BY <1>4, <2>1, <2>3 DEF Find
<1> QED BY <1>3, <1>4

LEMMA RemoveAnswers ==
    ASSUME IInv, NEW k \in Key, Remove(k)
    PROVE  /\ TheMap' = [TheMap EXCEPT ![k] = Absent]
           /\ Said(<<"remove", k>>, IF TheMap[k] = Absent THEN "missing" ELSE "erased")
<1> DEFINE E == Entries(table)
<1>1. E \in SUBSET Entry /\ KeysOnce(E)
  BY EntriesAre DEF IInv
<1>2. Entries(table)' = Without(E, k) /\ FindEntry(k) = {e \in E : e.key = k}
  BY RemoveEffect
<1>3. MapOf(Without(E, k)) = [MapOf(E) EXCEPT ![k] = Absent]
  BY <1>1, MapOfWithout
<1>4. TheMap' = MapOf(Entries(table)')
  BY DEF TheMap, MapOf
<1>5. TheMap[k] = Absent <=> FindEntry(k) = {}
  <2>1. CASE FindEntry(k) = {}
    BY <1>2, <2>1, NoEntryNoValue DEF TheMap
  <2>2. CASE FindEntry(k) # {}
    <3>1. PICK d \in E : d.key = k
      BY <1>2, <2>2
    <3>2. TheMap[k] \in Value
      BY <1>1, <3>1, ValueOfEntry DEF TheMap
    <3> QED BY <2>2, <3>2, TableAssumption
  <2> QED BY <2>1, <2>2
<1> QED BY <1>2, <1>3, <1>4, <1>5 DEF Remove, TheMap

\* Each call is a call of the map.
LEMMA MapStep == IInv /\ [Next]_vars => [Map!Next]_(Map!vars)
<1> SUFFICES ASSUME IInv, [Next]_vars PROVE Map!Next \/ UNCHANGED Map!vars
  OBVIOUS
<1>1. ASSUME NEW k \in Key, NEW v \in Value, InsertUpdates(k, v) \/ InsertNew(k, v)
      PROVE  Map!Insert(k, v)
  <2>1. TheMap' = [TheMap EXCEPT ![k] = v]
    BY <1>1, InsertUpdatesEffect, InsertNewEffect, MapIsGivenValue
  <2>2. Said(<<"insert", k, v>>, "returned")
    BY <1>1 DEF InsertUpdates, InsertNew
  <2> QED BY <2>1, <2>2 DEF Map!Insert, Map!Said, Said, TheMap, MapOf
<1>2. ASSUME NEW k \in Key, NEW v \in Value, InsertGrowthFails(k, v)
      PROVE  Map!InsertThrows(k, v)
  <2>1. TheMap' = [TheMap EXCEPT ![k] = v]
    BY <1>2, InsertGrowthFailsEffect, MapIsGivenValue
  <2>2. Said(<<"insert", k, v>>, "threw")
    BY <1>2 DEF InsertGrowthFails
  <2> QED BY <2>1, <2>2 DEF Map!InsertThrows, Map!Said, Said, TheMap, MapOf
<1>3. ASSUME Entries(table)' = Entries(table) PROVE TheMap' = TheMap
  BY <1>3 DEF TheMap, MapOf
<1>4. ASSUME UNCHANGED table PROVE TheMap' = TheMap
  BY <1>3, <1>4 DEF Entries
<1>5. ASSUME NEW k \in Key, NEW v \in Value, InsertFails(k, v)
      PROVE  Map!InsertThrows(k, v)
  <2>1. TheMap' = TheMap /\ Said(<<"insert", k, v>>, "threw")
    BY <1>4, <1>5 DEF InsertFails
  <2> QED BY <2>1 DEF Map!InsertThrows, Map!Said, Said, TheMap, MapOf
<1>6. ASSUME NEW k \in Key, Find(k) PROVE Map!Find(k)
  <2>1. TheMap' = TheMap
    BY <1>4, <1>6 DEF Find
  <2>2. Said(<<"find", k>>, TheMap[k])
    BY <1>6, FindAnswers
  <2> QED BY <2>1, <2>2 DEF Map!Find, Map!Said, Said, TheMap, MapOf
<1>7. ASSUME NEW k \in Key, Remove(k) PROVE Map!Remove(k)
  <2>1. /\ TheMap' = [TheMap EXCEPT ![k] = Absent]
        /\ Said(<<"remove", k>>, IF TheMap[k] = Absent THEN "missing" ELSE "erased")
    BY <1>7, RemoveAnswers
  <2> QED BY <2>1 DEF Map!Remove, Map!Said, Said, TheMap, MapOf
<1>8. ASSUME NEW count \in Capacities, Rehash(count) PROVE Map!Rehash(count)
  <2>1. TheMap' = TheMap
    BY <1>3, <1>8, RehashEffect
  <2>2. Said(<<"rehash", count>>, "returned")
    BY <1>8 DEF Rehash
  <2> QED BY <2>1, <2>2 DEF Map!Rehash, Map!Said, Said, TheMap, MapOf
<1>9. ASSUME NEW count \in Capacities, RehashFails(count) PROVE Map!Rehash(count)
  <2>1. TheMap' = TheMap /\ Said(<<"rehash", count>>, "threw")
    BY <1>4, <1>9 DEF RehashFails
  <2> QED BY <2>1 DEF Map!Rehash, Map!Said, Said, TheMap, MapOf
<1>10. CASE UNCHANGED vars
  <2>1. TheMap' = TheMap /\ answer' = answer
    BY <1>4, <1>10 DEF vars
  <2> QED BY <2>1 DEF Map!vars, TheMap, MapOf
<1> QED BY <1>1, <1>2, <1>5, <1>6, <1>7, <1>8, <1>9, <1>10 DEF Next, Map!Next

\* Whatever a call does with the buckets and wherever it throws, to the
\* client the table is the map of its entries: growth loses no key, a search
\* finds what was stored last, and only the key of a call that threw may have
\* changed (hash_table.h:67-150).
THEOREM TableIsKeyMap == Spec => ImplementsKeyMap
<1>1. Init => Map!Init
  <2> SUFFICES ASSUME Init PROVE Map!Init
    OBVIOUS
  <2>1. capacity \in Nat /\ table = Empty(capacity)
    BY TableAssumption DEF Init
  <2>2. Entries(table) = {}
    BY <2>1, EmptyIsLaidOut
  <2>3. TheMap = [k \in Key |-> Absent]
    BY <2>2 DEF TheMap, MapOf
  <2> QED BY <2>3 DEF Init, Map!Init, TheMap, MapOf
<1>2. IInv /\ [Next]_vars => [Map!Next]_(Map!vars)
  BY MapStep
<1> QED BY <1>1, <1>2, Invariance, PTL DEF Spec, ImplementsKeyMap, Map!Spec

=============================================================================
