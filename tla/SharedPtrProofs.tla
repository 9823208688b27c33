-------------------------- MODULE SharedPtrProofs --------------------------
(***************************************************************************)
(* Proofs about SharedPtr, for any numbers of objects and of handles, of a *)
(* program whose destructors work on the handles of their own object only  *)
(* (Reentrant = FALSE; without that the run ptr_reentrant_reset refutes    *)
(* them): the counters are the numbers of handles, nothing is freed early, *)
(* twice or never, and no stored pointer dangles.  They hold for programs  *)
(* that lock converted WeakPtrs as well, but for PointersAreRight.         *)
(***************************************************************************)
EXTENDS SharedPtr, FiniteSetTheorems, TLAPS

(* The handles, those being reset apart, that hold the block o.            *)
Blocks           == Objs \cup {Null}
Holders(f, R, o) == {s \in Scopes \ R : f[s] = o}

(* Counters are numbers of handles. *)
Counts(u, f, R) ==
  \A o \in Objs : u[o] = Cardinality(Holders(f, R, o))

(* Only an object between its construction and the end of its destructor's *)
(* body has members that hold anything.                                    *)
HandlesOK(ob, f, p, g) ==
  \A o \in Objs : ob[o] \notin {"alive", "body"} =>
    f[o] = Null /\ p[o] = Null /\ g[o] = Null

(* The states of an object and of its block, by its counters. *)
LivesOK(ob, u, w, b, de) ==
  \A o \in Objs :
    /\ ob[o] \in {"alive", "empty"} <=> u[o] > 0
    /\ b[o] = "live" <=> u[o] > 0 \/ w[o] > 0 \/ de[o]
    /\ ob[o] = "free" => b[o] = "free"

(* A stored pointer is the right part of the object owned, or, after Lock  *)
(* on a converted WeakPtr, the part that the block was made with.          *)
PointsOK(f, p, R, ob, md) ==
  \A s \in Scopes \ R :
    IF f[s] = Null \/ ob[f[s]] = "empty"
      THEN p[s] = Null
      ELSE /\ p[s] # Null
           /\ p[s].to = f[s]
           /\ \/ p[s].part = Type(s)
              \/ LockConverted /\ Type(s) = "base" /\ p[s].part = md[f[s]]

(* A handle to a Node holds a block that was made by one. *)
MadeOK(f, R, md) ==
  \A s \in Scopes \ R : f[s] # Null =>
    md[f[s]] = "node" \/ (Type(s) = "base" /\ md[f[s]] = "base")

(* The unfinished calls. Every object in its destructor has one frame, the *)
(* calls of Release say so by the flag; a Reset was called from the body   *)
(* of the destructor below it, on the member of that object, or from the   *)
(* program at the bottom, on a handle it reaches.                          *)
IsDelete(f)      == f.op # "reset"
Deleting(st, o)  == \E k \in DOMAIN st : IsDelete(st[k]) /\ st[k].at = o
Releasing(st, o) == \E k \in DOMAIN st : st[k].op = "release" /\ st[k].at = o

ResetOK(st, k, ob, roots) ==
  IF k = Len(st)
    THEN st[k].at \in roots
    ELSE /\ IsDelete(st[k + 1]) /\ st[k + 1].at = st[k].at
         /\ ob[st[k].at] = "body"

CallsOK(st, ob, de, roots) ==
  /\ \A o \in Objs : ob[o] \in {"body", "members"} <=> Deleting(st, o)
  /\ \A o \in Objs : de[o] <=> Releasing(st, o)
  /\ \A j, k \in DOMAIN st :
       IsDelete(st[j]) /\ IsDelete(st[k]) /\ st[j].at = st[k].at => j = k
  /\ \A k \in DOMAIN st : st[k].op = "reset" => ResetOK(st, k, ob, roots)

(* The handles the program may start from at the bottom of the stack. *)
Roots == Globals \cup Reachable

IInv ==
  /\ TypeOK
  /\ Counts(use, sp, InReset) /\ Counts(weak, wp, {})
  /\ HandlesOK(obj, sp, ptr, wp)
  /\ LivesOK(obj, use, weak, blk, destroying)
  /\ PointsOK(sp, ptr, InReset, obj, made)
  /\ MadeOK(sp, InReset, made) /\ MadeOK(wp, {}, made)
  /\ CallsOK(stack, obj, destroying, Roots)
  /\ fault = "none"

-----------------------------------------------------------------------------
(* Counting handles.                                                       *)

LEMMA CounterArithmetic ==
  ASSUME NEW n \in 0..Cardinality(Scopes)
  PROVE  /\ Plus(n) = n + 1
         /\ Minus(n + 1) = n
         /\ n > 0 => Minus(n) = n - 1
<1>0. Cardinality(Scopes) \in Nat
  BY PtrAssumption, FS_CardinalityType
<1>1. CountMod \in Nat /\ CountMod > n + 1
  BY <1>0, PtrAssumption
<1>2. \A m \in Nat : m < CountMod => m % CountMod = m /\ (m + CountMod) % CountMod = m
  BY <1>1
<1>3. Plus(n) = n + 1
  BY <1>1, <1>2 DEF Plus
<1>4. (n + 1) + CountMod - 1 = n + CountMod /\ (n > 0 => n + CountMod - 1 = (n - 1) + CountMod)
  BY <1>1
<1> QED BY <1>1, <1>2, <1>3, <1>4 DEF Minus

LEMMA HoldersFinite ==
  ASSUME NEW f, NEW R, NEW o
  PROVE  /\ IsFiniteSet(Holders(f, R, o))
         /\ Cardinality(Holders(f, R, o)) \in 0..Cardinality(Scopes)
<1>1. Holders(f, R, o) \subseteq Scopes
  BY DEF Holders
<1>2. IsFiniteSet(Scopes)
  BY PtrAssumption
<1>3. /\ IsFiniteSet(Holders(f, R, o))
      /\ Cardinality(Holders(f, R, o)) <= Cardinality(Scopes)
  BY <1>1, <1>2, FS_Subset
<1> QED BY <1>2, <1>3, FS_CardinalityType

(* A counter is zero exactly when nobody holds the block. *)
LEMMA CountRange ==
  ASSUME NEW u, NEW f, NEW R, Counts(u, f, R), NEW o \in Objs
  PROVE  /\ u[o] \in 0..Cardinality(Scopes)
         /\ u[o] \in Nat
         /\ \A s \in Scopes \ R : f[s] = o => u[o] > 0
         /\ (\A s \in Scopes \ R : f[s] # o) => u[o] = 0
<1>1. u[o] = Cardinality(Holders(f, R, o)) /\ IsFiniteSet(Holders(f, R, o))
  BY HoldersFinite DEF Counts
<1>2. u[o] \in 0..Cardinality(Scopes) /\ Cardinality(Scopes) \in Nat
  BY <1>1, HoldersFinite, PtrAssumption, FS_CardinalityType
<1>3. u[o] = 0 <=> Holders(f, R, o) = {}
  BY <1>1, FS_EmptySet
<1> QED BY <1>2, <1>3 DEF Holders

(* What AddRef and AddWeak, Release and ReleaseWeak do to a counter. *)
Added(u, c)   == IF c = Null THEN u ELSE [u EXCEPT ![c] = Plus(@)]
Removed(u, c) == IF c = Null THEN u ELSE [u EXCEPT ![c] = Minus(@)]

(* A handle that is given another block: one is counted up, one down. *)
LEMMA CountSwap ==
  ASSUME NEW u \in [Objs -> Nat], NEW f \in [Scopes -> Blocks], NEW R,
         Counts(u, f, R), NEW d \in Scopes \ R, NEW new \in Blocks
  PROVE  /\ Removed(Added(u, new), f[d]) \in [Objs -> Nat]
         /\ Counts(Removed(Added(u, new), f[d]), [f EXCEPT ![d] = new], R)
<1> DEFINE v == Removed(Added(u, new), f[d])
           g == [f EXCEPT ![d] = new]
<1>0. Null \notin Objs
  BY PtrAssumption DEF Scopes
<1>1. ASSUME NEW o \in Objs
      PROVE  v[o] \in Nat /\ v[o] = Cardinality(Holders(g, R, o))
  <2> DEFINE H == Holders(f, R, o)
             G == Holders(g, R, o)
  <2> SUFFICES v[o] \in Nat /\ v[o] = Cardinality(G)
    OBVIOUS
  <2>0. /\ u[o] = Cardinality(H) /\ IsFiniteSet(H)
        /\ u[o] \in 0..Cardinality(Scopes) /\ u[o] \in Nat
    BY HoldersFinite, CountRange DEF Counts
  <2>1. /\ Plus(u[o]) = u[o] + 1 /\ Minus(u[o] + 1) = u[o]
        /\ u[o] > 0 => Minus(u[o]) = u[o] - 1
    BY <2>0, CounterArithmetic
  <2>2. CASE new = o /\ f[d] = o
    <3>1. G = H
      BY <2>2 DEF Holders
    <3>2. v[o] = Minus(Plus(u[o]))
      BY <1>0, <2>2 DEF Added, Removed
    <3> QED BY <2>0, <2>1, <3>1, <3>2
  <2>3. CASE new = o /\ f[d] # o
    <3>1. G = H \cup {d} /\ d \notin H
      BY <2>3 DEF Holders
    <3>2. v[o] = Plus(u[o])
      BY <1>0, <2>3 DEF Added, Removed
    <3> HIDE DEF G, H, v
    <3>3. Cardinality(H \cup {d}) = Cardinality(H) + 1
      BY <2>0, <3>1, FS_AddElement
    <3> QED BY <2>0, <2>1, <3>1, <3>2, <3>3
  <2>4. CASE new # o /\ f[d] = o
    <3>1. G = H \ {d} /\ d \in H
      BY <2>4 DEF Holders
    <3>2. v[o] = Minus(u[o])
      BY <1>0, <2>4 DEF Added, Removed
    <3>3. u[o] > 0
      BY <2>4, CountRange
    <3> HIDE DEF G, H, v
    <3>4. Cardinality(H \ {d}) = Cardinality(H) - 1
      BY <2>0, <3>1, FS_RemoveElement
    <3> QED BY <2>0, <2>1, <3>1, <3>2, <3>3, <3>4
  <2>5. CASE new # o /\ f[d] # o
    <3>1. G = H
      BY <2>5 DEF Holders
    <3>2. v[o] = u[o]
      BY <1>0, <2>5 DEF Added, Removed
    <3> QED BY <2>0, <3>1, <3>2
  <2> QED BY <2>2, <2>3, <2>4, <2>5
<1>2. DOMAIN v = Objs /\ v = [o \in Objs |-> v[o]]
  BY DEF Added, Removed
<1>3. v \in [Objs -> Nat]
  BY <1>1, <1>2
<1> QED BY <1>1, <1>3 DEF Counts

(* Two handles that exchange their blocks. *)
LEMMA CountExchange ==
  ASSUME NEW u, NEW f \in [Scopes -> Blocks], NEW R, Counts(u, f, R),
         NEW d \in Scopes \ R, NEW s \in Scopes \ R
  PROVE  Counts(u, [f EXCEPT ![d] = f[s], ![s] = f[d]], R)
<1> DEFINE g == [f EXCEPT ![d] = f[s], ![s] = f[d]]
<1>0. g[d] = f[s] /\ g[s] = f[d] /\ \A x \in Scopes : x # d /\ x # s => g[x] = f[x]
  OBVIOUS
<1> HIDE DEF g
<1> SUFFICES ASSUME NEW o \in Objs
             PROVE  Cardinality(Holders(g, R, o)) = Cardinality(Holders(f, R, o))
  BY DEF Counts, g
<1> DEFINE H == Holders(f, R, o)
<1>1. IsFiniteSet(H) /\ Cardinality(H) \in Nat
  BY HoldersFinite, FS_CardinalityType
<1>2. CASE (f[d] = o) <=> (f[s] = o)
  BY <1>0, <1>2 DEF Holders
<1>3. ASSUME NEW x \in H, NEW y \in Scopes \ H, Holders(g, R, o) = (H \ {x}) \cup {y}
      PROVE  Cardinality(Holders(g, R, o)) = Cardinality(H)
  <2>1. IsFiniteSet(H \ {x}) /\ Cardinality(H \ {x}) = Cardinality(H) - 1
    BY <1>1, FS_RemoveElement
  <2>2. Cardinality((H \ {x}) \cup {y}) = Cardinality(H \ {x}) + 1
    BY <2>1, FS_AddElement
  <2> QED BY <1>1, <1>3, <2>1, <2>2
<1>4. CASE f[d] = o /\ f[s] # o
  <2>1. d \in H /\ s \in Scopes \ H /\ Holders(g, R, o) = (H \ {d}) \cup {s}
    BY <1>0, <1>4 DEF Holders
  <2> QED BY <1>3, <2>1
<1>5. CASE f[s] = o /\ f[d] # o
  <2>1. s \in H /\ d \in Scopes \ H /\ Holders(g, R, o) = (H \ {s}) \cup {d}
    BY <1>0, <1>5 DEF Holders
  <2> QED BY <1>3, <2>1
<1> QED BY <1>2, <1>4, <1>5

(* Reset gives up its block before it clears the handle. *)
LEMMA CountGiveUp ==
  ASSUME NEW u \in [Objs -> Nat], NEW f \in [Scopes -> Blocks], NEW R,
         Counts(u, f, R), NEW s \in Scopes \ R
  PROVE  /\ Removed(u, f[s]) \in [Objs -> Nat]
         /\ Counts(Removed(u, f[s]), f, R \cup {s})
<1> DEFINE g == [f EXCEPT ![s] = Null]
<1>0. Null \notin Objs /\ Null \in Blocks
  BY PtrAssumption DEF Scopes, Blocks
<1>1. Added(u, Null) = u
  BY DEF Added
<1>2. Removed(u, f[s]) \in [Objs -> Nat] /\ Counts(Removed(u, f[s]), g, R)
  BY <1>0, <1>1, CountSwap
<1>3. \A o \in Objs : Holders(g, R, o) = Holders(f, R \cup {s}, o)
  BY <1>0 DEF Holders
<1> QED BY <1>2, <1>3 DEF Counts

(* It then clears it. *)
LEMMA CountClear ==
  ASSUME NEW u, NEW f \in [Scopes -> Blocks], NEW R, NEW Q, NEW s \in Scopes,
         Counts(u, f, R), s \in R, Q \subseteq R, R \subseteq Q \cup {s}
  PROVE  Counts(u, [f EXCEPT ![s] = Null], Q)
<1>0. Null \notin Objs
  BY PtrAssumption DEF Scopes
<1>1. \A o \in Objs : Holders([f EXCEPT ![s] = Null], Q, o) = Holders(f, R, o)
  BY <1>0 DEF Holders
<1> QED BY <1>1 DEF Counts

-----------------------------------------------------------------------------
(* The stack of unfinished calls.                                          *)

ObjStates == {"free", "alive", "empty", "body", "members", "dead"}

LEMMA PushFacts ==
  ASSUME NEW st \in Seq(Frames), NEW x \in Frames
  PROVE  LET t == <<x>> \o st
         IN  /\ t \in Seq(Frames) /\ t # <<>>
             /\ Len(t) = Len(st) + 1 /\ Len(st) \in Nat
             /\ DOMAIN st = 1..Len(st) /\ DOMAIN t = 1..(Len(st) + 1)
             /\ t[1] = x /\ Head(t) = x
             /\ \A k \in 1..Len(st) : t[k + 1] = st[k]
             /\ \A k \in 2..(Len(st) + 1) : t[k] = st[k - 1] /\ k - 1 \in 1..Len(st)
OBVIOUS

LEMMA PopFacts ==
  ASSUME NEW st \in Seq(Frames), st # <<>>
  PROVE  LET t == Tail(st)
         IN  /\ t \in Seq(Frames) /\ Head(st) = st[1] /\ st[1] \in Frames
             /\ Len(t) = Len(st) - 1 /\ Len(st) \in Nat \ {0}
             /\ DOMAIN st = 1..Len(st) /\ DOMAIN t = 1..(Len(st) - 1)
             /\ \A k \in 1..(Len(st) - 1) : t[k] = st[k + 1]
OBVIOUS

LEMMA PushTwice ==
  ASSUME NEW st \in Seq(Frames), NEW x \in Frames, NEW y \in Frames
  PROVE  /\ <<>> \o st = st
         /\ <<x>> \o <<>> \o st = <<x>> \o st
         /\ <<x>> \o <<y>> \o st = <<x>> \o (<<y>> \o st)
OBVIOUS

(* The scopes that are being reset, and the objects being deleted. *)
Resets(st) == {st[k].at : k \in {j \in DOMAIN st : st[j].op = "reset"}}

LEMMA PushOccurs ==
  ASSUME NEW st \in Seq(Frames), NEW x \in Frames
  PROVE  LET t == <<x>> \o st
         IN  /\ Resets(t) = Resets(st) \cup (IF x.op = "reset" THEN {x.at} ELSE {})
             /\ \A o \in Objs : Deleting(t, o) <=>
                  Deleting(st, o) \/ (IsDelete(x) /\ x.at = o)
             /\ \A o \in Objs : Releasing(t, o) <=>
                  Releasing(st, o) \/ (x.op = "release" /\ x.at = o)
<1> DEFINE t == <<x>> \o st
<1>1. /\ Len(st) \in Nat /\ DOMAIN st = 1..Len(st) /\ DOMAIN t = 1..(Len(st) + 1)
      /\ t[1] = x
      /\ \A k \in 1..Len(st) : t[k + 1] = st[k]
      /\ \A k \in 2..(Len(st) + 1) : t[k] = st[k - 1] /\ k - 1 \in 1..Len(st)
  BY PushFacts
<1> HIDE DEF t
<1>2. \A k \in DOMAIN st : k + 1 \in DOMAIN t /\ t[k + 1] = st[k]
  BY <1>1
<1>3. \A k \in DOMAIN t : k = 1 \/ (k - 1 \in DOMAIN st /\ t[k] = st[k - 1])
  BY <1>1
<1>4. 1 \in DOMAIN t /\ t[1] = x
  BY <1>1
<1>5. Resets(t) = Resets(st) \cup (IF x.op = "reset" THEN {x.at} ELSE {})
  BY <1>2, <1>3, <1>4 DEF Resets
<1>6. \A o \in Objs : Deleting(t, o) <=> Deleting(st, o) \/ (IsDelete(x) /\ x.at = o)
  BY <1>2, <1>3, <1>4 DEF Deleting
<1>7. \A o \in Objs :
        Releasing(t, o) <=> Releasing(st, o) \/ (x.op = "release" /\ x.at = o)
  BY <1>2, <1>3, <1>4 DEF Releasing
<1> QED BY <1>5, <1>6, <1>7 DEF t

LEMMA PopOccurs ==
  ASSUME NEW st \in Seq(Frames), st # <<>>
  PROVE  LET t == Tail(st)
             x == Head(st)
         IN  /\ Resets(t) \subseteq Resets(st)
             /\ Resets(st) = Resets(t) \cup (IF x.op = "reset" THEN {x.at} ELSE {})
             /\ \A o \in Objs : Deleting(st, o) <=>
                  Deleting(t, o) \/ (IsDelete(x) /\ x.at = o)
             /\ \A o \in Objs : Releasing(st, o) <=>
                  Releasing(t, o) \/ (x.op = "release" /\ x.at = o)
<1>1. Tail(st) \in Seq(Frames) /\ Head(st) \in Frames /\ st = <<Head(st)>> \o Tail(st)
  OBVIOUS
<1> QED BY <1>1, PushOccurs

(* DestroyObject begins on an object that is not being destroyed. *)
LEMMA CallsDelete ==
  ASSUME NEW st \in Seq(Frames), NEW ob \in [Objs -> ObjStates],
         NEW de \in [Objs -> BOOLEAN], NEW roots, CallsOK(st, ob, de, roots),
         NEW c \in Objs, ob[c] \notin {"body", "members"},
         NEW by \in {"release", "raw"}, NEW y \in {"body", "members"}
  PROVE  CallsOK(<<DeleteFrame(c, by)>> \o st, [ob EXCEPT ![c] = y],
                 IF by = "release" THEN [de EXCEPT ![c] = TRUE] ELSE de, roots)
<1> DEFINE x == DeleteFrame(c, by)
           t == <<x>> \o st
           obn == [ob EXCEPT ![c] = y]
           den == IF by = "release" THEN [de EXCEPT ![c] = TRUE] ELSE de
<1>0. x \in Frames /\ IsDelete(x) /\ x.at = c /\ x.op = by
  BY DEF Frames, DeleteFrame, IsDelete
<1>1. /\ Len(st) \in Nat /\ DOMAIN st = 1..Len(st) /\ DOMAIN t = 1..(Len(st) + 1)
      /\ t[1] = x /\ Len(t) = Len(st) + 1
      /\ \A k \in 1..Len(st) : t[k + 1] = st[k]
      /\ \A k \in 2..(Len(st) + 1) : t[k] = st[k - 1] /\ k - 1 \in 1..Len(st)
  BY <1>0, PushFacts
<1>2. /\ \A o \in Objs : Deleting(t, o) <=> Deleting(st, o) \/ c = o
      /\ \A o \in Objs : Releasing(t, o) <=> Releasing(st, o) \/ (by = "release" /\ c = o)
  BY <1>0, PushOccurs
<1>3. ~Deleting(st, c)
  BY DEF CallsOK
<1> HIDE DEF t, x
<1>4. \A o \in Objs : obn[o] \in {"body", "members"} <=> Deleting(t, o)
  BY <1>2 DEF CallsOK
<1>5. \A o \in Objs : den[o] <=> Releasing(t, o)
  BY <1>2 DEF CallsOK
<1>6. ASSUME NEW j \in DOMAIN t, NEW k \in DOMAIN t,
             IsDelete(t[j]), IsDelete(t[k]), t[j].at = t[k].at
      PROVE  j = k
  <2>1. \A i \in DOMAIN t : i = 1 \/
          (i \in Nat /\ i - 1 \in DOMAIN st /\ t[i] = st[i - 1])
    BY <1>1
  <2>2. \A i \in DOMAIN st : IsDelete(st[i]) => st[i].at # c
    BY <1>3 DEF Deleting
  <2>3. CASE j = 1 \/ k = 1
    BY <1>0, <1>1, <1>6, <2>1, <2>2, <2>3
  <2>4. CASE j # 1 /\ k # 1
    <3>1. /\ j - 1 \in DOMAIN st /\ k - 1 \in DOMAIN st /\ j \in Nat /\ k \in Nat
          /\ IsDelete(st[j - 1]) /\ IsDelete(st[k - 1]) /\ st[j - 1].at = st[k - 1].at
      BY <1>6, <2>1, <2>4
    <3>2. j - 1 = k - 1
      BY <3>1 DEF CallsOK
    <3> QED BY <3>1, <3>2
  <2> QED BY <2>3, <2>4
<1>7. ASSUME NEW k \in DOMAIN t, t[k].op = "reset"
      PROVE  ResetOK(t, k, obn, roots)
  <2>1. k \in 2..(Len(st) + 1)
    BY <1>0, <1>1, <1>7 DEF IsDelete
  <2> DEFINE i == k - 1
  <2>2. /\ i \in DOMAIN st /\ t[k] = st[i] /\ (i = Len(st) <=> k = Len(t))
        /\ i # Len(st) => t[k + 1] = st[i + 1]
    BY <1>1, <2>1
  <2>3. ResetOK(st, i, ob, roots)
    BY <1>7, <2>2 DEF CallsOK
  <2> HIDE DEF i
  <2>4. ASSUME i # Len(st) PROVE obn[st[i].at] = "body"
    <3>1. ob[st[i].at] = "body" /\ IsDelete(st[i + 1]) /\ st[i + 1].at = st[i].at
      BY <2>3, <2>4 DEF ResetOK
    <3>2. st[i].at # c
      BY <3>1
    <3> QED BY <3>1, <3>2
  <2> QED BY <2>2, <2>3, <2>4 DEF ResetOK
<1> QED BY <1>4, <1>5, <1>6, <1>7 DEF CallsOK, t, x

(* Reset is called from the bottom, or from the body on top of the stack.  *)
LEMMA CallsReset ==
  ASSUME NEW st \in Seq(Frames), NEW ob \in [Objs -> ObjStates],
         NEW de \in [Objs -> BOOLEAN], NEW roots, CallsOK(st, ob, de, roots),
         NEW s \in Scopes,
         \/ st = <<>> /\ s \in roots
         \/ st # <<>> /\ IsDelete(Head(st)) /\ Head(st).at = s /\ ob[s] = "body"
  PROVE  CallsOK(<<ResetFrame(s)>> \o st, ob, de, roots)
<1> DEFINE x == ResetFrame(s)
           t == <<x>> \o st
<1>0. x \in Frames /\ ~IsDelete(x) /\ x.at = s /\ x.op = "reset"
  BY DEF Frames, ResetFrame, IsDelete
<1>1. /\ Len(st) \in Nat /\ DOMAIN st = 1..Len(st) /\ DOMAIN t = 1..(Len(st) + 1)
      /\ t[1] = x /\ Len(t) = Len(st) + 1
      /\ \A k \in 1..Len(st) : t[k + 1] = st[k]
      /\ \A k \in 2..(Len(st) + 1) : t[k] = st[k - 1] /\ k - 1 \in 1..Len(st)
  BY <1>0, PushFacts
<1>2. /\ \A o \in Objs : Deleting(t, o) <=> Deleting(st, o)
      /\ \A o \in Objs : Releasing(t, o) <=> Releasing(st, o)
  BY <1>0, PushOccurs
<1>3. st = <<>> <=> Len(st) = 0
  OBVIOUS
<1>4. st # <<>> => Head(st) = st[1]
  OBVIOUS
<1> HIDE DEF t, x
<1>5. ASSUME NEW j \in DOMAIN t, NEW k \in DOMAIN t,
             IsDelete(t[j]), IsDelete(t[k]), t[j].at = t[k].at
      PROVE  j = k
  <2>1. \A i \in DOMAIN t : i = 1 \/
          (i \in Nat /\ i - 1 \in DOMAIN st /\ t[i] = st[i - 1])
    BY <1>1
  <2>2. /\ j - 1 \in DOMAIN st /\ k - 1 \in DOMAIN st /\ j \in Nat /\ k \in Nat
        /\ IsDelete(st[j - 1]) /\ IsDelete(st[k - 1]) /\ st[j - 1].at = st[k - 1].at
    BY <1>0, <1>1, <1>5, <2>1
  <2>3. j - 1 = k - 1
    BY <2>2 DEF CallsOK
  <2> QED BY <2>2, <2>3
<1>6. ASSUME NEW k \in DOMAIN t, t[k].op = "reset"
      PROVE  ResetOK(t, k, ob, roots)
  <2>1. CASE k = 1
    <3>1. CASE st = <<>>
      BY <1>0, <1>1, <1>3, <2>1, <3>1 DEF ResetOK
    <3>2. CASE st # <<>>
      <4>1. t[k + 1] = Head(st) /\ k # Len(t) /\ t[k] = x
        BY <1>1, <1>3, <1>4, <2>1, <3>2
      <4> QED BY <1>0, <3>2, <4>1 DEF ResetOK
    <3> QED BY <3>1, <3>2
  <2>2. CASE k # 1
    <3> DEFINE i == k - 1
    <3>1. /\ i \in DOMAIN st /\ t[k] = st[i] /\ (i = Len(st) <=> k = Len(t))
          /\ i # Len(st) => t[k + 1] = st[i + 1]
      BY <1>1, <2>2
    <3>2. ResetOK(st, i, ob, roots)
      BY <1>6, <3>1 DEF CallsOK
    <3> QED BY <3>1, <3>2 DEF ResetOK
  <2> QED BY <2>1, <2>2
<1> QED BY <1>2, <1>5, <1>6 DEF CallsOK, t, x

(* What a return leaves of a stack. *)
LEMMA CallsTail ==
  ASSUME NEW st \in Seq(Frames), st # <<>>, NEW ob, NEW de, NEW roots,
         CallsOK(st, ob, de, roots)
  PROVE  LET t == Tail(st)
         IN  /\ \A j, k \in DOMAIN t :
                  IsDelete(t[j]) /\ IsDelete(t[k]) /\ t[j].at = t[k].at => j = k
             /\ \A k \in DOMAIN t : t[k].op = "reset" => ResetOK(t, k, ob, roots)
             /\ IsDelete(Head(st)) =>
                  \A k \in DOMAIN t : IsDelete(t[k]) => t[k].at # Head(st).at
<1> DEFINE t == Tail(st)
<1>1. /\ Head(st) = st[1] /\ Len(t) = Len(st) - 1 /\ Len(st) \in Nat \ {0}
      /\ DOMAIN st = 1..Len(st) /\ DOMAIN t = 1..(Len(st) - 1)
      /\ \A k \in 1..(Len(st) - 1) : t[k] = st[k + 1]
  BY PopFacts
<1> HIDE DEF t
<1>2. \A k \in DOMAIN t : k \in Nat /\ k # 0 /\ k + 1 \in DOMAIN st /\ t[k] = st[k + 1]
  BY <1>1
<1>3. ASSUME NEW j \in DOMAIN t, NEW k \in DOMAIN t,
             IsDelete(t[j]), IsDelete(t[k]), t[j].at = t[k].at
      PROVE  j = k
  <2>1. j + 1 = k + 1
    BY <1>2, <1>3 DEF CallsOK
  <2> QED BY <1>2, <2>1
<1>4. ASSUME NEW k \in DOMAIN t, t[k].op = "reset"
      PROVE  ResetOK(t, k, ob, roots)
  <2>1. ResetOK(st, k + 1, ob, roots)
    BY <1>2, <1>4 DEF CallsOK
  <2>2. (k + 1 = Len(st) <=> k = Len(t)) /\ (k # Len(t) => t[k + 1] = st[(k + 1) + 1])
    BY <1>1
  <2> QED BY <1>2, <2>1, <2>2 DEF ResetOK
<1>5. ASSUME IsDelete(Head(st)), NEW k \in DOMAIN t, IsDelete(t[k]),
             t[k].at = Head(st).at
      PROVE  FALSE
  <2>1. 1 \in DOMAIN st /\ k + 1 # 1
    BY <1>1, <1>2
  <2>2. 1 = k + 1
    BY <1>1, <1>2, <1>5, <2>1 DEF CallsOK
  <2> QED BY <2>1, <2>2
<1> QED BY <1>3, <1>4, <1>5 DEF t

(* Reset returns. *)
LEMMA CallsResetReturns ==
  ASSUME NEW st \in Seq(Frames), st # <<>>, NEW ob, NEW de, NEW roots,
         CallsOK(st, ob, de, roots), Head(st).op = "reset"
  PROVE  CallsOK(Tail(st), ob, de, roots)
<1>1. /\ \A o \in Objs : Deleting(st, o) <=> Deleting(Tail(st), o)
      /\ \A o \in Objs : Releasing(st, o) <=> Releasing(Tail(st), o)
  BY PopOccurs DEF IsDelete
<1> QED BY <1>1, CallsTail DEF CallsOK

(* A destruction ends. *)
LEMMA CallsDeleteReturns ==
  ASSUME NEW st \in Seq(Frames), st # <<>>, NEW ob \in [Objs -> ObjStates],
         NEW de \in [Objs -> BOOLEAN], NEW roots, CallsOK(st, ob, de, roots),
         NEW o \in Objs, IsDelete(Head(st)), Head(st).at = o
  PROVE  CallsOK(Tail(st), [ob EXCEPT ![o] = "dead"],
                 IF Head(st).op = "release" THEN [de EXCEPT ![o] = FALSE] ELSE de,
                 roots)
<1> DEFINE t   == Tail(st)
           obn == [ob EXCEPT ![o] = "dead"]
           den == IF Head(st).op = "release" THEN [de EXCEPT ![o] = FALSE] ELSE de
<1>1. /\ \A x \in Objs : Deleting(st, x) <=> Deleting(t, x) \/ o = x
      /\ \A x \in Objs : Releasing(st, x) <=>
           Releasing(t, x) \/ (Head(st).op = "release" /\ o = x)
  BY PopOccurs
<1>2. /\ \A j, k \in DOMAIN t :
           IsDelete(t[j]) /\ IsDelete(t[k]) /\ t[j].at = t[k].at => j = k
      /\ \A k \in DOMAIN t : t[k].op = "reset" => ResetOK(t, k, ob, roots)
      /\ \A k \in DOMAIN t : IsDelete(t[k]) => t[k].at # o
  BY CallsTail
<1>3. t \in Seq(Frames) /\ \A k \in DOMAIN t : k # Len(t) => k + 1 \in DOMAIN t
  <2>1. t \in Seq(Frames)
    OBVIOUS
  <2> HIDE DEF t
  <2> QED BY <2>1
<1> HIDE DEF t
<1>4. ~Deleting(t, o) /\ ~Releasing(t, o)
  BY <1>2 DEF Deleting, Releasing, IsDelete
<1>5. \A x \in Objs : obn[x] \in {"body", "members"} <=> Deleting(t, x)
  BY <1>1, <1>4 DEF CallsOK
<1>6. \A x \in Objs : den[x] <=> Releasing(t, x)
  BY <1>1, <1>4 DEF CallsOK
<1>7. ASSUME NEW k \in DOMAIN t, t[k].op = "reset"
      PROVE  ResetOK(t, k, obn, roots)
  <2>1. ResetOK(t, k, ob, roots)
    BY <1>2, <1>7
  <2>2. k # Len(t) => t[k].at # o /\ t[k].at = t[k + 1].at
    BY <1>2, <1>3, <2>1 DEF ResetOK
  <2> QED BY <2>1, <2>2 DEF ResetOK
<1> QED BY <1>2, <1>5, <1>6, <1>7 DEF CallsOK, t

(* The body of the destructor on top of the stack ends. *)
LEMMA CallsBodyEnds ==
  ASSUME NEW st \in Seq(Frames), st # <<>>, NEW ob \in [Objs -> ObjStates],
         NEW de, NEW roots, CallsOK(st, ob, de, roots),
         NEW o \in Objs, IsDelete(Head(st)), Head(st).at = o, ob[o] = "body"
  PROVE  CallsOK(st, [ob EXCEPT ![o] = "members"], de, roots)
<1> DEFINE obn == [ob EXCEPT ![o] = "members"]
<1>1. \A x \in Objs : obn[x] \in {"body", "members"} <=> Deleting(st, x)
  BY DEF CallsOK
<1>2. /\ Head(st) = st[1] /\ Len(st) \in Nat \ {0} /\ DOMAIN st = 1..Len(st)
  BY PopFacts
<1>3. ASSUME NEW k \in DOMAIN st, st[k].op = "reset"
      PROVE  ResetOK(st, k, obn, roots)
  <2>1. ResetOK(st, k, ob, roots)
    BY <1>3 DEF CallsOK
  <2>2. CASE k = Len(st)
    BY <2>1, <2>2 DEF ResetOK
  <2>3. CASE k # Len(st)
    <3>1. IsDelete(st[k + 1]) /\ st[k + 1].at = st[k].at /\ ob[st[k].at] = "body"
      BY <2>1, <2>3 DEF ResetOK
    <3>2. k + 1 \in DOMAIN st /\ 1 \in DOMAIN st /\ k + 1 # 1
      BY <1>2, <2>3
    <3>3. st[k].at # o
      BY <1>2, <3>1, <3>2 DEF CallsOK
    <3> QED BY <2>3, <3>1, <3>3 DEF ResetOK
  <2> QED BY <2>2, <2>3
<1> QED BY <1>1, <1>3 DEF CallsOK

(* An object is made. *)
LEMMA CallsMake ==
  ASSUME NEW st, NEW ob \in [Objs -> ObjStates],
         NEW de, NEW roots, CallsOK(st, ob, de, roots),
         NEW o \in Objs, ob[o] \notin {"body", "members"},
         NEW y \in {"alive", "empty"}
  PROVE  CallsOK(st, [ob EXCEPT ![o] = y], de, roots)
BY DEF CallsOK, ResetOK

(* The roots may change as long as the bottom call's handle is one. *)
LEMMA CallsRoots ==
  ASSUME NEW st \in Seq(Frames), NEW ob, NEW de, NEW r, NEW roots,
         CallsOK(st, ob, de, r),
         st # <<>> /\ st[Len(st)].op = "reset" => st[Len(st)].at \in roots
  PROVE  CallsOK(st, ob, de, roots)
<1>1. \A k \in DOMAIN st : st # <<>>
  OBVIOUS
<1> QED BY <1>1 DEF CallsOK, ResetOK

-----------------------------------------------------------------------------
(* Who may be working on which handle.                                     *)

(* A handle in a Reset, unless its call is the bottom one, is a member of  *)
(* an object whose destructor's body is further down the stack.            *)
LEMMA InResetIs ==
  ASSUME IInv, NEW k \in DOMAIN stack, stack[k].op = "reset", k # Len(stack)
  PROVE  /\ k + 1 \in DOMAIN stack /\ k + 1 # 1
         /\ IsDelete(stack[k + 1]) /\ stack[k + 1].at = stack[k].at
         /\ stack[k].at \in Objs /\ obj[stack[k].at] = "body"
<1>1. stack \in Seq(Frames)
  BY DEF IInv, TypeOK
<1>2. k \in 1..Len(stack) /\ Len(stack) \in Nat
  BY <1>1
<1>3. k + 1 \in DOMAIN stack /\ k + 1 # 1 /\ stack[k + 1] \in Frames
  BY <1>1, <1>2
<1>4. IsDelete(stack[k + 1]) /\ stack[k + 1].at = stack[k].at /\ obj[stack[k].at] = "body"
  BY DEF IInv, CallsOK, ResetOK
<1>5. stack[k + 1].at \in Objs
  BY <1>3, <1>4 DEF Frames, IsDelete
<1> QED BY <1>3, <1>4, <1>5

(* A global that holds the right pointer keeps its object alive. *)
LEMMA HeldAlive ==
  ASSUME IInv, NEW s \in Scopes \ InReset, PointsRight(s)
  PROVE  ptr[s].to \in Objs /\ sp[s] = ptr[s].to /\ obj[ptr[s].to] = "alive"
<1>1. sp[s] # Null /\ obj[sp[s]] # "empty" /\ ptr[s].to = sp[s]
  BY DEF IInv, PointsOK, PointsRight
<1>2. sp[s] \in Objs
  BY <1>1 DEF IInv, TypeOK
<1>3. use[sp[s]] > 0
  BY <1>2, CountRange DEF IInv
<1> QED BY <1>1, <1>2, <1>3 DEF IInv, LivesOK

(* So the object whose member is being reset from the bottom lives, and it *)
(* stays reachable while only destructors work on handles.                 *)
LEMMA BottomAlive ==
  ASSUME IInv, stack # <<>>, stack[Len(stack)].op = "reset",
         stack[Len(stack)].at \in Objs
  PROVE  /\ obj[stack[Len(stack)].at] = "alive"
         /\ (\A x \in Scopes : ptr'[x] # ptr[x] => x \in Objs /\ obj[x] = "body")
              => stack[Len(stack)].at \in Reachable'
<1> DEFINE b == stack[Len(stack)].at
<1>0. stack \in Seq(Frames) /\ Len(stack) \in DOMAIN stack
  BY DEF IInv, TypeOK
<1>1. b \in Reachable
  BY <1>0, PtrAssumption DEF IInv, CallsOK, ResetOK, Roots, Scopes
<1>2. \A x \in InReset : x = b \/ (x \in Objs /\ obj[x] = "body")
  BY InResetIs DEF InReset
<1> HIDE DEF b
<1>3. \A x \in Globals : x \in Scopes \ InReset
  BY <1>2, PtrAssumption DEF b, Scopes
<1>4. PICK g \in Globals : PointsRight(g) /\
        (ptr[g].to = b \/ (PointsRight(ptr[g].to) /\ ptr[ptr[g].to].to = b))
  BY <1>1 DEF Reachable
<1>5. g \in Scopes /\ ptr[g].to \in Objs /\ obj[ptr[g].to] = "alive" /\ ptr[g].to \in Scopes
  BY <1>3, <1>4, HeldAlive DEF Scopes
<1>6. obj[b] = "alive"
  <2>1. CASE ptr[g].to = b
    BY <1>5, <2>1
  <2>2. CASE ptr[g].to # b
    <3>1. ptr[g].to \in Scopes \ InReset
      BY <1>2, <1>5, <2>2
    <3> QED BY <1>4, <2>2, <3>1, HeldAlive
  <2> QED BY <2>1, <2>2
<1>7. ASSUME \A x \in Scopes : ptr'[x] # ptr[x] => x \in Objs /\ obj[x] = "body"
      PROVE  b \in Reachable'
  <2>1. ptr'[g] = ptr[g] /\ ptr'[ptr[g].to] = ptr[ptr[g].to]
    BY <1>5, <1>7, PtrAssumption DEF Scopes
  <2> PICK h \in Objs : h = ptr[g].to
    BY <1>5
  <2>2. PointsRight(g)' /\ ptr'[g].to = h
    BY <1>4, <2>1 DEF PointsRight
  <2>3. h = b \/ (PointsRight(h)' /\ ptr'[h].to = b)
    BY <1>4, <2>1 DEF PointsRight
  <2> QED BY <2>2, <2>3 DEF Reachable
<1> QED BY <1>6, <1>7 DEF b

LEMMA InResetExists == ASSUME IInv, NEW s \in InReset PROVE s \in Scopes /\ Exists(s)
<1>1. PICK k \in DOMAIN stack : stack[k].op = "reset" /\ stack[k].at = s
  BY DEF InReset
<1>2. stack \in Seq(Frames) /\ stack[k] \in Frames /\ s \in Scopes
  BY <1>1 DEF IInv, TypeOK, Frames, Scopes
<1>3. CASE k # Len(stack)
  BY <1>1, <1>2, <1>3, InResetIs DEF Exists
<1>4. CASE k = Len(stack)
  BY <1>1, <1>2, <1>4, BottomAlive DEF Exists, Scopes
<1> QED BY <1>2, <1>3, <1>4

(* The body that runs on top of the stack has its handles to itself. *)
LEMMA BodyIsFree ==
  ASSUME IInv, NEW o \in Objs, InBody(o)
  PROVE  o \notin InReset /\ stack # <<>> /\ IsDelete(Head(stack)) /\ Head(stack).at = o
<1>0. stack \in Seq(Frames) /\ stack # <<>> /\ IsDelete(Head(stack)) /\ Head(stack).at = o
  BY DEF IInv, TypeOK, InBody, Top, IsDelete
<1>1. 1 \in DOMAIN stack /\ stack[1] = Head(stack)
  BY <1>0
<1>2. ASSUME NEW k \in DOMAIN stack, stack[k].op = "reset", stack[k].at = o
      PROVE  FALSE
  <2>1. CASE k = Len(stack)
    BY <1>0, <1>2, <2>1, BottomAlive DEF InBody
  <2>2. CASE k # Len(stack)
    <3>1. k + 1 \in DOMAIN stack /\ k + 1 # 1 /\ IsDelete(stack[k + 1])
          /\ stack[k + 1].at = o
      BY <1>2, <2>2, InResetIs
    <3> QED BY <1>0, <1>1, <3>1 DEF IInv, CallsOK
  <2> QED BY <2>1, <2>2
<1> QED BY <1>0, <1>2 DEF InReset

LEMMA MayUseFree ==
  ASSUME ~Reentrant, IInv, NEW s \in Scopes, MayUse(s)
  PROVE  /\ s \in Scopes \ InReset
         /\ Exists(s)
         /\ \/ stack = <<>> /\ s \in Roots
            \/ /\ stack # <<>> /\ IsDelete(Head(stack)) /\ Head(stack).at = s
               /\ s \in Objs /\ obj[s] = "body"
<1>1. CASE stack = <<>> /\ s \in Roots
  BY <1>1 DEF MayUse, InReset
<1>2. CASE s \in Objs /\ InBody(s)
  BY <1>2, BodyIsFree DEF MayUse, InBody
<1> QED BY <1>1, <1>2 DEF MayUse, Roots

-----------------------------------------------------------------------------
(* Release, with the use counts u and the objects ob as its caller leaves  *)
(* them, w and b being the weak counts and the blocks of the next state.   *)
ReleaseCalled(c, u, ob, below, st, w, b) ==
  /\ c \in Blocks /\ u \in [Objs -> Nat] /\ ob \in [Objs -> ObjStates]
  /\ below = <<>> \/ \E f \in Frames : below = <<f>>
  /\ st \in Seq(Frames) /\ st = below \o stack
  /\ Release(c, u, ob, below)
  /\ LivesOK(ob, u, w, b, destroying)
  /\ c # Null => /\ u[c] \in 1..(Cardinality(Scopes) + 1)
                 /\ blk[c] = "live" /\ obj[c] = ob[c]

Released(c, u, ob, st, w, b) ==
  /\ use' = Removed(u, c) /\ fault' = "none"
  /\ obj' \in [Objs -> ObjStates] /\ destroying' \in [Objs -> BOOLEAN]
  /\ stack' \in Seq(Frames) /\ Resets(stack') = Resets(st)
  /\ LivesOK(obj', use', w, b, destroying')
  /\ \A o \in Objs :
       /\ obj'[o] \in {"alive", "body"} <=> ob[o] \in {"alive", "body"}
       /\ obj'[o] = "free" <=> ob[o] = "free"
       /\ use'[o] > 0 => obj'[o] = ob[o]
  /\ \A roots : CallsOK(st, ob, destroying, roots)
                  => CallsOK(stack', obj', destroying', roots)

LEMMA ReleaseStep ==
  ASSUME IInv, NEW c, NEW u, NEW ob, NEW below, NEW st, NEW w, NEW b,
         ReleaseCalled(c, u, ob, below, st, w, b)
  PROVE  Released(c, u, ob, st, w, b)
<1> USE DEF ReleaseCalled
<1> SUFFICES
         /\ use' = Removed(u, c) /\ fault' = "none"
         /\ obj' \in [Objs -> ObjStates] /\ destroying' \in [Objs -> BOOLEAN]
         /\ stack' \in Seq(Frames) /\ Resets(stack') = Resets(st)
         /\ LivesOK(obj', use', w, b, destroying')
         /\ \A o \in Objs :
              /\ obj'[o] \in {"alive", "body"} <=> ob[o] \in {"alive", "body"}
              /\ obj'[o] = "free" <=> ob[o] = "free"
              /\ use'[o] > 0 => obj'[o] = ob[o]
         /\ \A roots : CallsOK(st, ob, destroying, roots)
                         => CallsOK(stack', obj', destroying', roots)
  BY DEF Released
<1>0. /\ destroying \in [Objs -> BOOLEAN] /\ stack \in Seq(Frames) /\ fault = "none"
      /\ Null \notin Objs /\ Cardinality(Scopes) \in Nat
  BY PtrAssumption, FS_CardinalityType DEF IInv, TypeOK, Scopes
<1>1. CASE c = Null
  BY <1>0, <1>1 DEF Release, Removed, LivesOK
<1>2. CASE c # Null
  <2>0. c \in Objs /\ u[c] \in Nat /\ u[c] > 0 /\ Minus(u[c]) = u[c] - 1
    <3>1. c \in Objs /\ u[c] \in Nat /\ u[c] > 0 /\ u[c] - 1 \in 0..Cardinality(Scopes)
      BY <1>0, <1>2 DEF Blocks
    <3>2. Minus((u[c] - 1) + 1) = u[c] - 1
      BY <3>1, CounterArithmetic
    <3> QED BY <3>1, <3>2
  <2>1. /\ use' = [u EXCEPT ![c] = u[c] - 1] /\ use' = Removed(u, c)
        /\ use'[c] = u[c] - 1 /\ \A o \in Objs : o # c => use'[o] = u[o]
    BY <1>2, <2>0 DEF Release, Removed
  <2>2. ob[c] \in {"alive", "empty"}
    BY <2>0 DEF LivesOK
  <2>3. CASE u[c] # 1
    <3>1. use'[c] # 0 /\ use'[c] > 0
      BY <2>0, <2>1, <2>3
    <3>2. obj' = ob /\ stack' = below \o stack /\ UNCHANGED <<destroying, fault>>
      BY <1>2, <3>1 DEF Release
    <3>3. LivesOK(obj', use', w, b, destroying')
      BY <2>0, <2>1, <2>2, <3>1, <3>2 DEF LivesOK
    <3> QED BY <1>0, <2>1, <3>2, <3>3
  <2>4. CASE u[c] = 1
    <3> DEFINE y  == IF ob[c] = "empty" THEN "members" ELSE "body"
               x  == DeleteFrame(c, "release")
    <3>1. use'[c] = 0
      BY <2>1, <2>4
    <3>2. /\ destroying' = [destroying EXCEPT ![c] = TRUE]
          /\ obj' = [ob EXCEPT ![c] = y]
          /\ stack' = <<x>> \o below \o stack
          /\ fault' = fault
      BY <1>2, <2>2, <3>1 DEF Release
    <3>3. x \in Frames /\ x.op = "release" /\ y \in {"body", "members"} /\ y \in ObjStates
      BY <2>0 DEF Frames, DeleteFrame, ObjStates
    <3>4. stack' = <<x>> \o st
      <4>1. stack' = <<x>> \o below \o stack /\ x \in Frames
        BY <3>2, <3>3
      <4> HIDE DEF x
      <4>2. CASE below = <<>>
        <5>1. st = stack
          BY <1>0, <4>2, PushTwice
        <5>2. stack' = <<x>> \o stack
          BY <1>0, <4>1, <4>2, PushTwice
        <5> QED BY <5>1, <5>2
      <4>3. CASE below # <<>>
        <5>1. PICK f \in Frames : below = <<f>>
          BY <4>3
        <5>2. <<x>> \o <<f>> \o stack = <<x>> \o (<<f>> \o stack)
          BY <1>0, <4>1, PushTwice
        <5> QED BY <4>1, <5>1, <5>2
      <4> QED BY <4>2, <4>3
    <3>5. LivesOK(obj', use', w, b, destroying')
      BY <1>0, <2>0, <2>1, <2>2, <3>1, <3>2, <3>3 DEF LivesOK
    <3>6. \A o \in Objs :
              /\ obj'[o] \in {"alive", "body"} <=> ob[o] \in {"alive", "body"}
              /\ obj'[o] = "free" <=> ob[o] = "free"
              /\ use'[o] > 0 => obj'[o] = ob[o]
      BY <2>0, <2>2, <3>1, <3>2
    <3>7. /\ obj' \in [Objs -> ObjStates] /\ destroying' \in [Objs -> BOOLEAN]
          /\ stack' \in Seq(Frames) /\ Resets(stack') = Resets(st)
      <4>1. obj' \in [Objs -> ObjStates] /\ destroying' \in [Objs -> BOOLEAN]
        BY <1>0, <2>0, <3>2, <3>3
      <4> HIDE DEF x
      <4>2. stack' \in Seq(Frames)
        BY <3>3, <3>4, PushFacts
      <4>3. Resets(<<x>> \o st) = Resets(st) \cup (IF x.op = "reset" THEN {x.at} ELSE {})
        BY <3>3, PushOccurs
      <4>4. Resets(stack') = Resets(st)
        BY <3>3, <3>4, <4>3
      <4> QED BY <4>1, <4>2, <4>4
    <3>8. ASSUME NEW roots, CallsOK(st, ob, destroying, roots)
          PROVE  CallsOK(stack', obj', destroying', roots)
      <4>1. CallsOK(<<DeleteFrame(c, "release")>> \o st, [ob EXCEPT ![c] = y],
                    IF "release" = "release" THEN [destroying EXCEPT ![c] = TRUE]
                                             ELSE destroying, roots)
        BY <1>0, <2>0, <2>2, <3>3, <3>8, CallsDelete
      <4> QED BY <3>2, <3>4, <4>1
    <3> QED BY <1>0, <2>1, <3>2, <3>5, <3>6, <3>7, <3>8
  <2> QED BY <2>3, <2>4
<1> QED BY <1>1, <1>2

-----------------------------------------------------------------------------
(* What each kind of step does to the invariant.                           *)

BlkStates   == {"free", "live", "gone"}
MadeStates  == {"node", "base", Null}
Addresses   == [to : Objs, part : {"node", "base"}] \cup {Null}

LEMMA Rebuild ==
  ASSUME obj' \in [Objs -> ObjStates], made' \in [Objs -> MadeStates],
         blk' \in [Objs -> BlkStates], destroying' \in [Objs -> BOOLEAN],
         use' \in [Objs -> Nat], weak' \in [Objs -> Nat],
         sp' \in [Scopes -> Blocks], ptr' \in [Scopes -> Addresses],
         wp' \in [Scopes -> Blocks], stack' \in Seq(Frames), fault' = "none",
         Counts(use', sp', Resets(stack')), Counts(weak', wp', {}),
         HandlesOK(obj', sp', ptr', wp'),
         LivesOK(obj', use', weak', blk', destroying'),
         PointsOK(sp', ptr', Resets(stack'), obj', made'),
         MadeOK(sp', Resets(stack'), made'), MadeOK(wp', {}, made'),
         CallsOK(stack', obj', destroying', Roots')
  PROVE  IInv'
<1>1. InReset' = Resets(stack')
  BY DEF InReset, Resets
<1>2. \A o \in Objs : use'[o] \in 0..Cardinality(Scopes) /\ weak'[o] \in 0..Cardinality(Scopes)
  BY CountRange
<1>3. /\ use' \in [Objs -> 0..Cardinality(Scopes)]
      /\ weak' \in [Objs -> 0..Cardinality(Scopes)]
  BY <1>2
<1>4. TypeOK'
  BY <1>3 DEF TypeOK, ObjStates, MadeStates, BlkStates, Addresses, Blocks
<1> QED BY <1>1, <1>4 DEF IInv

LEMMA Unpack ==
  ASSUME IInv
  PROVE  /\ obj \in [Objs -> ObjStates] /\ made \in [Objs -> MadeStates]
         /\ blk \in [Objs -> BlkStates] /\ destroying \in [Objs -> BOOLEAN]
         /\ use \in [Objs -> Nat] /\ weak \in [Objs -> Nat]
         /\ sp \in [Scopes -> Blocks] /\ ptr \in [Scopes -> Addresses]
         /\ wp \in [Scopes -> Blocks] /\ stack \in Seq(Frames)
         /\ InReset = Resets(stack) /\ <<>> \o stack = stack
<1>1. Cardinality(Scopes) \in Nat
  BY PtrAssumption, FS_CardinalityType
<1>2. /\ use \in [Objs -> Nat] /\ weak \in [Objs -> Nat]
  BY <1>1 DEF IInv, TypeOK
<1>3. stack \in Seq(Frames) /\ <<>> \o stack = stack
  BY DEF IInv, TypeOK
<1> QED BY <1>2, <1>3
        DEF IInv, TypeOK, ObjStates, MadeStates, BlkStates, Addresses, Blocks,
            InReset, Resets

(* A block that a handle holds is counted, and lives. *)
LEMMA HeldCounts ==
  ASSUME IInv, NEW s \in Scopes \ InReset, sp[s] # Null
  PROVE  /\ sp[s] \in Objs /\ use[sp[s]] \in 1..Cardinality(Scopes)
         /\ blk[sp[s]] = "live" /\ obj[sp[s]] \in {"alive", "empty"}
<1>1. sp[s] \in Objs
  BY DEF IInv, TypeOK
<1>2. use[sp[s]] > 0 /\ use[sp[s]] \in 0..Cardinality(Scopes)
  BY <1>1, CountRange DEF IInv
<1> QED BY <1>1, <1>2 DEF IInv, LivesOK

LEMMA WatchedCounts ==
  ASSUME IInv, NEW s \in Scopes, wp[s] # Null
  PROVE  /\ wp[s] \in Objs /\ weak[wp[s]] \in 1..Cardinality(Scopes)
         /\ blk[wp[s]] = "live"
<1>1. wp[s] \in Objs
  BY DEF IInv, TypeOK
<1>2. weak[wp[s]] > 0 /\ weak[wp[s]] \in 0..Cardinality(Scopes)
  BY <1>1, CountRange DEF IInv
<1> QED BY <1>1, <1>2 DEF IInv, LivesOK

(* The bottom call keeps a handle it may work on. *)
LEMMA RootsKept ==
  ASSUME IInv,
         \/ stack = <<>>
         \/ \A x \in Scopes : ptr'[x] # ptr[x] => x \in Objs /\ obj[x] = "body",
         NEW ob, NEW de, NEW r, CallsOK(stack, ob, de, r)
  PROVE  CallsOK(stack, ob, de, Roots')
<1>1. ASSUME stack # <<>>, stack[Len(stack)].op = "reset"
      PROVE  stack[Len(stack)].at \in Roots'
  <2>1. stack \in Seq(Frames) /\ Len(stack) \in DOMAIN stack /\ stack[Len(stack)] \in Frames
    BY <1>1 DEF IInv, TypeOK
  <2>2. stack[Len(stack)].at \in Scopes
    BY <2>1 DEF Frames, Scopes
  <2> QED BY <1>1, <2>2, BottomAlive DEF Roots, Scopes
<1>2. stack \in Seq(Frames)
  BY DEF IInv, TypeOK
<1> QED BY <1>1, <1>2, CallsRoots

(* Make, MakeEmpty, Copy, Lock: d owns the block new, already counted in   *)
(* u, and has p for its pointer; what it owned, c, is released.            *)
Assigned(d, new, p, c, u, ob) ==
  /\ new \in Blocks /\ p \in Addresses
  /\ c = sp[d]
  /\ u \in [Objs -> Nat] /\ u = Added(use, new)
  /\ ob \in [Objs -> ObjStates]
  /\ Release(c, u, ob, <<>>)
  /\ sp' = [sp EXCEPT ![d] = new] /\ ptr' = [ptr EXCEPT ![d] = p]
  /\ UNCHANGED <<weak, wp>>
  /\ made' \in [Objs -> MadeStates] /\ blk' \in [Objs -> BlkStates]
  /\ LivesOK(ob, u, weak, blk', destroying)
  /\ CallsOK(stack, ob, destroying, Roots)
  /\ \A o \in Objs : obj[o] \in {"alive", "body"} => ob[o] \in {"alive", "body"}
  /\ \A o \in Objs : use[o] > 0 => ob[o] = obj[o]
  /\ \A o \in Objs : use[o] > 0 \/ weak[o] > 0 => made'[o] = made[o]
  /\ IF new = Null \/ ob[new] = "empty"
       THEN p = Null
       ELSE /\ p # Null /\ p.to = new
            /\ p.part = Type(d) \/ (LockConverted /\ Type(d) = "base" /\ p.part = made'[new])
  /\ new # Null => made'[new] = "node" \/ (Type(d) = "base" /\ made'[new] = "base")

LEMMA AssignStep ==
  ASSUME ~Reentrant, IInv, NEW d \in Scopes, MayUse(d), NEW new, NEW p, NEW c,
         NEW u, NEW ob, Assigned(d, new, p, c, u, ob)
  PROVE  IInv'
<1> USE DEF Assigned
<1>0. /\ use \in [Objs -> Nat] /\ sp \in [Scopes -> Blocks] /\ wp \in [Scopes -> Blocks]
      /\ ptr \in [Scopes -> Addresses] /\ weak \in [Objs -> Nat]
      /\ stack \in Seq(Frames) /\ InReset = Resets(stack) /\ <<>> \o stack = stack
  BY Unpack
<1>1. /\ d \in Scopes \ InReset /\ Exists(d)
      /\ stack = <<>> \/ (d \in Objs /\ obj[d] = "body")
  BY MayUseFree
<1>2. /\ Removed(u, c) \in [Objs -> Nat] /\ Counts(Removed(u, c), sp', InReset)
  BY <1>0, <1>1, CountSwap DEF IInv
<1>3. c # Null => /\ c \in Objs /\ u[c] \in 1..(Cardinality(Scopes) + 1)
                  /\ blk[c] = "live" /\ obj[c] = ob[c]
  <2> SUFFICES ASSUME c # Null
               PROVE  /\ c \in Objs /\ u[c] \in 1..(Cardinality(Scopes) + 1)
                      /\ blk[c] = "live" /\ obj[c] = ob[c]
    OBVIOUS
  <2>1. c \in Objs /\ use[c] \in 1..Cardinality(Scopes) /\ blk[c] = "live"
    BY <1>1, HeldCounts
  <2>2. Cardinality(Scopes) \in Nat
    BY PtrAssumption, FS_CardinalityType
  <2>3. use[c] \in 0..Cardinality(Scopes) /\ use[c] > 0
    BY <2>1, <2>2
  <2>4. u[c] = use[c] \/ u[c] = use[c] + 1
    BY <1>0, <2>1, <2>3, CounterArithmetic DEF Added
  <2> QED BY <2>1, <2>2, <2>3, <2>4
<1>4. /\ use' = Removed(u, c) /\ fault' = "none"
      /\ obj' \in [Objs -> ObjStates] /\ destroying' \in [Objs -> BOOLEAN]
      /\ stack' \in Seq(Frames) /\ Resets(stack') = InReset
      /\ LivesOK(obj', use', weak, blk', destroying')
      /\ \A o \in Objs :
           /\ obj'[o] \in {"alive", "body"} <=> ob[o] \in {"alive", "body"}
           /\ use'[o] > 0 => obj'[o] = ob[o]
      /\ \A roots : CallsOK(stack, ob, destroying, roots)
                      => CallsOK(stack', obj', destroying', roots)
  <2>1. c \in Blocks /\ <<>> \o stack \in Seq(Frames)
    BY <1>0
  <2>2. c # Null => u[c] \in 1..(Cardinality(Scopes) + 1) /\ blk[c] = "live"
                    /\ obj[c] = ob[c]
    BY <1>3
  <2> PICK b, w, st : b = blk' /\ w = weak /\ st = stack
    OBVIOUS
  <2>3. ReleaseCalled(c, u, ob, <<>>, st, w, b)
    BY <1>0, <2>1, <2>2 DEF ReleaseCalled
  <2>4. Released(c, u, ob, st, w, b)
    BY <2>3, ReleaseStep
  <2> QED BY <1>0, <2>4 DEF Released
<1>5. HandlesOK(obj', sp', ptr', wp')
  <2>1. \A o \in Objs : obj'[o] \notin {"alive", "body"} => obj[o] \notin {"alive", "body"}
    BY <1>4
  <2>2. d \in Objs => obj[d] \in {"alive", "body"}
    BY <1>1, PtrAssumption DEF Exists
  <2>3. \A o \in Objs : o # d => sp'[o] = sp[o] /\ ptr'[o] = ptr[o]
    BY <1>0 DEF Scopes
  <2> QED BY <2>1, <2>2, <2>3 DEF HandlesOK, IInv
<1>6. ASSUME NEW s \in Scopes \ InReset, sp'[s] # Null
      PROVE  /\ sp'[s] \in Objs /\ obj'[sp'[s]] = ob[sp'[s]]
             /\ s # d => /\ sp'[s] = sp[s] /\ ptr'[s] = ptr[s]
                         /\ obj'[sp[s]] = obj[sp[s]] /\ made'[sp[s]] = made[sp[s]]
  <2>0. sp'[s] \in Objs /\ Counts(use', sp', InReset)
    BY <1>0, <1>2, <1>4, <1>6 DEF Blocks
  <2>1. use'[sp'[s]] > 0
    BY <2>0, CountRange
  <2>2. s # d => sp'[s] = sp[s] /\ ptr'[s] = ptr[s]
    BY <1>0
  <2>3. s # d => use[sp[s]] > 0
    BY <1>6, <2>0, <2>2, HeldCounts, CountRange DEF IInv
  <2> QED BY <1>4, <2>0, <2>1, <2>2, <2>3
<1>7. PointsOK(sp', ptr', InReset, obj', made')
  <2> SUFFICES ASSUME NEW s \in Scopes \ InReset
               PROVE  IF sp'[s] = Null \/ obj'[sp'[s]] = "empty"
                        THEN ptr'[s] = Null
                        ELSE /\ ptr'[s] # Null
                             /\ ptr'[s].to = sp'[s]
                             /\ \/ ptr'[s].part = Type(s)
                                \/ LockConverted /\ Type(s) = "base" /\ ptr'[s].part = made'[sp'[s]]
    BY DEF PointsOK
  <2>1. CASE s = d
    BY <1>0, <1>6, <2>1
  <2>2. CASE s # d
    <3>1. sp'[s] = sp[s] /\ ptr'[s] = ptr[s]
      BY <1>0, <2>2
    <3>2. IF sp[s] = Null \/ obj[sp[s]] = "empty"
            THEN ptr[s] = Null
            ELSE /\ ptr[s] # Null
                 /\ ptr[s].to = sp[s]
                 /\ \/ ptr[s].part = Type(s)
                    \/ LockConverted /\ Type(s) = "base" /\ ptr[s].part = made[sp[s]]
      BY DEF IInv, PointsOK
    <3>3. sp[s] # Null => obj'[sp[s]] = obj[sp[s]] /\ made'[sp[s]] = made[sp[s]]
      BY <1>6, <2>2, <3>1
    <3> QED BY <3>1, <3>2, <3>3
  <2> QED BY <2>1, <2>2
<1>8. MadeOK(sp', InReset, made')
  <2> SUFFICES ASSUME NEW s \in Scopes \ InReset, sp'[s] # Null
               PROVE  made'[sp'[s]] = "node" \/ (Type(s) = "base" /\ made'[sp'[s]] = "base")
    BY DEF MadeOK
  <2>1. CASE s = d
    BY <1>0, <2>1
  <2>2. CASE s # d
    BY <1>6, <2>2 DEF IInv, MadeOK
  <2> QED BY <2>1, <2>2
<1>9. MadeOK(wp, {}, made')
  <2> SUFFICES ASSUME NEW s \in Scopes, wp[s] # Null
               PROVE  made'[wp[s]] = "node" \/ (Type(s) = "base" /\ made'[wp[s]] = "base")
    BY DEF MadeOK
  <2>1. wp[s] \in Objs /\ weak[wp[s]] > 0
    BY WatchedCounts
  <2> QED BY <2>1 DEF IInv, MadeOK
<1>10. CallsOK(stack', obj', destroying', Roots')
  <2>1. \/ stack = <<>>
        \/ \A x \in Scopes : ptr'[x] # ptr[x] => x \in Objs /\ obj[x] = "body"
    BY <1>0, <1>1
  <2>2. CallsOK(stack, ob, destroying, Roots')
    BY <2>1, RootsKept
  <2> QED BY <1>4, <2>2
<1>11. /\ sp' \in [Scopes -> Blocks] /\ ptr' \in [Scopes -> Addresses]
  BY <1>0
<1> QED BY <1>0, <1>2, <1>4, <1>5, <1>7, <1>8, <1>9, <1>10, <1>11, Rebuild DEF IInv

(* A new block is not held by anyone. *)
LEMMA FreshBlock ==
  ASSUME IInv, NEW o \in Objs, obj[o] = "free"
  PROVE  /\ use[o] = 0 /\ weak[o] = 0 /\ ~destroying[o] /\ blk[o] = "free"
         /\ Plus(use[o]) = 1
<1>1. use \in [Objs -> Nat] /\ weak \in [Objs -> Nat]
  BY Unpack
<1>2. use[o] = 0 /\ weak[o] = 0 /\ ~destroying[o] /\ blk[o] = "free"
  BY <1>1 DEF IInv, LivesOK
<1>3. 0 \in 0..Cardinality(Scopes)
  BY PtrAssumption, FS_CardinalityType
<1> QED BY <1>2, <1>3, CounterArithmetic

LEMMA MakeStep ==
  ASSUME ~Reentrant, IInv, NEW s \in Scopes, NEW o \in Objs,
         Make(s, o) \/ MakeEmpty(s, o)
  PROVE  IInv'
<1>0. /\ use \in [Objs -> Nat] /\ sp \in [Scopes -> Blocks] /\ weak \in [Objs -> Nat]
      /\ obj \in [Objs -> ObjStates] /\ made \in [Objs -> MadeStates]
      /\ blk \in [Objs -> BlkStates] /\ destroying \in [Objs -> BOOLEAN]
      /\ Null \notin Objs
  BY Unpack, PtrAssumption DEF Scopes
<1>1. obj[o] = "free" /\ MayUse(s)
  BY DEF Make, MakeEmpty
<1>2. use[o] = 0 /\ weak[o] = 0 /\ ~destroying[o] /\ blk[o] = "free" /\ Plus(use[o]) = 1
  BY <1>1, FreshBlock
<1>3. ASSUME NEW y \in {"alive", "empty"}, NEW p \in Addresses,
             Release(sp[s], [use EXCEPT ![o] = 1], [obj EXCEPT ![o] = y], <<>>),
             blk' = [blk EXCEPT ![o] = "live"], made' = [made EXCEPT ![o] = Type(s)],
             sp' = [sp EXCEPT ![s] = o], ptr' = [ptr EXCEPT ![s] = p],
             UNCHANGED <<weak, wp>>,
             IF y = "empty" THEN p = Null
               ELSE p # Null /\ p.to = o /\ p.part = Type(s)
      PROVE  IInv'
  <2> PICK c, u, ob : /\ c = sp[s] /\ u = [use EXCEPT ![o] = 1]
                      /\ ob = [obj EXCEPT ![o] = y]
    OBVIOUS
  <2>1. Release(c, u, ob, <<>>)
    BY <1>3 DEF Release
  <2>2. u \in [Objs -> Nat] /\ u = Added(use, o) /\ u[o] = 1
    BY <1>0, <1>2 DEF Added
  <2>3. /\ ob \in [Objs -> ObjStates] /\ made' \in [Objs -> MadeStates]
        /\ blk' \in [Objs -> BlkStates]
    BY <1>0, <1>3 DEF ObjStates, MadeStates, BlkStates, Type
  <2>4. LivesOK(ob, u, weak, blk', destroying)
    BY <1>0, <1>2, <1>3, <2>2 DEF IInv, LivesOK
  <2>5. CallsOK(stack, ob, destroying, Roots)
    BY <1>0, <1>1, CallsMake DEF IInv
  <2>6. /\ \A x \in Objs : x # o => ob[x] = obj[x] /\ made'[x] = made[x]
        /\ ob[o] = y /\ made'[o] = Type(s) /\ Type(s) \in {"node", "base"}
    BY <1>0, <1>3 DEF Type
  <2>7. /\ \A x \in Objs : obj[x] \in {"alive", "body"} => ob[x] \in {"alive", "body"}
        /\ \A x \in Objs : use[x] > 0 => ob[x] = obj[x]
        /\ \A x \in Objs : use[x] > 0 \/ weak[x] > 0 => made'[x] = made[x]
    BY <1>1, <1>2, <2>6
  <2>8. Assigned(s, o, p, c, u, ob)
    BY <1>0, <1>3, <2>1, <2>2, <2>3, <2>4, <2>5, <2>6, <2>7 DEF Assigned, Blocks
  <2> QED BY <1>1, <2>8, AssignStep
<1>4. CASE Make(s, o)
  <2>1. Address(o, Type(s)) \in Addresses /\ Address(o, Type(s)) # Null
    BY PtrAssumption DEF Address, Addresses, Type
  <2>2. Address(o, Type(s)).to = o /\ Address(o, Type(s)).part = Type(s)
    BY DEF Address
  <2> HIDE DEF Address
  <2> QED BY <1>3, <1>4, <2>1, <2>2 DEF Make
<1>5. CASE MakeEmpty(s, o)
  BY <1>3, <1>5 DEF MakeEmpty, Addresses
<1> QED BY <1>4, <1>5

LEMMA CopyStep ==
  ASSUME ~Reentrant, IInv, NEW d \in Scopes, NEW s \in Scopes, Copy(d, s)
  PROVE  IInv'
<1>0. /\ use \in [Objs -> Nat] /\ sp \in [Scopes -> Blocks] /\ weak \in [Objs -> Nat]
      /\ obj \in [Objs -> ObjStates] /\ ptr \in [Scopes -> Addresses]
      /\ made \in [Objs -> MadeStates] /\ blk \in [Objs -> BlkStates]
      /\ Null \notin Objs
  BY Unpack, PtrAssumption DEF Scopes
<1>1. MayUse(d) /\ s \in Scopes \ InReset /\ Converts(Type(s), Type(d))
  BY MayUseFree DEF Copy
<1> PICK c, u, new, p, ob : /\ c = sp[d] /\ u = AddRef(sp[s]) /\ new = sp[s] /\ ob = obj
                            /\ p = Cast(ptr[s], Type(s), Type(d))
  OBVIOUS
<1>2. /\ Release(c, u, ob, <<>>) /\ sp' = [sp EXCEPT ![d] = new]
      /\ ptr' = [ptr EXCEPT ![d] = p] /\ UNCHANGED <<made, blk, weak, wp>>
  BY DEF Copy, Release
<1>3. new # Null => /\ new \in Objs /\ use[new] \in 1..Cardinality(Scopes)
                    /\ use[new] \in 0..Cardinality(Scopes) /\ use[new] > 0
                    /\ Plus(use[new]) = use[new] + 1
  <2>1. new # Null => new \in Objs /\ use[new] \in 1..Cardinality(Scopes)
    BY <1>1, HeldCounts
  <2>2. Cardinality(Scopes) \in Nat
    BY PtrAssumption, FS_CardinalityType
  <2> QED BY <2>1, <2>2, CounterArithmetic
<1>4. /\ u \in [Objs -> Nat] /\ u = Added(use, new)
      /\ \A o \in Objs : u[o] > 0 <=> use[o] > 0
  BY <1>0, <1>3 DEF AddRef, Added
<1>5. LivesOK(ob, u, weak, blk', destroying) /\ CallsOK(stack, ob, destroying, Roots)
  BY <1>2, <1>4 DEF IInv, LivesOK
<1>6. /\ new = Null \/ ob[new] = "empty" => ptr[s] = Null
      /\ ~(new = Null \/ ob[new] = "empty") =>
           /\ ptr[s] # Null /\ ptr[s].to = new
           /\ ptr[s].part = Type(s) \/ (LockConverted /\ Type(s) = "base" /\ ptr[s].part = made[new])
      /\ new # Null => made[new] = "node" \/ (Type(s) = "base" /\ made[new] = "base")
  BY <1>1 DEF IInv, PointsOK, MadeOK
<1>7. Type(d) \in {"node", "base"} /\ (Type(s) = Type(d) \/ Type(s) = "node")
  BY <1>1 DEF Type, Converts
<1>8. p \in Addresses /\ (p = Null <=> ptr[s] = Null)
  BY <1>0, <1>7, PtrAssumption DEF Cast, Addresses
<1>9. IF new = Null \/ ob[new] = "empty"
        THEN p = Null
        ELSE /\ p # Null /\ p.to = new
             /\ p.part = Type(d) \/ (LockConverted /\ Type(d) = "base" /\ p.part = made'[new])
  BY <1>0, <1>2, <1>6, <1>7, <1>8 DEF Cast, Addresses
<1>10. Assigned(d, new, p, c, u, ob)
  BY <1>0, <1>2, <1>4, <1>5, <1>6, <1>7, <1>8, <1>9 DEF Assigned
<1> QED BY <1>1, <1>10, AssignStep

LEMMA LockStep ==
  ASSUME ~Reentrant, IInv, NEW d \in Scopes, NEW s \in Scopes, Lock(d, s)
  PROVE  IInv'
<1>0. /\ use \in [Objs -> Nat] /\ sp \in [Scopes -> Blocks] /\ weak \in [Objs -> Nat]
      /\ obj \in [Objs -> ObjStates] /\ wp \in [Scopes -> Blocks]
      /\ made \in [Objs -> MadeStates] /\ blk \in [Objs -> BlkStates]
      /\ Null \notin Objs
  BY Unpack, PtrAssumption DEF Scopes
<1>1. MayUse(d) /\ Converts(Type(s), Type(d))
  BY DEF Lock, MayConvert
<1> PICK c, u, new, p, ob :
      /\ c = sp[d] /\ ob = obj /\ new = IF Expired(wp[s]) THEN Null ELSE wp[s]
      /\ u = AddRef(new) /\ p = Cast(DataPtr(new), Type(s), Type(d))
  OBVIOUS
<1>2. /\ Release(c, u, ob, <<>>) /\ sp' = [sp EXCEPT ![d] = new]
      /\ ptr' = [ptr EXCEPT ![d] = p] /\ UNCHANGED <<made, blk, weak, wp>>
  BY DEF Lock, Release
<1>3. new # Null => /\ new \in Objs /\ new = wp[s]
                    /\ use[new] \in 0..Cardinality(Scopes) /\ use[new] > 0
                    /\ Plus(use[new]) = use[new] + 1
  <2>1. new # Null => new \in Objs /\ new = wp[s] /\ use[new] # 0
    BY <1>0 DEF Expired, Blocks
  <2>2. \A o \in Objs : use[o] \in 0..Cardinality(Scopes)
    BY DEF IInv, TypeOK
  <2> QED BY <1>0, <2>1, <2>2, CounterArithmetic
<1>4. /\ u \in [Objs -> Nat] /\ u = Added(use, new)
      /\ \A o \in Objs : u[o] > 0 <=> use[o] > 0
  BY <1>0, <1>3 DEF AddRef, Added
<1>5. LivesOK(ob, u, weak, blk', destroying) /\ CallsOK(stack, ob, destroying, Roots)
  BY <1>2, <1>4 DEF IInv, LivesOK
<1>6. new # Null => made[new] = "node" \/ (Type(s) = "base" /\ made[new] = "base")
  BY <1>3 DEF IInv, MadeOK
<1>7. /\ Type(d) \in {"node", "base"} /\ Type(s) \in {"node", "base"}
      /\ (Type(s) = Type(d) \/ Type(s) = "node")
      /\ new # Null => LockConverted \/ made[new] = Type(s)
  BY <1>1, <1>3 DEF Type, Converts, Lock
<1>8. IF new = Null \/ ob[new] = "empty"
        THEN p = Null
        ELSE /\ p \in [to : Objs, part : {"node", "base"}] /\ p.to = new
             /\ p.part = Type(d) \/ (LockConverted /\ Type(d) = "base" /\ p.part = made'[new])
  <2>1. CASE new = Null \/ ob[new] = "empty"
    BY <2>1 DEF DataPtr, Cast
  <2>2. CASE ~(new = Null \/ ob[new] = "empty")
    <3>1. /\ DataPtr(new) = Address(new, made[new]) /\ new \in Objs
          /\ made[new] \in {"node", "base"}
      BY <1>3, <1>6, <2>2 DEF DataPtr
    <3>2. DataPtr(new) # Null
      BY <3>1, PtrAssumption DEF Address
    <3>3. p = Address(new, IF Type(s) = Type(d) THEN made[new] ELSE Type(d))
      BY <3>1, <3>2 DEF Cast, Address
    <3>4. p.to = new /\ p.part = IF Type(s) = Type(d) THEN made[new] ELSE Type(d)
      BY <3>3 DEF Address
    <3>5. p \in [to : Objs, part : {"node", "base"}]
      BY <1>7, <3>1, <3>3 DEF Address
    <3> QED BY <1>2, <1>6, <1>7, <2>2, <3>1, <3>4, <3>5
  <2> QED BY <2>1, <2>2
<1>9. p \in Addresses /\ (p \in [to : Objs, part : {"node", "base"}] => p # Null)
  BY <1>8, PtrAssumption DEF Addresses
<1>10. Assigned(d, new, p, c, u, ob)
  BY <1>0, <1>2, <1>3, <1>4, <1>5, <1>6, <1>7, <1>8, <1>9 DEF Assigned, Blocks
<1> QED BY <1>1, <1>10, AssignStep

(* Handles that have moved, or given up what they held, still hold what    *)
(* they should if what they hold has not changed.                          *)
Moved(f, p, R, ob, f2, p2, R2, ob2) ==
  \A x \in Scopes \ R2 :
    \/ f2[x] = Null /\ p2[x] = Null
    \/ \E y \in Scopes \ R :
         /\ Type(y) = Type(x) /\ f2[x] = f[y] /\ p2[x] = p[y]
         /\ f[y] # Null => ob2[f[y]] = ob[f[y]]

LEMMA MovedOK ==
  ASSUME NEW f, NEW p, NEW R, NEW ob, NEW f2, NEW p2, NEW R2, NEW ob2, NEW md,
         PointsOK(f, p, R, ob, md), MadeOK(f, R, md),
         Moved(f, p, R, ob, f2, p2, R2, ob2)
  PROVE  PointsOK(f2, p2, R2, ob2, md) /\ MadeOK(f2, R2, md)
<1>1. PointsOK(f2, p2, R2, ob2, md)
  <2> SUFFICES ASSUME NEW x \in Scopes \ R2
               PROVE  IF f2[x] = Null \/ ob2[f2[x]] = "empty"
                        THEN p2[x] = Null
                        ELSE /\ p2[x] # Null
                             /\ p2[x].to = f2[x]
                             /\ \/ p2[x].part = Type(x)
                                \/ LockConverted /\ Type(x) = "base" /\ p2[x].part = md[f2[x]]
    BY DEF PointsOK
  <2> QED BY DEF Moved, PointsOK
<1>2. MadeOK(f2, R2, md)
  BY DEF Moved, MadeOK
<1> QED BY <1>1, <1>2

(* Release of what one handle holds, by a call that adds nothing. *)
LEMMA ReleaseHeld ==
  ASSUME IInv, NEW d \in Scopes \ InReset, NEW c, c = sp[d], NEW ob, NEW w, NEW b,
         NEW below, NEW st,
         below = <<>> \/ \E f \in Frames : below = <<f>>, st = below \o stack,
         st \in Seq(Frames), ob \in [Objs -> ObjStates], Release(c, use, ob, below),
         LivesOK(ob, use, w, b, destroying), c # Null => obj[c] = ob[c]
  PROVE  Released(c, use, ob, st, w, b)
<1> PICK u : u = use
  OBVIOUS
<1>1. c \in Blocks /\ u \in [Objs -> Nat] /\ Release(c, u, ob, below)
  BY Unpack DEF Release
<1>2. c # Null => u[c] \in 1..Cardinality(Scopes) /\ blk[c] = "live"
  BY HeldCounts
<1>3. Cardinality(Scopes) \in Nat
  BY PtrAssumption, FS_CardinalityType
<1>4. c # Null => u[c] \in 1..(Cardinality(Scopes) + 1) /\ blk[c] = "live" /\ obj[c] = ob[c]
  BY <1>2, <1>3
<1>5. ReleaseCalled(c, u, ob, below, st, w, b)
  BY <1>1, <1>4 DEF ReleaseCalled
<1> QED BY <1>5, ReleaseStep

LEMMA MoveStep ==
  ASSUME ~Reentrant, IInv, NEW d \in Scopes, NEW s \in Scopes, Move(d, s)
  PROVE  IInv'
<1>0. /\ use \in [Objs -> Nat] /\ sp \in [Scopes -> Blocks] /\ wp \in [Scopes -> Blocks]
      /\ ptr \in [Scopes -> Addresses] /\ weak \in [Objs -> Nat]
      /\ obj \in [Objs -> ObjStates] /\ made \in [Objs -> MadeStates]
      /\ blk \in [Objs -> BlkStates]
      /\ stack \in Seq(Frames) /\ InReset = Resets(stack) /\ <<>> \o stack = stack
      /\ Null \notin Objs /\ Null \in Blocks /\ Null \in Addresses
  BY Unpack, PtrAssumption DEF Scopes, Blocks, Addresses
<1>1. /\ d \in Scopes \ InReset /\ s \in Scopes \ InReset /\ d # s /\ Type(d) = Type(s)
      /\ Exists(d) /\ Exists(s)
      /\ stack = <<>> \/ (d \in Objs /\ obj[d] = "body" /\ s \in Objs /\ obj[s] = "body")
  BY MayUseFree DEF Move
<1> PICK c, ob, st, w, b : /\ c = sp[d] /\ ob = obj /\ st = stack /\ w = weak /\ b = blk
  OBVIOUS
<1>2. /\ Release(c, use, ob, <<>>) /\ UNCHANGED <<made, blk, weak, wp>>
      /\ sp' = [sp EXCEPT ![d] = sp[s], ![s] = Null]
      /\ ptr' = [ptr EXCEPT ![d] = ptr[s], ![s] = Null]
  BY DEF Move, Release
<1>3. Released(c, use, ob, st, w, b)
  BY <1>0, <1>1, <1>2, ReleaseHeld DEF IInv
<1>4. Counts(use', sp', InReset)
  <2> DEFINE g == [sp EXCEPT ![d] = Null]
             h == [g EXCEPT ![d] = g[s], ![s] = g[d]]
  <2>1. Removed(Added(use, Null), sp[d]) = use'
    BY <1>3 DEF Released, Added
  <2>2. Counts(use', g, InReset) /\ g \in [Scopes -> Blocks]
    BY <1>0, <1>1, <2>1, CountSwap DEF IInv
  <2>3. Counts(use', h, InReset)
    <3> HIDE DEF g
    <3> QED BY <1>1, <2>2, CountExchange
  <2>4. h = sp'
    BY <1>0, <1>1, <1>2
  <2> QED BY <2>3, <2>4
<1>5. HandlesOK(obj', sp', ptr', wp')
  <2>1. \A o \in Objs : obj'[o] \in {"alive", "body"} <=> obj[o] \in {"alive", "body"}
    BY <1>3 DEF Released
  <2>2. /\ d \in Objs => obj[d] \in {"alive", "body"}
        /\ s \in Objs => obj[s] \in {"alive", "body"}
    BY <1>1, PtrAssumption DEF Exists
  <2>3. \A o \in Objs : o # d /\ o # s => sp'[o] = sp[o] /\ ptr'[o] = ptr[o]
    BY <1>0, <1>2 DEF Scopes
  <2> QED BY <1>2, <2>1, <2>2, <2>3 DEF HandlesOK, IInv
<1>6. Moved(sp, ptr, InReset, obj, sp', ptr', InReset, obj')
  <2> SUFFICES ASSUME NEW x \in Scopes \ InReset
               PROVE  \/ sp'[x] = Null /\ ptr'[x] = Null
                      \/ \E y \in Scopes \ InReset :
                           /\ Type(y) = Type(x) /\ sp'[x] = sp[y] /\ ptr'[x] = ptr[y]
                           /\ sp[y] # Null => obj'[sp[y]] = obj[sp[y]]
    BY DEF Moved
  <2>1. sp'[x] # Null => use'[sp'[x]] > 0 /\ sp'[x] \in Objs
    BY <1>0, <1>2, <1>4, CountRange DEF Blocks
  <2>2. sp'[x] # Null => obj'[sp'[x]] = obj[sp'[x]]
    BY <1>3, <2>1 DEF Released
  <2>3. CASE x = s
    BY <1>0, <1>2, <2>3
  <2>4. CASE x = d
    BY <1>0, <1>1, <1>2, <2>2, <2>4
  <2>5. CASE x # s /\ x # d
    BY <1>0, <1>2, <2>2, <2>5
  <2> QED BY <2>3, <2>4, <2>5
<1>7. PointsOK(sp', ptr', InReset, obj', made') /\ MadeOK(sp', InReset, made')
  BY <1>2, <1>6, MovedOK DEF IInv
<1>8. CallsOK(stack', obj', destroying', Roots')
  <2>1. \/ stack = <<>>
        \/ \A x \in Scopes : ptr'[x] # ptr[x] => x \in Objs /\ obj[x] = "body"
    BY <1>0, <1>1, <1>2
  <2>2. CallsOK(stack, ob, destroying, Roots')
    BY <2>1, RootsKept DEF IInv
  <2> QED BY <1>3, <2>2 DEF Released
<1>9. /\ sp' \in [Scopes -> Blocks] /\ ptr' \in [Scopes -> Addresses]
      /\ use' \in [Objs -> Nat]
  <2>1. use' \in [Objs -> Nat]
    <3>1. Removed(Added(use, Null), sp[d]) = use'
      BY <1>3 DEF Released, Added
    <3> QED BY <1>0, <1>1, <3>1, CountSwap DEF IInv
  <2> QED BY <1>0, <1>2, <2>1
<1>10. /\ obj' \in [Objs -> ObjStates] /\ destroying' \in [Objs -> BOOLEAN]
       /\ stack' \in Seq(Frames) /\ Resets(stack') = InReset /\ fault' = "none"
       /\ LivesOK(obj', use', weak', blk', destroying')
  BY <1>0, <1>2, <1>3 DEF Released
<1> QED BY <1>0, <1>2, <1>4, <1>5, <1>7, <1>8, <1>9, <1>10, Rebuild DEF IInv

LEMMA SwapStep ==
  ASSUME ~Reentrant, IInv, NEW d \in Scopes, NEW s \in Scopes, Swap(d, s)
  PROVE  IInv'
<1>0. /\ use \in [Objs -> Nat] /\ sp \in [Scopes -> Blocks] /\ wp \in [Scopes -> Blocks]
      /\ ptr \in [Scopes -> Addresses] /\ weak \in [Objs -> Nat]
      /\ obj \in [Objs -> ObjStates] /\ made \in [Objs -> MadeStates]
      /\ blk \in [Objs -> BlkStates] /\ destroying \in [Objs -> BOOLEAN]
      /\ stack \in Seq(Frames) /\ InReset = Resets(stack) /\ fault = "none"
      /\ Null \notin Objs /\ Null \in Blocks /\ Null \in Addresses
  BY Unpack, PtrAssumption DEF IInv, Scopes, Blocks, Addresses
<1>1. /\ d \in Scopes \ InReset /\ s \in Scopes \ InReset /\ Type(d) = Type(s)
      /\ Exists(d) /\ Exists(s)
      /\ stack = <<>> \/ (d \in Objs /\ obj[d] = "body" /\ s \in Objs /\ obj[s] = "body")
  BY MayUseFree DEF Swap
<1>2. /\ UNCHANGED <<obj, made, blk, use, weak, destroying, wp, stack, fault>>
      /\ sp' = [sp EXCEPT ![d] = sp[s], ![s] = sp[d]]
      /\ ptr' = [ptr EXCEPT ![d] = ptr[s], ![s] = ptr[d]]
  BY DEF Swap
<1>3. Counts(use', sp', InReset)
  BY <1>0, <1>1, <1>2, CountExchange DEF IInv
<1>4. HandlesOK(obj', sp', ptr', wp')
  <2>1. /\ d \in Objs => obj[d] \in {"alive", "body"}
        /\ s \in Objs => obj[s] \in {"alive", "body"}
    BY <1>1, PtrAssumption DEF Exists
  <2>2. \A o \in Objs : o # d /\ o # s => sp'[o] = sp[o] /\ ptr'[o] = ptr[o]
    BY <1>0, <1>2 DEF Scopes
  <2> QED BY <1>2, <2>1, <2>2 DEF HandlesOK, IInv
<1>5. Moved(sp, ptr, InReset, obj, sp', ptr', InReset, obj')
  BY <1>0, <1>1, <1>2 DEF Moved
<1>6. PointsOK(sp', ptr', InReset, obj', made') /\ MadeOK(sp', InReset, made')
  BY <1>2, <1>5, MovedOK DEF IInv
<1>7. CallsOK(stack', obj', destroying', Roots')
  <2>1. \/ stack = <<>>
        \/ \A x \in Scopes : ptr'[x] # ptr[x] => x \in Objs /\ obj[x] = "body"
    BY <1>0, <1>1, <1>2
  <2> QED BY <1>2, <2>1, RootsKept DEF IInv
<1>8. sp' \in [Scopes -> Blocks] /\ ptr' \in [Scopes -> Addresses]
  BY <1>0, <1>2
<1> QED BY <1>0, <1>2, <1>3, <1>4, <1>6, <1>7, <1>8, Rebuild DEF IInv

LEMMA MakeFailsStep ==
  ASSUME IInv, NEW s \in Scopes, NEW o \in Objs, MakeFails(s, o)
  PROVE  IInv'
<1>0. /\ use \in [Objs -> Nat] /\ sp \in [Scopes -> Blocks] /\ wp \in [Scopes -> Blocks]
      /\ ptr \in [Scopes -> Addresses] /\ weak \in [Objs -> Nat]
      /\ obj \in [Objs -> ObjStates] /\ made \in [Objs -> MadeStates]
      /\ blk \in [Objs -> BlkStates] /\ destroying \in [Objs -> BOOLEAN]
      /\ stack \in Seq(Frames) /\ InReset = Resets(stack) /\ fault = "none"
      /\ Null \notin Objs /\ Null \in Blocks /\ Null \in Addresses
  BY Unpack, PtrAssumption DEF IInv, Scopes, Blocks, Addresses
<1>1. /\ obj[o] = "free" /\ obj' = [obj EXCEPT ![o] = "body"]
      /\ stack' = <<DeleteFrame(o, "raw")>> \o stack
      /\ UNCHANGED <<made, blk, use, weak, destroying, sp, ptr, wp, fault>>
  BY DEF MakeFails, Push
<1>2. use[o] = 0 /\ blk[o] = "free"
  BY <1>1, FreshBlock
<1>3. DeleteFrame(o, "raw") \in Frames /\ DeleteFrame(o, "raw").op = "raw"
  BY DEF DeleteFrame, Frames
<1>4. stack' \in Seq(Frames) /\ Resets(stack') = InReset
  <2> PICK x : x = DeleteFrame(o, "raw")
    OBVIOUS
  <2>1. Resets(<<x>> \o stack) =
          Resets(stack) \cup (IF x.op = "reset" THEN {x.at} ELSE {})
    BY <1>0, <1>3, PushOccurs
  <2> QED BY <1>0, <1>1, <1>3, <2>1, PushFacts
<1>5. LivesOK(obj', use', weak', blk', destroying') /\ HandlesOK(obj', sp', ptr', wp')
  BY <1>0, <1>1, <1>2 DEF IInv, LivesOK, HandlesOK
<1>6. Moved(sp, ptr, InReset, obj, sp', ptr', InReset, obj')
  <2>1. \A x \in Scopes \ InReset : sp[x] # Null => sp[x] \in Objs /\ sp[x] # o
    BY <1>1, HeldCounts
  <2> QED BY <1>0, <1>1, <2>1 DEF Moved
<1>7. PointsOK(sp', ptr', InReset, obj', made') /\ MadeOK(sp', InReset, made')
  BY <1>1, <1>6, MovedOK DEF IInv
<1>8. CallsOK(stack', obj', destroying', Roots')
  <2>1. CallsOK(stack, obj, destroying, Roots')
    BY <1>1, RootsKept DEF IInv
  <2>2. CallsOK(<<DeleteFrame(o, "raw")>> \o stack, [obj EXCEPT ![o] = "body"],
                IF "raw" = "release" THEN [destroying EXCEPT ![o] = TRUE]
                                     ELSE destroying, Roots')
    BY <1>0, <1>1, <2>1, CallsDelete
  <2> QED BY <1>1, <2>2
<1>9. obj' \in [Objs -> ObjStates]
  BY <1>0, <1>1 DEF ObjStates
<1> QED BY <1>0, <1>1, <1>4, <1>5, <1>7, <1>8, <1>9, Rebuild DEF IInv

LEMMA ResetStep ==
  ASSUME ~Reentrant, IInv, NEW s \in Scopes, Reset(s)
  PROVE  IInv'
<1>0. /\ use \in [Objs -> Nat] /\ sp \in [Scopes -> Blocks] /\ wp \in [Scopes -> Blocks]
      /\ ptr \in [Scopes -> Addresses] /\ weak \in [Objs -> Nat]
      /\ obj \in [Objs -> ObjStates] /\ made \in [Objs -> MadeStates]
      /\ blk \in [Objs -> BlkStates] /\ destroying \in [Objs -> BOOLEAN]
      /\ stack \in Seq(Frames) /\ InReset = Resets(stack) /\ fault = "none"
      /\ Null \notin Objs /\ Null \in Blocks /\ Null \in Addresses
  BY Unpack, PtrAssumption DEF IInv, Scopes, Blocks, Addresses
<1>1. /\ s \in Scopes \ InReset
      /\ \/ stack = <<>> /\ s \in Roots
         \/ stack # <<>> /\ IsDelete(Head(stack)) /\ Head(stack).at = s /\ obj[s] = "body"
  BY MayUseFree DEF Reset
<1> PICK f, c, ob, st, w, b, below :
      /\ f = ResetFrame(s) /\ c = sp[s] /\ ob = obj /\ below = <<f>>
      /\ st = <<f>> \o stack /\ w = weak /\ b = blk
  OBVIOUS
<1>2. /\ Release(c, use, ob, below) /\ UNCHANGED <<made, blk, weak, sp, ptr, wp>>
  BY DEF Reset, Release
<1>3. f \in Frames /\ f.op = "reset" /\ f.at = s
  BY DEF ResetFrame, Frames
<1>4. st \in Seq(Frames) /\ Resets(st) = InReset \cup {s}
  <2>1. Resets(<<f>> \o stack) =
          Resets(stack) \cup (IF f.op = "reset" THEN {f.at} ELSE {})
    BY <1>0, <1>3, PushOccurs
  <2> QED BY <1>0, <1>3, <2>1, PushFacts
<1>5. Released(c, use, ob, st, w, b)
  BY <1>0, <1>1, <1>2, <1>3, <1>4, ReleaseHeld DEF IInv
<1>6. /\ use' \in [Objs -> Nat] /\ Counts(use', sp', InReset \cup {s})
  BY <1>0, <1>1, <1>2, <1>5, CountGiveUp DEF Released, IInv
<1>7. HandlesOK(obj', sp', ptr', wp')
  BY <1>2, <1>5 DEF Released, HandlesOK, IInv
<1>8. Moved(sp, ptr, InReset, obj, sp', ptr', InReset \cup {s}, obj')
  <2>1. \A x \in Scopes \ (InReset \cup {s}) :
          sp[x] # Null => sp[x] \in Objs /\ use'[sp[x]] > 0
    BY <1>0, <1>2, <1>6, CountRange DEF Blocks
  <2> QED BY <1>2, <1>5, <2>1 DEF Moved, Released
<1>9. /\ PointsOK(sp', ptr', InReset \cup {s}, obj', made')
      /\ MadeOK(sp', InReset \cup {s}, made')
  BY <1>2, <1>8, MovedOK DEF IInv
<1>10. CallsOK(stack', obj', destroying', Roots')
  <2>1. CallsOK(st, ob, destroying, Roots)
    BY <1>0, <1>1, CallsReset DEF IInv
  <2>2. Roots' = Roots
    BY <1>2 DEF Roots, Reachable, PointsRight
  <2> QED BY <1>5, <2>1, <2>2 DEF Released
<1>11. /\ obj' \in [Objs -> ObjStates] /\ destroying' \in [Objs -> BOOLEAN]
       /\ stack' \in Seq(Frames) /\ Resets(stack') = InReset \cup {s} /\ fault' = "none"
       /\ LivesOK(obj', use', weak', blk', destroying')
  BY <1>2, <1>4, <1>5 DEF Released
<1> QED BY <1>0, <1>2, <1>6, <1>7, <1>9, <1>10, <1>11, Rebuild DEF IInv

LEMMA ResetReturnsStep ==
  ASSUME IInv, NEW s \in Scopes, ResetReturns(s)
  PROVE  IInv'
<1>0. /\ use \in [Objs -> Nat] /\ sp \in [Scopes -> Blocks] /\ wp \in [Scopes -> Blocks]
      /\ ptr \in [Scopes -> Addresses] /\ weak \in [Objs -> Nat]
      /\ obj \in [Objs -> ObjStates] /\ made \in [Objs -> MadeStates]
      /\ blk \in [Objs -> BlkStates] /\ destroying \in [Objs -> BOOLEAN]
      /\ stack \in Seq(Frames) /\ InReset = Resets(stack) /\ fault = "none"
      /\ Null \notin Objs /\ Null \in Blocks /\ Null \in Addresses
  BY Unpack, PtrAssumption DEF IInv, Scopes, Blocks, Addresses
<1>1. /\ stack # <<>> /\ Head(stack).op = "reset" /\ Head(stack).at = s
      /\ stack' = Tail(stack)
      /\ sp' = [sp EXCEPT ![s] = Null] /\ ptr' = [ptr EXCEPT ![s] = Null]
      /\ UNCHANGED <<obj, made, blk, use, weak, destroying, wp>>
  <2>1. Head(stack) = [op |-> "reset", at |-> s]
    BY DEF ResetReturns, Top, ResetFrame
  <2>2. Head(stack).op = "reset" /\ Head(stack).at = s
    BY <2>1
  <2> QED BY <2>2 DEF ResetReturns
<1>2. /\ stack' \in Seq(Frames) /\ Head(stack) = stack[1] /\ 1 \in DOMAIN stack
      /\ Len(stack) = 1 => stack' = <<>>
  BY <1>0, <1>1
<1>3. Resets(stack') \subseteq InReset /\ InReset = Resets(stack') \cup {s}
  <2>1. Resets(stack) = Resets(Tail(stack))
          \cup (IF Head(stack).op = "reset" THEN {Head(stack).at} ELSE {})
    BY <1>0, <1>1, PopOccurs
  <2> QED BY <1>0, <1>1, <2>1
<1>4. fault' = "none"
  <2>1. Exists(s)
    BY <1>3, InResetExists
  <2> QED BY <1>0, <2>1, PtrAssumption DEF ResetReturns, Exists
<1>5. Counts(use', sp', Resets(stack'))
  BY <1>0, <1>1, <1>3, CountClear DEF IInv
<1>6. HandlesOK(obj', sp', ptr', wp')
  BY <1>0, <1>1 DEF HandlesOK, IInv, Scopes
<1>7. Moved(sp, ptr, InReset, obj, sp', ptr', Resets(stack'), obj')
  BY <1>0, <1>1, <1>3 DEF Moved
<1>8. /\ PointsOK(sp', ptr', Resets(stack'), obj', made')
      /\ MadeOK(sp', Resets(stack'), made')
  BY <1>1, <1>7, MovedOK DEF IInv
<1>9. CallsOK(stack', obj', destroying', Roots')
  <2>1. CASE Len(stack) = 1
    <3>1. CallsOK(stack', obj, destroying, Roots)
      BY <1>0, <1>1, CallsResetReturns DEF IInv
    <3>2. stack' = <<>>
      BY <1>2, <2>1
    <3> QED BY <1>1, <1>2, <3>1, <3>2, CallsRoots
  <2>2. CASE Len(stack) # 1
    <3>1. s \in Objs /\ obj[s] = "body"
      BY <1>1, <1>2, <2>2, InResetIs
    <3>2. \A x \in Scopes : ptr'[x] # ptr[x] => x \in Objs /\ obj[x] = "body"
      BY <1>0, <1>1, <3>1
    <3>3. CallsOK(stack, obj, destroying, Roots')
      BY <3>2, RootsKept DEF IInv
    <3> QED BY <1>0, <1>1, <3>3, CallsResetReturns
  <2> QED BY <2>1, <2>2
<1>10. sp' \in [Scopes -> Blocks] /\ ptr' \in [Scopes -> Addresses]
  BY <1>0, <1>1
<1> QED BY <1>0, <1>1, <1>2, <1>4, <1>5, <1>6, <1>8, <1>9, <1>10, Rebuild DEF IInv

(* AddWeak on a living block and ReleaseWeak on the one d held. *)
LEMMA WeakSwapStep ==
  ASSUME IInv, NEW d \in Scopes, NEW new \in Blocks, new # Null => blk[new] = "live",
         WeakSwap(new, wp[d])
  PROVE  /\ weak' \in [Objs -> Nat] /\ blk' \in [Objs -> BlkStates]
         /\ Counts(weak', [wp EXCEPT ![d] = new], {})
         /\ LivesOK(obj, use, weak', blk', destroying)
<1>0. /\ use \in [Objs -> Nat] /\ sp \in [Scopes -> Blocks] /\ wp \in [Scopes -> Blocks]
      /\ ptr \in [Scopes -> Addresses] /\ weak \in [Objs -> Nat]
      /\ obj \in [Objs -> ObjStates] /\ made \in [Objs -> MadeStates]
      /\ blk \in [Objs -> BlkStates] /\ destroying \in [Objs -> BOOLEAN]
      /\ stack \in Seq(Frames) /\ InReset = Resets(stack) /\ fault = "none"
      /\ Null \notin Objs /\ Null \in Blocks /\ Null \in Addresses
  BY Unpack, PtrAssumption DEF IInv, Scopes, Blocks, Addresses
<1> PICK old : old = wp[d]
  OBVIOUS
<1>1. weak' = Removed(Added(weak, new), old)
  BY DEF WeakSwap, Removed, Added
<1>2. /\ weak' \in [Objs -> Nat] /\ Counts(weak', [wp EXCEPT ![d] = new], {})
  <2>1. d \in Scopes \ {} /\ Counts(weak, wp, {})
    BY DEF IInv
  <2> QED BY <1>0, <1>1, <2>1, CountSwap
<1>3. /\ blk' = IF old # Null /\ weak'[old] = 0 /\ use[old] = 0 /\ ~destroying[old]
                  THEN [blk EXCEPT ![old] = "gone"] ELSE blk
  BY <1>1 DEF WeakSwap, Removed, Added
<1>4. blk' \in [Objs -> BlkStates]
  BY <1>0, <1>3 DEF BlkStates
<1>5. old # Null => old \in Objs /\ blk[old] = "live"
  BY WatchedCounts
<1>6. ASSUME NEW o \in Objs, o # old
      PROVE  /\ blk'[o] = blk[o]
             /\ IF o = new THEN weak'[o] > 0 ELSE weak'[o] = weak[o]
  <2>1. blk'[o] = blk[o]
    BY <1>0, <1>3, <1>6
  <2>2. weak[o] \in 0..Cardinality(Scopes) /\ weak[o] \in Nat
    BY <1>0 DEF IInv, TypeOK
  <2>3. weak'[o] = IF o = new THEN Plus(weak[o]) ELSE weak[o]
    BY <1>0, <1>1, <1>6 DEF Removed, Added
  <2> QED BY <2>1, <2>2, <2>3, CounterArithmetic
<1>7. ASSUME NEW o \in Objs
      PROVE  /\ obj[o] \in {"alive", "empty"} <=> use[o] > 0
             /\ blk'[o] = "live" <=> use[o] > 0 \/ weak'[o] > 0 \/ destroying[o]
             /\ obj[o] = "free" => blk'[o] = "free"
  <2>0. /\ obj[o] \in {"alive", "empty"} <=> use[o] > 0
        /\ blk[o] = "live" <=> use[o] > 0 \/ weak[o] > 0 \/ destroying[o]
        /\ obj[o] = "free" => blk[o] = "free"
    BY DEF IInv, LivesOK
  <2>1. CASE o = old
    <3>1. blk[o] = "live" /\ use[o] \in Nat /\ weak'[o] \in Nat
      BY <1>0, <1>2, <1>5, <2>1
    <3> QED BY <1>0, <1>3, <2>0, <2>1, <3>1
  <2>2. CASE o # old
    <3>1. o = new => blk[o] = "live"
      BY <1>0
    <3> QED BY <1>6, <2>0, <2>2, <3>1
  <2> QED BY <2>1, <2>2
<1> QED BY <1>2, <1>4, <1>7 DEF LivesOK

(* The steps of WeakPtr leave everything else alone. *)
LEMMA WeakFrame ==
  ASSUME IInv, UNCHANGED <<obj, made, use, destroying, sp, ptr, stack, fault>>,
         weak' \in [Objs -> Nat], blk' \in [Objs -> BlkStates],
         wp' \in [Scopes -> Blocks], Counts(weak', wp', {}),
         LivesOK(obj, use, weak', blk', destroying), MadeOK(wp', {}, made),
         \A o \in Objs : obj[o] \notin {"alive", "body"} => wp'[o] = Null
  PROVE  IInv'
<1>0. /\ use \in [Objs -> Nat] /\ sp \in [Scopes -> Blocks] /\ wp \in [Scopes -> Blocks]
      /\ ptr \in [Scopes -> Addresses] /\ weak \in [Objs -> Nat]
      /\ obj \in [Objs -> ObjStates] /\ made \in [Objs -> MadeStates]
      /\ blk \in [Objs -> BlkStates] /\ destroying \in [Objs -> BOOLEAN]
      /\ stack \in Seq(Frames) /\ InReset = Resets(stack) /\ fault = "none"
      /\ Null \notin Objs /\ Null \in Blocks /\ Null \in Addresses
  BY Unpack, PtrAssumption DEF IInv, Scopes, Blocks, Addresses
<1>1. Roots' = Roots
  BY DEF Roots, Reachable, PointsRight
<1>2. HandlesOK(obj', sp', ptr', wp')
  BY DEF HandlesOK, IInv
<1> QED BY <1>0, <1>1, <1>2, Rebuild DEF IInv

LEMMA WeakAssignStep ==
  ASSUME ~Reentrant, IInv, NEW d \in Scopes, NEW s \in Scopes,
         WeakCopy(d, s) \/ WeakFromShared(d, s) \/ (d = s /\ WeakReset(s))
  PROVE  IInv'
<1>0. /\ use \in [Objs -> Nat] /\ sp \in [Scopes -> Blocks] /\ wp \in [Scopes -> Blocks]
      /\ ptr \in [Scopes -> Addresses] /\ weak \in [Objs -> Nat]
      /\ obj \in [Objs -> ObjStates] /\ made \in [Objs -> MadeStates]
      /\ blk \in [Objs -> BlkStates] /\ destroying \in [Objs -> BOOLEAN]
      /\ stack \in Seq(Frames) /\ InReset = Resets(stack) /\ fault = "none"
      /\ Null \notin Objs /\ Null \in Blocks /\ Null \in Addresses
  BY Unpack, PtrAssumption DEF IInv, Scopes, Blocks, Addresses
<1>1. PICK c \in Blocks :
        /\ MayUse(d)
        /\ WeakAssign(d, c)
        /\ c # Null => /\ blk[c] = "live"
                       /\ made[c] = "node" \/ (Type(d) = "base" /\ made[c] = "base")
  <2>1. CASE WeakCopy(d, s)
    <3>1. MayUse(d) /\ Converts(Type(s), Type(d)) /\ WeakAssign(d, wp[s]) /\ wp[s] \in Blocks
      BY <1>0, <2>1 DEF WeakCopy, MayConvert
    <3>2. wp[s] # Null => /\ blk[wp[s]] = "live"
                          /\ made[wp[s]] = "node" \/
                               (Type(s) = "base" /\ made[wp[s]] = "base")
      BY WatchedCounts DEF IInv, MadeOK
    <3> QED BY <3>1, <3>2 DEF Converts, Type
  <2>2. CASE WeakFromShared(d, s)
    <3>1. MayUse(d) /\ MayUse(s) /\ Converts(Type(s), Type(d)) /\ WeakAssign(d, sp[s])
          /\ sp[s] \in Blocks
      BY <1>0, <2>2 DEF WeakFromShared, MayConvert
    <3>2. s \in Scopes \ InReset
      BY <3>1, MayUseFree
    <3>3. sp[s] # Null => /\ blk[sp[s]] = "live"
                          /\ made[sp[s]] = "node" \/
                               (Type(s) = "base" /\ made[sp[s]] = "base")
      BY <3>2, HeldCounts DEF IInv, MadeOK
    <3> QED BY <3>1, <3>3 DEF Converts, Type
  <2>3. CASE d = s /\ WeakReset(s)
    BY <1>0, <2>3 DEF WeakReset
  <2> QED BY <2>1, <2>2, <2>3
<1>2. /\ WeakSwap(c, wp[d]) /\ wp' = [wp EXCEPT ![d] = c]
      /\ UNCHANGED <<obj, made, use, destroying, sp, ptr, stack>>
  BY <1>1 DEF WeakAssign
<1>3. UNCHANGED fault
  <2>1. \A x \in {c, wp[d]} \ {Null} : blk[x] = "live"
    BY <1>1, WatchedCounts
  <2> QED BY <1>1, <2>1 DEF WeakAssign
<1>4. /\ weak' \in [Objs -> Nat] /\ blk' \in [Objs -> BlkStates]
      /\ Counts(weak', wp', {}) /\ LivesOK(obj, use, weak', blk', destroying)
  BY <1>1, <1>2, WeakSwapStep
<1>5. MadeOK(wp', {}, made) /\ wp' \in [Scopes -> Blocks]
  BY <1>0, <1>1, <1>2 DEF IInv, MadeOK
<1>6. \A o \in Objs : obj[o] \notin {"alive", "body"} => wp'[o] = Null
  <2>1. d \in Objs => obj[d] \in {"alive", "body"}
    BY <1>1, MayUseFree, PtrAssumption DEF Exists
  <2> QED BY <1>0, <1>2, <2>1 DEF IInv, HandlesOK, Scopes
<1> QED BY <1>2, <1>3, <1>4, <1>5, <1>6, WeakFrame

LEMMA WeakMoveStep ==
  ASSUME ~Reentrant, IInv, NEW d \in Scopes, NEW s \in Scopes, WeakMove(d, s)
  PROVE  IInv'
<1>0. /\ use \in [Objs -> Nat] /\ sp \in [Scopes -> Blocks] /\ wp \in [Scopes -> Blocks]
      /\ ptr \in [Scopes -> Addresses] /\ weak \in [Objs -> Nat]
      /\ obj \in [Objs -> ObjStates] /\ made \in [Objs -> MadeStates]
      /\ blk \in [Objs -> BlkStates] /\ destroying \in [Objs -> BOOLEAN]
      /\ stack \in Seq(Frames) /\ InReset = Resets(stack) /\ fault = "none"
      /\ Null \notin Objs /\ Null \in Blocks /\ Null \in Addresses
  BY Unpack, PtrAssumption DEF IInv, Scopes, Blocks, Addresses
<1>1. /\ MayUse(d) /\ MayUse(s) /\ Converts(Type(s), Type(d)) /\ d # s
      /\ WeakSwap(Null, wp[d]) /\ wp' = [wp EXCEPT ![d] = wp[s], ![s] = Null]
      /\ UNCHANGED <<obj, made, use, destroying, sp, ptr, stack, fault>>
  BY DEF WeakMove, MayConvert
<1>2. /\ weak' \in [Objs -> Nat] /\ blk' \in [Objs -> BlkStates]
      /\ Counts(weak', [wp EXCEPT ![d] = Null], {})
      /\ LivesOK(obj, use, weak', blk', destroying)
  BY <1>0, <1>1, WeakSwapStep
<1>3. Counts(weak', wp', {})
  <2> DEFINE g == [wp EXCEPT ![d] = Null]
             h == [g EXCEPT ![d] = g[s], ![s] = g[d]]
  <2>1. g \in [Scopes -> Blocks] /\ h = wp'
    BY <1>0, <1>1
  <2>2. Counts(weak', h, {})
    <3> HIDE DEF g
    <3> QED BY <1>2, <2>1, CountExchange DEF g
  <2> QED BY <2>1, <2>2
<1>4. wp' \in [Scopes -> Blocks]
  BY <1>0, <1>1
<1>5. MadeOK(wp', {}, made)
  BY <1>0, <1>1 DEF IInv, MadeOK, Converts, Type
<1>6. \A o \in Objs : obj[o] \notin {"alive", "body"} => wp'[o] = Null
  <2>1. d \in Objs => obj[d] \in {"alive", "body"}
    BY <1>1, MayUseFree, PtrAssumption DEF Exists
  <2> QED BY <1>0, <1>1, <2>1 DEF IInv, HandlesOK, Scopes
<1> QED BY <1>1, <1>2, <1>3, <1>4, <1>5, <1>6, WeakFrame

LEMMA DestroyMembersStep ==
  ASSUME IInv, NEW o \in Objs, DestroyMembers(o)
  PROVE  IInv'
<1>0. /\ use \in [Objs -> Nat] /\ sp \in [Scopes -> Blocks] /\ wp \in [Scopes -> Blocks]
      /\ ptr \in [Scopes -> Addresses] /\ weak \in [Objs -> Nat]
      /\ obj \in [Objs -> ObjStates] /\ made \in [Objs -> MadeStates]
      /\ blk \in [Objs -> BlkStates] /\ destroying \in [Objs -> BOOLEAN]
      /\ stack \in Seq(Frames) /\ InReset = Resets(stack) /\ fault = "none"
      /\ Null \notin Objs /\ Null \in Blocks /\ Null \in Addresses
  BY Unpack, PtrAssumption DEF IInv, Scopes, Blocks, Addresses
<1>1. /\ InBody(o) /\ WeakSwap(Null, wp[o])
      /\ sp' = [sp EXCEPT ![o] = Null] /\ ptr' = [ptr EXCEPT ![o] = Null]
      /\ wp' = [wp EXCEPT ![o] = Null] /\ UNCHANGED made
  BY DEF DestroyMembers
<1>2. /\ o \in Scopes \ InReset /\ stack # <<>> /\ IsDelete(Head(stack))
      /\ Head(stack).at = o /\ obj[o] = "body"
  BY <1>1, BodyIsFree DEF InBody, Scopes
<1>3. /\ weak' \in [Objs -> Nat] /\ blk' \in [Objs -> BlkStates]
      /\ Counts(weak', wp', {}) /\ LivesOK(obj, use, weak', blk', destroying)
  BY <1>0, <1>1, <1>2, WeakSwapStep
<1> PICK c, ob, st, w, b :
      /\ c = sp[o] /\ ob = [obj EXCEPT ![o] = "members"] /\ st = stack
      /\ w = weak' /\ b = blk'
  OBVIOUS
<1>4. Release(c, use, ob, <<>>) /\ st \in Seq(Frames) /\ st = <<>> \o stack
  <2>1. Release(sp[o], use, [obj EXCEPT ![o] = "members"], <<>>)
    BY DEF DestroyMembers
  <2>2. <<>> \o stack = stack
    BY <1>0, PushTwice, <1>2, PopFacts
  <2> QED BY <1>0, <2>1, <2>2
<1>5. /\ ob \in [Objs -> ObjStates] /\ ob[o] = "members"
      /\ \A x \in Objs : x # o => ob[x] = obj[x]
  BY <1>0 DEF ObjStates
<1>6. LivesOK(ob, use, w, b, destroying)
  BY <1>2, <1>3, <1>5 DEF LivesOK
<1>7. c # Null => obj[c] = ob[c]
  BY <1>2, <1>5, HeldCounts
<1>8. Released(c, use, ob, st, w, b)
  BY <1>2, <1>4, <1>5, <1>6, <1>7, ReleaseHeld
<1>9. use' \in [Objs -> Nat] /\ Counts(use', sp', InReset)
  <2>1. Removed(Added(use, Null), sp[o]) = use'
    BY <1>8 DEF Released, Added
  <2> QED BY <1>0, <1>1, <1>2, <2>1, CountSwap DEF IInv
<1>10. HandlesOK(obj', sp', ptr', wp')
  <2>1. \A x \in Objs : x # o =>
          /\ sp'[x] = sp[x] /\ ptr'[x] = ptr[x] /\ wp'[x] = wp[x]
          /\ obj'[x] \in {"alive", "body"} <=> obj[x] \in {"alive", "body"}
    BY <1>0, <1>1, <1>5, <1>8 DEF Released, Scopes
  <2>2. sp'[o] = Null /\ ptr'[o] = Null /\ wp'[o] = Null
    BY <1>0, <1>1, <1>2
  <2> QED BY <2>1, <2>2 DEF HandlesOK, IInv
<1>11. Moved(sp, ptr, InReset, obj, sp', ptr', InReset, obj')
  <2>1. ASSUME NEW x \in Scopes \ InReset, x # o, sp[x] # Null
        PROVE  obj'[sp[x]] = obj[sp[x]]
    <3>1. sp'[x] = sp[x] /\ sp[x] \in Objs /\ sp[x] # o
      BY <1>0, <1>1, <1>2, <2>1, HeldCounts
    <3>2. use'[sp[x]] > 0
      BY <1>9, <2>1, <3>1, CountRange
    <3> QED BY <1>5, <1>8, <3>1, <3>2 DEF Released
  <2> QED BY <1>0, <1>1, <1>2, <2>1 DEF Moved
<1>12. PointsOK(sp', ptr', InReset, obj', made') /\ MadeOK(sp', InReset, made')
  BY <1>1, <1>11, MovedOK DEF IInv
<1>13. MadeOK(wp', {}, made') /\ wp' \in [Scopes -> Blocks]
  BY <1>0, <1>1 DEF IInv, MadeOK
<1>14. CallsOK(stack', obj', destroying', Roots')
  <2>1. \A x \in Scopes : ptr'[x] # ptr[x] => x \in Objs /\ obj[x] = "body"
    BY <1>0, <1>1, <1>2
  <2>2. CallsOK(stack, obj, destroying, Roots')
    BY <2>1, RootsKept DEF IInv
  <2>3. CallsOK(st, ob, destroying, Roots')
    BY <1>0, <1>2, <2>2, CallsBodyEnds
  <2> QED BY <1>8, <2>3 DEF Released
<1>15. /\ obj' \in [Objs -> ObjStates] /\ destroying' \in [Objs -> BOOLEAN]
       /\ stack' \in Seq(Frames) /\ Resets(stack') = InReset /\ fault' = "none"
       /\ LivesOK(obj', use', weak', blk', destroying')
  BY <1>0, <1>8 DEF Released
<1>16. sp' \in [Scopes -> Blocks] /\ ptr' \in [Scopes -> Addresses]
       /\ made' \in [Objs -> MadeStates]
  BY <1>0, <1>1
<1> QED BY <1>3, <1>9, <1>10, <1>12, <1>13, <1>14, <1>15, <1>16, Rebuild

LEMMA DeleteReturnsStep ==
  ASSUME IInv, NEW o \in Objs, DeleteReturns(o)
  PROVE  IInv'
<1>0. /\ use \in [Objs -> Nat] /\ sp \in [Scopes -> Blocks] /\ wp \in [Scopes -> Blocks]
      /\ ptr \in [Scopes -> Addresses] /\ weak \in [Objs -> Nat]
      /\ obj \in [Objs -> ObjStates] /\ made \in [Objs -> MadeStates]
      /\ blk \in [Objs -> BlkStates] /\ destroying \in [Objs -> BOOLEAN]
      /\ stack \in Seq(Frames) /\ InReset = Resets(stack) /\ fault = "none"
      /\ Null \notin Objs /\ Null \in Blocks /\ Null \in Addresses
  BY Unpack, PtrAssumption DEF IInv, Scopes, Blocks, Addresses
<1>1. /\ stack # <<>> /\ Head(stack).op # "reset" /\ Head(stack).at = o
      /\ obj[o] = "members" /\ obj' = [obj EXCEPT ![o] = "dead"]
      /\ stack' = Tail(stack)
      /\ UNCHANGED <<made, use, weak, sp, ptr, wp>>
  BY DEF DeleteReturns, Top
<1>2. use[o] = 0
  <2>1. obj[o] \in {"alive", "empty"} <=> use[o] > 0
    BY DEF IInv, LivesOK
  <2> QED BY <1>0, <1>1, <2>1
<1>3. Resets(stack') = InReset /\ stack' \in Seq(Frames)
  <2>1. Resets(stack) = Resets(Tail(stack))
          \cup (IF Head(stack).op = "reset" THEN {Head(stack).at} ELSE {})
    BY <1>0, <1>1, PopOccurs
  <2> QED BY <1>0, <1>1, <2>1
<1>4. Head(stack).op = "release" => destroying[o] /\ blk[o] = "live"
  <2>1. stack[1] = Head(stack) /\ 1 \in DOMAIN stack
    BY <1>0, <1>1
  <2>2. Head(stack).op = "release" => destroying[o]
    BY <1>1, <2>1 DEF IInv, CallsOK, Releasing
  <2> QED BY <2>2 DEF IInv, LivesOK
<1>5. /\ destroying' = IF Head(stack).op = "release" THEN [destroying EXCEPT ![o] = FALSE]
                                                     ELSE destroying
      /\ blk' = IF Head(stack).op = "release" /\ weak[o] = 0
                  THEN [blk EXCEPT ![o] = "gone"] ELSE blk
      /\ fault' = "none"
  BY <1>0, <1>4 DEF DeleteReturns, Top
<1>6. /\ obj' \in [Objs -> ObjStates] /\ destroying' \in [Objs -> BOOLEAN]
      /\ blk' \in [Objs -> BlkStates]
  BY <1>0, <1>1, <1>5 DEF ObjStates, BlkStates
<1>7. LivesOK(obj', use', weak', blk', destroying')
  <2> SUFFICES ASSUME NEW x \in Objs
               PROVE  /\ obj'[x] \in {"alive", "empty"} <=> use[x] > 0
                      /\ blk'[x] = "live" <=> use[x] > 0 \/ weak[x] > 0 \/ destroying'[x]
                      /\ obj'[x] = "free" => blk'[x] = "free"
    BY <1>1 DEF LivesOK
  <2>1. /\ obj[x] \in {"alive", "empty"} <=> use[x] > 0
        /\ blk[x] = "live" <=> use[x] > 0 \/ weak[x] > 0 \/ destroying[x]
        /\ obj[x] = "free" => blk[x] = "free"
    BY DEF IInv, LivesOK
  <2>2. CASE x # o
    BY <1>0, <1>1, <1>5, <2>1, <2>2
  <2>3. CASE x = o
    <3>1. obj'[x] = "dead" /\ weak[x] \in Nat /\ use[x] = 0
      BY <1>0, <1>1, <1>2, <2>3
    <3> QED BY <1>0, <1>4, <1>5, <2>1, <2>3, <3>1
  <2> QED BY <2>2, <2>3
<1>8. HandlesOK(obj', sp', ptr', wp')
  BY <1>0, <1>1 DEF HandlesOK, IInv
<1>9. Moved(sp, ptr, InReset, obj, sp', ptr', InReset, obj')
  <2>1. \A x \in Scopes \ InReset : sp[x] # Null => sp[x] \in Objs /\ sp[x] # o
    BY <1>1, HeldCounts
  <2> QED BY <1>0, <1>1, <2>1 DEF Moved
<1>10. PointsOK(sp', ptr', InReset, obj', made') /\ MadeOK(sp', InReset, made')
  BY <1>1, <1>9, MovedOK DEF IInv
<1>11. CallsOK(stack', obj', destroying', Roots')
  <2>1. CallsOK(stack, obj, destroying, Roots')
    BY <1>1, RootsKept DEF IInv
  <2>2. IsDelete(Head(stack))
    BY <1>1 DEF IsDelete
  <2> QED BY <1>0, <1>1, <1>5, <2>1, <2>2, CallsDeleteReturns
<1> QED BY <1>0, <1>1, <1>3, <1>5, <1>6, <1>7, <1>8, <1>10, <1>11, Rebuild DEF IInv

-----------------------------------------------------------------------------
(* The theorems.                                                           *)

LEMMA InitInvariant == Init => IInv
<1> SUFFICES ASSUME Init PROVE IInv
  OBVIOUS
<1>0. Null \notin Objs /\ IsFiniteSet({}) /\ Cardinality({}) = 0
  BY PtrAssumption, FS_EmptySet DEF Scopes
<1>1. /\ \A o \in Objs : Holders(sp, InReset, o) = {}
      /\ \A o \in Objs : Holders(wp, {}, o) = {}
  BY <1>0 DEF Init, Holders
<1>2. Counts(use, sp, InReset) /\ Counts(weak, wp, {})
  BY <1>0, <1>1 DEF Init, Counts
<1>3. TypeOK
  <2>1. 0 \in 0..Cardinality(Scopes)
    BY PtrAssumption, FS_CardinalityType
  <2> QED BY <2>1 DEF Init, TypeOK
<1>4. HandlesOK(obj, sp, ptr, wp)
  BY DEF Init, HandlesOK, Scopes
<1>5. LivesOK(obj, use, weak, blk, destroying)
  BY DEF Init, LivesOK
<1>6. /\ PointsOK(sp, ptr, InReset, obj, made)
      /\ MadeOK(sp, InReset, made) /\ MadeOK(wp, {}, made)
  BY DEF Init, PointsOK, MadeOK
<1>7. CallsOK(stack, obj, destroying, Roots)
  BY DEF Init, CallsOK, Deleting, Releasing
<1> QED BY <1>2, <1>3, <1>4, <1>5, <1>6, <1>7 DEF Init, IInv

LEMMA StutterStep == IInv /\ UNCHANGED vars => IInv'
<1> SUFFICES ASSUME IInv, UNCHANGED vars PROVE IInv'
  OBVIOUS
<1>0. /\ UNCHANGED <<obj, made, blk, use, weak, destroying, sp, ptr, wp, stack, fault>>
      /\ InReset' = InReset /\ Roots' = Roots
  BY DEF vars, InReset, Roots, Reachable, PointsRight
<1> QED BY <1>0 DEF IInv, TypeOK

LEMMA InvariantStep ==
  ASSUME ~Reentrant
  PROVE  IInv /\ [Next]_vars => IInv'
<1> SUFFICES ASSUME IInv, [Next]_vars PROVE IInv'
  OBVIOUS
<1>1. ASSUME NEW s \in Scopes, NEW o \in Objs,
             Make(s, o) \/ MakeEmpty(s, o) \/ MakeFails(s, o)
      PROVE  IInv'
  BY <1>1, MakeStep, MakeFailsStep
<1>2. ASSUME NEW d \in Scopes, NEW s \in Scopes,
             \/ Copy(d, s) \/ Move(d, s) \/ Swap(d, s) \/ Lock(d, s)
             \/ WeakCopy(d, s) \/ WeakFromShared(d, s) \/ WeakMove(d, s)
      PROVE  IInv'
  BY <1>2, CopyStep, MoveStep, SwapStep, LockStep, WeakAssignStep, WeakMoveStep
<1>3. ASSUME NEW s \in Scopes, Reset(s) \/ ResetReturns(s) \/ WeakReset(s)
      PROVE  IInv'
  BY <1>3, ResetStep, ResetReturnsStep, WeakAssignStep
<1>4. ASSUME NEW o \in Objs, DestroyMembers(o) \/ DeleteReturns(o)
      PROVE  IInv'
  BY <1>4, DestroyMembersStep, DeleteReturnsStep
<1>5. CASE UNCHANGED vars
  BY <1>5, StutterStep
<1> QED BY <1>1, <1>2, <1>3, <1>4, <1>5 DEF Next

(* Counters, lifetimes, pointers and the stack of unfinished calls stay in *)
(* step, whatever sequence of calls the program and its destructors make.  *)
THEOREM Invariance ==
  ASSUME ~Reentrant
  PROVE  Spec => []IInv
<1>1. IInv /\ [Next]_vars => IInv'
  BY InvariantStep
<1> QED BY <1>1, InitInvariant, PTL DEF Spec

(* The handles that hold a block are handles that exist.                   *)
LEMMA HoldersExist ==
  ASSUME IInv, NEW o \in Objs
  PROVE  Owners(o) = Holders(sp, InReset, o) /\ Observers(o) = Holders(wp, {}, o)
<1>1. ASSUME NEW s \in Scopes, sp[s] = o \/ wp[s] = o
      PROVE  Exists(s)
  <2>1. s \in Objs => obj[s] \in {"alive", "body"}
    BY <1>1, PtrAssumption DEF IInv, HandlesOK, Scopes
  <2> QED BY <2>1 DEF Exists, Scopes
<1> QED BY <1>1 DEF Owners, Observers, Holders

(* The counters are the numbers of handles at every moment, inside         *)
(* destructors too (control_block.h:86-141).                               *)
THEOREM CountsAreExact ==
  ASSUME ~Reentrant
  PROVE  Spec => []CountsExact
<1>1. IInv => CountsExact
  BY HoldersExist DEF IInv, Counts, CountsExact
<1> QED BY <1>1, Invariance, PTL

(* An object lives exactly while it has an owner, its block exactly while  *)
(* it has an owner, an observer or an unfinished Release                   *)
(* (control_block.h:28-35, 110-141).                                       *)
THEOREM LifetimesAreExact ==
  ASSUME ~Reentrant
  PROVE  Spec => []LifetimesExact
<1>1. ASSUME IInv, NEW o \in Objs, blk[o] = "free"
      PROVE  obj[o] \in {"free", "dead"} \/ \E k \in DOMAIN stack : stack[k] = DeleteFrame(o, "raw")
  <2>1. ~(use[o] > 0) /\ ~destroying[o] /\ obj[o] \notin {"alive", "empty"}
    BY <1>1 DEF IInv, LivesOK
  <2>2. CASE obj[o] \in {"body", "members"}
    <3>1. PICK k \in DOMAIN stack : IsDelete(stack[k]) /\ stack[k].at = o
      BY <1>1, <2>2 DEF IInv, CallsOK, Deleting
    <3>2. stack[k].op # "release"
      BY <1>1, <2>1, <3>1 DEF IInv, CallsOK, Releasing
    <3>3. stack[k] \in Frames
      BY <1>1, <3>1 DEF IInv, TypeOK
    <3>4. stack[k] = DeleteFrame(o, "raw")
      BY <3>1, <3>2, <3>3 DEF Frames, IsDelete, DeleteFrame
    <3> QED BY <3>4
  <2>3. obj[o] \in {"free", "alive", "empty", "body", "members", "dead"}
    BY <1>1 DEF IInv, TypeOK
  <2> QED BY <2>1, <2>2, <2>3
<1>2. IInv => LifetimesExact
  BY <1>1 DEF IInv, LivesOK, LifetimesExact
<1> QED BY <1>2, Invariance, PTL

(* The stored pointer is the right part of the object owned, in a program  *)
(* that locks no converted WeakPtr; one that does is refuted by the run    *)
(* ptr_converted_lock (smart_shared_ptr.h:380-385, 492-500, 971-977).      *)
THEOREM PointersAreRight ==
  ASSUME ~Reentrant, ~LockConverted
  PROVE  Spec => []PointsAtObject
<1>1. ASSUME IInv, NEW s \in Scopes \ InReset
      PROVE  IF sp[s] = Null \/ obj[sp[s]] = "empty"
               THEN ptr[s] = Null
               ELSE ptr[s] = Address(sp[s], Type(s))
  <2>1. CASE sp[s] = Null \/ obj[sp[s]] = "empty"
    BY <1>1, <2>1 DEF IInv, PointsOK
  <2>2. CASE ~(sp[s] = Null \/ obj[sp[s]] = "empty")
    <3>1. ptr[s] # Null /\ ptr[s].to = sp[s] /\ ptr[s].part = Type(s)
      BY <1>1, <2>2 DEF IInv, PointsOK
    <3>2. ptr[s] \in [to : Objs, part : {"node", "base"}]
      BY <1>1, <3>1 DEF IInv, TypeOK
    <3> QED BY <2>2, <3>1, <3>2 DEF Address
  <2> QED BY <2>1, <2>2
<1>2. IInv => PointsAtObject
  BY <1>1 DEF PointsAtObject
<1> QED BY <1>2, Invariance, PTL

(* No object is deleted twice and no freed object or block is touched      *)
(* again (smart_shared_ptr.h:241-243).                                     *)
THEOREM NeverFaults ==
  ASSUME ~Reentrant
  PROVE  Spec => []NoFault
<1>1. IInv => NoFault
  BY DEF IInv, NoFault
<1> QED BY <1>1, Invariance, PTL

(* Release of what a handle holds leaves every count that is zero alone.   *)
LEMMA ReleaseKeepsZero ==
  ASSUME IInv, NEW d \in Scopes \ InReset, NEW u \in [Objs -> Nat], NEW ob, NEW below,
         Release(sp[d], u, ob, below), NEW o \in Objs, use[o] = 0
  PROVE  use'[o] = u[o]
<1>1. sp[d] # Null => sp[d] # o
  BY HeldCounts
<1>2. use' = IF sp[d] = Null THEN u ELSE [u EXCEPT ![sp[d]] = Minus(@)]
  BY DEF Release
<1> QED BY <1>1, <1>2

LEMMA NoRevivalStep ==
  ASSUME ~Reentrant, IInv, [Next]_vars,
         NEW o \in Objs, use[o] = 0, blk[o] = "live"
  PROVE  use'[o] = 0
<1>0. /\ use \in [Objs -> Nat] /\ Null \notin Objs /\ wp \in [Scopes -> Blocks]
  BY Unpack, PtrAssumption DEF Scopes
<1>1. ASSUME NEW s \in Scopes, NEW x \in Objs, Make(s, x) \/ MakeEmpty(s, x)
      PROVE  use'[o] = 0
  <2>1. s \in Scopes \ InReset /\ obj[x] = "free"
    BY <1>1, MayUseFree DEF Make, MakeEmpty
  <2>2. x # o
    BY <2>1, FreshBlock
  <2> PICK u : u = [use EXCEPT ![x] = 1]
    OBVIOUS
  <2>3. u \in [Objs -> Nat] /\ u[o] = 0
    BY <1>0, <2>2
  <2>4. ASSUME NEW ob, Release(sp[s], [use EXCEPT ![x] = 1], ob, <<>>)
        PROVE  use'[o] = 0
    <3>1. Release(sp[s], u, ob, <<>>)
      BY <2>4 DEF Release
    <3> QED BY <2>1, <2>3, <3>1, ReleaseKeepsZero
  <2> QED BY <1>1, <2>4 DEF Make, MakeEmpty
<1>2. ASSUME NEW d \in Scopes, NEW c, c = Null \/ use[c] # 0, MayUse(d),
             Release(sp[d], AddRef(c), obj, <<>>)
      PROVE  use'[o] = 0
  <2>1. \A n \in Nat : Plus(n) \in Nat
    <3>1. CountMod \in Nat \ {0}
      BY PtrAssumption, FS_CardinalityType
    <3> QED BY <3>1 DEF Plus
  <2>2. AddRef(c) \in [Objs -> Nat]
    BY <1>0, <2>1 DEF AddRef
  <2>3. use'[o] = AddRef(c)[o]
    BY <1>2, <2>2, MayUseFree, ReleaseKeepsZero
  <2> QED BY <1>2, <2>3 DEF AddRef
<1>3. ASSUME NEW d \in Scopes, NEW s \in Scopes, Copy(d, s)
      PROVE  use'[o] = 0
  <2>1. sp[s] = Null \/ use[sp[s]] # 0
    BY <1>3, MayUseFree, HeldCounts DEF Copy
  <2> QED BY <1>2, <1>3, <2>1 DEF Copy
<1>4. ASSUME NEW d \in Scopes, NEW s \in Scopes, Lock(d, s)
      PROVE  use'[o] = 0
  <2> PICK c : c = IF Expired(wp[s]) THEN Null ELSE wp[s]
    OBVIOUS
  <2>1. c = Null \/ use[c] # 0
    BY DEF Expired
  <2> QED BY <1>2, <1>4, <2>1 DEF Lock, MayConvert
<1>5. ASSUME NEW d \in Scopes, MayUse(d), NEW ob, NEW below,
             Release(sp[d], use, ob, below)
      PROVE  use'[o] = 0
  BY <1>0, <1>5, MayUseFree, ReleaseKeepsZero
<1>6. ASSUME NEW d \in Scopes, NEW s \in Scopes, Move(d, s) \/ Reset(s)
      PROVE  use'[o] = 0
  BY <1>5, <1>6 DEF Move, Reset
<1>7. ASSUME NEW x \in Objs, DestroyMembers(x)
      PROVE  use'[o] = 0
  <2>1. x \in Scopes \ InReset
    BY <1>7, BodyIsFree DEF DestroyMembers, Scopes
  <2> QED BY <1>0, <1>7, <2>1, ReleaseKeepsZero DEF DestroyMembers
<1>8. ASSUME \/ UNCHANGED vars
             \/ \E s \in Scopes, x \in Objs : MakeFails(s, x)
             \/ \E d, s \in Scopes : \/ Swap(d, s) \/ WeakCopy(d, s)
                                     \/ WeakFromShared(d, s) \/ WeakMove(d, s)
             \/ \E s \in Scopes : ResetReturns(s) \/ WeakReset(s)
             \/ \E x \in Objs : DeleteReturns(x)
      PROVE  use'[o] = 0
  <2>1. use' = use
    BY <1>8 DEF vars, MakeFails, Swap, WeakCopy, WeakFromShared, WeakMove, WeakReset,
                WeakAssign, ResetReturns, DeleteReturns
  <2> QED BY <2>1
<1> QED BY <1>1, <1>3, <1>4, <1>6, <1>7, <1>8 DEF Next

(* An object whose last owner has gone is never owned again, not through   *)
(* Lock in its own destructor either (smart_shared_ptr.h:963-977).         *)
THEOREM NothingRevives ==
  ASSUME ~Reentrant
  PROVE  Spec => NoResurrection
<1>1. IInv /\ [Next]_vars
        => [\A o \in Objs : use[o] = 0 /\ blk[o] = "live" => use'[o] = 0]_vars
  BY NoRevivalStep
<1> QED BY <1>1, Invariance, PTL DEF Spec, NoResurrection
=============================================================================
