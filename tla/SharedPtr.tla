----------------------------- MODULE SharedPtr -----------------------------
(***************************************************************************)
(* SharedPtr, WeakPtr and their control block, src/m1-shared-ptr.  One     *)
(* thread runs, so that what can go wrong is re-entrancy: destroying an    *)
(* object runs its destructor, which works on smart pointers again, while  *)
(* the calls further down the stack have not finished.  The model keeps    *)
(* the stack of those unfinished calls.                                    *)
(*                                                                         *)
(* Objects are the Node of the test BreakCyclicDependencies: each has one  *)
(* SharedPtr member, next, and one WeakPtr member, prev.  A scope is an    *)
(* object or a global one (a local block of the program); it holds one     *)
(* SharedPtr and one WeakPtr.  An object's control block goes by the       *)
(* object's name.  Handles have element types: Node, or Base, a base class *)
(* that does not start at the address of the Node.                         *)
(***************************************************************************)
EXTENDS Naturals, Sequences, FiniteSets

CONSTANTS
  Objs,        \* objects that may be allocated, each once
  Globals,     \* scopes that live as long as the program
  BaseGlobals, \* the globals whose handles are to Base
  Null,        \* nullptr
  CountMod,    \* bound: counters are modulo CountMod (2^64 in the code)
  Reentrant,   \* TRUE: a destructor may work on every handle it can reach;
               \* FALSE: on the handles of its own object only
  LockConverted \* TRUE: the program locks any WeakPtr; FALSE: only one of the
               \* type that the object's block was made with

Scopes == Globals \cup Objs

ASSUME PtrAssumption ==
  /\ IsFiniteSet(Scopes)
  /\ Globals \cap Objs = {}
  /\ BaseGlobals \subseteq Globals
  /\ Null \notin Scopes \cup [to : Objs, part : {"node", "base"}]
  /\ CountMod \in Nat /\ CountMod > 2 * (Cardinality(Scopes) + 1)
  /\ Reentrant \in BOOLEAN /\ LockConverted \in BOOLEAN

VARIABLES
  obj,         \* "free", "alive", "body" or "members" (both in ~Node), "dead";
               \* "empty": the block was made for a null pointer
  made,        \* the element type of the handle that made the block
  blk,         \* the control block: "free", "live" or "gone"
  use,         \* use_cnt_
  weak,        \* weak_cnt_
  destroying,  \* is_destroying_
  sp,          \* cb_ of the SharedPtr of each scope
  ptr,         \* ptr_ of the SharedPtr of each scope
  wp,          \* cb_ of the WeakPtr of each scope
  stack,       \* unfinished calls, innermost first
  fault        \* history: the first undefined behaviour met, or "none"

vars == <<obj, made, blk, use, weak, destroying, sp, ptr, wp, stack, fault>>

(* A call of Reset that waits for Release, or of DestroyObject (raw: of    *)
(* the delete in a constructor that failed, where no block exists).        *)
ResetFrame(s)      == [op |-> "reset", at |-> s]
DeleteFrame(o, by) == [op |-> by, at |-> o]
Frames == [op : {"reset"}, at : Scopes] \cup [op : {"release", "raw"}, at : Objs]

Push(f) == stack' = <<f>> \o stack
Top     == Head(stack)

(* element_type of the handles of a scope, and the conversions there are.  *)
Type(s)         == IF s \in BaseGlobals THEN "base" ELSE "node"
Converts(from, to) == from = to \/ from = "node"

(* The address of the part of the object o that has type t.                *)
Address(o, t) == [to |-> o, part |-> t]

(* A pointer of type `from` as a `to` *: between different types the       *)
(* compiler adds the offset of the base class.                             *)
Cast(p, from, to) ==
  IF p = Null \/ from = to THEN p ELSE [p EXCEPT !.part = to]

Plus(n)  == (n + 1) % CountMod
Minus(n) == (n + CountMod - 1) % CountMod

(* Handles that exist: an object's members until its destructor's body has *)
(* ended.                                                                  *)
Exists(s) == s \in Globals \/ (s \in Objs /\ obj[s] \in {"alive", "body"})

(* The program runs at the bottom of the stack and in destructors' bodies. *)
InBody(o) == stack # <<>> /\ Top.op # "reset" /\ Top.at = o /\ obj[o] = "body"

(* Objects that a global handle points at, or a member of such an object.  *)
PointsRight(s) == ptr[s] # Null /\ ptr[s].part = Type(s)

Reachable ==
  LET first == {ptr[g].to : g \in {h \in Globals : PointsRight(h)}}
  IN  first \cup {ptr[o].to : o \in {h \in first : PointsRight(h)}}

(* The handles the program works on now.  At the bottom it reaches an      *)
(* object's members only through SharedPtrs that keep the object alive.    *)
MayUse(s) ==
  /\ fault = "none"
  /\ Exists(s)
  /\ IF Reentrant
       THEN stack = <<>> \/ InBody(Top.at)
       ELSE \/ stack = <<>> /\ s \in Globals \cup Reachable
            \/ s \in Objs /\ InBody(s)

Init ==
  /\ obj = [o \in Objs |-> "free"]
  /\ made = [o \in Objs |-> Null]
  /\ blk = [o \in Objs |-> "free"]
  /\ use = [o \in Objs |-> 0]
  /\ weak = [o \in Objs |-> 0]
  /\ destroying = [o \in Objs |-> FALSE]
  /\ sp = [s \in Scopes |-> Null]
  /\ ptr = [s \in Scopes |-> Null]
  /\ wp = [s \in Scopes |-> Null]
  /\ stack = <<>>
  /\ fault = "none"

-----------------------------------------------------------------------------
(* The control block.                                                      *)

(* CbBase::Release on block c, with use counts u and objects ob as the     *)
(* caller left them.  The last owner begins DestroyObject, which has       *)
(* nothing to destroy if the block has no object.  `below` is the frame    *)
(* the caller leaves on the stack.  An empty handle releases nothing.      *)
Release(c, u, ob, below) ==
  IF c = Null
    THEN /\ use' = u
         /\ obj' = ob
         /\ stack' = below \o stack
         /\ UNCHANGED <<destroying, fault>>
    ELSE /\ use' = [u EXCEPT ![c] = Minus(@)]
         /\ IF use'[c] = 0
              THEN /\ destroying' = [destroying EXCEPT ![c] = TRUE]
                   /\ obj' = [ob EXCEPT ![c] = IF @ = "empty" THEN "members"
                                               ELSE "body"]
                   /\ stack' = <<DeleteFrame(c, "release")>> \o below \o stack
              ELSE /\ obj' = ob
                   /\ stack' = below \o stack
                   /\ UNCHANGED destroying
         /\ fault' = CASE blk[c] # "live" -> "use after free"
                       [] use'[c] = 0 /\ obj[c] \notin {"alive", "empty"} ->
                              "double delete"
                       [] OTHER -> fault

(* Mutant: the copy does not count. *)
AddNoRef(c) == use

(* AddRef through a handle that holds c: the use counts after it. *)
AddRef(c) == IF c = Null THEN use ELSE [use EXCEPT ![c] = Plus(@)]

(* Mutant: ReleaseWeak does not look at is_destroying_. *)
WeakSwapNoFlag(new, old) ==
  LET added == IF new = Null THEN weak ELSE [weak EXCEPT ![new] = Plus(@)]
      after == IF old = Null THEN added ELSE [added EXCEPT ![old] = Minus(@)]
  IN  /\ weak' = after
      /\ blk' = IF old # Null /\ after[old] = 0 /\ use[old] = 0
                  THEN [blk EXCEPT ![old] = "gone"] ELSE blk

(* AddWeak on block `new`, then ReleaseWeak on block `old`. *)
WeakSwap(new, old) ==
  LET added == IF new = Null THEN weak ELSE [weak EXCEPT ![new] = Plus(@)]
      after == IF old = Null THEN added ELSE [added EXCEPT ![old] = Minus(@)]
  IN  /\ weak' = after
      /\ blk' = IF old # Null /\ after[old] = 0 /\ use[old] = 0
                   /\ ~destroying[old]
                  THEN [blk EXCEPT ![old] = "gone"] ELSE blk

-----------------------------------------------------------------------------
(* SharedPtr.                                                              *)

(* s.Reset(new Node): a temporary takes the new object and its new block,  *)
(* swaps with s, and releases what s held.                                 *)
Make(s, o) ==
  /\ MayUse(s)
  /\ obj[o] = "free"
  /\ Release(sp[s], [use EXCEPT ![o] = 1], [obj EXCEPT ![o] = "alive"], <<>>)
  /\ blk' = [blk EXCEPT ![o] = "live"]
  /\ made' = [made EXCEPT ![o] = Type(s)]
  /\ sp' = [sp EXCEPT ![s] = o]
  /\ ptr' = [ptr EXCEPT ![s] = Address(o, Type(s))]
  /\ UNCHANGED <<weak, wp>>

(* s = SharedPtr(nullptr, deleter): a block that counts, without object.   *)
MakeEmpty(s, o) ==
  /\ MayUse(s)
  /\ obj[o] = "free"
  /\ Release(sp[s], [use EXCEPT ![o] = 1], [obj EXCEPT ![o] = "empty"], <<>>)
  /\ blk' = [blk EXCEPT ![o] = "live"]
  /\ made' = [made EXCEPT ![o] = Type(s)]
  /\ sp' = [sp EXCEPT ![s] = o]
  /\ ptr' = [ptr EXCEPT ![s] = Null]
  /\ UNCHANGED <<weak, wp>>

(* The block cannot be allocated: the constructor deletes the object and   *)
(* rethrows; s keeps what it had.                                          *)
MakeFails(s, o) ==
  /\ MayUse(s)
  /\ obj[o] = "free"
  /\ obj' = [obj EXCEPT ![o] = "body"]
  /\ Push(DeleteFrame(o, "raw"))
  /\ UNCHANGED <<made, blk, use, weak, destroying, sp, ptr, wp, fault>>

(* d = s, or d = std::move(s) between different types, for which there is  *)
(* no move: the copy owns, swaps with d, and releases what d held.         *)
Copy(d, s) ==
  /\ MayUse(d) /\ MayUse(s) /\ Converts(Type(s), Type(d))
  /\ Release(sp[d], AddRef(sp[s]), obj, <<>>)
  /\ sp' = [sp EXCEPT ![d] = sp[s]]
  /\ ptr' = [ptr EXCEPT ![d] = Cast(ptr[s], Type(s), Type(d))]
  /\ UNCHANGED <<made, blk, weak, wp>>

(* d = std::move(s). *)
Move(d, s) ==
  /\ MayUse(d) /\ MayUse(s) /\ d # s /\ Type(d) = Type(s)
  /\ Release(sp[d], use, obj, <<>>)
  /\ sp' = [sp EXCEPT ![d] = sp[s], ![s] = Null]
  /\ ptr' = [ptr EXCEPT ![d] = ptr[s], ![s] = Null]
  /\ UNCHANGED <<made, blk, weak, wp>>

(* Mutant: only the base class swaps. *)
SwapBlocks(d, s) ==
  /\ MayUse(d) /\ MayUse(s) /\ Type(d) = Type(s)
  /\ sp' = [sp EXCEPT ![d] = sp[s], ![s] = sp[d]]
  /\ UNCHANGED <<obj, made, blk, use, weak, destroying, ptr, wp, stack, fault>>

Swap(d, s) ==
  /\ MayUse(d) /\ MayUse(s) /\ Type(d) = Type(s)
  /\ sp' = [sp EXCEPT ![d] = sp[s], ![s] = sp[d]]
  /\ ptr' = [ptr EXCEPT ![d] = ptr[s], ![s] = ptr[d]]
  /\ UNCHANGED <<obj, made, blk, use, weak, destroying, wp, stack, fault>>

(* Reset releases first and clears the handle when Release has returned. *)
Reset(s) ==
  /\ MayUse(s)
  /\ Release(sp[s], use, obj, <<ResetFrame(s)>>)
  /\ UNCHANGED <<made, blk, weak, sp, ptr, wp>>

ResetReturns(s) ==
  /\ stack # <<>> /\ Top = ResetFrame(s)
  /\ sp' = [sp EXCEPT ![s] = Null]
  /\ ptr' = [ptr EXCEPT ![s] = Null]
  /\ stack' = Tail(stack)
  /\ fault' = IF s \in Objs /\ obj[s] = "dead" THEN "use after free" ELSE fault
  /\ UNCHANGED <<obj, made, blk, use, weak, destroying, wp>>

-----------------------------------------------------------------------------
(* WeakPtr.                                                                *)

(* Copy construction and assignment, from a WeakPtr or a SharedPtr. *)
WeakAssign(d, c) ==
  /\ WeakSwap(c, wp[d])
  /\ wp' = [wp EXCEPT ![d] = c]
  /\ fault' = IF \E b \in {c, wp[d]} \ {Null} : blk[b] # "live"
                THEN "use after free" ELSE fault
  /\ UNCHANGED <<obj, made, use, destroying, sp, ptr, stack>>

MayConvert(d, s) == MayUse(d) /\ MayUse(s) /\ Converts(Type(s), Type(d))

WeakCopy(d, s)       == MayConvert(d, s) /\ WeakAssign(d, wp[s])
WeakFromShared(d, s) == MayConvert(d, s) /\ WeakAssign(d, sp[s])
WeakReset(s)         == MayUse(s) /\ WeakAssign(s, Null)

WeakMove(d, s) ==
  /\ MayConvert(d, s) /\ d # s
  /\ WeakSwap(Null, wp[d])
  /\ wp' = [wp EXCEPT ![d] = wp[s], ![s] = Null]
  /\ UNCHANGED <<obj, made, use, destroying, sp, ptr, stack, fault>>

(* Mutant: only a WeakPtr without a block is expired. *)
ExpiredIfEmpty(c) == c = Null

Expired(c) == c = Null \/ use[c] = 0

(* static_cast<element_type *>(cb_->data_ptr()): the address the block was *)
(* made with, whatever the type of the WeakPtr.                            *)
DataPtr(c) ==
  IF c = Null \/ obj[c] = "empty" THEN Null ELSE Address(c, made[c])

(* d = s.Lock(). *)
Lock(d, s) ==
  /\ MayConvert(d, s)
  /\ ~Expired(wp[s]) /\ ~LockConverted => made[wp[s]] = Type(s)
  /\ LET c == IF Expired(wp[s]) THEN Null ELSE wp[s]
     IN  /\ Release(sp[d], AddRef(c), obj, <<>>)
         /\ sp' = [sp EXCEPT ![d] = c]
         /\ ptr' = [ptr EXCEPT ![d] = Cast(DataPtr(c), Type(s), Type(d))]
  /\ UNCHANGED <<made, blk, weak, wp>>

-----------------------------------------------------------------------------
(* DestroyObject.                                                          *)

(* The body of ~Node ends and the members go, last declared first: prev    *)
(* with ReleaseWeak, then next with Release.                               *)
DestroyMembers(o) ==
  /\ InBody(o)
  /\ WeakSwap(Null, wp[o])
  /\ Release(sp[o], use, [obj EXCEPT ![o] = "members"], <<>>)
  /\ sp' = [sp EXCEPT ![o] = Null]
  /\ ptr' = [ptr EXCEPT ![o] = Null]
  /\ wp' = [wp EXCEPT ![o] = Null]
  /\ UNCHANGED made

(* Mutant: Release does not free the block. *)
DeleteLeaksBlock(o) ==
  /\ stack # <<>> /\ Top.op # "reset" /\ Top.at = o
  /\ obj[o] = "members"
  /\ obj' = [obj EXCEPT ![o] = "dead"]
  /\ stack' = Tail(stack)
  /\ destroying' = [destroying EXCEPT ![o] = FALSE]
  /\ UNCHANGED <<made, blk, use, weak, sp, ptr, wp, fault>>

(* The object's memory is freed; Release clears the flag and frees the     *)
(* block if nobody observes it.                                            *)
DeleteReturns(o) ==
  /\ stack # <<>> /\ Top.op # "reset" /\ Top.at = o
  /\ obj[o] = "members"
  /\ obj' = [obj EXCEPT ![o] = "dead"]
  /\ stack' = Tail(stack)
  /\ IF Top.op = "release"
       THEN /\ destroying' = [destroying EXCEPT ![o] = FALSE]
            /\ blk' = IF weak[o] = 0 THEN [blk EXCEPT ![o] = "gone"] ELSE blk
            /\ fault' = IF blk[o] = "live" THEN fault ELSE "use after free"
       ELSE UNCHANGED <<destroying, blk, fault>>
  /\ UNCHANGED <<made, use, weak, sp, ptr, wp>>

Next ==
  /\ fault = "none"
  /\ \/ \E s \in Scopes, o \in Objs : Make(s, o) \/ MakeEmpty(s, o) \/ MakeFails(s, o)
     \/ \E d, s \in Scopes :
          \/ Copy(d, s) \/ Move(d, s) \/ Swap(d, s) \/ Lock(d, s)
          \/ WeakCopy(d, s) \/ WeakFromShared(d, s) \/ WeakMove(d, s)
     \/ \E s \in Scopes : Reset(s) \/ ResetReturns(s) \/ WeakReset(s)
     \/ \E o \in Objs : DestroyMembers(o) \/ DeleteReturns(o)

Spec == Init /\ [][Next]_vars

-----------------------------------------------------------------------------
TypeOK ==
  /\ obj \in [Objs -> {"free", "alive", "empty", "body", "members", "dead"}]
  /\ made \in [Objs -> {"node", "base", Null}]
  /\ blk \in [Objs -> {"free", "live", "gone"}]
  /\ use \in [Objs -> 0..Cardinality(Scopes)]
  /\ weak \in [Objs -> 0..Cardinality(Scopes)]
  /\ destroying \in [Objs -> BOOLEAN]
  /\ sp \in [Scopes -> Objs \cup {Null}]
  /\ ptr \in [Scopes -> [to : Objs, part : {"node", "base"}] \cup {Null}]
  /\ wp \in [Scopes -> Objs \cup {Null}]
  /\ stack \in Seq(Frames)
  /\ fault \in {"none", "use after free", "double delete"}

(* Handles that a Reset has released and not cleared yet. *)
InReset == {stack[k].at : k \in {j \in DOMAIN stack : stack[j].op = "reset"}}

Owners(o)    == {s \in Scopes \ InReset : Exists(s) /\ sp[s] = o}
Observers(o) == {s \in Scopes : Exists(s) /\ wp[s] = o}

(* Types, and at every moment, inside destructors too, the counters are    *)
(* the numbers of handles, so that they never wrap: none is released twice *)
(* or forgotten, whatever sequence of copies, moves, locks and resets led  *)
(* here (control_block.h:86-141).                                          *)
CountsExact ==
  /\ TypeOK
  /\ \A o \in Objs : blk[o] = "live" =>
       use[o] = Cardinality(Owners(o)) /\ weak[o] = Cardinality(Observers(o))

(* An object lives while it has an owner, and its block while it has an    *)
(* owner, an observer or an unfinished Release; neither is freed early,    *)
(* and when the calls have returned neither is left over; nor is an object *)
(* whose block could not be allocated (control_block.h:28-35, 110-141,     *)
(* smart_shared_ptr.h:312-319).                                            *)
LifetimesExact ==
  \A o \in Objs :
    IF blk[o] = "free"
      THEN obj[o] \in {"free", "dead"}
             \/ \E k \in DOMAIN stack : stack[k] = DeleteFrame(o, "raw")
      ELSE /\ obj[o] \in {"alive", "empty"} <=> use[o] > 0
           /\ blk[o] = "live" <=> use[o] > 0 \/ weak[o] > 0 \/ destroying[o]

(* The pointer a SharedPtr stores and the block it owns belong to the same *)
(* object, and the pointer is that of the part of it that the SharedPtr is *)
(* to, through copies, moves, conversions to a base class and Lock      *)
(* ("supports polymorphic conversions", smart_shared_ptr.h:251; "a shared  *)
(* pointer to the object", line 968).  A null pointer belongs to an empty  *)
(* handle or block.                                                        *)
PointsAtObject ==
  \A s \in Scopes \ InReset : Exists(s) =>
    IF sp[s] = Null \/ obj[sp[s]] = "empty"
      THEN ptr[s] = Null
      ELSE ptr[s] = Address(sp[s], Type(s))

(* "The object is destroyed when the last owning SharedPtr is destroyed or *)
(* reset" (smart_shared_ptr.h:241-243): destroyed once, and no freed       *)
(* object or block is touched again.                                       *)
NoFault == fault = "none"

(* Once its destructor has begun, an object is never owned again: Lock on  *)
(* a WeakPtr to it returns an empty SharedPtr, in its own destructor too   *)
(* (smart_shared_ptr.h:963-977).                                           *)
NoResurrection ==
  [][\A o \in Objs : use[o] = 0 /\ blk[o] = "live" => use'[o] = 0]_vars
=============================================================================
