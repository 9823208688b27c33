---------------------- MODULE ParallelAccumulateProofs ----------------------
(***************************************************************************)
(* Proofs about ParallelAccumulate, for every number of callers, pool      *)
(* threads and elements and every block size.  A call is followed from     *)
(* block to block: how much of its range it has counted is said by its two *)
(* loops and by what the pool has done with its blocks.                    *)
(***************************************************************************)
EXTENDS ParallelAccumulate, FiniteSetTheorems, TLAPS

(* Where the k-th block begins. *)
Bound(k) == k * BlockSize

InQueue(q, t) == \E k \in DOMAIN q : q[k] = t

(* The pool has each task at one place, once. *)
PoolOnce ==
  /\ \A j, k \in DOMAIN queue : queue[j] = queue[k] => j = k
  /\ \A t \in AllTasks : /\ t \in admitted => ~InQueue(queue, t)
                         /\ t \in admitted \/ InQueue(queue, t) => t \notin running \cup done
                         /\ t \in running => t \notin done

(* A nested call that is queued has not begun. *)
QueuedCallsWait == \A c \in Callers : InQueue(queue, Call(c)) => pc[c] = "queued"

Zero == [e \in Elements |-> 0]
Exact(c) == [e \in Elements |-> IF e < length[c] THEN 1 ELSE 0]

(* The caller's own block, and the results of the first i futures. *)
Partly(c) ==
  [e \in Elements |->
     IF e < Bound(i[c]) \/ (Bound(NumBlocks(c) - 1) <= e /\ e < length[c]) THEN 1 ELSE 0]

NotBegun(c) == pc[c] \in {"queued", "call"} =>
  i[c] = 0 /\ blockStart[c] = 0 /\ block[c] = <<>> /\ sum[c] = Zero

Enqueueing(c) == pc[c] \in {"enqueue", "push"} =>
  /\ length[c] > 0
  /\ i[c] = Len(block[c]) /\ i[c] <= NumBlocks(c) - 1
  /\ pc[c] = "push" => i[c] < NumBlocks(c) - 1
  /\ blockStart[c] = Bound(i[c])
  /\ sum[c] = Zero

Summing(c) == pc[c] = "sum" =>
  /\ length[c] > 0
  /\ Len(block[c]) = NumBlocks(c) - 1 /\ i[c] <= NumBlocks(c) - 1
  /\ sum[c] = Partly(c)
  /\ \A k \in 0..MaxLength : k < i[c] => Block(c, k) \in done

Returned(c) == pc[c] = "returned" =>
  /\ sum[c] = Exact(c)
  /\ \A k \in 0..MaxLength : k < Len(block[c]) => Block(c, k) \in done

(* The lambdas have captured the bounds of their blocks. *)
Captured(c) ==
  \A k \in 1..Len(block[c]) : block[c][k] = <<Bound(k - 1), Bound(k)>>

(* The pool knows the blocks that the call has sent or is about to send,   *)
(* and no others.                                                          *)
Sent(c) == \A k \in 0..MaxLength :
  ~Pool!Fresh(Block(c, k)) => k < Len(block[c]) \/ (pc[c] = "push" /\ k = i[c])

CallInv(c) == /\ NotBegun(c) /\ Enqueueing(c) /\ Summing(c) /\ Returned(c)
              /\ Captured(c) /\ Sent(c)

IInv == TypeOK /\ PoolOnce /\ QueuedCallsWait /\ \A c \in Callers : CallInv(c)

-----------------------------------------------------------------------------
(* Blocks. *)

LEMMA Bounds ==
  /\ Bound(0) = 0
  /\ \A k \in Nat : /\ Bound(k) \in Nat /\ k <= Bound(k)
                    /\ Bound(k + 1) = Bound(k) + BlockSize
  /\ \A j, k \in Nat : j <= k => Bound(j) <= Bound(k)
<1>1. Bound(0) = 0
  BY AccumulateAssumption DEF Bound
<1>2. ASSUME NEW k \in Nat
      PROVE  /\ Bound(k) \in Nat /\ k <= Bound(k)
             /\ Bound(k + 1) = Bound(k) + BlockSize
  BY AccumulateAssumption DEF Bound
<1>3. ASSUME NEW j \in Nat, NEW k \in Nat, j <= k PROVE Bound(j) <= Bound(k)
  BY <1>3, AccumulateAssumption DEF Bound
<1> QED BY <1>1, <1>2, <1>3

LEMMA Division ==
  ASSUME NEW x \in Nat, NEW b \in Nat \ {0}
  PROVE  x \div b \in Nat /\ (x \div b) * b <= x /\ x < (x \div b) * b + b
OBVIOUS

(* The last block is not empty, and there are no more blocks than elements. *)
LEMMA BlocksCover ==
  ASSUME NEW c, length[c] \in Nat, length[c] > 0
  PROVE  /\ NumBlocks(c) \in Nat \ {0}
         /\ Bound(NumBlocks(c) - 1) < length[c]
         /\ NumBlocks(c) <= length[c]
<1> DEFINE n == NumBlocks(c)
           x == length[c] + BlockSize - 1
<1>1. BlockSize \in Nat \ {0} /\ x \in Nat /\ x >= BlockSize
  BY AccumulateAssumption
<1>2. n = x \div BlockSize
  BY DEF NumBlocks
<1> HIDE DEF n
<1>3. n \in Nat /\ Bound(n) <= x /\ x < Bound(n) + BlockSize
  BY <1>1, <1>2, Division DEF Bound
<1>4. n # 0
  BY <1>1, <1>3, Bounds
<1>5. n - 1 \in Nat /\ Bound(n) = Bound(n - 1) + BlockSize /\ n - 1 <= Bound(n - 1)
      /\ Bound(n - 1) \in Nat
  BY <1>3, <1>4, Bounds
<1>6. Bound(n - 1) < length[c]
  BY <1>1, <1>3, <1>5
<1> QED BY <1>3, <1>4, <1>5, <1>6 DEF n

-----------------------------------------------------------------------------
(* Tasks in the queue. *)

LEMMA InQueueAppend ==
  ASSUME NEW S, NEW q \in Seq(S), NEW u \in S
  PROVE  /\ \A t : InQueue(Append(q, u), t) <=> InQueue(q, t) \/ t = u
         /\ (\A j, k \in DOMAIN q : q[j] = q[k] => j = k) /\ ~InQueue(q, u)
              => \A j, k \in DOMAIN Append(q, u) :
                   Append(q, u)[j] = Append(q, u)[k] => j = k
<1> DEFINE r == Append(q, u)
<1>1. /\ Len(q) \in Nat /\ DOMAIN q = 1..Len(q) /\ DOMAIN r = 1..(Len(q) + 1)
      /\ \A k \in 1..Len(q) : r[k] = q[k]
      /\ r[Len(q) + 1] = u
  OBVIOUS
<1> HIDE DEF r
<1>2. \A k \in DOMAIN r : k \in 1..Len(q) \/ k = Len(q) + 1
  BY <1>1
<1>3. \A t : InQueue(r, t) <=> InQueue(q, t) \/ t = u
  BY <1>1, <1>2 DEF InQueue
<1>4. ASSUME \A j, k \in DOMAIN q : q[j] = q[k] => j = k, ~InQueue(q, u),
             NEW j \in DOMAIN r, NEW k \in DOMAIN r, r[j] = r[k]
      PROVE  j = k
  BY <1>1, <1>2, <1>4 DEF InQueue
<1> QED BY <1>3, <1>4 DEF r

LEMMA InQueueTail ==
  ASSUME NEW S, NEW q \in Seq(S), q # <<>>, \A j, k \in DOMAIN q : q[j] = q[k] => j = k
  PROVE  /\ Head(q) \in S /\ InQueue(q, Head(q))
         /\ \A t : InQueue(Tail(q), t) <=> InQueue(q, t) /\ t # Head(q)
         /\ \A j, k \in DOMAIN Tail(q) : Tail(q)[j] = Tail(q)[k] => j = k
<1> DEFINE r == Tail(q)
<1>1. /\ Len(q) \in Nat \ {0} /\ DOMAIN q = 1..Len(q) /\ DOMAIN r = 1..(Len(q) - 1)
      /\ \A k \in 1..(Len(q) - 1) : r[k] = q[k + 1]
      /\ Head(q) = q[1] /\ Head(q) \in S
  OBVIOUS
<1> HIDE DEF r
<1>2. ASSUME NEW t PROVE InQueue(r, t) <=> InQueue(q, t) /\ t # Head(q)
  <2>1. ASSUME InQueue(r, t) PROVE InQueue(q, t) /\ t # Head(q)
    <3>1. PICK k \in DOMAIN r : r[k] = t
      BY <2>1 DEF InQueue
    <3>2. k + 1 \in DOMAIN q /\ q[k + 1] = t /\ k + 1 # 1 /\ 1 \in DOMAIN q
      BY <1>1, <3>1
    <3>3. t # q[1]
      BY <3>2
    <3> QED BY <1>1, <3>2, <3>3 DEF InQueue
  <2>2. ASSUME InQueue(q, t), t # Head(q) PROVE InQueue(r, t)
    <3>1. PICK k \in DOMAIN q : q[k] = t
      BY <2>2 DEF InQueue
    <3>2. k - 1 \in DOMAIN r /\ r[k - 1] = t
      BY <1>1, <2>2, <3>1
    <3> QED BY <3>2 DEF InQueue
  <2> QED BY <2>1, <2>2
<1>3. ASSUME NEW j \in DOMAIN r, NEW k \in DOMAIN r, r[j] = r[k] PROVE j = k
  <2>1. /\ j + 1 \in DOMAIN q /\ k + 1 \in DOMAIN q /\ j \in Nat /\ k \in Nat
        /\ q[j + 1] = q[k + 1]
    BY <1>1, <1>3
  <2>2. j + 1 = k + 1
    BY <2>1
  <2> QED BY <2>1, <2>2
<1>4. InQueue(q, Head(q))
  BY <1>1 DEF InQueue
<1> QED BY <1>1, <1>2, <1>3, <1>4 DEF r

LEMMA FreshIs ==
  ASSUME NEW t
  PROVE  Pool!Fresh(t) <=> ~InQueue(queue, t) /\ t \notin admitted \cup running \cup done
BY DEF Pool!Fresh, Pool!Queued, InQueue

LEMMA TasksDiffer ==
  /\ \A c \in Callers : Call(c) \in AllTasks
  /\ \A c \in Callers, k \in 0..MaxLength : Block(c, k) \in AllTasks
  /\ \A c, d \in Callers, k \in 0..MaxLength : Call(c) # Block(d, k)
  /\ \A c, d \in Callers, j, k \in 0..MaxLength :
       Block(c, j) = Block(d, k) => c = d /\ j = k
  /\ \A c, d \in Callers : Call(c) = Call(d) => c = d
BY AccumulateAssumption DEF Call, Block, AllTasks

-----------------------------------------------------------------------------
(* What a step leaves alone. *)

Same(c) == /\ length'[c] = length[c] /\ pc'[c] = pc[c] /\ i'[c] = i[c]
           /\ blockStart'[c] = blockStart[c] /\ block'[c] = block[c]
           /\ sum'[c] = sum[c]

(* A call that does nothing is not disturbed by a pool that goes on: a     *)
(* block that was not in the pool is not there now, one that is done stays *)
(* done.                                                                   *)
LEMMA CallFrame ==
  ASSUME NEW c \in Callers, CallInv(c), Same(c), done \subseteq done',
         \A k \in 0..MaxLength : Pool!Fresh(Block(c, k)) => Pool!Fresh(Block(c, k))'
  PROVE  CallInv(c)'
<1>1. NumBlocks(c)' = NumBlocks(c) /\ Exact(c)' = Exact(c) /\ Partly(c)' = Partly(c)
  BY DEF Same, NumBlocks, Exact, Partly
<1>2. \A k \in 0..MaxLength : Block(c, k) \in done => Block(c, k) \in done'
  OBVIOUS
<1>3. NotBegun(c)'
  BY DEF CallInv, NotBegun, Same
<1>4. Enqueueing(c)'
  BY <1>1 DEF CallInv, Enqueueing, Same
<1>5. Summing(c)'
  BY <1>1, <1>2 DEF CallInv, Summing, Same
<1>6. Returned(c)'
  BY <1>1, <1>2 DEF CallInv, Returned, Same
<1>7. Captured(c)'
  BY DEF CallInv, Captured, Same
<1>8. Sent(c)'
  BY DEF CallInv, Sent, Same
<1> QED BY <1>3, <1>4, <1>5, <1>6, <1>7, <1>8 DEF CallInv

LEMMA FreshFrame ==
  ASSUME UNCHANGED pool, NEW t
  PROVE  Pool!Fresh(t)' <=> Pool!Fresh(t)
BY DEF pool, Pool!Fresh, Pool!Queued

(* A step of one call that does not touch the pool. *)
LEMMA LocalStep ==
  ASSUME IInv, TypeOK', NEW c \in Callers, pc[c] # "queued",
         \A d \in Callers : d # c => Same(d), UNCHANGED pool, CallInv(c)'
  PROVE  IInv'
<1>1. PoolOnce'
  BY DEF IInv, PoolOnce, pool, InQueue
<1>2. QueuedCallsWait'
  <2>1. ASSUME NEW d \in Callers, InQueue(queue', Call(d)) PROVE pc'[d] = "queued"
    <3>1. pc[d] = "queued"
      BY <2>1 DEF IInv, QueuedCallsWait, pool
    <3> QED BY <3>1 DEF Same
  <2> QED BY <2>1 DEF QueuedCallsWait
<1>3. ASSUME NEW d \in Callers PROVE CallInv(d)'
  <2>1. CASE d = c
    BY <2>1
  <2>2. CASE d # c
    <3>1. done \subseteq done'
      BY DEF pool
    <3>2. Same(d) /\ CallInv(d)
      BY <2>2 DEF IInv
    <3> QED BY <3>1, <3>2, FreshFrame, CallFrame
  <2> QED BY <2>1, <2>2
<1> QED BY <1>1, <1>2, <1>3 DEF IInv

-----------------------------------------------------------------------------
(* The steps of a call. *)

LEMMA BeginStep == ASSUME IInv, NEW c \in Callers, Begin(c) PROVE IInv'
<1>0. TypeOK /\ CallInv(c)
  BY DEF IInv
<1>1. /\ length[c] \in Nat /\ i[c] = 0 /\ blockStart[c] = 0
      /\ block[c] = <<>> /\ sum[c] = Zero
  BY <1>0 DEF Begin, TypeOK, CallInv, NotBegun
<1>2. /\ pc[c] = "call"
      /\ pc'[c] \in IF length[c] = 0 THEN {"returned"} ELSE {"enqueue", "threw"}
      /\ length'[c] = length[c] /\ i'[c] = i[c] /\ blockStart'[c] = blockStart[c]
      /\ block'[c] = block[c] /\ sum'[c] = sum[c]
      /\ \A d \in Callers : d # c => Same(d)
      /\ UNCHANGED pool
  BY <1>0 DEF Begin, TypeOK, Same
<1>3. TypeOK'
  <2>1. pc' \in [Callers -> {"queued", "call", "enqueue", "push", "sum"} \cup Ended]
    BY <1>0 DEF TypeOK, Begin, Ended
  <2> QED BY <1>0, <2>1 DEF TypeOK, Begin, pool
<1>4. NumBlocks(c)' = NumBlocks(c) /\ Exact(c)' = Exact(c)
  BY <1>2 DEF NumBlocks, Exact
<1>5. NotBegun(c)' /\ Summing(c)'
  BY <1>2 DEF NotBegun, Summing
<1>6. Enqueueing(c)'
  <2> SUFFICES ASSUME length[c] # 0 PROVE Enqueueing(c)'
    BY <1>2 DEF Enqueueing
  <2>1. length[c] > 0 /\ NumBlocks(c) \in Nat \ {0}
    BY <1>1, BlocksCover
  <2>2. 0 <= NumBlocks(c) - 1 /\ Len(<<>>) = 0 /\ Bound(0) = 0
    BY <2>1, Bounds
  <2> QED BY <1>1, <1>2, <1>4, <2>1, <2>2 DEF Enqueueing
<1>7. Returned(c)'
  <2>1. length[c] = 0 => Exact(c) = Zero
    BY DEF Exact, Zero, Elements
  <2> QED BY <1>1, <1>2, <1>4, <2>1 DEF Returned
<1>8. Captured(c)'
  BY <1>1, <1>2 DEF Captured
<1>9. Sent(c)'
  BY <1>0, <1>2, FreshFrame DEF CallInv, Sent
<1>10. CallInv(c)'
  BY <1>5, <1>6, <1>7, <1>8, <1>9 DEF CallInv
<1> QED BY <1>2, <1>3, <1>10, LocalStep DEF Begin

LEMMA EnqueueRefusedStep == ASSUME IInv, NEW c \in Callers, EnqueueRefused(c) PROVE IInv'
<1>0. TypeOK /\ CallInv(c)
  BY DEF IInv
<1>1. /\ pc[c] = "enqueue" /\ pc'[c] = "threw"
      /\ length'[c] = length[c] /\ i'[c] = i[c] /\ blockStart'[c] = blockStart[c]
      /\ block'[c] = block[c] /\ sum'[c] = sum[c]
      /\ \A d \in Callers : d # c => Same(d)
      /\ UNCHANGED pool
  BY <1>0 DEF EnqueueRefused, TypeOK, Same
<1>2. TypeOK'
  BY <1>0 DEF TypeOK, EnqueueRefused, pool, Ended
<1>3. NotBegun(c)' /\ Enqueueing(c)' /\ Summing(c)' /\ Returned(c)'
  BY <1>1 DEF NotBegun, Enqueueing, Summing, Returned
<1>4. Captured(c)'
  BY <1>0, <1>1 DEF CallInv, Captured
<1>5. Sent(c)'
  BY <1>0, <1>1, FreshFrame DEF CallInv, Sent
<1>6. CallInv(c)'
  BY <1>3, <1>4, <1>5 DEF CallInv
<1> QED BY <1>1, <1>2, <1>6, LocalStep

LEMMA AddedType ==
  ASSUME NEW s \in [Elements -> Nat], NEW first, NEW last
  PROVE  AddBlock(s, first, last) \in [Elements -> Nat]
BY DEF AddBlock

LEMMA LastBlockStep == ASSUME IInv, NEW c \in Callers, LastBlock(c) PROVE IInv'
<1>0. TypeOK /\ CallInv(c)
  BY DEF IInv
<1>1. /\ pc[c] = "enqueue" /\ i[c] = NumBlocks(c) - 1
      /\ sum'[c] = AddBlock(sum[c], blockStart[c], length[c])
      /\ pc'[c] = "sum" /\ i'[c] = 0
      /\ length'[c] = length[c] /\ blockStart'[c] = blockStart[c]
      /\ block'[c] = block[c]
      /\ \A d \in Callers : d # c => Same(d)
      /\ UNCHANGED pool
  BY <1>0 DEF LastBlock, TypeOK, Same
<1>2. TypeOK'
  <2>1. sum' \in [Callers -> [Elements -> Nat]]
    BY <1>0, AddedType DEF TypeOK, LastBlock
  <2>2. i' \in [Callers -> 0..MaxLength]
    BY <1>0, AccumulateAssumption DEF TypeOK, LastBlock
  <2>3. pc' \in [Callers -> {"queued", "call", "enqueue", "push", "sum"} \cup Ended]
    BY <1>0 DEF TypeOK, LastBlock
  <2> QED BY <1>0, <2>1, <2>2, <2>3 DEF TypeOK, LastBlock, pool
<1>3. /\ length[c] \in Nat /\ length[c] > 0
      /\ Len(block[c]) = NumBlocks(c) - 1
      /\ blockStart[c] = Bound(NumBlocks(c) - 1)
      /\ sum[c] = Zero
  BY <1>0, <1>1 DEF TypeOK, CallInv, Enqueueing
<1>4. NumBlocks(c)' = NumBlocks(c) /\ NumBlocks(c) \in Nat \ {0}
  BY <1>1, <1>3, BlocksCover DEF NumBlocks
<1>5. NotBegun(c)' /\ Enqueueing(c)' /\ Returned(c)'
  BY <1>1 DEF NotBegun, Enqueueing, Returned
<1>6. sum'[c] = Partly(c)'
  <2>1. \A e \in Elements : e \in Nat /\ ~(e < Bound(0))
    BY Bounds, AccumulateAssumption DEF Elements
  <2>2. Partly(c)' = [e \in Elements |->
           IF e < Bound(0) \/ (Bound(NumBlocks(c) - 1) <= e /\ e < length[c]) THEN 1 ELSE 0]
    BY <1>1, <1>4 DEF Partly
  <2>3. sum'[c] = [e \in Elements |->
           IF Bound(NumBlocks(c) - 1) <= e /\ e < length[c] THEN 1 ELSE 0]
    BY <1>1, <1>3 DEF AddBlock, Zero
  <2> QED BY <2>1, <2>2, <2>3
<1>7. Summing(c)'
  BY <1>1, <1>3, <1>4, <1>6 DEF Summing
<1>8. Captured(c)'
  BY <1>0, <1>1 DEF CallInv, Captured
<1>9. Sent(c)'
  BY <1>0, <1>1, FreshFrame DEF CallInv, Sent
<1>10. CallInv(c)'
  BY <1>5, <1>7, <1>8, <1>9 DEF CallInv
<1> QED BY <1>1, <1>2, <1>10, LocalStep

(* Adding the next future counts the next block, and no element twice: the *)
(* blocks before it end where it begins, and the last one begins behind    *)
(* it.                                                                     *)
LEMMA AddFutureStep == ASSUME IInv, NEW c \in Callers, AddFuture(c) PROVE IInv'
<1>0. TypeOK /\ CallInv(c)
  BY DEF IInv
<1>1. /\ pc[c] = "sum" /\ i[c] < NumBlocks(c) - 1
      /\ Block(c, i[c]) \in done
      /\ sum'[c] = AddBlock(sum[c], block[c][i[c] + 1][1], block[c][i[c] + 1][2])
      /\ i'[c] = i[c] + 1
      /\ pc'[c] = pc[c] /\ length'[c] = length[c] /\ blockStart'[c] = blockStart[c]
      /\ block'[c] = block[c]
      /\ \A d \in Callers : d # c => Same(d)
      /\ UNCHANGED pool
  BY <1>0 DEF AddFuture, TypeOK, Same
<1>2. /\ length[c] \in 0..MaxLength /\ length[c] > 0 /\ i[c] \in Nat
      /\ Len(block[c]) = NumBlocks(c) - 1
      /\ sum[c] = Partly(c)
      /\ \A k \in 0..MaxLength : k < i[c] => Block(c, k) \in done
  BY <1>0, <1>1 DEF TypeOK, CallInv, Summing
<1>3. /\ NumBlocks(c)' = NumBlocks(c) /\ NumBlocks(c) \in Nat \ {0}
      /\ NumBlocks(c) <= length[c]
  BY <1>1, <1>2, BlocksCover DEF NumBlocks
<1>4. block[c][i[c] + 1] = <<Bound(i[c]), Bound(i[c] + 1)>>
  <2>1. i[c] + 1 \in 1..Len(block[c]) /\ (i[c] + 1) - 1 = i[c]
    BY <1>1, <1>2, <1>3
  <2> QED BY <1>0, <2>1 DEF CallInv, Captured
<1>5. TypeOK'
  <2>1. sum' \in [Callers -> [Elements -> Nat]]
    BY <1>0, AddedType DEF TypeOK, AddFuture
  <2>2. i' \in [Callers -> 0..MaxLength]
    <3>1. i[c] + 1 \in 0..MaxLength
      BY <1>1, <1>2, <1>3, AccumulateAssumption
    <3> QED BY <1>0, <3>1 DEF TypeOK, AddFuture
  <2> QED BY <1>0, <2>1, <2>2 DEF TypeOK, AddFuture, pool
<1>6. sum'[c] = Partly(c)'
  <2> DEFINE j == i[c]
             n == NumBlocks(c) - 1
  <2>1. /\ Bound(j) \in Nat /\ Bound(j + 1) \in Nat /\ Bound(n) \in Nat
        /\ Bound(j) <= Bound(j + 1) /\ Bound(j + 1) <= Bound(n)
    <3>1. j \in Nat /\ j + 1 \in Nat /\ n \in Nat /\ j <= j + 1 /\ j + 1 <= n
      BY <1>1, <1>2, <1>3
    <3> HIDE DEF j, n
    <3> QED BY <3>1, Bounds
  <2>2. Partly(c)' = [e \in Elements |->
           IF e < Bound(j + 1) \/ (Bound(n) <= e /\ e < length[c]) THEN 1 ELSE 0]
    BY <1>1, <1>3 DEF Partly
  <2>3. sum[c] = [e \in Elements |->
           IF e < Bound(j) \/ (Bound(n) <= e /\ e < length[c]) THEN 1 ELSE 0]
    BY <1>2 DEF Partly
  <2>4. sum'[c] = [e \in Elements |->
           IF Bound(j) <= e /\ e < Bound(j + 1) THEN sum[c][e] + 1 ELSE sum[c][e]]
    BY <1>1, <1>4 DEF AddBlock
  <2>5. Elements \subseteq Nat
    BY AccumulateAssumption DEF Elements
  <2> HIDE DEF j, n
  <2>6. ASSUME NEW e \in Elements
        PROVE  (IF Bound(j) <= e /\ e < Bound(j + 1) THEN sum[c][e] + 1 ELSE sum[c][e])
                 = IF e < Bound(j + 1) \/ (Bound(n) <= e /\ e < length[c]) THEN 1 ELSE 0
    BY <2>1, <2>3, <2>5
  <2> QED BY <2>2, <2>4, <2>6
<1>7. Summing(c)'
  <2>1. i'[c] <= NumBlocks(c) - 1
    BY <1>1, <1>2, <1>3
  <2>2. \A k \in 0..MaxLength : k < i[c] + 1 => Block(c, k) \in done
    BY <1>1, <1>2
  <2>3. done' = done
    BY <1>1 DEF pool
  <2> QED BY <1>1, <1>2, <1>3, <1>6, <2>1, <2>2, <2>3 DEF Summing
<1>8. NotBegun(c)' /\ Enqueueing(c)' /\ Returned(c)'
  BY <1>1 DEF NotBegun, Enqueueing, Returned
<1>9. Captured(c)'
  BY <1>0, <1>1 DEF CallInv, Captured
<1>10. Sent(c)'
  BY <1>0, <1>1, FreshFrame DEF CallInv, Sent
<1>11. CallInv(c)'
  BY <1>7, <1>8, <1>9, <1>10 DEF CallInv
<1> QED BY <1>1, <1>5, <1>11, LocalStep

(* With all futures added, nothing is missing: the last block goes up to   *)
(* the end of the range.                                                   *)
LEMMA ReturnStep == ASSUME IInv, NEW c \in Callers, Return(c) PROVE IInv'
<1>0. TypeOK /\ CallInv(c)
  BY DEF IInv
<1>1. /\ pc[c] = "sum" /\ i[c] = NumBlocks(c) - 1
      /\ pc'[c] = "returned" /\ length'[c] = length[c]
      /\ i'[c] = i[c] /\ blockStart'[c] = blockStart[c]
      /\ block'[c] = block[c] /\ sum'[c] = sum[c]
      /\ \A d \in Callers : d # c => Same(d)
      /\ UNCHANGED pool
  BY <1>0 DEF Return, TypeOK, Same
<1>2. /\ length[c] \in Nat /\ length[c] > 0
      /\ Len(block[c]) = NumBlocks(c) - 1
      /\ sum[c] = Partly(c)
      /\ \A k \in 0..MaxLength : k < i[c] => Block(c, k) \in done
  BY <1>0, <1>1 DEF TypeOK, CallInv, Summing
<1>3. TypeOK'
  BY <1>0 DEF TypeOK, Return, pool, Ended
<1>4. Partly(c) = Exact(c)
  <2>1. /\ NumBlocks(c) - 1 \in Nat /\ Bound(NumBlocks(c) - 1) \in Nat
        /\ Bound(NumBlocks(c) - 1) < length[c]
    <3>1. NumBlocks(c) - 1 \in Nat /\ Bound(NumBlocks(c) - 1) < length[c]
      BY <1>2, BlocksCover
    <3> QED BY <3>1, Bounds
  <2>2. Elements \subseteq Nat
    BY AccumulateAssumption DEF Elements
  <2> QED BY <1>1, <1>2, <2>1, <2>2 DEF Partly, Exact
<1>5. Returned(c)'
  <2>1. sum'[c] = Exact(c)'
    BY <1>1, <1>2, <1>4 DEF Exact
  <2> QED BY <1>1, <1>2, <2>1 DEF Returned, pool
<1>6. NotBegun(c)' /\ Enqueueing(c)' /\ Summing(c)'
  BY <1>1 DEF NotBegun, Enqueueing, Summing
<1>7. Captured(c)'
  BY <1>0, <1>1 DEF CallInv, Captured
<1>8. Sent(c)'
  BY <1>0, <1>1, FreshFrame DEF CallInv, Sent
<1>9. CallInv(c)'
  BY <1>5, <1>6, <1>7, <1>8 DEF CallInv
<1> QED BY <1>1, <1>3, <1>9, LocalStep

(* What both halves of Enqueue find: another block fits before the last.   *)
LEMMA NextBlock ==
  ASSUME IInv, NEW c \in Callers, pc[c] \in {"enqueue", "push"}, i[c] < NumBlocks(c) - 1
  PROVE  /\ length[c] \in 0..MaxLength /\ length[c] > 0
         /\ i[c] \in Nat /\ i[c] = Len(block[c])
         /\ i[c] \in 0..MaxLength /\ i[c] + 1 \in 0..MaxLength
         /\ i[c] + 1 <= NumBlocks(c) - 1
         /\ blockStart[c] = Bound(i[c]) /\ sum[c] = Zero
         /\ blockStart[c] \in 0..MaxLength /\ blockStart[c] + BlockSize \in 0..MaxLength
         /\ Bound(i[c] + 1) = Bound(i[c]) + BlockSize
         /\ block[c] \in Seq((0..MaxLength) \X (0..MaxLength))
         /\ Block(c, i[c]) \in AllTasks
<1>0. TypeOK /\ CallInv(c)
  BY DEF IInv
<1>1. /\ length[c] \in 0..MaxLength /\ length[c] > 0
      /\ i[c] \in Nat /\ i[c] = Len(block[c])
      /\ blockStart[c] = Bound(i[c]) /\ sum[c] = Zero
      /\ block[c] \in Seq((0..MaxLength) \X (0..MaxLength))
  BY <1>0 DEF TypeOK, CallInv, Enqueueing
<1>2. /\ NumBlocks(c) \in Nat \ {0}
      /\ NumBlocks(c) <= length[c] /\ Bound(NumBlocks(c) - 1) < length[c]
  BY <1>1, BlocksCover
<1>3. /\ Bound(i[c]) \in Nat /\ Bound(i[c] + 1) = Bound(i[c]) + BlockSize
      /\ Bound(i[c] + 1) <= Bound(NumBlocks(c) - 1)
      /\ Bound(NumBlocks(c) - 1) \in Nat
      /\ i[c] + 1 <= NumBlocks(c) - 1
  <2>1. i[c] + 1 \in Nat /\ NumBlocks(c) - 1 \in Nat /\ i[c] + 1 <= NumBlocks(c) - 1
    BY <1>1, <1>2
  <2> QED BY <1>1, <2>1, Bounds
<1>4. i[c] + 1 <= MaxLength
  BY <1>1, <1>2, AccumulateAssumption
<1>5. Bound(i[c] + 1) <= MaxLength
  BY <1>1, <1>2, <1>3, AccumulateAssumption
<1>6. /\ i[c] \in 0..MaxLength /\ i[c] + 1 \in 0..MaxLength
      /\ blockStart[c] \in 0..MaxLength /\ blockStart[c] + BlockSize \in 0..MaxLength
  BY <1>1, <1>3, <1>4, <1>5, AccumulateAssumption
<1>7. Block(c, i[c]) \in AllTasks
  BY <1>6, TasksDiffer
<1> QED BY <1>1, <1>3, <1>6, <1>7

LEMMA EnqueueCheckStep == ASSUME IInv, NEW c \in Callers, EnqueueCheck(c) PROVE IInv'
<1> DEFINE b == Block(c, i[c])
<1>0. TypeOK /\ CallInv(c) /\ PoolOnce /\ QueuedCallsWait
  BY DEF IInv
<1>1. /\ pc[c] = "enqueue" /\ pc'[c] = "push" /\ i[c] < NumBlocks(c) - 1
      /\ Pool!Fresh(b) /\ admitted' = admitted \cup {b}
      /\ UNCHANGED <<queue, running, done, idle, stopped>>
      /\ block'[c] = block[c] /\ blockStart'[c] = blockStart[c] /\ i'[c] = i[c]
      /\ length'[c] = length[c] /\ sum'[c] = sum[c]
      /\ \A d \in Callers : d # c => Same(d)
  BY <1>0 DEF EnqueueCheck, TypeOK, Same, Pool!Admit
<1>2. i[c] \in 0..MaxLength /\ b \in AllTasks
  BY <1>1, NextBlock
<1>3. NumBlocks(c)' = NumBlocks(c)
  BY <1>1 DEF NumBlocks
<1> HIDE DEF b
<1>4. TypeOK'
  <2>1. pc' \in [Callers -> {"queued", "call", "enqueue", "push", "sum"} \cup Ended]
    BY <1>0 DEF TypeOK, EnqueueCheck
  <2>2. admitted' \subseteq AllTasks
    BY <1>0, <1>1, <1>2 DEF TypeOK
  <2> QED BY <1>0, <1>1, <2>1, <2>2 DEF TypeOK, EnqueueCheck
<1>5. PoolOnce'
  <2>1. ~InQueue(queue, b) /\ b \notin running \cup done
    BY <1>1, FreshIs
  <2>2. \A t : InQueue(queue', t) <=> InQueue(queue, t)
    BY <1>1
  <2> QED BY <1>0, <1>1, <2>1, <2>2 DEF PoolOnce
<1>6. QueuedCallsWait'
  <2>1. ASSUME NEW d \in Callers, InQueue(queue', Call(d)) PROVE pc'[d] = "queued"
    <3>1. pc[d] = "queued"
      BY <1>0, <1>1, <2>1 DEF QueuedCallsWait
    <3> QED BY <1>1, <3>1 DEF Same
  <2> QED BY <2>1 DEF QueuedCallsWait
<1>7. \A t : t # b /\ Pool!Fresh(t) => Pool!Fresh(t)'
  BY <1>1 DEF Pool!Fresh, Pool!Queued
<1>8. ASSUME NEW d \in Callers, d # c PROVE CallInv(d)'
  <2>1. \A k \in 0..MaxLength : Block(d, k) # b
    BY <1>2, <1>8, TasksDiffer DEF b
  <2>2. \A k \in 0..MaxLength : Pool!Fresh(Block(d, k)) => Pool!Fresh(Block(d, k))'
    BY <1>7, <2>1
  <2>3. CallInv(d) /\ Same(d) /\ done \subseteq done'
    BY <1>1, <1>8 DEF IInv
  <2> QED BY <2>2, <2>3, CallFrame
<1>9. CallInv(c)'
  <2>1. NotBegun(c)' /\ Summing(c)' /\ Returned(c)'
    BY <1>1 DEF NotBegun, Summing, Returned
  <2>2. Enqueueing(c)'
    BY <1>0, <1>1, <1>3 DEF CallInv, Enqueueing
  <2>3. Captured(c)'
    BY <1>0, <1>1 DEF CallInv, Captured
  <2>4. Sent(c)'
    <3>1. ASSUME NEW k \in 0..MaxLength, ~Pool!Fresh(Block(c, k))'
          PROVE  k < Len(block[c]) \/ k = i[c]
      <4>1. CASE Block(c, k) = b
        BY <4>1, <1>2, TasksDiffer DEF b
      <4>2. CASE Block(c, k) # b
        BY <1>0, <1>1, <1>7, <3>1, <4>2 DEF CallInv, Sent
      <4> QED BY <4>1, <4>2
    <3> QED BY <1>1, <3>1 DEF Sent
  <2> QED BY <2>1, <2>2, <2>3, <2>4 DEF CallInv
<1> QED BY <1>4, <1>5, <1>6, <1>8, <1>9 DEF IInv

LEMMA EnqueuePushStep == ASSUME IInv, NEW c \in Callers, EnqueuePush(c) PROVE IInv'
<1> DEFINE b == Block(c, i[c])
           new == <<blockStart[c], blockStart[c] + BlockSize>>
<1>0. TypeOK /\ CallInv(c) /\ PoolOnce /\ QueuedCallsWait
  BY DEF IInv
<1>1. /\ pc[c] = "push" /\ pc'[c] = "enqueue"
      /\ b \in admitted /\ admitted' = admitted \ {b} /\ queue' = Append(queue, b)
      /\ UNCHANGED <<running, done, idle, stopped>>
      /\ late' \subseteq late \cup {c}
      /\ block'[c] = Append(block[c], new)
      /\ blockStart'[c] = blockStart[c] + BlockSize /\ i'[c] = i[c] + 1
      /\ length'[c] = length[c] /\ sum'[c] = sum[c]
      /\ \A d \in Callers : d # c => Same(d)
  BY <1>0 DEF EnqueuePush, TypeOK, Same, Pool!Push
<1>2. i[c] < NumBlocks(c) - 1
  BY <1>0, <1>1 DEF CallInv, Enqueueing
<1>3. /\ length[c] > 0
      /\ i[c] \in Nat /\ i[c] = Len(block[c])
      /\ i[c] \in 0..MaxLength /\ i[c] + 1 \in 0..MaxLength
      /\ i[c] + 1 <= NumBlocks(c) - 1
      /\ blockStart[c] = Bound(i[c]) /\ sum[c] = Zero
      /\ blockStart[c] \in 0..MaxLength /\ blockStart[c] + BlockSize \in 0..MaxLength
      /\ Bound(i[c] + 1) = Bound(i[c]) + BlockSize
      /\ block[c] \in Seq((0..MaxLength) \X (0..MaxLength))
      /\ b \in AllTasks
  BY <1>1, <1>2, NextBlock
<1>4. NumBlocks(c)' = NumBlocks(c)
  BY <1>1 DEF NumBlocks
<1>5. new = <<Bound(i[c]), Bound(i[c] + 1)>> /\ new \in (0..MaxLength) \X (0..MaxLength)
  BY <1>3
<1> HIDE DEF b, new
<1>6. /\ queue \in Seq(AllTasks) /\ ~InQueue(queue, b) /\ b \notin running \cup done
      /\ \A t : InQueue(queue', t) <=> InQueue(queue, t) \/ t = b
      /\ \A j, k \in DOMAIN queue' : queue'[j] = queue'[k] => j = k
  <2>1. /\ queue \in Seq(AllTasks) /\ ~InQueue(queue, b) /\ b \notin running \cup done
        /\ \A j, k \in DOMAIN queue : queue[j] = queue[k] => j = k
    BY <1>0, <1>1, <1>3 DEF TypeOK, PoolOnce
  <2>2. /\ \A t : InQueue(Append(queue, b), t) <=> InQueue(queue, t) \/ t = b
        /\ \A j, k \in DOMAIN Append(queue, b) :
             Append(queue, b)[j] = Append(queue, b)[k] => j = k
    BY <1>3, <2>1, InQueueAppend
  <2> QED BY <1>1, <2>1, <2>2
<1>7. TypeOK'
  <2>1. queue' \in Seq(AllTasks)
    BY <1>1, <1>3, <1>6
  <2>2. block' \in [Callers -> Seq((0..MaxLength) \X (0..MaxLength))]
    BY <1>0, <1>3, <1>5 DEF TypeOK, EnqueuePush, new
  <2>3. i' \in [Callers -> 0..MaxLength] /\ blockStart' \in [Callers -> 0..MaxLength]
    BY <1>0, <1>3 DEF TypeOK, EnqueuePush
  <2>4. pc' \in [Callers -> {"queued", "call", "enqueue", "push", "sum"} \cup Ended]
    BY <1>0 DEF TypeOK, EnqueuePush
  <2>5. late' \subseteq Callers /\ admitted' \subseteq AllTasks
    BY <1>0, <1>1 DEF TypeOK
  <2> QED BY <1>0, <1>1, <2>1, <2>2, <2>3, <2>4, <2>5 DEF TypeOK, EnqueuePush
<1>8. PoolOnce'
  <2>1. ASSUME NEW t \in AllTasks
        PROVE  /\ t \in admitted' => ~InQueue(queue', t)
               /\ t \in admitted' \/ InQueue(queue', t) => t \notin running' \cup done'
               /\ t \in running' => t \notin done'
    BY <1>0, <1>1, <1>6 DEF PoolOnce
  <2> QED BY <1>6, <2>1 DEF PoolOnce
<1>9. QueuedCallsWait'
  <2>1. ASSUME NEW d \in Callers, InQueue(queue', Call(d)) PROVE pc'[d] = "queued"
    <3>1. Call(d) # b
      BY <1>3, TasksDiffer DEF b
    <3>2. pc[d] = "queued"
      BY <1>0, <1>6, <2>1, <3>1 DEF QueuedCallsWait
    <3> QED BY <1>1, <3>2 DEF Same
  <2> QED BY <2>1 DEF QueuedCallsWait
<1>10. \A t : Pool!Fresh(t) => Pool!Fresh(t)'
  <2>1. \A t : Pool!Fresh(t)' <=> ~InQueue(queue', t) /\ t \notin admitted' \cup running' \cup done'
    BY DEF Pool!Fresh, Pool!Queued, InQueue
  <2> QED BY <1>1, <1>6, <2>1, FreshIs
<1>11. ASSUME NEW d \in Callers, d # c PROVE CallInv(d)'
  <2>1. CallInv(d) /\ Same(d) /\ done \subseteq done'
    BY <1>1, <1>11 DEF IInv
  <2> QED BY <1>10, <2>1, CallFrame
<1>12. CallInv(c)'
  <2>1. /\ Len(block'[c]) = i[c] + 1
        /\ \A k \in 1..i[c] : block'[c][k] = block[c][k]
        /\ block'[c][i[c] + 1] = new
    BY <1>1, <1>3, <1>5
  <2>2. NotBegun(c)' /\ Summing(c)' /\ Returned(c)'
    BY <1>1 DEF NotBegun, Summing, Returned
  <2>3. Enqueueing(c)'
    BY <1>1, <1>3, <1>4, <2>1 DEF Enqueueing
  <2>4. Captured(c)'
    <3>1. ASSUME NEW k \in 1..Len(block'[c]) PROVE block'[c][k] = <<Bound(k - 1), Bound(k)>>
      <4>1. CASE k \in 1..i[c]
        BY <1>0, <1>3, <2>1, <4>1 DEF CallInv, Captured
      <4>2. CASE k = i[c] + 1
        <5>1. k - 1 = i[c]
          BY <1>3, <4>2
        <5> QED BY <1>5, <2>1, <4>2, <5>1
      <4> QED BY <1>3, <2>1, <4>1, <4>2
    <3> QED BY <3>1 DEF Captured
  <2>5. Sent(c)'
    <3>1. ASSUME NEW k \in 0..MaxLength, ~Pool!Fresh(Block(c, k))' PROVE k < i[c] + 1
      <4>1. ~Pool!Fresh(Block(c, k))
        BY <1>10, <3>1
      <4>2. k < i[c] \/ k = i[c]
        BY <1>0, <1>3, <4>1 DEF CallInv, Sent
      <4> QED BY <1>3, <4>2
    <3> QED BY <2>1, <3>1 DEF Sent
  <2> QED BY <2>2, <2>3, <2>4, <2>5 DEF CallInv
<1> QED BY <1>7, <1>8, <1>9, <1>11, <1>12 DEF IInv

LEMMA EnqueueFailsStep == ASSUME IInv, NEW c \in Callers, EnqueueFails(c) PROVE IInv'
<1> DEFINE b == Block(c, i[c])
<1>0. TypeOK /\ CallInv(c) /\ PoolOnce /\ QueuedCallsWait
  BY DEF IInv
<1>1. /\ pc[c] = "push" /\ pc'[c] = "threw"
      /\ b \in admitted /\ admitted' = admitted \ {b}
      /\ UNCHANGED <<queue, running, done, idle, stopped>>
      /\ block'[c] = block[c] /\ blockStart'[c] = blockStart[c] /\ i'[c] = i[c]
      /\ length'[c] = length[c] /\ sum'[c] = sum[c]
      /\ \A d \in Callers : d # c => Same(d)
  BY <1>0 DEF EnqueueFails, TypeOK, Same, Pool!Drop
<1> HIDE DEF b
<1>2. TypeOK'
  <2>1. pc' \in [Callers -> {"queued", "call", "enqueue", "push", "sum"} \cup Ended]
    BY <1>0 DEF TypeOK, EnqueueFails, Ended
  <2>2. admitted' \subseteq AllTasks
    BY <1>0, <1>1 DEF TypeOK
  <2> QED BY <1>0, <1>1, <2>1, <2>2 DEF TypeOK, EnqueueFails
<1>3. PoolOnce'
  BY <1>0, <1>1 DEF PoolOnce
<1>4. QueuedCallsWait'
  <2>1. ASSUME NEW d \in Callers, InQueue(queue', Call(d)) PROVE pc'[d] = "queued"
    <3>1. pc[d] = "queued"
      BY <1>0, <1>1, <2>1 DEF QueuedCallsWait
    <3> QED BY <1>1, <3>1 DEF Same
  <2> QED BY <2>1 DEF QueuedCallsWait
<1>5. \A t : Pool!Fresh(t) => Pool!Fresh(t)'
  BY <1>1 DEF Pool!Fresh, Pool!Queued
<1>6. ASSUME NEW t, t = b PROVE Pool!Fresh(t)'
  <2>1. ~InQueue(queue, t) /\ t \notin running \cup done
    BY <1>0, <1>1, <1>6 DEF PoolOnce, TypeOK
  <2> QED BY <1>1, <1>6, <2>1 DEF Pool!Fresh, Pool!Queued, InQueue
<1>7. ASSUME NEW d \in Callers, d # c PROVE CallInv(d)'
  <2>1. CallInv(d) /\ Same(d) /\ done \subseteq done'
    BY <1>1, <1>7 DEF IInv
  <2> QED BY <1>5, <2>1, CallFrame
<1>8. CallInv(c)'
  <2>1. NotBegun(c)' /\ Enqueueing(c)' /\ Summing(c)' /\ Returned(c)'
    BY <1>1 DEF NotBegun, Enqueueing, Summing, Returned
  <2>2. Captured(c)'
    BY <1>0, <1>1 DEF CallInv, Captured
  <2>3. Sent(c)'
    <3>1. ASSUME NEW k \in 0..MaxLength, ~Pool!Fresh(Block(c, k))' PROVE k < Len(block[c])
      <4>1. ~Pool!Fresh(Block(c, k)) /\ Block(c, k) # b
        BY <1>5, <1>6, <3>1
      <4> QED BY <1>0, <4>1 DEF CallInv, Sent, b
    <3> QED BY <1>1, <3>1 DEF Sent
  <2> QED BY <2>1, <2>2, <2>3 DEF CallInv
<1> QED BY <1>2, <1>3, <1>4, <1>7, <1>8 DEF IInv

-----------------------------------------------------------------------------
(* The steps of the pool. *)

(* A nested call whose turn has come has not begun before. *)
LEMMA StartTaskStep == ASSUME IInv, StartTask PROVE IInv'
<1> DEFINE h == Head(queue)
<1>0. TypeOK /\ PoolOnce /\ QueuedCallsWait /\ \A c \in Callers : CallInv(c)
  BY DEF IInv
<1>1. /\ queue # <<>> /\ running' = running \cup {h} /\ queue' = Tail(queue)
      /\ UNCHANGED <<done, admitted, stopped>> /\ idle > 0 /\ idle' = idle - 1
      /\ pc' = [c \in Callers |-> IF Call(c) = h THEN "call" ELSE pc[c]]
      /\ UNCHANGED <<threads, length, i, blockStart, block, sum, late>>
  BY DEF StartTask, Pool!Start
<1>2. /\ queue \in Seq(AllTasks)
      /\ \A j, k \in DOMAIN queue : queue[j] = queue[k] => j = k
  BY <1>0 DEF TypeOK, PoolOnce
<1>3. /\ h \in AllTasks /\ InQueue(queue, h)
      /\ \A t : InQueue(queue', t) <=> InQueue(queue, t) /\ t # h
      /\ \A j, k \in DOMAIN queue' : queue'[j] = queue'[k] => j = k
  <2>1. /\ h \in AllTasks /\ InQueue(queue, h)
        /\ \A t : InQueue(Tail(queue), t) <=> InQueue(queue, t) /\ t # h
        /\ \A j, k \in DOMAIN Tail(queue) : Tail(queue)[j] = Tail(queue)[k] => j = k
    BY <1>1, <1>2, InQueueTail
  <2> QED BY <1>1, <2>1
<1>4. h \notin admitted \cup running \cup done
  BY <1>0, <1>3 DEF PoolOnce
<1> HIDE DEF h
<1>5. TypeOK'
  <2>1. queue' \in Seq(AllTasks)
    BY <1>1, <1>2
  <2>2. pc' \in [Callers -> {"queued", "call", "enqueue", "push", "sum"} \cup Ended]
    BY <1>0, <1>1 DEF TypeOK
  <2>3. running' \subseteq AllTasks /\ idle' \in Nat
    BY <1>0, <1>1, <1>3 DEF TypeOK
  <2> QED BY <1>0, <1>1, <2>1, <2>2, <2>3 DEF TypeOK
<1>6. PoolOnce'
  <2>1. ASSUME NEW t \in AllTasks
        PROVE  /\ t \in admitted' => ~InQueue(queue', t)
               /\ t \in admitted' \/ InQueue(queue', t) => t \notin running' \cup done'
               /\ t \in running' => t \notin done'
    BY <1>0, <1>1, <1>3, <1>4 DEF PoolOnce
  <2> QED BY <1>3, <2>1 DEF PoolOnce
<1>7. QueuedCallsWait'
  BY <1>0, <1>1, <1>3 DEF QueuedCallsWait
<1>8. \A t : Pool!Fresh(t)' <=> Pool!Fresh(t)
  <2>1. \A t : Pool!Fresh(t) <=> ~InQueue(queue, t) /\ t \notin admitted \cup running \cup done
    BY FreshIs
  <2>2. \A t : Pool!Fresh(t)' <=> ~InQueue(queue', t) /\ t \notin admitted' \cup running' \cup done'
    BY DEF Pool!Fresh, Pool!Queued, InQueue
  <2> QED BY <1>1, <1>3, <2>1, <2>2
<1>9. ASSUME NEW c \in Callers PROVE CallInv(c)'
  <2>1. CASE Call(c) # h
    <3>1. Same(c)
      BY <1>1, <2>1 DEF Same
    <3> QED BY <1>0, <1>1, <1>8, <3>1, CallFrame
  <2>2. CASE Call(c) = h
    <3>1. pc[c] = "queued" /\ pc'[c] = "call"
      BY <1>0, <1>1, <1>3, <2>2 DEF QueuedCallsWait
    <3>2. i[c] = 0 /\ blockStart[c] = 0 /\ block[c] = <<>> /\ sum[c] = Zero
      BY <1>0, <3>1 DEF CallInv, NotBegun
    <3>3. NotBegun(c)' /\ Enqueueing(c)' /\ Summing(c)' /\ Returned(c)'
      BY <1>1, <3>1, <3>2 DEF NotBegun, Enqueueing, Summing, Returned
    <3>4. Captured(c)'
      BY <1>0, <1>1 DEF CallInv, Captured
    <3>5. Sent(c)'
      <4>1. ASSUME NEW k \in 0..MaxLength, ~Pool!Fresh(Block(c, k))' PROVE k < Len(block[c])
        BY <1>0, <1>8, <3>1, <4>1 DEF CallInv, Sent
      <4> QED BY <1>1, <4>1 DEF Sent
    <3> QED BY <3>3, <3>4, <3>5 DEF CallInv
  <2> QED BY <2>1, <2>2
<1> QED BY <1>5, <1>6, <1>7, <1>9 DEF IInv

LEMMA FinishTaskStep == ASSUME IInv, FinishTask PROVE IInv'
<1>0. TypeOK /\ PoolOnce /\ QueuedCallsWait /\ \A c \in Callers : CallInv(c)
  BY DEF IInv
<1>1. PICK t \in running : Pool!Finish(t)
  BY DEF FinishTask
<1>2. /\ running' = running \ {t} /\ done' = done \cup {t}
      /\ UNCHANGED <<queue, admitted, stopped>> /\ idle' = idle + 1
      /\ UNCHANGED <<threads, length, pc, i, blockStart, block, sum, late>>
  BY <1>1 DEF FinishTask, Pool!Finish
<1>3. TypeOK'
  BY <1>0, <1>2 DEF TypeOK
<1>4. PoolOnce'
  <2>1. t \in AllTasks
    BY <1>0 DEF TypeOK
  <2>2. ASSUME NEW u \in AllTasks
        PROVE  /\ u \in admitted' => ~InQueue(queue', u)
               /\ u \in admitted' \/ InQueue(queue', u) => u \notin running' \cup done'
               /\ u \in running' => u \notin done'
    BY <1>0, <1>2, <2>1 DEF PoolOnce
  <2> QED BY <1>0, <1>2, <2>2 DEF PoolOnce
<1>5. QueuedCallsWait'
  BY <1>0, <1>2 DEF QueuedCallsWait
<1>6. \A u : Pool!Fresh(u) => Pool!Fresh(u)'
  BY <1>2 DEF Pool!Fresh, Pool!Queued
<1>7. ASSUME NEW c \in Callers PROVE CallInv(c)'
  <2>1. Same(c) /\ done \subseteq done'
    BY <1>2 DEF Same
  <2> QED BY <1>0, <1>6, <2>1, CallFrame
<1> QED BY <1>3, <1>4, <1>5, <1>7 DEF IInv

(* Nothing changes, or only how many threads wait and whether the pool is  *)
(* stopped.                                                                *)
LEMMA ThreadsStep ==
  ASSUME IInv, UNCHANGED <<admitted, queue, running, done>>,
         UNCHANGED <<threads, length, pc, i, blockStart, block, sum, late>>,
         idle' \in Nat, stopped' \in BOOLEAN
  PROVE  IInv'
<1>1. TypeOK'
  BY DEF IInv, TypeOK
<1>2. PoolOnce' /\ QueuedCallsWait'
  BY DEF IInv, PoolOnce, QueuedCallsWait, InQueue
<1>3. ASSUME NEW c \in Callers PROVE CallInv(c)'
  <2>1. CallInv(c) /\ Same(c) /\ done \subseteq done'
    BY DEF IInv, Same
  <2>2. \A u : Pool!Fresh(u) => Pool!Fresh(u)'
    BY DEF Pool!Fresh, Pool!Queued
  <2> QED BY <2>1, <2>2, CallFrame
<1> QED BY <1>1, <1>2, <1>3 DEF IInv

-----------------------------------------------------------------------------
(* Every nested call that is queued in the beginning is queued once: q is  *)
(* onto and has no more places than there are callers.                     *)
LEMMA CallersInOrder ==
  ASSUME NEW q \in [1..Cardinality(Callers) -> Callers],
         \A c \in Callers : \E k \in DOMAIN q : q[k] = c
  PROVE  /\ Cardinality(Callers) \in Nat
         /\ \A j, k \in DOMAIN q : q[j] = q[k] => j = k
<1> DEFINE n == Cardinality(Callers)
<1>1. n \in Nat
  BY FS_CardinalityType, AccumulateAssumption
<1>2. IsFiniteSet(1..n) /\ Cardinality(1..n) = n
  BY <1>1, FS_Interval
<1>3. q \in Surjection(1..n, Callers)
  BY DEF Surjection
<1>4. q \in Injection(1..n, Callers)
  BY <1>2, <1>3, FS_SurjSameCardinalityImpliesInj
<1> QED BY <1>1, <1>4 DEF Injection, IsInjective

LEMMA InitInvariant == Init => IInv
<1> SUFFICES ASSUME Init PROVE IInv
  OBVIOUS
<1>0. /\ i = [c \in Callers |-> 0] /\ blockStart = [c \in Callers |-> 0]
      /\ block = [c \in Callers |-> <<>>] /\ sum = [c \in Callers |-> Zero]
      /\ running = {} /\ done = {} /\ threads \in 1..MaxThreads
      /\ length \in [Callers -> 0..MaxLength]
      /\ late = {} /\ admitted = {} /\ stopped \in BOOLEAN /\ idle \in {0, threads}
  BY DEF Init, Zero
<1>1. /\ queue \in Seq(AllTasks)
      /\ pc \in [Callers -> {"queued", "call"}]
      /\ \A j, k \in DOMAIN queue : queue[j] = queue[k] => j = k
      /\ \A t : InQueue(queue, t) => \E c \in Callers : t = Call(c) /\ pc[c] = "queued"
  <2>1. CASE queue = <<>> /\ pc = [c \in Callers |-> "call"]
    BY <2>1 DEF InQueue
  <2>2. ASSUME NEW q \in [1..Cardinality(Callers) -> Callers],
               \A c \in Callers : \E k \in DOMAIN q : q[k] = c,
               NEW n \in DOMAIN q,
               queue = [k \in 1..n |-> Call(q[k])],
               pc = [c \in Callers |-> IF \E k \in 1..n : q[k] = c
                                         THEN "queued" ELSE "call"]
        PROVE  /\ queue \in Seq(AllTasks)
               /\ pc \in [Callers -> {"queued", "call"}]
               /\ \A j, k \in DOMAIN queue : queue[j] = queue[k] => j = k
               /\ \A t : InQueue(queue, t) => \E c \in Callers : t = Call(c) /\ pc[c] = "queued"
    <3>1. /\ Cardinality(Callers) \in Nat
          /\ \A j, k \in DOMAIN q : q[j] = q[k] => j = k
      BY <2>2, CallersInOrder
    <3>2. /\ n \in Nat /\ DOMAIN queue = 1..n /\ 1..n \subseteq DOMAIN q
          /\ \A k \in 1..n : queue[k] = Call(q[k]) /\ q[k] \in Callers
      BY <2>2, <3>1
    <3>3. queue \in Seq(AllTasks)
      BY <2>2, <3>2, TasksDiffer
    <3>4. ASSUME NEW j \in DOMAIN queue, NEW k \in DOMAIN queue, queue[j] = queue[k]
          PROVE  j = k
      BY <3>1, <3>2, <3>4, TasksDiffer
    <3>5. ASSUME NEW t, InQueue(queue, t)
          PROVE  \E c \in Callers : t = Call(c) /\ pc[c] = "queued"
      <4>1. PICK k \in 1..n : t = Call(q[k])
        BY <3>2, <3>5 DEF InQueue
      <4> QED BY <2>2, <3>2, <4>1
    <3>6. pc \in [Callers -> {"queued", "call"}]
      BY <2>2
    <3> QED BY <3>3, <3>4, <3>5, <3>6
  <2> QED BY <2>1, <2>2 DEF Init
<1>2. TypeOK
  <2>1. block \in [Callers -> Seq((0..MaxLength) \X (0..MaxLength))]
    BY <1>0
  <2>2. sum \in [Callers -> [Elements -> Nat]]
    BY <1>0 DEF Zero
  <2> QED BY <1>0, <1>1, <2>1, <2>2, AccumulateAssumption DEF TypeOK
<1>3. PoolOnce
  BY <1>0, <1>1 DEF PoolOnce
<1>4. QueuedCallsWait
  BY <1>1, TasksDiffer DEF QueuedCallsWait
<1>5. ASSUME NEW c \in Callers PROVE CallInv(c)
  <2>1. NotBegun(c)
    BY <1>0 DEF NotBegun
  <2>2. Enqueueing(c) /\ Summing(c) /\ Returned(c)
    BY <1>1 DEF Enqueueing, Summing, Returned
  <2>3. Captured(c)
    BY <1>0 DEF Captured
  <2>4. Sent(c)
    <3>1. ASSUME NEW k \in 0..MaxLength PROVE Pool!Fresh(Block(c, k))
      <4>1. ~InQueue(queue, Block(c, k))
        BY <1>1, TasksDiffer
      <4> QED BY <1>0, <4>1, FreshIs
    <3> QED BY <3>1 DEF Sent
  <2> QED BY <2>1, <2>2, <2>3, <2>4 DEF CallInv
<1> QED BY <1>2, <1>3, <1>4, <1>5 DEF IInv

LEMMA StepInvariant == IInv /\ [Next]_vars => IInv'
<1> SUFFICES ASSUME IInv, [Next]_vars PROVE IInv'
  OBVIOUS
<1>0. idle \in Nat /\ stopped \in BOOLEAN
  BY DEF IInv, TypeOK
<1>1. ASSUME NEW c \in Callers, CallerStep(c) PROVE IInv'
  BY <1>1, BeginStep, EnqueueCheckStep, EnqueuePushStep, EnqueueRefusedStep,
     EnqueueFailsStep, LastBlockStep, AddFutureStep, ReturnStep DEF CallerStep
<1>2. CASE LeavePool
  <2>1. idle' \in Nat
    BY <1>0, <1>2 DEF LeavePool, Pool!Leave
  <2> QED BY <1>0, <1>2, <2>1, ThreadsStep DEF LeavePool, Pool!Leave
<1>3. CASE PoolStep
  BY <1>2, <1>3, StartTaskStep, FinishTaskStep DEF PoolStep
<1>4. CASE ShutDown
  BY <1>0, <1>4, ThreadsStep DEF ShutDown, Pool!Stop
<1>5. CASE UNCHANGED vars
  BY <1>0, <1>5, ThreadsStep DEF vars, pool
<1> QED BY <1>1, <1>3, <1>4, <1>5 DEF Next, Over

(* The inductive invariant holds in every reachable state. *)
THEOREM Invariance == Spec => []IInv
<1>1. Init => IInv
  BY InitInvariant
<1>2. IInv /\ [Next]_vars => IInv'
  BY StepInvariant
<1> QED BY <1>1, <1>2, PTL DEF Spec

(* A call that returns has added each element of its range exactly once,   *)
(* for every length and every block size (parallel_accumulate.h:24-45).    *)
THEOREM SumsAreExact == Spec => []SumIsExact
<1>1. IInv => SumIsExact
  BY DEF IInv, CallInv, Returned, Exact, SumIsExact
<1> QED BY <1>1, Invariance, PTL

(* When a call has returned, no thread of the pool reads its range, nor    *)
(* will one: each block it has sent is done (parallel_accumulate.h:41-43). *)
THEOREM NoLateRead == Spec => []NoReadAfterReturn
<1>1. IInv => NoReadAfterReturn
  <2> SUFFICES ASSUME IInv, NEW c \in Callers, pc[c] = "returned", NEW k \in 0..MaxLength
               PROVE  Block(c, k) \notin running /\ ~InQueue(queue, Block(c, k))
    BY DEF NoReadAfterReturn, Pool!Queued, InQueue
  <2>1. Block(c, k) \in AllTasks
    BY TasksDiffer
  <2>2. CASE k < Len(block[c])
    <3>1. Block(c, k) \in done
      BY <2>2 DEF IInv, CallInv, Returned
    <3> QED BY <2>1, <3>1 DEF IInv, PoolOnce
  <2>3. CASE ~(k < Len(block[c]))
    <3>1. Pool!Fresh(Block(c, k))
      BY <2>3 DEF IInv, CallInv, Sent
    <3> QED BY <3>1, FreshIs
  <2> QED BY <2>2, <2>3
<1> QED BY <1>1, Invariance, PTL

=============================================================================
