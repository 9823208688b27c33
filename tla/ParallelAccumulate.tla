------------------------- MODULE ParallelAccumulate -------------------------
(***************************************************************************)
(* ParallelAccumulate of src/m5-mt-async: a caller splits a range into     *)
(* blocks, enqueues all but the last on the pool, adds the last one itself *)
(* and then the results of the futures.  The pool is TaskExecutor, which   *)
(* ThreadPool implements for any number of callers.  A caller runs on a    *)
(* thread of its own, or it is nested: a task of the same pool, which      *)
(* keeps a pool thread busy until it returns.                              *)
(*                                                                         *)
(* Elements of a range are 0..length-1 and a sum is the number of times    *)
(* that it holds each of them.                                             *)
(***************************************************************************)
EXTENDS Naturals, Sequences, FiniteSets

CONSTANTS
  Callers,    \* calls of ParallelAccumulate
  MaxThreads, \* bound: threads of the pool
  BlockSize,  \* block_size, 25 in the code
  MaxLength   \* bound: elements of all ranges together

ASSUME AccumulateAssumption ==
  /\ IsFiniteSet(Callers)
  /\ MaxThreads \in Nat
  /\ BlockSize \in Nat \ {0}
  /\ MaxLength \in Nat

Elements == 0..(MaxLength - 1)

(* A task is a nested call or a block of a call, the blocks being numbered *)
(* from 0.                                                                 *)
Call(c)     == <<c, 0>>
Block(c, k) == <<c, k + 1>>
AllTasks    == Callers \X (0..(MaxLength + 1))

VARIABLES
  threads,     \* threads of the pool
  length,      \* std::distance(first, last) of each call
  pc,          \* "queued", "call", "enqueue", "push", "sum", "returned", "threw"
  i,           \* index of the two loops
  blockStart,  \* block_start, as an offset from first
  block,       \* the bounds captured by the i-th lambda
  sum,         \* result and last_result together
  late,        \* history: calls that pushed a block after the stop request
  admitted, queue, running, done, idle, stopped   \* the pool

pool == <<admitted, queue, running, done, idle, stopped>>
vars == <<threads, length, pc, i, blockStart, block, sum, late, pool>>

Pool == INSTANCE TaskExecutor WITH Tasks <- AllTasks

Ended == {"returned", "threw"}
Nested(c) == ~Pool!Fresh(Call(c))

(* Mutant: the division does not round up. *)
NumBlocksDown(c) == length[c] \div BlockSize

NumBlocks(c) == (length[c] + BlockSize - 1) \div BlockSize

(* Mutant: a block includes its end. *)
AddBlockClosed(s, first, last) ==
  [e \in Elements |-> IF first <= e /\ e <= last THEN s[e] + 1 ELSE s[e]]

(* accumulate_block: every element of [first, last) once. *)
AddBlock(s, first, last) ==
  [e \in Elements |-> IF first <= e /\ e < last THEN s[e] + 1 ELSE s[e]]

(* The pool is running or has been shut down.  A nested call is a task     *)
(* that somebody enqueued on it; the others begin by themselves.           *)
Init ==
  /\ threads \in 1..MaxThreads
  /\ length \in {l \in [Callers -> 0..MaxLength] :
                   \A c \in Callers : \A d \in Callers \ {c} : l[c] + l[d] <= MaxLength}
  /\ i = [c \in Callers |-> 0]
  /\ blockStart = [c \in Callers |-> 0]
  /\ block = [c \in Callers |-> <<>>]
  /\ sum = [c \in Callers |-> [e \in Elements |-> 0]]
  /\ late = {} /\ admitted = {} /\ running = {} /\ done = {}
  /\ stopped \in BOOLEAN
  /\ idle = IF stopped THEN 0 ELSE threads
  /\ \/ /\ queue = <<>>
        /\ pc = [c \in Callers |-> "call"]
     \/ /\ ~stopped
        /\ \E q \in [1..Cardinality(Callers) -> Callers] :
             /\ \A c \in Callers : \E k \in DOMAIN q : q[k] = c
             /\ \E n \in DOMAIN q :
                  /\ queue = [k \in 1..n |-> Call(q[k])]
                  /\ pc = [c \in Callers |-> IF \E k \in 1..n : q[k] = c
                                               THEN "queued" ELSE "call"]

-----------------------------------------------------------------------------
(* A call: an empty range returns init, anything else is split; there may  *)
(* be no memory for the futures.                                           *)
Begin(c) ==
  /\ pc[c] = "call"
  /\ \E next \in IF length[c] = 0 THEN {"returned"} ELSE {"enqueue", "threw"} :
       pc' = [pc EXCEPT ![c] = next]
  /\ UNCHANGED <<threads, length, i, blockStart, block, sum, late, pool>>

(* Enqueue is two steps of the caller, since another thread may stop the   *)
(* pool between them: the check ...                                        *)
EnqueueCheck(c) ==
  /\ pc[c] = "enqueue"
  /\ i[c] < NumBlocks(c) - 1
  /\ Pool!Admit(Block(c, i[c]))
  /\ pc' = [pc EXCEPT ![c] = "push"]
  /\ UNCHANGED <<threads, length, i, blockStart, block, sum, late>>

(* ... and the push.                                                       *)
EnqueuePush(c) ==
  /\ pc[c] = "push"
  /\ Pool!Push(Block(c, i[c]))
  /\ late' = IF stopped THEN late \cup {c} ELSE late
  /\ block' = [block EXCEPT ![c] =
                 Append(@, <<blockStart[c], blockStart[c] + BlockSize>>)]
  /\ blockStart' = [blockStart EXCEPT ![c] = @ + BlockSize]
  /\ i' = [i EXCEPT ![c] = @ + 1]
  /\ pc' = [pc EXCEPT ![c] = "enqueue"]
  /\ UNCHANGED <<threads, length, sum>>

(* Enqueue throws, on a stopped pool or for want of memory: the call ends  *)
(* and leaves behind the blocks already enqueued.                          *)
EnqueueRefused(c) ==
  /\ pc[c] = "enqueue"
  /\ i[c] < NumBlocks(c) - 1
  /\ stopped
  /\ pc' = [pc EXCEPT ![c] = "threw"]
  /\ UNCHANGED <<threads, length, i, blockStart, block, sum, late, pool>>

EnqueueFails(c) ==
  /\ pc[c] = "push"
  /\ Pool!Drop(Block(c, i[c]))
  /\ pc' = [pc EXCEPT ![c] = "threw"]
  /\ UNCHANGED <<threads, length, i, blockStart, block, sum, late>>

(* The caller's own block goes up to the end of the range. *)
LastBlock(c) ==
  /\ pc[c] = "enqueue"
  /\ i[c] = NumBlocks(c) - 1
  /\ sum' = [sum EXCEPT ![c] = AddBlock(@, blockStart[c], length[c])]
  /\ pc' = [pc EXCEPT ![c] = "sum"]
  /\ i' = [i EXCEPT ![c] = 0]
  /\ UNCHANGED <<threads, length, blockStart, block, late, pool>>

(* Mutant: a result is added without waiting for it. *)
AddWithoutWaiting(c) ==
  /\ pc[c] = "sum"
  /\ i[c] < NumBlocks(c) - 1
  /\ sum' = [sum EXCEPT ![c] = AddBlock(@, block[c][i[c] + 1][1], block[c][i[c] + 1][2])]
  /\ i' = [i EXCEPT ![c] = @ + 1]
  /\ UNCHANGED <<threads, length, pc, blockStart, block, late, pool>>

(* result += futures[i].get() waits for the i-th block; a nested call      *)
(* waits with the thread it occupies.                                      *)
AddFuture(c) ==
  /\ pc[c] = "sum"
  /\ i[c] < NumBlocks(c) - 1
  /\ Block(c, i[c]) \in done
  /\ sum' = [sum EXCEPT ![c] = AddBlock(@, block[c][i[c] + 1][1], block[c][i[c] + 1][2])]
  /\ i' = [i EXCEPT ![c] = @ + 1]
  /\ UNCHANGED <<threads, length, pc, blockStart, block, late, pool>>

Return(c) ==
  /\ pc[c] = "sum"
  /\ i[c] = NumBlocks(c) - 1
  /\ pc' = [pc EXCEPT ![c] = "returned"]
  /\ UNCHANGED <<threads, length, i, blockStart, block, sum, late, pool>>

CallerStep(c) ==
  \/ Begin(c) \/ EnqueueCheck(c) \/ EnqueuePush(c) \/ EnqueueRefused(c)
  \/ EnqueueFails(c) \/ LastBlock(c) \/ AddFuture(c) \/ Return(c)

-----------------------------------------------------------------------------
(* A free thread takes the first task; a nested call begins when its turn  *)
(* has come, and its task ends with it.                                    *)
StartTask ==
  /\ Pool!Start
  /\ pc' = [c \in Callers |-> IF Call(c) = Head(queue) THEN "call" ELSE pc[c]]
  /\ UNCHANGED <<threads, length, i, blockStart, block, sum, late>>

FinishTask ==
  /\ \E t \in running :
       /\ t[2] = 0 => pc[t[1]] \in Ended
       /\ Pool!Finish(t)
  /\ UNCHANGED <<threads, length, pc, i, blockStart, block, sum, late>>

LeavePool ==
  /\ Pool!Leave
  /\ UNCHANGED <<threads, length, pc, i, blockStart, block, sum, late>>

PoolStep == StartTask \/ FinishTask \/ LeavePool

(* The owner shuts the pool down while calls are in progress. *)
ShutDown ==
  /\ Pool!Stop
  /\ UNCHANGED <<threads, length, pc, i, blockStart, block, sum, late>>

(* No thread of the pool is free, and each is taken by a call that waits   *)
(* for one of its blocks.                                                  *)
Waiting(c) == pc[c] = "sum" /\ i[c] < NumBlocks(c) - 1 /\ Block(c, i[c]) \notin done
Exhausted == idle = 0 /\ \A t \in running : t[2] = 0 /\ Waiting(t[1])

Over ==
  /\ \A c \in Callers : pc[c] \in Ended \/ (Exhausted /\ (Waiting(c) \/ pc[c] = "queued"))
  /\ ~ENABLED PoolStep
  /\ UNCHANGED vars

Next == (\E c \in Callers : CallerStep(c)) \/ PoolStep \/ ShutDown \/ Over

(* Each caller's thread runs, and a free thread of the pool takes a task   *)
(* and ends it.                                                            *)
Spec == /\ Init /\ [][Next]_vars
        /\ \A c \in Callers : WF_vars(CallerStep(c))
        /\ WF_vars(PoolStep)

-----------------------------------------------------------------------------
TypeOK ==
  /\ threads \in 1..MaxThreads
  /\ length \in [Callers -> 0..MaxLength]
  /\ pc \in [Callers -> {"queued", "call", "enqueue", "push", "sum"} \cup Ended]
  /\ i \in [Callers -> 0..MaxLength]
  /\ blockStart \in [Callers -> 0..MaxLength]
  /\ block \in [Callers -> Seq((0..MaxLength) \X (0..MaxLength))]
  /\ sum \in [Callers -> [Elements -> Nat]]
  /\ late \subseteq Callers
  /\ queue \in Seq(AllTasks)
  /\ admitted \subseteq AllTasks /\ running \subseteq AllTasks /\ done \subseteq AllTasks
  /\ idle \in Nat
  /\ stopped \in BOOLEAN

(* Types, and a call that returns has added each element of its range      *)
(* exactly once, for every length: a multiple of the block size, one more, *)
(* one less, a single block, none; and whatever other calls share the pool *)
(* (parallel_accumulate.h:24-45).                                          *)
SumIsExact ==
  /\ TypeOK
  /\ \A c \in Callers : pc[c] = "returned" =>
       sum[c] = [e \in Elements |-> IF e < length[c] THEN 1 ELSE 0]

(* A pool thread never reads a range after the call has returned, when the *)
(* caller may destroy it; only a call that throws breaks this.             *)
NoReadAfterReturn ==
  \A c \in Callers : pc[c] = "returned" =>
    \A k \in 0..MaxLength : Block(c, k) \notin running /\ ~Pool!Queued(Block(c, k))

(* Every call ends, begun or still queued, on a stopped pool too.  What it *)
(* takes to hold one up for good is a pool with no thread for its blocks   *)
(* (line 42 waits): either all threads wait inside nested calls, as many   *)
(* of them of more than one block as the pool has threads - with one       *)
(* thread to spare it cannot happen -, or the stop request came while the  *)
(* call itself was between the check and the push of thread_pool.h:109-122 *)
(* (ThreadPool's EveryFutureAnswered), and nobody else's call suffers.     *)
Spare ==
  Cardinality({c \in Callers : length[c] > BlockSize /\ Nested(c)}) < threads

CallEnds ==
  \A c \in Callers :
    pc[c] \in {"queued", "call"} ~>
      pc[c] \in Ended \/ (Exhausted /\ (~Spare \/ c \in late))
=============================================================================
