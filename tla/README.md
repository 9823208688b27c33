# StudStuff: models, checks and proofs

This directory holds TLA+ specifications of the programs in this repository,
the TLC configurations that model-check them on small instances, and proofs
checked by TLAPS. The repository is a collection of C++ coursework projects; the
specifications follow the code of one commit, and every definition names its
lines in `PROJECT.json` ("map").

To run: `tlc -config Pool.cfg ThreadPool.tla` (and likewise for the
other runs listed below), `tlapm ThreadPoolProofs.tla` (and likewise for the other
modules named `...Proofs`).

## 1. Inventory

| Component | State it keeps | Operations | Interacts with | What is hard | What makes it correct |
|---|---|---|---|---|---|
| `m5-mt-async`: `ThreadPool` | stop source, `Monitor` (mutex, condition variable), `work_queue_`, `threads_` | constructor, `Enqueue`, `Shutdown`, destructor, `WorkerThread`, `future::get` | callers share the queue and the stop flag with the workers; futures carry results back | every interleaving of callers and workers, a stop flag read outside the mutex, notification after unlock, a thread that fails to start | no lost wakeup, no pop of an empty queue, accepted tasks are completed before a stop ends, no thread outlives the pool, every call returns |
| `m5-mt-async`: `ParallelAccumulate` | loop index, block bounds, futures | one call | tasks on the pool read the caller's range; a call may itself be a task of the pool | block arithmetic at its boundaries, `Enqueue` throwing halfway, several calls on one pool, nested calls that occupy every thread | the sum is exact, nothing reads outside the range or after the return, a call ends unless waiting calls have used up the pool or a stop request hit its own check and push |
| `m1-shared-ptr`: `SharedPtr`, `WeakPtr`, `CbBase` | use count, weak count, `is_destroying_`, pointers to block and object | construct, copy, move, swap, `Reset`, `Lock`, `Expired` | destroying an object runs its destructor, which works on smart pointers again | re-entrancy, cycles through weak pointers, a block that must outlive its object, pointers to base classes | counts exact, pointer and block of one object, each object destroyed once and when its last owner goes, each block freed when nobody uses it |
| `m7-dbms`: `PostgresUnitOfWork` and its factory | `conn_` (shared), `txn_`, repositories, `is_active_` | `Create`, `Begin`, `Commit`, `Rollback`, accessors, destructor | one connection for all units of a factory; Postgres session behind it | failure between any two steps, broken connections, commits whose answer is lost | an active unit is usable, no transaction is left behind, no dangling repository |
| `m7-dbms`: `GetUserTagsFromComments`, `CreateUserWithPost`, `main` | the response | `Execute` | unit of work; other runs of the program through the unique email | two clients with one email, crash or disconnect at any step, retry | user and post together or not at all, answers that tell the truth |
| `m6-network`: sender and receiver | messages to send, attempt count; calls in progress | `Send`, `SendData`, `SplitByLines` | unary gRPC calls with a deadline and a retry policy | late handling after a deadline, retry after a broken connection, receiver restarts | true means handled, duplicates and disorder only when a failure was seen, the sender ends |
| `m3`: red-black tree | nodes, `size_`, a static nil for all trees | `Insert`, `Erase`, `Remove`, `Clear`, the searches, iterators, copy, move, swap | other trees of the thread, through nil | rotations and fix-ups, shared nil | order, colours, black heights, lookups and iterators in key order |
| `m3`: chained hash table | `table_`, `size_`, `capacity_` | `Insert`, `Find`, `Remove`, `Rehash`, `GetStatistic` | - | an exception between two assignments, capacity zero, rounding | every key in the bucket where it is looked for, growth that catches up, a map |
| `m1-net-log-filtering-system` | filters, output buffer | `CreateFilter`, `ProcessStream` | feeds the sender of `m6-network` | prefix lengths 0 and 32, range borders, a failing output | filtering equals the definition of subnet and range, each line written once |
| `m7-dbms`: `PostgresTagRepo` | - | `GetTagsForAllUsers`, `ParseTags` | the first use case; text made by Postgres | users without tags, names that Postgres quotes | only stored users, each plain tag once |
| `m3`: student list; algorithm exercises; benchmarks. `m2-1`: calculator tests. SQL scripts, data generator, builds | - | - | - | - | - |

The hazards of the code, each at its line, are listed in `PROJECT.json`
("hazards") with the properties that would catch them.

## 2. Modules

| Module | Models | Runs |
|---|---|---|
| `TaskExecutor` | abstract: what the pool does for its callers | as a property of `pool`; as a component of `accumulate` |
| `ThreadPool` | `thread_pool.h`, `thread_pool.cc` | `pool`, `pool_racing_shutdown` |
| `ThreadPoolProofs` | proofs about `ThreadPool`, the refinement of `TaskExecutor` included | - |
| `ParallelAccumulate` | calls of `parallel_accumulate.h`, composed with `TaskExecutor` | `accumulate` |
| `ParallelAccumulateProofs` | proofs about `ParallelAccumulate` | - |
| `SharedPtr`, `MCSharedPtr` | `smart_shared_ptr.h`, `control_block.h` | `ptr`, `ptr_converted_lock`, `ptr_reentrant_reset` |
| `SharedPtrProofs` | proofs about `SharedPtr` | - |
| `UnitOfWork`, `MCUnitOfWork` | `PostgresUnitOfWork.*` over a Postgres session | `unit_calls` |
| `UnitOfWorkProofs` | proofs about `UnitOfWork` | - |
| `CreateUserWithPost`, `MCCreateUserWithPost` | `main.cc` and the two use cases, composed with `UnitOfWork` | `create_user` |
| `CreateUserWithPostProofs` | proofs about `CreateUserWithPost`, which cite those of `UnitOfWorkProofs` | - |
| `TagQuery` | the text of an array of tags and `ParseTags` | as a part of `create_user` |
| `Network` | `main` of the sender, which composes the next two | `network` |
| `GrpcTransfer` | `m6-network` | as a part of `network` |
| `LogFilter` | `m1-net-log-filtering-system` | as a part of `network` |
| `NetworkProofs` | proofs about `GrpcTransfer` and `LogFilter`: the log's way from the filter to the receiver | - |
| `RedBlackTree`, `MCRedBlackTree` | `red_black_tree.h` | `tree`, `tree_found_iterator` |
| `RedBlackTreeProofs` | proofs about `RedBlackTree`, the refinement of `KeySet` included | - |
| `KeySet` | abstract: the ordered set with iterators, beside a second one, that the trees are | as a property of `tree` |
| `HashTable`, `MCHashTable` | `hash_table.h` | `table` |
| `KeyMap` | abstract: the map that the hash table is | as a property of `table` |
| `HashTableProofs` | proofs about `HashTable`, the refinement of `KeyMap` included | - |

Operators that a comment introduces as a "Mutant" are not part of a model: each
is the wrong form of the definition that follows it, and substituting it makes
the property named in `PROJECT.json` ("mutants") fail, which shows that the
property depends on the code being right there.

### ThreadPool

State: `size` and `spawned` (the constructor's argument and how many threads it
has started), `joinable`, `stop` (the stop source), `mutex`, `queue`, a program
counter for every worker (`wpc`) and caller (`cpc`), the task each has in hand,
the state of each task's future (`fut`), the futures each caller holds. A step is
one access to state another thread can see. `Enqueue` is five steps: the check
of the stop flag without the mutex, locking, pushing, unlocking, and the
notification after the unlock. A worker locks, tests the predicate of
`MakeLockWithWait`, sleeps or goes on, re-tests stop and emptiness in
`WorkerThread`, takes the front and unlocks, runs the task. `RequestStop` sets
the flag; `StopCallbacks` is the stop callback with which
`condition_variable_any::wait` wakes every sleeper; `JoinThread` is the loop of
`JoinAllThreads`. The destructor and a constructor that fails halfway
(`CtorFail`) lead through the same steps with `leaving` set, and `DestroyMembers`
ends the object. A task is run to its end in one step, its result or exception
being one state of the future.

One client, `Owner`, constructs, shuts down and destroys; any number of others
call `Enqueue` and `get` in between. Concurrent calls of `Shutdown` make two
threads join one `std::jthread`, for which the language gives no outcome; they
are not modelled. Calls to a pool whose destruction has begun are excluded
(`Usable`).

`TaskExecutor` says the same without locks and condition variables: callers that
have passed the check and not pushed yet (`admitted`), a queue, tasks running,
tasks done, the number of idle threads, and whether stop was requested. It is
for any number of callers: what a caller pushes after the stop is queued for
whoever is still there, and for nobody when all threads have left.
`ImplementsExecutor` is the refinement, fairness included. A check and append
in one step would be right for one caller only.

### ParallelAccumulate

The loops of each call, statement by statement, over an instance of
`TaskExecutor` whose tasks are blocks and nested calls. Elements are positions
and a sum is the number of times each was added, so that the sum of any values
with any commutative addition is right when every count is one. Overflow of the
element type is not modelled. `Enqueue` is two steps, the check
(`EnqueueCheck`, or `EnqueueRefused` on a stopped pool) and the push
(`EnqueuePush`, or `EnqueueFails` for want of memory), and the pool may be shut
down between any two steps of a call, these two included.

A call either runs on a thread of its own or is nested: a task that somebody
enqueued, which keeps a pool thread until the call returns. Nothing in the code
excludes that, and then the call may wait for blocks that no thread is left to
run. `CallEnds` says when. A call ends unless the pool becomes `Exhausted` (none
of its threads is free, and each that has not left has a nested call that waits
for a block), and for that either of two things must have happened: there were
as many nested calls of more than one block as the pool has threads, or the call
itself pushed a block after the stop request (`late`), its check having come
before, which is the race of `pool_racing_shutdown`.

### SharedPtr

Objects are the `Node` of the repository's test with a shared `next` and a weak
`prev`, and scopes are objects or global blocks, with one handle of each kind.
One thread runs; what can interleave is re-entrancy, so the model has the stack
of unfinished `Reset` and `Release` calls: when a count reaches zero the
destructor's body begins ("body"), works on handles, then the members go
("members"), then the block is freed or left to its observers. `fault` records
the first undefined behaviour. `Reentrant` says how far a destructor reaches: its
own members only, or every handle (used by the run that shows the finding
below).

Handles have an element type, `Node` or a base class that does not start at the
address of the node (`BaseGlobals`), and `ptr` is the stored pointer beside the
block `sp`. A conversion adds the offset of the base; `Lock` starts again from
`data_ptr`, the address the block was made with, and so gives the wrong part of
an object when the `WeakPtr` was converted. `PointsAtObject` says that pointer and
block agree: that the address stored is the one that the element type has in the
object owned. `ptr_converted_lock`, where the program locks any `WeakPtr`
(`LockConverted`), violates it; `ptr` and the proofs have programs that lock a
`WeakPtr` only of the type the block was made with. `LifetimesExact` includes the
object whose block could not be allocated (`MakeFails`): it is destroyed. `MakeEmpty` is `SharedPtr(nullptr,
deleter)`, a block without an object. The specialisation for arrays repeats the
same constructors, assignments, `Reset` and `Swap` on the same base class and
control block and is not modelled again.

### UnitOfWork and CreateUserWithPost

`UnitOfWork` has, for every connection, what the client knows (`conn`: a
connection that is "cut" still says `is_open()`), the server's session, its
uncommitted rows (`writes`), and the committed rows; and for every unit the flag
`is_active_`, whether `txn_` exists, and which repositories do. `Begin` may stop
after it opened the transaction, the case its catch block handles. `Abort` is
what `txn_->abort()` and the destructor of `txn_` do. `Commit` may throw with the
server having received the COMMIT or not; a received one is decided later by
`ServerCommits` or `ServerDrops`. What libpqxx and Postgres do is marked external
in the map: one transaction per connection, aborts by the destructor, a failed
statement ends the server's transaction, a dead client's session is dropped. A
COMMIT of a transaction the server has already failed is modelled as throwing
and leaving nothing; the use cases never issue one.
`Comments()` has no repository behind it, because `Begin` never makes one, and
always throws.

`CreateUserWithPost` composes it with the two use cases as `main.cc` calls them,
one step per call of the unit. Each run of the program has its own connection,
starts at any time, may die or lose its connection at any time. A retry or a
restart is another run that starts later. The `INSERT ... ON CONFLICT (email) DO NOTHING`
waits while another session holds an undecided row for the email, returns
nothing when one is committed, and inserts otherwise. A row may be inserted and
the making of the entity still fail (the schema allows 255 characters, `User` and
`Post` 250), and making the response may fail after the commit. Rows are named
by the run that inserted them; ids are never reused.

Beside the users that runs insert there are `Guests`, with tags that their
comments lead to. `told` is the list of users a run's first use case answers
with; what it says of their tags is `Report`, which follows the names into the
text of a Postgres array (`ArrayText`, external) and out of it again
(`ParseTags`). `TagsReported` speaks of names that Postgres does not quote, and of
users who have tags: what the code prints for the others is not what it should be
(section 5), and no property takes it for right.

### GrpcTransfer and Network

The loop of the sender's `main`, one `Send` after the other, each with attempts
under the retry policy; attempts in flight and the receiver's handling of them;
broken connections, a receiver that dies and restarts. Nothing withdraws an
attempt: after the deadline the receiver may still handle it. `SplitByLines` is
an operator on line numbers.

`Network` is `main` of the sender: the log goes through the filter (`LogFilter`), and
when exactly `Lines` lines have passed, `Split` cuts them into the chunks that
`GrpcTransfer` sends. Logs that leave another number of lines end there.

### RedBlackTree

A node is named by its key, because no operation copies a key from one node to
another and keys are unique; `tree` has the root and the four fields of every
node and of the sentinel, and a node that is deleted or not yet made has
`Dangling` in its pointers, so that a use of it shows. One iteration of
`InsertFixup`, `RemoveFixup` or the loop of `Remove(key)` is one step, which lets
the invariants speak of the middle of a fix-up; a search is an operator. The
second half of each fix-up mirrors the first in the code, case for case, and so
do the rotations: the model has the side as a parameter. The client keeps one
iterator while keys come and go, replaces it by those that calls return, steps
it and erases with it.

The client also parks a second tree (`other`): it swaps the two, moves one into
the other, and copies the first over itself. Both share the static sentinel, and
`OtherTree` is what a removal in yet another tree of the same thread leaves in
the sentinel's parent field. As the client has no key in both trees, a copy is
seen as one that replaces its original (the old nodes dangle, iterators to them
are lost).

An iterator is a pair `node_`, `nil_`. `Find` makes one with the constructor that
takes a single pointer, so that its `nil_` is the node found: it can be read and
erased with, but `++` leaves it where it is.

`KeySet` is what the tree is for: a set of keys, each call with its effect on the
set, and what the lookups and the steps of an iterator answer. `ImplementsKeySet`
is two things: every step of the tree is one of `KeySet` or leaves it as it is; and
between two calls the searches return what `First`, `Find`, `LowerBound` and
`UpperBound` of the set do, and `++` and `--` lead from an iterator at a key
to `After` and `Before`, if its `nil_` is the sentinel. `IteratorsStep` is the same of every
iterator, as documented, and fails for those of `Find` (`tree_found_iterator`).
`KeySet` leaves open what an insertion of a key that is there returns and how many
elements the key then has (`InsertAgain`: the keys there are stay the same), for
the documented multiset is compiled out. `MCRedBlackTree` bounds the trees (below).

### HashTable

One action is one call, or a call that ends in an exception: `InsertFails` before
anything is stored, `InsertGrowthFails` when `Rehash` throws after the entry was
appended and counted, `RehashFails`. A bucket is the set of its entries, because
nothing depends on their order. Hashes are a constant function. A table made with
capacity 0 has no bucket to look in (`hash % 0`), so that until its first `Rehash`
the client may not pass it a key (`Usable`). `KeyMap` is the map with the answer
of the last call; a call that throws may have stored its own key and touches no
other.

### LogFilter

`AddFilter` and `Refuse` are the turns of `CreateFilter`'s loop, with what a
configuration can be: bad, of an unknown type, a subnet whose prefix is out of
range, a range that is empty, one filter too many. `ReadLine` is a turn of
`Process`, `FlushBuffer` writes a batch, of which a stream that fails takes only
the first lines; streams throw nothing by default, so that the rest is dropped
with the buffer and nobody is told. An address is the set of its bits that are
one, of `Width`, so that `&` is the intersection, a shift moves the bits, and the
order is decided by the highest bit that differs. Masks are computed as the code
does, with the shift by the whole width kept apart; `FilterMeaning` compares
what they match with the addresses whose first bits agree. What parsing makes of
a text is an address or none.

## 3. Runs

| Run | Shows | Bounds |
|---|---|---|
| `pool` | the inductive invariant `IInv`, `FrontExists`, `NoUseAfterDestroy`, `EnqueuedBeforeStopDone`, `WorkConserving`, `OwnFuturesReady`, `CallsReturn` (liveness), `ImplementsExecutor` | 0-3 workers, 2 callers, 2 tasks, 1 spurious wakeup |
| `pool_racing_shutdown` | violation of `EveryFutureAnswered` with two callers (finding) | 1 worker, 2 callers, 1 task |
| `accumulate` | `SumIsExact`, `NoReadAfterReturn`, `CallEnds` (liveness) | 2 calls, 1-3 threads, blocks of 3, up to 10 elements together |
| `ptr` | `CountsExact`, `LifetimesExact`, `PointsAtObject`, `NoFault`, `NoResurrection` | 2 objects with 2 global scopes, or 3 objects while one global scope is empty; one global is of the base class |
| `ptr_converted_lock` | violation of `PointsAtObject` by locking a converted `WeakPtr` (finding) | 1 object, 2 global scopes, one of the base class |
| `ptr_reentrant_reset` | violation of `NoFault` by a destructor that reaches the handle being reset (finding) | 1 object, 2 global scopes |
| `unit_calls` | `ActiveIsUsable`, `TransactionOwned` under calls in any order | 3 units, 2 connections, 2 rows |
| `create_user` | `AtomicPair`, `EmailUnique`, `AnswersTrue`, `TagsReported`, `ErrorBeforeCommit`, `NoTransactionLeak`, `EveryRunEnds` (liveness) | 2 runs of the program, 1 email, guests with every set of 5 tags |
| `network` | `FilterMeaning`, `OutputExact`, `SuccessMeansHandled`, `DuplicatesNeedBreaks`, `DisorderIsReported`, `AllTrueMeansComplete`, `SenderEnds` (liveness) | addresses of 4 bits, configurations with 4 of them, 2 filters, batches of 2, logs of up to 4 lines; the log of which 4 pass is sent in chunks of 3 with 4 attempts and 4 breaks |
| `tree` | `SearchTree`, `RedBlack`, `FixupClimbs`, `ImplementsKeySet` (safety) | 10 keys, of which 7 come and go in any order; an iterator in trees of the first 5; the second tree has up to 4 |
| `tree_found_iterator` | violation of `IteratorsStep` by an iterator that `Find` made (finding) | 3 keys |
| `table` | `Layout`, `LoadBounded`, `GrowthCatchesUp`, `ImplementsKeyMap` (safety) | 4 keys of which 2 have the same hash, 2 values, capacities 0, 1, 3, 5 |

The type invariant of each module is a part of one of these: of `IInv`,
`SumIsExact`, `CountsExact`, `TransactionOwned`, `NoTransactionLeak`,
`SuccessMeansHandled`, `SearchTree`, `FilterMeaning` and `Layout`.

Why the bounds are enough. In the pool two sleeping workers and a third thread
that notifies or stops are enough for each known way to lose a wakeup; two
tasks are one that is done in time and one that is late; the safety results
that matter do not depend on the bounds because they are proved (section 4).
`MaxSpurious` only bounds the number of wakeups without cause: one changes the
order of tests in each place where it may happen. In `accumulate` blocks of 3
and lengths to 10 meet every remainder and up to four blocks (the code's block
size is 25, a constant that appears nowhere but in the arithmetic modelled); two
calls are enough for one to take the threads the other needs, nested or not.
Counters of `SharedPtr` are modulo `CountMod`, far above the handles there are,
and `CountsExact` shows that they never come near it; a third object makes a
chain of destructors, a second global handle a conversion that outlives the
handle it was made from. Two runs of the
program are enough for one to wait for the other, to find its email, or to be
its retry after a lost answer; three runs with two emails were checked as well
while the module was written (3.9 million states, too long for a regular run).
In `tree` seven keys in any order meet every case of both fix-ups, but no fix-up
of a removal goes up more than one level: that takes a tree all black on three
levels, and the keys eight to ten, which are added and taken off in order, lead
there. In `table` the capacities meet growth by doubling and by the load factor,
and two equal hashes stay together in every capacity. In `network` four bits leave
room for prefixes at both ends and in between, four lines make two batches or one
and a rest, and one full chunk and a short one, and four breaks let one `Send` use
up all its attempts or two of them share the breaks.

Where a run checks deadlock (all of them), the states in which the program has
ended are given a step that changes nothing (`Terminated`, `Over`, `Ended`); every
other state must have a successor. In `SharedPtr` the program may always start
another call.

Fairness. Pool: weak fairness for each thread's own steps (threads are
scheduled, tasks end, a mutex that stays free is granted; the number of tasks
and of spurious wakeups is finite, so that weak fairness is enough for it).
Nobody has to begin a call, and the constructor need not fail. `accumulate`:
each caller's thread runs, and the pool's threads take tasks and end them, a
nested call when it has returned, which is the fairness `ImplementsExecutor`
shows the pool to have for tasks that end. `create_user`: the program's next step happens unless it waits for the
server; the server ends sessions of dead clients and decides what it has
received; no failure is ever forced except that a broken connection is noticed in
the end. `network`: once the log is cut into chunks, only the sender's own steps, because its deadline is a local
timer. `RedBlackTree` has no fairness: that a fix-up ends is the action property
`FixupClimbs`, because each further iteration is nearer to the root.

## 4. Proofs

Every theorem holds for all values of the constants that satisfy the assumption
of its module (`PoolAssumption`, `AccumulateAssumption`, `PtrAssumption`,
`UnitAssumption`, `RunAssumption`, `TransferAssumption`, `TableAssumption`,
`FilterAssumption`, `KeyAssumption`): any number of threads, callers, tasks, handles, units, runs
of the program, messages, attempts, keys, bits, filters and lines. The assumptions say that numbers are natural numbers, that
names (`Null`, `NoTask`, ...) are distinct from what they stand beside, that
callers and handles are finite where they are counted, and that a user has finitely
many tags, named without the characters (quotes, backslashes, braces) whose
escaping by Postgres is not modelled. A further hypothesis is in the table.

| Module | Theorem | States |
|---|---|---|
| `ThreadPoolProofs` | `TypeCorrect`, `Invariance` | `Spec => []TypeOK`, `Spec => []IInv` |
| | `PopIsSafe` | `[]FrontExists` |
| | `ThreadsEndFirst` | `[]NoUseAfterDestroy` |
| | `GracefulShutdown` | `[]EnqueuedBeforeStopDone` |
| | `OwnersFutures` | `[]OwnFuturesReady` |
| | `NoLostWakeup` | `[]WorkConserving` |
| | `EachTaskOnce` | `[]TasksApart`: no task is queued twice or run by two workers |
| | `PoolIsExecutor` | `Executor!SafeSpec`: the pool implements `TaskExecutor` but for fairness |
| `ParallelAccumulateProofs` | `Invariance` | `[]IInv` |
| | `SumsAreExact` | `[]SumIsExact` |
| | `NoLateRead` | `[]NoReadAfterReturn` |
| `SharedPtrProofs` (all if `~Reentrant`) | `Invariance` | `[]IInv` |
| | `CountsAreExact` | `[]CountsExact` |
| | `LifetimesAreExact` | `[]LifetimesExact` |
| | `PointersAreRight` | `[]PointsAtObject`, if also `~LockConverted` |
| | `NeverFaults` | `[]NoFault` |
| | `NothingRevives` | `NoResurrection` |
| `UnitOfWorkProofs` | `UnitUsable` | `[]ActiveIsUsable` |
| | `TransactionsOwned` | `[]TransactionOwned` |
| `CreateUserWithPostProofs` | `Invariance` | `[]IInv` |
| | `PairsAreAtomic` | `[]AtomicPair` |
| | `EmailsAreUnique` | `[]EmailUnique` |
| | `AnswersAreTrue` | `[]AnswersTrue` |
| | `ErrorsLeaveNothing` | `[]ErrorBeforeCommit` |
| | `ConnectionsAreFreed` | `[]NoTransactionLeak` |
| | `TagsAreReported` | `[]TagsReported` |
| `NetworkProofs` | `Invariance` | `[]IInv` |
| | `SuccessIsTrue` | `[]SuccessMeansHandled` |
| | `DuplicatesAreRetries` | `[]DuplicatesNeedBreaks` |
| | `DisorderHasReasons` | `[]DisorderIsReported` |
| | `NothingLostOrRepeated` | without a break, true for all means each message once, in order |
| | `AllTrueIsComplete` | `[]AllTrueMeansComplete`: the receiver has printed the lines that were sent |
| | `FilterInvariance` | `FSpec => []FilterInv` |
| | `FiltersMean` | `[]FilterMeaning` |
| | `OutputIsExact` | `[]OutputExact` |
| `HashTableProofs` | `Invariance` | `[]IInv` |
| | `TableLaidOut` | `[]Layout` |
| | `LoadFits` | `[]LoadBounded` |
| | `GrowthIsEnough` | `GrowthCatchesUp` |
| | `TableIsKeyMap` | `ImplementsKeyMap` |
| `RedBlackTreeProofs` | `Invariance`, `TypeCorrect` | `[]IInv`, `[]TypeOK` |
| | `AlwaysSearchTree` | `[]SearchTree` |
| | `AlwaysRedBlack` | `[]RedBlack` |
| | `TreeIsKeySet` | `ImplementsKeySet` |
| | `FixupsClimb` | `FixupClimbs` |

The arguments, by the inductive invariant of each.

*ThreadPool.* What callers care about, `EnqueuedBeforeStopDone`, says nothing of
how a task gets done, so it is not inductive. `IInv` adds where an accepted task
is (`Accounted`: in the queue or in a worker's hands, and a worker leaves only when
nothing but late tasks is queued), who may change the queue (`MutexHeld`), what
a thread holds at each place (`TasksInHand`), which threads exist and how far
the joins have come (`Lifecycle`), when stop is set (`Stopping`), and that a pool
without threads was never called (`NeverStarted`). `FrontExists` is part of it
because a worker's re-test relies on the queue not shrinking while it has the
mutex. Each part has a lemma with one step per action. For the owner's own
tasks the reservation about late tasks is empty: the thread that stops the pool
has no `Enqueue` of its own under way, so that what it pushes is never late
(`OwnInTime`), and every future it holds becomes ready whoever else calls
(`OwnersFutures`). That is the argument of the comment at `thread_pool.h:108`, and
`pool_racing_shutdown` shows that other callers do not have it. `WorkConserving` is carried by `Conserved`, which drops the reservation
about who holds the mutex: while a worker waits, the queue is no longer than the
workers awake and the notifications under way together. A push adds one of each,
a notification that wakes a worker trades one for the other, and a worker that
goes to sleep has seen an empty queue. `TasksApart` (a task is with one caller,
once in the queue, or with one worker, and its future says which) is what the
refinement needs beside `IInv`, for any number of callers: a task that starts was
queued once and is not done yet. Each step of the pool is then a step of `TaskExecutor` or
leaves it as it is.

*ParallelAccumulate.* A sum is exact at the end because it is known at every turn
(`Partly`: the blocks before the one the second loop is at, and the caller's own
rest), the blocks' bounds being those the first loop computed (`Captured`), and
because the pool has each block once (`PoolOnce`) and only those the call has sent
(`Sent`). The arithmetic is that of `NumBlocks` and `Bound`, for any block size.

*SharedPtr.* `Counts` says that a counter is the number of handles that hold the
block, those aside that a `Reset` has released and not cleared yet. Everything
else is there for that reservation: `CallsOK` says that a call of `Reset` that
waits was made on a member by the body of that object's destructor, or from the
bottom of the stack on a handle that keeps its object alive, so that nobody else
works on the handle meanwhile, that each object being destroyed has one frame,
and that a frame of `Release` goes with `is_destroying_`. `HandlesOK` says that
memory without an object holds nothing, `LivesOK` gives the states of object and
block by the counters, `PointsOK` and `MadeOK` say which part of which object
pointers and blocks stand for. One lemma, `ReleaseStep`, follows a call of
`Release`; one, `AssignStep`, is shared by everything that gives a handle a new
block. The hypothesis `~Reentrant` (a destructor works on its own members) is
needed: `ptr_reentrant_reset` refutes `NoFault` without it. So is `~LockConverted`
(a `WeakPtr` is locked at the type the block was made with) for `PointersAreRight`:
`ptr_converted_lock` refutes it without.

*UnitOfWork.* The two properties need one another and are inductive together.
Every operation has its lemma, and `CreateUserWithPostProofs`, whose runs call the
same operations in an order of their own, cites those lemmas for its own steps.

*CreateUserWithPost.* The server commits what a session has written, so the
invariant says what that is, by how far the run has come (`WritesKnown`): nothing
before the first insert, both rows when the COMMIT is sent, whatever the
connection does in between; hence committed rows come in pairs (`Stored`). An
email is claimed by a row that is committed or may be (`OneClaim`), which the
wait of the insert keeps unique although the decision of a commit may come after
its client has gone. `Spoken` links the answers to both. A step belongs to one run:
`RunStep` shows what it does to that run, `Together` that the others do not mind.

`TagsAreReported` has two halves. That only stored users are told of is an
invariant of its own (`ToldAreStored`). That their tags arrive is a fact about
`ParseTags(ArrayText(tags))`, for any finite set of names: the `Segments` of a text
are what follows its commas; one more element leaves those that were there
(`SegmentsKept`) and adds itself, and nothing else, if it has no comma
(`LastSegment`). An element that has one adds pieces, but takes none away, which is
why plain names are reported whatever stands beside them. Where no name needs
quotes nothing is added; of a user without tags nothing is claimed (section 5).

*GrpcTransfer.* A message has been printed, or still may be, no more often than it
was attempted (`Counted`), and a call that waits has made one attempt more than
its connection broke (`Sending`); with `InOrder`, by which nothing is known of a
message before its turn, each of the properties follows.

`AllTrueIsComplete` is about lines, so it needs what `SplitByLines` does for a log of
any length: after i lines, the chunks one after the other and then the unfinished
chunk are the lines 1 to i (`SplitKeepsLines`). Its loop and the joining of the chunks
are recursive functions of the libraries; that such functions exist and are followed
step by step is proved too (`TurnsExist`, `JoinsExist`), by an induction over numbers
that the provers can use: of a set of numbers with 0 and the successor of each of its
members it follows, from the well-foundedness of inclusion among finite sets, that it
holds them all (`UpTo`). The same induction serves the tags.

*HashTable.* Once every entry is in the bucket of its hash, the set of entries
says all there is to say. Each call, also one that throws halfway, is first shown
to change that set as it should, whatever it does with the buckets; layout, size
and the map of `KeyMap` follow from the set. That growth is enough comes from one
lemma about rounding, `CapacityFits`.

*LogFilter.* Every filter is `Faithful` to the configuration it was made from:
`MaskIs` says that a mask is the first bits, for a prefix of 0 as well, and the
rest is about sets of bits. The output is exact because what is written comes
before what is buffered and both are all that was wanted so far as long as the
stream is good (`Output`); a flush that stops halfway has taken the first lines,
and after it nothing more is taken.

*RedBlackTree.* Both trees are walked by recursive functions in the model
(`Subtree`, `BlackHeight`, `FromRoot`), and the induction theorems of
the library cannot be used. The proofs do without: a claim about a tree is made with a witness, a function
from nodes to what it says of each (`Shape`: the nodes below; `Heights`: the black
height), that needs only agree with itself at each node and its children. A
rotation, a splice or a new leaf changes the witness at one or two nodes, and the
lemma about it gives the new one. Two facts tie this to the recursive functions:
such a witness is unique, so that it is the function (`SubtreeIs`, `HeightIs`), and
whatever passes from all children of a node to the node holds of every node
(`TreeInduction`, from the well-foundedness of inclusion among finite sets: a node
that fails with the fewest nodes below it has no child that fails).

The invariant `IInv` then has five parts. `Sound` is `SearchTree` and `RedBlack` in
terms of witnesses, for the middle of a fix-up too: `MayBeRed` are the nodes that
may be red below a red parent, `Short` is the node whose subtree lacks a black.
`AtNode` says where the fix-up is; a removal's may be at the sentinel, whose parent
field is then a child's only link upwards, which is why it must point at the parent
(`red_black_tree.h:493`) whatever the other tree has left there. It also says that
the root is red at most while a fix-up is at it, which `RedBlack` says only of calls
that have returned. `InCall` keeps the range of `Remove(key)`, found before the
first erasure, true until the loop is done, and what `Erase` will return the
successor of what it took. `AtCursor` keeps the client's iterator at a node, at
the end or lost, and `Counted` the sizes. The lemmas come in layers: the fields
after each operation of the code on any tree; what these do to the shape, to the
heights, and to reds below reds; one lemma for each action, which gives both the
invariant and the step of `KeySet`. `Answers` is about states between two calls, and follows
from `IInv` alone (`InvariantAnswers`): a search walks down a search tree
(`LookupsAnswer`), and a step of an iterator goes to the neighbour in the order of
the keys (`NeighboursAnswer`). `FixupClimbs` needs, beside `IInv`, only that a
node has more nodes above it than its parent.

Only model-checked, and why:

* Liveness (`CallsReturn`, `CallEnds`, `EveryRunEnds`, `SenderEnds`) and the fairness
  in `ImplementsExecutor`: out of the prover's reach.

Every invariant that a run expects to hold is stated by a theorem.

## 5. Findings

* **A task can be lost when `Enqueue` races `Shutdown`** (`pool_racing_shutdown`).
  The stop flag is read at `thread_pool.h:109` before the mutex is taken. If
  another thread's `Shutdown` runs in between, the workers leave and the task
  is pushed onto a queue nobody serves; its future never becomes ready, although
  `README.md` of the module promises lock-based thread safety. The comment at
  line 108 limits the claim to a single-threaded interface; for the thread that
  stops the pool `OwnersFutures` proves it. `ParallelAccumulate` inherits it: a
  call that has pushed such a block waits for ever (`late` in `CallEnds`).
* **`Reset` releases before it clears the handle** (`ptr_reentrant_reset`,
  `smart_shared_ptr.h:149-152`): a destructor that reaches the handle can copy
  it and revive an object that is being destroyed, which is then destroyed
  twice. Assignment and `Reset(ptr)` swap first and do not have the problem.
* **`Lock` on a converted `WeakPtr` may give the wrong address**
  (`ptr_converted_lock`, `smart_shared_ptr.h:975`): it casts the address the block
  was made with, without the offset of the base class, although line 968 promises
  a pointer to the object. For a base at the start of the object, as in the
  tests, the offset is 0.
* **An iterator from `Find` does not step** (`tree_found_iterator`,
  `red_black_tree.h:124` and `:804`): its `nil_` is the node found, so that `++` and
  `--` stay there for ever, although `README.md:69` promises bidirectional
  iterators and a `static_assert` of the tests demands one.

Noted without a run. No property takes any of these for right; where a property
is about the same code, the case is left out of what it claims.

* `README.md:68` of `m3` promises duplicate keys ("multiset behavior"), and
  `Insert` returns `end()` for a key that is there (the code for duplicates is
  compiled out at `red_black_tree.h:329` and its tests are disabled). `KeySet` leaves
  the answer open.
* A user without tags is reported with one tag, NULL, because `ARRAY_AGG` over
  the outer joins gives an array with a null and never a null array: main's
  "(none)" (`main.cc:67-68`) is never printed for want of tags. Names with
  spaces, such as the generator's "Machine Learning", keep the quotes of the
  array text, and names with commas are cut (`PostgresTagRepo.cc:49-55`).
  `TagsReported` claims neither.
* When an allocation fails in `CopyRecursive`, its handler calls
  `ClearRecursive` on a node whose children are still null pointers instead of
  the sentinel (`red_black_tree.h:762-783`): the use of a null pointer.
* `--` from `end()` stays at `end()`, where a bidirectional iterator would go to
  the last element. `KeySet` leaves a step from `end()` open.
* Nested calls of `ParallelAccumulate` with more than one block wait for ever
  once they occupy every thread of the pool (`Exhausted`). A call whose `Enqueue`
  throws (stopped pool, no memory) leaves blocks in the pool that go on reading
  the caller's range after the call has ended.
* A `HashTable` made with capacity 0 divides by zero at the first lookup;
  that the client makes none is a condition of the model (`Usable`).
* `Comments()` always says that the unit is not started.
* `CreateUserWithPost` calls the factory outside its try block, so that a closed
  connection ends the program instead of giving an error response
  (`GetUserTagsFromComments` calls it inside).
* The sender ends with status 0 when messages were lost.
* The comment "ceil" at `hash_table.h:123` describes a conversion that rounds
  down; the one added to the size makes up for it (`LoadBounded`). A hash table
  that was moved from keeps its size and capacity without buckets.

## 6. Not modelled, and the plan

Out of scope: formatting, logging, environment variables, parsing of numbers,
benchmarks, the data generator, SQL scripts and the calculator exercise: no state
of their own. The student list is one pass over a file that stops at the first
bad line. Data races on the counters of `SharedPtr`: nothing in the repository
shares one between threads. Trees used by two threads at once, which would share
the static sentinel: nothing in the repository does so. Two threads in `Shutdown` at once: undefined.
Running out of memory while a tree is copied: always undefined. Moves of
`PostgresUnitOfWork` and of `HashTable`: nothing makes one. The specialisation
of `SharedPtr` for arrays: the same control flow as the one for objects.
