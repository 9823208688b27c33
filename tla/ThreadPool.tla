----------------------------- MODULE ThreadPool -----------------------------
(***************************************************************************)
(* The thread pool of src/m5-mt-async: Monitor (a mutex and a              *)
(* condition_variable_any), the work queue, the stop source, the worker    *)
(* threads, and the callers of the constructor, Enqueue, Shutdown, the     *)
(* destructor and future::get.                                             *)
(*                                                                         *)
(* One step of the model is one access to state that another thread can    *)
(* see: acquiring or releasing the mutex, reading or setting the stop      *)
(* flag, a notification, a join.  What a thread does while it holds the    *)
(* mutex is one step unless it also reads the stop flag, which no mutex    *)
(* protects.                                                               *)
(***************************************************************************)
EXTENDS Naturals, Sequences, FiniteSets

CONSTANTS
  MaxWorkers,   \* bound: largest argument given to the constructor
  MaxSpurious,  \* bound: spurious wakeups of the condition variable
  Clients,      \* threads that call the pool
  Owner,        \* the client that constructs, shuts down and destroys it
  Tasks,        \* the callables handed to Enqueue
  NoThread,     \* owner of a free mutex
  NoTask        \* what a client or a worker that has no task holds

Workers == 1..MaxWorkers

ASSUME PoolAssumption ==
  /\ MaxWorkers \in Nat
  /\ MaxSpurious \in Nat
  /\ IsFiniteSet(Clients) /\ Owner \in Clients
  /\ Clients \cap Workers = {}
  /\ NoThread \notin Clients \cup Workers
  /\ NoTask \notin Tasks

VARIABLES
  size,      \* the constructor's argument
  spawned,   \* threads_.size(): workers 1..spawned exist
  joinable,  \* threads t of threads_ with t.joinable()
  stop,      \* stop_source_.stop_requested()
  mutex,     \* the thread that holds combined_.mutex_, or NoThread
  queue,     \* work_queue_, front first
  wpc,       \* where each worker is in WorkerThread
  wtask,     \* the task a worker moved out of the queue
  cpc,       \* where each client is in the call it makes
  ctask,     \* the task a client enqueues, or whose future it waits for
  held,      \* futures that Enqueue returned to a client, not yet taken
  fut,       \* the shared state of each task's future
  jidx,      \* index of the loop in JoinAllThreads
  leaving,   \* the owner's call ends with the pool's destruction
  late,      \* history: tasks that were pushed after the stop request
  spurious   \* history: spurious wakeups so far

poolVars   == <<size, spawned, joinable, stop>>
ownerVars  == <<jidx, leaving>>
clientVars == <<cpc, ctask, held>>
workerVars == <<wpc, wtask>>
vars == <<poolVars, mutex, queue, workerVars, clientVars, fut, ownerVars,
          late, spurious>>

WorkerPC == {"none", "lock", "wait", "waiting", "check", "run", "exited"}
ClientPC == {"ctor", "idle", "lock", "push", "unlock", "notify", "get",
             "wake", "join", "gone"}
FutState == {"none", "pending", "ready", "refused", "broken"}

Waiting   == {w \in Workers : wpc[w] = "waiting"}
Queued(t) == \E i \in DOMAIN queue : queue[i] = t

(* The pool object exists and may be called: it is constructed and nobody  *)
(* has begun to destroy it.  Keeping calls inside that lifetime is the     *)
(* callers' obligation for every C++ object.                               *)
Usable == cpc[Owner] \notin {"ctor", "gone"} /\ ~leaving

Init ==
  /\ size \in 0..MaxWorkers
  /\ spawned = 0
  /\ joinable = {}
  /\ stop = FALSE
  /\ mutex = NoThread
  /\ queue = <<>>
  /\ wpc = [w \in Workers |-> "none"]
  /\ wtask = [w \in Workers |-> NoTask]
  /\ cpc = [c \in Clients |-> IF c = Owner THEN "ctor" ELSE "idle"]
  /\ ctask = [c \in Clients |-> NoTask]
  /\ held = [c \in Clients |-> {}]
  /\ fut = [t \in Tasks |-> "none"]
  /\ jidx = 1
  /\ leaving = FALSE
  /\ late = {}
  /\ spurious = 0

-----------------------------------------------------------------------------
(* The constructor, thread_pool.cc:6-21.                                   *)

(* workers == 0: std::invalid_argument, no pool comes into being. *)
CtorReject ==
  /\ cpc[Owner] = "ctor"
  /\ size = 0
  /\ cpc' = [cpc EXCEPT ![Owner] = "gone"]
  /\ UNCHANGED <<poolVars, mutex, queue, workerVars, ctask, held, fut,
                 ownerVars, late, spurious>>

(* threads_.emplace_back starts the next worker, which runs at once. *)
CtorSpawn ==
  /\ cpc[Owner] = "ctor"
  /\ spawned < size
  /\ spawned' = spawned + 1
  /\ joinable' = joinable \cup {spawned + 1}
  /\ wpc' = [wpc EXCEPT ![spawned + 1] = "lock"]
  /\ cpc' = [cpc EXCEPT ![Owner] = IF spawned + 1 = size THEN "idle"
                                                         ELSE "ctor"]
  /\ UNCHANGED <<size, stop, mutex, queue, wtask, ctask, held, fut,
                 ownerVars, late, spurious>>

(* Mutant: the handler forgets request_stop. *)
CtorFailSilently ==
  /\ cpc[Owner] = "ctor"
  /\ spawned < size
  /\ leaving' = TRUE
  /\ cpc' = [cpc EXCEPT ![Owner] = "wake"]
  /\ UNCHANGED <<poolVars, mutex, queue, workerVars, ctask, held, fut, jidx,
                 late, spurious>>

(* emplace_back throws: stop what was started and rethrow.  Unwinding      *)
(* destroys threads_, and ~jthread joins each thread of it.                *)
CtorFail ==
  /\ cpc[Owner] = "ctor"
  /\ spawned < size
  /\ stop' = TRUE
  /\ leaving' = TRUE
  /\ cpc' = [cpc EXCEPT ![Owner] = "wake"]
  /\ UNCHANGED <<size, spawned, joinable, mutex, queue, workerVars, ctask,
                 held, fut, jidx, late, spurious>>

-----------------------------------------------------------------------------
(* Shutdown and the destructor, thread_pool.cc:23-36.                      *)

(* request_stop: the first request sets the flag and goes on to run the    *)
(* stop callbacks; a later one does nothing.                               *)
RequestStop(leave) ==
  /\ cpc[Owner] = "idle"
  /\ leaving' = leave
  /\ stop' = TRUE
  /\ cpc' = [cpc EXCEPT ![Owner] = IF stop THEN "join" ELSE "wake"]
  /\ jidx' = 1
  /\ UNCHANGED <<size, spawned, joinable, mutex, queue, workerVars, ctask,
                 held, fut, late, spurious>>

Shutdown == Usable /\ RequestStop(FALSE)

(* ~ThreadPool calls Shutdown; no other client is inside a call to the     *)
(* pool (a client that waits on a future is not).                          *)
Destroy ==
  /\ Usable
  /\ \A c \in Clients \ {Owner} : cpc[c] \in {"idle", "get"}
  /\ RequestStop(TRUE)

(* The stop callbacks that the waiting workers registered: notify_all.     *)
StopCallbacks ==
  /\ cpc[Owner] = "wake"
  /\ wpc' = [w \in Workers |-> IF w \in Waiting THEN "lock" ELSE wpc[w]]
  /\ cpc' = [cpc EXCEPT ![Owner] = "join"]
  /\ UNCHANGED <<poolVars, mutex, queue, wtask, ctask, held, fut, ownerVars,
                 late, spurious>>

(* Mutant: the threads are detached instead of joined. *)
DetachThread ==
  /\ cpc[Owner] = "join"
  /\ jidx <= spawned
  /\ joinable' = joinable \ {jidx}
  /\ jidx' = jidx + 1
  /\ UNCHANGED <<size, spawned, stop, mutex, queue, workerVars, clientVars,
                 fut, leaving, late, spurious>>

(* One turn of the loop in JoinAllThreads; join waits for the thread. *)
JoinThread ==
  /\ cpc[Owner] = "join"
  /\ jidx <= spawned
  /\ jidx \in joinable => wpc[jidx] = "exited"
  /\ joinable' = joinable \ {jidx}
  /\ jidx' = jidx + 1
  /\ UNCHANGED <<size, spawned, stop, mutex, queue, workerVars, clientVars,
                 fut, leaving, late, spurious>>

(* The loop ends: Shutdown returns. *)
ShutdownReturns ==
  /\ cpc[Owner] = "join"
  /\ jidx > spawned
  /\ ~leaving
  /\ cpc' = [cpc EXCEPT ![Owner] = "idle"]
  /\ UNCHANGED <<poolVars, mutex, queue, workerVars, ctask, held, fut,
                 ownerVars, late, spurious>>

(* The members are destroyed: a task still in work_queue_ goes with it and *)
(* its future holds std::future_error(broken_promise).                     *)
DestroyMembers ==
  /\ cpc[Owner] = "join"
  /\ jidx > spawned
  /\ leaving
  /\ cpc' = [cpc EXCEPT ![Owner] = "gone"]
  /\ fut' = [t \in Tasks |-> IF Queued(t) THEN "broken" ELSE fut[t]]
  /\ queue' = <<>>
  /\ UNCHANGED <<poolVars, mutex, workerVars, ctask, held, ownerVars, late,
                 spurious>>

-----------------------------------------------------------------------------
(* Enqueue, thread_pool.h:104-127, and future::get.                        *)

(* The check of the stop flag, made without the mutex. *)
EnqueueCheck(c, t) ==
  /\ Usable
  /\ cpc[c] = "idle"
  /\ fut[t] = "none"
  /\ \A d \in Clients : ctask[d] # t
  /\ IF stop
       THEN /\ fut' = [fut EXCEPT ![t] = "refused"]
            /\ UNCHANGED <<cpc, ctask>>
       ELSE /\ cpc' = [cpc EXCEPT ![c] = "lock"]
            /\ ctask' = [ctask EXCEPT ![c] = t]
            /\ UNCHANGED fut
  /\ UNCHANGED <<poolVars, mutex, queue, workerVars, held, ownerVars, late,
                 spurious>>

(* Mutant: Enqueue pushes without the lock. *)
EnqueueNoLock(c) ==
  /\ cpc[c] = "lock"
  /\ cpc' = [cpc EXCEPT ![c] = "push"]
  /\ UNCHANGED <<poolVars, mutex, queue, workerVars, ctask, held, fut,
                 ownerVars, late, spurious>>

EnqueueLock(c) ==
  /\ cpc[c] = "lock"
  /\ mutex = NoThread
  /\ mutex' = c
  /\ cpc' = [cpc EXCEPT ![c] = "push"]
  /\ UNCHANGED <<poolVars, queue, workerVars, ctask, held, fut, ownerVars,
                 late, spurious>>

EnqueuePush(c) ==
  /\ cpc[c] = "push"
  /\ queue' = Append(queue, ctask[c])
  /\ fut' = [fut EXCEPT ![ctask[c]] = "pending"]
  /\ late' = IF stop THEN late \cup {ctask[c]} ELSE late
  /\ cpc' = [cpc EXCEPT ![c] = "unlock"]
  /\ UNCHANGED <<poolVars, mutex, workerVars, ctask, held, ownerVars,
                 spurious>>

(* push throws std::bad_alloc: the queue is unchanged, and unwinding still *)
(* unlocks and notifies.                                                   *)
EnqueuePushFails(c) ==
  /\ cpc[c] = "push"
  /\ fut' = [fut EXCEPT ![ctask[c]] = "refused"]
  /\ cpc' = [cpc EXCEPT ![c] = "unlock"]
  /\ UNCHANGED <<poolVars, mutex, queue, workerVars, ctask, held, ownerVars,
                 late, spurious>>

(* UnlockAndNotify::unlock, first half. *)
EnqueueUnlock(c) ==
  /\ cpc[c] = "unlock"
  /\ mutex' = NoThread
  /\ cpc' = [cpc EXCEPT ![c] = "notify"]
  /\ UNCHANGED <<poolVars, queue, workerVars, ctask, held, fut, ownerVars,
                 late, spurious>>

(* Mutant: the notification is forgotten. *)
NotifyNobody == UNCHANGED wpc

(* notify_one wakes one waiting thread, if there is one. *)
NotifyOne ==
  \/ Waiting = {} /\ UNCHANGED wpc
  \/ \E w \in Waiting : wpc' = [wpc EXCEPT ![w] = "lock"]

(* UnlockAndNotify::unlock, second half; Enqueue returns or throws. *)
EnqueueNotify(c) ==
  /\ cpc[c] = "notify"
  /\ NotifyOne
  /\ cpc' = [cpc EXCEPT ![c] = "idle"]
  /\ ctask' = [ctask EXCEPT ![c] = NoTask]
  /\ held' = [held EXCEPT ![c] = IF fut[ctask[c]] = "refused"
                                   THEN @ ELSE @ \cup {ctask[c]}]
  /\ UNCHANGED <<poolVars, mutex, queue, wtask, fut, ownerVars, late,
                 spurious>>

(* future::get: a client that holds t's future starts to wait for it. *)
GetBegin(c, t) ==
  /\ cpc[c] = "idle"
  /\ t \in held[c]
  /\ cpc' = [cpc EXCEPT ![c] = "get"]
  /\ ctask' = [ctask EXCEPT ![c] = t]
  /\ held' = [held EXCEPT ![c] = @ \ {t}]
  /\ UNCHANGED <<poolVars, mutex, queue, workerVars, fut, ownerVars, late,
                 spurious>>

GetReturns(c) ==
  /\ cpc[c] = "get"
  /\ fut[ctask[c]] \in {"ready", "broken"}
  /\ cpc' = [cpc EXCEPT ![c] = "idle"]
  /\ ctask' = [ctask EXCEPT ![c] = NoTask]
  /\ UNCHANGED <<poolVars, mutex, queue, workerVars, held, fut, ownerVars,
                 late, spurious>>

-----------------------------------------------------------------------------
(* WorkerThread, thread_pool.cc:38-54.                                     *)

(* MakeLockWithWait locks the mutex; so does a wait that was woken. *)
WorkerLock(w) ==
  /\ wpc[w] = "lock"
  /\ mutex = NoThread
  /\ mutex' = w
  /\ wpc' = [wpc EXCEPT ![w] = "wait"]
  /\ UNCHANGED <<poolVars, queue, wtask, clientVars, fut, ownerVars, late,
                 spurious>>

(* condition_.wait(lock, stop, pred) returns when the queue has a task or  *)
(* stop was requested; otherwise it unlocks and blocks in one step.  The   *)
(* library makes its test of the token, the unlocking and the blocking     *)
(* atomic towards notify_one and the stop callback's notify_all.           *)
WorkerWait(w) ==
  /\ wpc[w] = "wait"
  /\ IF queue # <<>> \/ stop
       THEN /\ wpc' = [wpc EXCEPT ![w] = "check"]
            /\ UNCHANGED mutex
       ELSE /\ wpc' = [wpc EXCEPT ![w] = "waiting"]
            /\ mutex' = NoThread
  /\ UNCHANGED <<poolVars, queue, wtask, clientVars, fut, ownerVars, late,
                 spurious>>

(* Mutant: the predicate is not tested again after a wakeup. *)
WakeWithoutTest(w) ==
  /\ wpc[w] = "waiting"
  /\ mutex = NoThread
  /\ spurious < MaxSpurious
  /\ spurious' = spurious + 1
  /\ mutex' = w
  /\ wpc' = [wpc EXCEPT ![w] = "check"]
  /\ UNCHANGED <<poolVars, queue, wtask, clientVars, fut, ownerVars, late>>

SpuriousWakeup(w) ==
  /\ wpc[w] = "waiting"
  /\ spurious < MaxSpurious
  /\ spurious' = spurious + 1
  /\ wpc' = [wpc EXCEPT ![w] = "lock"]
  /\ UNCHANGED <<poolVars, mutex, queue, wtask, clientVars, fut, ownerVars,
                 late>>

(* Mutant: a stop request makes the worker return at once. *)
WorkerExitAtOnce(w) ==
  /\ wpc[w] = "check"
  /\ stop
  /\ wpc' = [wpc EXCEPT ![w] = "exited"]
  /\ mutex' = NoThread
  /\ UNCHANGED <<poolVars, queue, wtask, clientVars, fut, ownerVars, late,
                 spurious>>

(* Stopped and nothing left: the thread returns, releasing the mutex. *)
WorkerExit(w) ==
  /\ wpc[w] = "check"
  /\ stop /\ queue = <<>>
  /\ wpc' = [wpc EXCEPT ![w] = "exited"]
  /\ mutex' = NoThread
  /\ UNCHANGED <<poolVars, queue, wtask, clientVars, fut, ownerVars, late,
                 spurious>>

(* Mutant: the newest task is taken, not the oldest. *)
WorkerTakeBack(w) ==
  /\ wpc[w] = "check"
  /\ ~(stop /\ queue = <<>>)
  /\ wtask' = [wtask EXCEPT ![w] = queue[Len(queue)]]
  /\ queue' = SubSeq(queue, 1, Len(queue) - 1)
  /\ mutex' = NoThread
  /\ wpc' = [wpc EXCEPT ![w] = "run"]
  /\ UNCHANGED <<poolVars, clientVars, fut, ownerVars, late, spurious>>

(* The front of the queue is taken and the mutex released. *)
WorkerTake(w) ==
  /\ wpc[w] = "check"
  /\ ~(stop /\ queue = <<>>)
  /\ wtask' = [wtask EXCEPT ![w] = Head(queue)]
  /\ queue' = Tail(queue)
  /\ mutex' = NoThread
  /\ wpc' = [wpc EXCEPT ![w] = "run"]
  /\ UNCHANGED <<poolVars, clientVars, fut, ownerVars, late, spurious>>

(* task(): the inner packaged_task stores the value or the exception. *)
WorkerRun(w) ==
  /\ wpc[w] = "run"
  /\ fut' = [fut EXCEPT ![wtask[w]] = "ready"]
  /\ wtask' = [wtask EXCEPT ![w] = NoTask]
  /\ wpc' = [wpc EXCEPT ![w] = "lock"]
  /\ UNCHANGED <<poolVars, mutex, queue, clientVars, ownerVars, late,
                 spurious>>

-----------------------------------------------------------------------------
(* The program may end once the pool is gone and nobody waits. *)
Terminated ==
  /\ \A c \in Clients : cpc[c] \in {"idle", "gone"}
  /\ cpc[Owner] = "gone"
  /\ UNCHANGED vars

OwnerStep ==
  \/ CtorReject \/ CtorSpawn \/ CtorFail
  \/ Shutdown \/ Destroy
  \/ StopCallbacks \/ JoinThread \/ ShutdownReturns \/ DestroyMembers

(* The steps of a call in progress, which its thread has to go on with. *)
ClientStep(c) ==
  \/ EnqueueLock(c) \/ EnqueuePush(c) \/ EnqueuePushFails(c)
  \/ EnqueueUnlock(c) \/ EnqueueNotify(c)
  \/ GetReturns(c)

ClientCall(c) == \E t \in Tasks : EnqueueCheck(c, t) \/ GetBegin(c, t)

WorkerStep(w) ==
  \/ WorkerLock(w) \/ WorkerWait(w) \/ WorkerExit(w) \/ WorkerTake(w)
  \/ WorkerRun(w)

Next ==
  \/ OwnerStep
  \/ \E c \in Clients : ClientCall(c) \/ ClientStep(c)
  \/ \E w \in Workers : WorkerStep(w) \/ SpuriousWakeup(w)
  \/ Terminated

Spec == Init /\ [][Next]_vars

(* Every thread that can take its next step does so in the end: threads    *)
(* are scheduled, tasks terminate, the mutex is granted when it stays      *)
(* free.  Nobody is obliged to begin a call.                               *)
Fairness ==
  /\ WF_vars(CtorReject \/ CtorSpawn)
  /\ WF_vars(StopCallbacks \/ JoinThread \/ ShutdownReturns \/ DestroyMembers)
  /\ \A c \in Clients : WF_vars(ClientStep(c))
  /\ \A w \in Workers : WF_vars(WorkerStep(w))

LiveSpec == Spec /\ Fairness
-----------------------------------------------------------------------------
(* Properties.                                                             *)

TypeOK ==
  /\ size \in 0..MaxWorkers
  /\ spawned \in 0..size
  /\ joinable \in SUBSET (1..spawned)
  /\ stop \in BOOLEAN
  /\ mutex \in Workers \cup Clients \cup {NoThread}
  /\ queue \in Seq(Tasks)
  /\ wpc \in [Workers -> WorkerPC]
  /\ wtask \in [Workers -> Tasks \cup {NoTask}]
  /\ cpc \in [Clients -> ClientPC]
  /\ ctask \in [Clients -> Tasks \cup {NoTask}]
  /\ held \in [Clients -> SUBSET Tasks]
  /\ fut \in [Tasks -> FutState]
  /\ jidx \in 1..(MaxWorkers + 1)
  /\ leaving \in BOOLEAN
  /\ late \in SUBSET Tasks
  /\ spurious \in 0..MaxSpurious

(* A call that stops the pool has joined every thread. *)
Joined == stop /\ cpc[Owner] # "wake" /\ joinable = {}

(* Nobody pops an empty queue: a worker that leaves the wait with the      *)
(* mutex either finds a task or knows that it has to return, although the  *)
(* stop flag may change between the two tests (thread_pool.cc:43-49).      *)
FrontExists ==
  \A w \in Workers : wpc[w] = "check" => queue # <<>> \/ stop

(* No thread outlives the members it uses: when the pool is destroyed or   *)
(* its constructor has thrown, every started worker has returned           *)
(* (thread_pool.cc:17-23, 30-36).                                          *)
NoUseAfterDestroy ==
  cpc[Owner] = "gone" => \A w \in Workers : wpc[w] \in {"none", "exited"}

(* "Already enqueued tasks will be completed" (thread_pool.h:89), for any  *)
(* number of callers: a task that was in the queue before the stop request *)
(* is done when the stopping call has joined the threads.                  *)
EnqueuedBeforeStopDone ==
  Joined => \A t \in Tasks : fut[t] \in {"pending", "broken"} => t \in late

(* The caller that stops the pool finds every future it holds ready,       *)
(* whatever other callers do meanwhile: its own calls came before the stop *)
(* (the "single-threaded interface" of thread_pool.h:108).                 *)
OwnFuturesReady == Joined => \A t \in held[Owner] : fut[t] = "ready"

(* The same without the reservation: no future that Enqueue hands out is   *)
(* left without an answer by a shutdown.                                   *)
EveryFutureAnswered ==
  Joined => \A t \in Tasks : fut[t] \notin {"pending", "broken"}

(* No lost wakeup, counted: while a worker sleeps, every queued task has a *)
(* worker of its own on the way to take it, or a caller about to notify    *)
(* one (UnlockAndNotify::unlock notifies after it unlocks).                *)
WorkConserving ==
  Waiting # {} =>
    Len(queue) <= Cardinality({w \in Workers :
                                 wpc[w] \in {"lock", "wait", "check"}})
                  + Cardinality({c \in Clients :
                                 cpc[c] \in {"unlock", "notify"}})

(* Every call returns: the constructor, Enqueue, Shutdown, the destructor  *)
(* and get on a future of the pool, but for one of a task that was pushed  *)
(* after the stop request.  Under LiveSpec.                                *)
CallsReturn ==
  \A c \in Clients :
    cpc[c] \notin {"idle", "gone"} ~>
      cpc[c] \in {"idle", "gone"} \/ (cpc[c] = "get" /\ ctask[c] \in late)

(* The pool is a task executor: callers are admitted until the stop        *)
(* request, tasks start in the order they were pushed and run once, each   *)
(* by a thread of its own, and no thread returns before a stop request     *)
(* and an empty queue.                                                     *)
InEnqueue(c) == cpc[c] \in {"lock", "push"}
Idle == {w \in Workers : wpc[w] \notin {"none", "run", "exited"}}

Executor ==
  INSTANCE TaskExecutor WITH
    admitted <- {ctask[c] : c \in {d \in Clients : InEnqueue(d)}},
    running  <- {wtask[w] : w \in {v \in Workers : wpc[v] = "run"}},
    done     <- {t \in Tasks : fut[t] = "ready"},
    idle     <- Cardinality(Idle),
    stopped  <- stop

(* Every behaviour of the pool, with any number of callers, is one of the  *)
(* executor, progress included.                                            *)
ImplementsExecutor == Executor!Spec
-----------------------------------------------------------------------------
(* The inductive invariant of ThreadPoolProofs, in named parts.            *)

(* Only the thread in a critical section holds the mutex. *)
MutexHeld ==
  /\ \A w \in Workers : wpc[w] \in {"wait", "check"} => mutex = w
  /\ \A c \in Clients : cpc[c] \in {"push", "unlock"} => mutex = c

(* A thread has a task exactly when its place in the code says so. *)
TasksInHand ==
  /\ \A w \in Workers : wpc[w] = "run" <=> wtask[w] # NoTask
  /\ \A c \in Clients :
       cpc[c] \in {"lock", "push", "unlock", "notify", "get"}
         => ctask[c] # NoTask

(* Which threads exist, and how far the owner has come in joining them. *)
Lifecycle ==
  /\ \A c \in Clients :
       cpc[c] \in {"ctor", "wake", "join", "gone"} => c = Owner
  /\ \A w \in Workers : wpc[w] = "none" <=> w > spawned
  /\ \A w \in 1..spawned : w \notin joinable => wpc[w] = "exited"
  /\ cpc[Owner] \in {"ctor", "wake"} => jidx = 1
  /\ cpc[Owner] = "join" => \A w \in joinable : w >= jidx
  /\ cpc[Owner] = "gone" => joinable = {}

(* The stop flag is set before anything that relies on it. *)
Stopping ==
  /\ cpc[Owner] \in {"wake", "join"} \/ leaving => stop
  /\ cpc[Owner] = "ctor" => ~stop
  /\ leaving => cpc[Owner] \in {"wake", "join", "gone"}
  /\ \A w \in Workers : wpc[w] = "exited" => stop

(* A pool whose constructor did not start a thread was never called. *)
NeverStarted ==
  spawned = 0 =>
    /\ ~Usable
    /\ queue = <<>>
    /\ \A t \in Tasks : fut[t] = "none"
    /\ \A c \in Clients : held[c] = {}
    /\ \A c \in Clients \ {Owner} : cpc[c] = "idle"

(* An accepted task that is not done is in the queue or in a worker's      *)
(* hands; a worker leaves, and the pool is destroyed, only when nothing    *)
(* but late tasks remains.                                                 *)
Accounted ==
  /\ \A t \in Tasks :
       fut[t] = "pending" => Queued(t) \/ \E w \in Workers : wtask[w] = t
  /\ \A w \in Workers :
       wpc[w] = "exited" => \A t \in Tasks : Queued(t) => t \in late
  /\ \A t \in Tasks : fut[t] = "broken" => t \in late

IInv ==
  /\ TypeOK
  /\ MutexHeld
  /\ TasksInHand
  /\ FrontExists
  /\ Lifecycle
  /\ Stopping
  /\ NeverStarted
  /\ Accounted

(* The owner makes its calls one after the other, so that no Enqueue of    *)
(* its own is under way when it stops the pool, and no task of its own is  *)
(* late.                                                                   *)
OwnInTime ==
  /\ \A t \in late : fut[t] # "none"
  /\ stop => ~InEnqueue(Owner)
  /\ cpc[Owner] \in {"unlock", "notify"} =>
       fut[ctask[Owner]] # "none" /\ ctask[Owner] \notin late
  /\ \A t \in held[Owner] : fut[t] \notin {"none", "refused"} /\ t \notin late
=============================================================================
