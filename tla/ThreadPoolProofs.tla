-------------------------- MODULE ThreadPoolProofs --------------------------
(***************************************************************************)
(* Proofs about ThreadPool, for every number of workers, clients, tasks    *)
(* and spurious wakeups.  The parts of IInv are shown to be preserved one  *)
(* after the other; each proof has one step per action that can disturb    *)
(* the part, and one for the actions that cannot.                          *)
(***************************************************************************)
EXTENDS ThreadPool, FiniteSetTheorems, TLAPS

(* Appending, and taking the front, move tasks as a queue should. *)
LEMMA QueuedAfterAppend ==
  ASSUME NEW t \in Tasks, queue \in Seq(Tasks), NEW u \in Tasks,
         queue' = Append(queue, u)
  PROVE  Queued(t)' <=> Queued(t) \/ t = u
<1>1. /\ Len(queue') = Len(queue) + 1
      /\ Len(queue) \in Nat
      /\ DOMAIN queue = 1..Len(queue)
      /\ DOMAIN queue' = 1..(Len(queue) + 1)
      /\ \A i \in 1..Len(queue) : queue'[i] = queue[i]
      /\ queue'[Len(queue) + 1] = u
  OBVIOUS
<1> QED BY <1>1 DEF Queued

LEMMA QueuedAfterTail ==
  ASSUME NEW t \in Tasks, queue \in Seq(Tasks), queue # <<>>,
         queue' = Tail(queue)
  PROVE  /\ Queued(t) => Queued(t)' \/ t = Head(queue)
         /\ Queued(t)' => Queued(t)
<1>1. /\ Len(queue) \in Nat \ {0}
      /\ DOMAIN queue = 1..Len(queue)
      /\ DOMAIN queue' = 1..(Len(queue) - 1)
      /\ \A i \in 1..(Len(queue) - 1) : queue'[i] = queue[i + 1]
      /\ Head(queue) = queue[1]
  OBVIOUS
<1>2. ASSUME Queued(t), t # Head(queue)  PROVE Queued(t)'
  <2>1. PICK i \in 1..Len(queue) : queue[i] = t
    BY <1>1, <1>2 DEF Queued
  <2>2. i # 1
    BY <1>1, <1>2, <2>1
  <2>3. i - 1 \in DOMAIN queue' /\ queue'[i - 1] = t
    BY <1>1, <2>1, <2>2
  <2> QED BY <2>3 DEF Queued
<1>3. ASSUME Queued(t)'  PROVE Queued(t)
  <2>1. PICK i \in DOMAIN queue' : queue'[i] = t
    BY <1>3 DEF Queued
  <2>2. i + 1 \in DOMAIN queue /\ queue[i + 1] = t
    BY <1>1, <2>1
  <2> QED BY <2>2 DEF Queued
<1> QED BY <1>2, <1>3

-----------------------------------------------------------------------------
LEMMA InitInvariant == Init => IInv
<1> SUFFICES ASSUME Init PROVE IInv
  OBVIOUS
<1> USE PoolAssumption DEF PoolAssumption, Init, Workers
<1>1. TypeOK
  <2>1. /\ size \in 0..MaxWorkers /\ spawned \in 0..size
        /\ joinable \in SUBSET (1..spawned)
        /\ jidx \in 1..(MaxWorkers + 1) /\ spurious \in 0..MaxSpurious
    OBVIOUS
  <2>2. wpc \in [Workers -> WorkerPC] /\ wtask \in [Workers -> Tasks \cup {NoTask}]
    BY DEF WorkerPC
  <2>3. cpc \in [Clients -> ClientPC] /\ ctask \in [Clients -> Tasks \cup {NoTask}]
    BY DEF ClientPC
  <2>4. held \in [Clients -> SUBSET Tasks] /\ fut \in [Tasks -> FutState]
    BY DEF FutState
  <2>5. /\ stop \in BOOLEAN /\ leaving \in BOOLEAN
        /\ mutex \in Workers \cup Clients \cup {NoThread}
        /\ late \in SUBSET Tasks
    OBVIOUS
  <2>6. queue \in Seq(Tasks)
    OBVIOUS
  <2> QED BY <2>1, <2>2, <2>3, <2>4, <2>5, <2>6 DEF TypeOK
<1>2. MutexHeld /\ TasksInHand /\ FrontExists /\ Stopping /\ Lifecycle
  BY DEF MutexHeld, TasksInHand, FrontExists, Stopping, Lifecycle
<1>3. NeverStarted /\ Accounted
  BY DEF NeverStarted, Accounted, Usable
<1> QED BY <1>1, <1>2, <1>3 DEF IInv

(* Type correctness; it rests on IInv where the code dereferences. *)
LEMMA TypeStep == IInv /\ [Next]_vars => TypeOK'
<1> SUFFICES ASSUME IInv, [Next]_vars PROVE TypeOK'
  OBVIOUS
<1> USE PoolAssumption DEF PoolAssumption
<1> USE DEF IInv, TypeOK, Workers, WorkerPC, ClientPC, FutState, poolVars,
            ownerVars, clientVars, workerVars
<1>1. CASE CtorReject
  BY <1>1 DEF CtorReject
<1>2. CASE CtorSpawn
  <2>1. spawned + 1 \in Workers /\ spawned' \in 0..size'
    BY <1>2 DEF CtorSpawn
  <2>2. joinable' \in SUBSET (1..spawned')
    BY <1>2 DEF CtorSpawn
  <2>3. wpc' \in [Workers -> WorkerPC] /\ cpc' \in [Clients -> ClientPC]
    BY <1>2, <2>1 DEF CtorSpawn
  <2> QED BY <1>2, <2>1, <2>2, <2>3 DEF CtorSpawn
<1>3. CASE CtorFail
  BY <1>3 DEF CtorFail
<1>4. CASE Shutdown
  <2>1. RequestStop(FALSE)
    BY <1>4 DEF Shutdown
  <2>2. leaving' \in BOOLEAN /\ stop' \in BOOLEAN /\ jidx' = 1
    BY <2>1 DEF RequestStop
  <2>3. cpc' \in [Clients -> ClientPC]
    BY <2>1 DEF RequestStop
  <2> QED BY <2>1, <2>2, <2>3 DEF RequestStop
<1>5. CASE Destroy
  BY <1>5 DEF Destroy, RequestStop
<1>6. CASE StopCallbacks
  BY <1>6 DEF StopCallbacks
<1>7. CASE JoinThread
  BY <1>7 DEF JoinThread
<1>8. CASE ShutdownReturns
  BY <1>8 DEF ShutdownReturns
<1>9. CASE DestroyMembers
  BY <1>9 DEF DestroyMembers
<1>10. ASSUME NEW c \in Clients, NEW t \in Tasks, EnqueueCheck(c, t)
       PROVE TypeOK'
  BY <1>10 DEF EnqueueCheck
<1>11. ASSUME NEW c \in Clients, NEW t \in Tasks, GetBegin(c, t)
       PROVE TypeOK'
  BY <1>11 DEF GetBegin
<1>12. ASSUME NEW c \in Clients, EnqueueLock(c)  PROVE TypeOK'
  BY <1>12 DEF EnqueueLock
<1>13. ASSUME NEW c \in Clients, EnqueuePush(c)  PROVE TypeOK'
  <2>1. ctask[c] \in Tasks
    BY <1>13 DEF EnqueuePush, TasksInHand
  <2> QED BY <1>13, <2>1 DEF EnqueuePush
<1>14. ASSUME NEW c \in Clients, EnqueuePushFails(c)  PROVE TypeOK'
  BY <1>14 DEF EnqueuePushFails
<1>15. ASSUME NEW c \in Clients, EnqueueUnlock(c)  PROVE TypeOK'
  BY <1>15 DEF EnqueueUnlock
<1>16. ASSUME NEW c \in Clients, EnqueueNotify(c)  PROVE TypeOK'
  <2>1. ctask[c] \in Tasks
    BY <1>16 DEF EnqueueNotify, TasksInHand
  <2>2. wpc' \in [Workers -> WorkerPC]
    BY <1>16 DEF EnqueueNotify, NotifyOne, Waiting
  <2> QED BY <1>16, <2>1, <2>2 DEF EnqueueNotify
<1>17. ASSUME NEW c \in Clients, GetReturns(c)  PROVE TypeOK'
  BY <1>17 DEF GetReturns
<1>18. ASSUME NEW w \in Workers, WorkerLock(w)  PROVE TypeOK'
  BY <1>18 DEF WorkerLock
<1>19. ASSUME NEW w \in Workers, WorkerWait(w)  PROVE TypeOK'
  BY <1>19 DEF WorkerWait
<1>20. ASSUME NEW w \in Workers, WorkerExit(w)  PROVE TypeOK'
  BY <1>20 DEF WorkerExit
<1>21. ASSUME NEW w \in Workers, WorkerTake(w)  PROVE TypeOK'
  <2>1. queue # <<>>
    BY <1>21 DEF WorkerTake, FrontExists
  <2> QED BY <1>21, <2>1 DEF WorkerTake
<1>22. ASSUME NEW w \in Workers, WorkerRun(w)  PROVE TypeOK'
  BY <1>22 DEF WorkerRun
<1>23. ASSUME NEW w \in Workers, SpuriousWakeup(w)  PROVE TypeOK'
  BY <1>23 DEF SpuriousWakeup
<1>24. CASE Terminated \/ UNCHANGED vars
  BY <1>24 DEF Terminated, vars
<1> QED
  BY <1>1, <1>2, <1>3, <1>4, <1>5, <1>6, <1>7, <1>8, <1>9, <1>10, <1>11,
     <1>12, <1>13, <1>14, <1>15, <1>16, <1>17, <1>18, <1>19, <1>20, <1>21,
     <1>22, <1>23, <1>24
     DEF Next, OwnerStep, ClientCall, ClientStep, WorkerStep
(* A thread enters a critical section only with the free mutex. *)
LEMMA MutexStep == IInv /\ [Next]_vars => MutexHeld'
<1> SUFFICES ASSUME IInv, [Next]_vars PROVE MutexHeld'
  OBVIOUS
<1> USE PoolAssumption DEF PoolAssumption
<1> USE DEF IInv, TypeOK, Workers, poolVars, ownerVars, clientVars,
            workerVars, MutexHeld
<1>1. CASE CtorReject
  BY <1>1 DEF CtorReject
<1>2. CASE CtorSpawn
  BY <1>2 DEF CtorSpawn
<1>3. CASE CtorFail
  BY <1>3 DEF CtorFail
<1>4. CASE Shutdown
  BY <1>4 DEF Shutdown, RequestStop
<1>5. CASE Destroy
  BY <1>5 DEF Destroy, RequestStop
<1>6. CASE StopCallbacks
  BY <1>6 DEF StopCallbacks, Waiting
<1>7. CASE JoinThread
  BY <1>7 DEF JoinThread
<1>8. CASE ShutdownReturns
  BY <1>8 DEF ShutdownReturns
<1>9. CASE DestroyMembers
  BY <1>9 DEF DestroyMembers
<1>10. ASSUME NEW c \in Clients, NEW t \in Tasks, EnqueueCheck(c, t)
      PROVE MutexHeld'
  BY <1>10 DEF EnqueueCheck
<1>11. ASSUME NEW c \in Clients, NEW t \in Tasks, GetBegin(c, t)
      PROVE MutexHeld'
  BY <1>11 DEF GetBegin
<1>12. ASSUME NEW c \in Clients, EnqueueLock(c)  PROVE MutexHeld'
  BY <1>12 DEF EnqueueLock
<1>13. ASSUME NEW c \in Clients, EnqueuePush(c)  PROVE MutexHeld'
  BY <1>13 DEF EnqueuePush
<1>14. ASSUME NEW c \in Clients, EnqueuePushFails(c)  PROVE MutexHeld'
  BY <1>14 DEF EnqueuePushFails
<1>15. ASSUME NEW c \in Clients, EnqueueUnlock(c)  PROVE MutexHeld'
  BY <1>15 DEF EnqueueUnlock
<1>16. ASSUME NEW c \in Clients, EnqueueNotify(c)  PROVE MutexHeld'
  BY <1>16 DEF EnqueueNotify, NotifyOne, Waiting
<1>17. ASSUME NEW c \in Clients, GetReturns(c)  PROVE MutexHeld'
  BY <1>17 DEF GetReturns
<1>18. ASSUME NEW w \in Workers, WorkerLock(w)  PROVE MutexHeld'
  BY <1>18 DEF WorkerLock
<1>19. ASSUME NEW w \in Workers, WorkerWait(w)  PROVE MutexHeld'
  BY <1>19 DEF WorkerWait
<1>20. ASSUME NEW w \in Workers, WorkerExit(w)  PROVE MutexHeld'
  BY <1>20 DEF WorkerExit
<1>21. ASSUME NEW w \in Workers, WorkerTake(w)  PROVE MutexHeld'
  BY <1>21 DEF WorkerTake
<1>22. ASSUME NEW w \in Workers, WorkerRun(w)  PROVE MutexHeld'
  BY <1>22 DEF WorkerRun
<1>23. ASSUME NEW w \in Workers, SpuriousWakeup(w)  PROVE MutexHeld'
  BY <1>23 DEF SpuriousWakeup
<1>24. CASE Terminated \/ UNCHANGED vars
  BY <1>24 DEF Terminated, vars
<1> QED
  BY <1>1, <1>2, <1>3, <1>4, <1>5, <1>6, <1>7, <1>8, <1>9, <1>10, <1>11,
     <1>12, <1>13, <1>14, <1>15, <1>16, <1>17, <1>18, <1>19, <1>20, <1>21,
     <1>22, <1>23, <1>24
     DEF Next, OwnerStep, ClientCall, ClientStep, WorkerStep

(* Tasks are taken in hand and put down with the program counter. *)
LEMMA TasksStep == IInv /\ [Next]_vars => TasksInHand'
<1> SUFFICES ASSUME IInv, [Next]_vars PROVE TasksInHand'
  OBVIOUS
<1> USE PoolAssumption DEF PoolAssumption
<1> USE DEF IInv, TypeOK, Workers, poolVars, ownerVars, clientVars,
            workerVars, TasksInHand, Lifecycle
<1>1. CASE CtorReject
  BY <1>1 DEF CtorReject
<1>2. CASE CtorSpawn
  BY <1>2 DEF CtorSpawn
<1>3. CASE CtorFail
  BY <1>3 DEF CtorFail
<1>4. CASE Shutdown
  BY <1>4 DEF Shutdown, RequestStop
<1>5. CASE Destroy
  BY <1>5 DEF Destroy, RequestStop
<1>6. CASE StopCallbacks
  BY <1>6 DEF StopCallbacks, Waiting
<1>7. CASE JoinThread
  BY <1>7 DEF JoinThread
<1>8. CASE ShutdownReturns
  BY <1>8 DEF ShutdownReturns
<1>9. CASE DestroyMembers
  BY <1>9 DEF DestroyMembers
<1>10. ASSUME NEW c \in Clients, NEW t \in Tasks, EnqueueCheck(c, t)
      PROVE TasksInHand'
  BY <1>10 DEF EnqueueCheck
<1>11. ASSUME NEW c \in Clients, NEW t \in Tasks, GetBegin(c, t)
      PROVE TasksInHand'
  BY <1>11 DEF GetBegin
<1>12. ASSUME NEW c \in Clients, EnqueueLock(c)  PROVE TasksInHand'
  BY <1>12 DEF EnqueueLock
<1>13. ASSUME NEW c \in Clients, EnqueuePush(c)  PROVE TasksInHand'
  BY <1>13 DEF EnqueuePush
<1>14. ASSUME NEW c \in Clients, EnqueuePushFails(c)  PROVE TasksInHand'
  BY <1>14 DEF EnqueuePushFails
<1>15. ASSUME NEW c \in Clients, EnqueueUnlock(c)  PROVE TasksInHand'
  BY <1>15 DEF EnqueueUnlock
<1>16. ASSUME NEW c \in Clients, EnqueueNotify(c)  PROVE TasksInHand'
  BY <1>16 DEF EnqueueNotify, NotifyOne, Waiting
<1>17. ASSUME NEW c \in Clients, GetReturns(c)  PROVE TasksInHand'
  BY <1>17 DEF GetReturns
<1>18. ASSUME NEW w \in Workers, WorkerLock(w)  PROVE TasksInHand'
  BY <1>18 DEF WorkerLock
<1>19. ASSUME NEW w \in Workers, WorkerWait(w)  PROVE TasksInHand'
  BY <1>19 DEF WorkerWait
<1>20. ASSUME NEW w \in Workers, WorkerExit(w)  PROVE TasksInHand'
  BY <1>20 DEF WorkerExit
<1>21. ASSUME NEW w \in Workers, WorkerTake(w)  PROVE TasksInHand'
  <2>1. Head(queue) \in Tasks
    BY <1>21 DEF WorkerTake, FrontExists
  <2> QED BY <1>21, <2>1 DEF WorkerTake
<1>22. ASSUME NEW w \in Workers, WorkerRun(w)  PROVE TasksInHand'
  BY <1>22 DEF WorkerRun
<1>23. ASSUME NEW w \in Workers, SpuriousWakeup(w)  PROVE TasksInHand'
  BY <1>23 DEF SpuriousWakeup
<1>24. CASE Terminated \/ UNCHANGED vars
  BY <1>24 DEF Terminated, vars
<1> QED
  BY <1>1, <1>2, <1>3, <1>4, <1>5, <1>6, <1>7, <1>8, <1>9, <1>10, <1>11,
     <1>12, <1>13, <1>14, <1>15, <1>16, <1>17, <1>18, <1>19, <1>20, <1>21,
     <1>22, <1>23, <1>24
     DEF Next, OwnerStep, ClientCall, ClientStep, WorkerStep

(* The queue shrinks only in the hands of the thread that tested it. *)
LEMMA FrontStep == IInv /\ [Next]_vars => FrontExists'
<1> SUFFICES ASSUME IInv, [Next]_vars PROVE FrontExists'
  OBVIOUS
<1> USE PoolAssumption DEF PoolAssumption
<1> USE DEF IInv, TypeOK, Workers, poolVars, ownerVars, clientVars,
            workerVars, FrontExists, MutexHeld,
            Stopping
<1>1. CASE CtorReject
  BY <1>1 DEF CtorReject
<1>2. CASE CtorSpawn
  BY <1>2 DEF CtorSpawn
<1>3. CASE CtorFail
  BY <1>3 DEF CtorFail
<1>4. CASE Shutdown
  BY <1>4 DEF Shutdown, RequestStop
<1>5. CASE Destroy
  BY <1>5 DEF Destroy, RequestStop
<1>6. CASE StopCallbacks
  BY <1>6 DEF StopCallbacks, Waiting
<1>7. CASE JoinThread
  BY <1>7 DEF JoinThread
<1>8. CASE ShutdownReturns
  BY <1>8 DEF ShutdownReturns
<1>9. CASE DestroyMembers
  BY <1>9 DEF DestroyMembers
<1>10. ASSUME NEW c \in Clients, NEW t \in Tasks, EnqueueCheck(c, t)
      PROVE FrontExists'
  BY <1>10 DEF EnqueueCheck
<1>11. ASSUME NEW c \in Clients, NEW t \in Tasks, GetBegin(c, t)
      PROVE FrontExists'
  BY <1>11 DEF GetBegin
<1>12. ASSUME NEW c \in Clients, EnqueueLock(c)  PROVE FrontExists'
  BY <1>12 DEF EnqueueLock
<1>13. ASSUME NEW c \in Clients, EnqueuePush(c)  PROVE FrontExists'
  <2>1. queue' # <<>>
    BY <1>13 DEF EnqueuePush, TasksInHand
  <2> QED BY <1>13, <2>1 DEF EnqueuePush
<1>14. ASSUME NEW c \in Clients, EnqueuePushFails(c)  PROVE FrontExists'
  BY <1>14 DEF EnqueuePushFails
<1>15. ASSUME NEW c \in Clients, EnqueueUnlock(c)  PROVE FrontExists'
  BY <1>15 DEF EnqueueUnlock
<1>16. ASSUME NEW c \in Clients, EnqueueNotify(c)  PROVE FrontExists'
  BY <1>16 DEF EnqueueNotify, NotifyOne, Waiting
<1>17. ASSUME NEW c \in Clients, GetReturns(c)  PROVE FrontExists'
  BY <1>17 DEF GetReturns
<1>18. ASSUME NEW w \in Workers, WorkerLock(w)  PROVE FrontExists'
  BY <1>18 DEF WorkerLock
<1>19. ASSUME NEW w \in Workers, WorkerWait(w)  PROVE FrontExists'
  BY <1>19 DEF WorkerWait
<1>20. ASSUME NEW w \in Workers, WorkerExit(w)  PROVE FrontExists'
  BY <1>20 DEF WorkerExit
<1>21. ASSUME NEW w \in Workers, WorkerTake(w)  PROVE FrontExists'
  BY <1>21 DEF WorkerTake
<1>22. ASSUME NEW w \in Workers, WorkerRun(w)  PROVE FrontExists'
  BY <1>22 DEF WorkerRun
<1>23. ASSUME NEW w \in Workers, SpuriousWakeup(w)  PROVE FrontExists'
  BY <1>23 DEF SpuriousWakeup
<1>24. CASE Terminated \/ UNCHANGED vars
  BY <1>24 DEF Terminated, vars
<1> QED
  BY <1>1, <1>2, <1>3, <1>4, <1>5, <1>6, <1>7, <1>8, <1>9, <1>10, <1>11,
     <1>12, <1>13, <1>14, <1>15, <1>16, <1>17, <1>18, <1>19, <1>20, <1>21,
     <1>22, <1>23, <1>24
     DEF Next, OwnerStep, ClientCall, ClientStep, WorkerStep

(* Stopping is never undone, and no worker returns before it. *)
LEMMA StoppingStep == IInv /\ [Next]_vars => Stopping'
<1> SUFFICES ASSUME IInv, [Next]_vars PROVE Stopping'
  OBVIOUS
<1> USE PoolAssumption DEF PoolAssumption
<1> USE DEF IInv, TypeOK, Workers, poolVars, ownerVars, clientVars,
            workerVars, Stopping, Lifecycle
<1>1. CASE CtorReject
  BY <1>1 DEF CtorReject
<1>2. CASE CtorSpawn
  BY <1>2 DEF CtorSpawn
<1>3. CASE CtorFail
  BY <1>3 DEF CtorFail
<1>4. CASE Shutdown
  BY <1>4 DEF Shutdown, RequestStop
<1>5. CASE Destroy
  BY <1>5 DEF Destroy, RequestStop
<1>6. CASE StopCallbacks
  BY <1>6 DEF StopCallbacks, Waiting
<1>7. CASE JoinThread
  BY <1>7 DEF JoinThread
<1>8. CASE ShutdownReturns
  BY <1>8 DEF ShutdownReturns
<1>9. CASE DestroyMembers
  BY <1>9 DEF DestroyMembers
<1>10. ASSUME NEW c \in Clients, NEW t \in Tasks, EnqueueCheck(c, t)
      PROVE Stopping'
  BY <1>10 DEF EnqueueCheck
<1>11. ASSUME NEW c \in Clients, NEW t \in Tasks, GetBegin(c, t)
      PROVE Stopping'
  BY <1>11 DEF GetBegin
<1>12. ASSUME NEW c \in Clients, EnqueueLock(c)  PROVE Stopping'
  BY <1>12 DEF EnqueueLock
<1>13. ASSUME NEW c \in Clients, EnqueuePush(c)  PROVE Stopping'
  BY <1>13 DEF EnqueuePush
<1>14. ASSUME NEW c \in Clients, EnqueuePushFails(c)  PROVE Stopping'
  BY <1>14 DEF EnqueuePushFails
<1>15. ASSUME NEW c \in Clients, EnqueueUnlock(c)  PROVE Stopping'
  BY <1>15 DEF EnqueueUnlock
<1>16. ASSUME NEW c \in Clients, EnqueueNotify(c)  PROVE Stopping'
  BY <1>16 DEF EnqueueNotify, NotifyOne, Waiting
<1>17. ASSUME NEW c \in Clients, GetReturns(c)  PROVE Stopping'
  BY <1>17 DEF GetReturns
<1>18. ASSUME NEW w \in Workers, WorkerLock(w)  PROVE Stopping'
  BY <1>18 DEF WorkerLock
<1>19. ASSUME NEW w \in Workers, WorkerWait(w)  PROVE Stopping'
  BY <1>19 DEF WorkerWait
<1>20. ASSUME NEW w \in Workers, WorkerExit(w)  PROVE Stopping'
  BY <1>20 DEF WorkerExit
<1>21. ASSUME NEW w \in Workers, WorkerTake(w)  PROVE Stopping'
  BY <1>21 DEF WorkerTake
<1>22. ASSUME NEW w \in Workers, WorkerRun(w)  PROVE Stopping'
  BY <1>22 DEF WorkerRun
<1>23. ASSUME NEW w \in Workers, SpuriousWakeup(w)  PROVE Stopping'
  BY <1>23 DEF SpuriousWakeup
<1>24. CASE Terminated \/ UNCHANGED vars
  BY <1>24 DEF Terminated, vars
<1> QED
  BY <1>1, <1>2, <1>3, <1>4, <1>5, <1>6, <1>7, <1>8, <1>9, <1>10, <1>11,
     <1>12, <1>13, <1>14, <1>15, <1>16, <1>17, <1>18, <1>19, <1>20, <1>21,
     <1>22, <1>23, <1>24
     DEF Next, OwnerStep, ClientCall, ClientStep, WorkerStep

(* Threads exist from their start to their join. *)
LEMMA LifecycleStep == IInv /\ [Next]_vars => Lifecycle'
<1> SUFFICES ASSUME IInv, [Next]_vars PROVE Lifecycle'
  OBVIOUS
<1> USE PoolAssumption DEF PoolAssumption
<1> USE DEF IInv, TypeOK, Workers, poolVars, ownerVars, clientVars,
            workerVars, Lifecycle
<1>1. CASE CtorReject
  BY <1>1 DEF CtorReject
<1>2. CASE CtorSpawn
  BY <1>2 DEF CtorSpawn
<1>3. CASE CtorFail
  BY <1>3 DEF CtorFail
<1>4. CASE Shutdown
  BY <1>4 DEF Shutdown, RequestStop
<1>5. CASE Destroy
  BY <1>5 DEF Destroy, RequestStop
<1>6. CASE StopCallbacks
  BY <1>6 DEF StopCallbacks, Waiting
<1>7. CASE JoinThread
  BY <1>7 DEF JoinThread
<1>8. CASE ShutdownReturns
  BY <1>8 DEF ShutdownReturns
<1>9. CASE DestroyMembers
  BY <1>9 DEF DestroyMembers
<1>10. ASSUME NEW c \in Clients, NEW t \in Tasks, EnqueueCheck(c, t)
      PROVE Lifecycle'
  BY <1>10 DEF EnqueueCheck
<1>11. ASSUME NEW c \in Clients, NEW t \in Tasks, GetBegin(c, t)
      PROVE Lifecycle'
  BY <1>11 DEF GetBegin
<1>12. ASSUME NEW c \in Clients, EnqueueLock(c)  PROVE Lifecycle'
  BY <1>12 DEF EnqueueLock
<1>13. ASSUME NEW c \in Clients, EnqueuePush(c)  PROVE Lifecycle'
  BY <1>13 DEF EnqueuePush
<1>14. ASSUME NEW c \in Clients, EnqueuePushFails(c)  PROVE Lifecycle'
  BY <1>14 DEF EnqueuePushFails
<1>15. ASSUME NEW c \in Clients, EnqueueUnlock(c)  PROVE Lifecycle'
  BY <1>15 DEF EnqueueUnlock
<1>16. ASSUME NEW c \in Clients, EnqueueNotify(c)  PROVE Lifecycle'
  BY <1>16 DEF EnqueueNotify, NotifyOne, Waiting
<1>17. ASSUME NEW c \in Clients, GetReturns(c)  PROVE Lifecycle'
  BY <1>17 DEF GetReturns
<1>18. ASSUME NEW w \in Workers, WorkerLock(w)  PROVE Lifecycle'
  BY <1>18 DEF WorkerLock
<1>19. ASSUME NEW w \in Workers, WorkerWait(w)  PROVE Lifecycle'
  BY <1>19 DEF WorkerWait
<1>20. ASSUME NEW w \in Workers, WorkerExit(w)  PROVE Lifecycle'
  BY <1>20 DEF WorkerExit
<1>21. ASSUME NEW w \in Workers, WorkerTake(w)  PROVE Lifecycle'
  BY <1>21 DEF WorkerTake
<1>22. ASSUME NEW w \in Workers, WorkerRun(w)  PROVE Lifecycle'
  BY <1>22 DEF WorkerRun
<1>23. ASSUME NEW w \in Workers, SpuriousWakeup(w)  PROVE Lifecycle'
  BY <1>23 DEF SpuriousWakeup
<1>24. CASE Terminated \/ UNCHANGED vars
  <2>1. UNCHANGED <<spawned, joinable, wpc, cpc, jidx>>
    BY <1>24 DEF Terminated, vars
  <2> QED BY <2>1
<1> QED
  BY <1>1, <1>2, <1>3, <1>4, <1>5, <1>6, <1>7, <1>8, <1>9, <1>10, <1>11,
     <1>12, <1>13, <1>14, <1>15, <1>16, <1>17, <1>18, <1>19, <1>20, <1>21,
     <1>22, <1>23, <1>24
     DEF Next, OwnerStep, ClientCall, ClientStep, WorkerStep

(* Nothing is enqueued on a pool that failed to start a thread. *)
LEMMA NeverStartedStep == IInv /\ [Next]_vars => NeverStarted'
<1> SUFFICES ASSUME IInv, [Next]_vars PROVE NeverStarted'
  OBVIOUS
<1> USE PoolAssumption DEF PoolAssumption
<1> USE DEF IInv, TypeOK, Workers, poolVars, ownerVars, clientVars,
            workerVars, NeverStarted, Usable,
            Lifecycle, Stopping
<1>1. CASE CtorReject
  BY <1>1 DEF CtorReject
<1>2. CASE CtorSpawn
  BY <1>2 DEF CtorSpawn
<1>3. CASE CtorFail
  BY <1>3 DEF CtorFail
<1>4. CASE Shutdown
  BY <1>4 DEF Shutdown, RequestStop
<1>5. CASE Destroy
  BY <1>5 DEF Destroy, RequestStop
<1>6. CASE StopCallbacks
  BY <1>6 DEF StopCallbacks, Waiting
<1>7. CASE JoinThread
  BY <1>7 DEF JoinThread
<1>8. CASE ShutdownReturns
  BY <1>8 DEF ShutdownReturns
<1>9. CASE DestroyMembers
  BY <1>9 DEF DestroyMembers, Queued
<1>10. ASSUME NEW c \in Clients, NEW t \in Tasks, EnqueueCheck(c, t)
      PROVE NeverStarted'
  BY <1>10 DEF EnqueueCheck
<1>11. ASSUME NEW c \in Clients, NEW t \in Tasks, GetBegin(c, t)
      PROVE NeverStarted'
  BY <1>11 DEF GetBegin
<1>12. ASSUME NEW c \in Clients, EnqueueLock(c)  PROVE NeverStarted'
  BY <1>12 DEF EnqueueLock
<1>13. ASSUME NEW c \in Clients, EnqueuePush(c)  PROVE NeverStarted'
  BY <1>13 DEF EnqueuePush
<1>14. ASSUME NEW c \in Clients, EnqueuePushFails(c)  PROVE NeverStarted'
  BY <1>14 DEF EnqueuePushFails
<1>15. ASSUME NEW c \in Clients, EnqueueUnlock(c)  PROVE NeverStarted'
  BY <1>15 DEF EnqueueUnlock
<1>16. ASSUME NEW c \in Clients, EnqueueNotify(c)  PROVE NeverStarted'
  BY <1>16 DEF EnqueueNotify, NotifyOne, Waiting
<1>17. ASSUME NEW c \in Clients, GetReturns(c)  PROVE NeverStarted'
  BY <1>17 DEF GetReturns
<1>18. ASSUME NEW w \in Workers, WorkerLock(w)  PROVE NeverStarted'
  BY <1>18 DEF WorkerLock
<1>19. ASSUME NEW w \in Workers, WorkerWait(w)  PROVE NeverStarted'
  BY <1>19 DEF WorkerWait
<1>20. ASSUME NEW w \in Workers, WorkerExit(w)  PROVE NeverStarted'
  BY <1>20 DEF WorkerExit
<1>21. ASSUME NEW w \in Workers, WorkerTake(w)  PROVE NeverStarted'
  BY <1>21 DEF WorkerTake
<1>22. ASSUME NEW w \in Workers, WorkerRun(w)  PROVE NeverStarted'
  BY <1>22 DEF WorkerRun
<1>23. ASSUME NEW w \in Workers, SpuriousWakeup(w)  PROVE NeverStarted'
  BY <1>23 DEF SpuriousWakeup
<1>24. CASE Terminated \/ UNCHANGED vars
  BY <1>24 DEF Terminated, vars
<1> QED
  BY <1>1, <1>2, <1>3, <1>4, <1>5, <1>6, <1>7, <1>8, <1>9, <1>10, <1>11,
     <1>12, <1>13, <1>14, <1>15, <1>16, <1>17, <1>18, <1>19, <1>20, <1>21,
     <1>22, <1>23, <1>24
     DEF Next, OwnerStep, ClientCall, ClientStep, WorkerStep
(* No accepted task drops out of the books but late ones. *)
LEMMA AccountedStep == IInv /\ [Next]_vars => Accounted'
<1> SUFFICES ASSUME IInv, [Next]_vars PROVE Accounted'
  OBVIOUS
<1> USE PoolAssumption DEF PoolAssumption
<1> USE DEF IInv, TypeOK, Workers, poolVars, ownerVars, clientVars,
            workerVars, Accounted
<1>1. CASE CtorReject
  BY <1>1 DEF CtorReject, Queued
<1>2. CASE CtorSpawn
  BY <1>2 DEF CtorSpawn, Queued
<1>3. CASE CtorFail
  BY <1>3 DEF CtorFail, Queued
<1>4. CASE Shutdown
  BY <1>4 DEF Shutdown, RequestStop, Queued
<1>5. CASE Destroy
  BY <1>5 DEF Destroy, RequestStop, Queued
<1>6. CASE StopCallbacks
  BY <1>6 DEF StopCallbacks, Waiting, Queued
<1>7. CASE JoinThread
  BY <1>7 DEF JoinThread, Queued
<1>8. CASE ShutdownReturns
  BY <1>8 DEF ShutdownReturns, Queued
<1>9. CASE DestroyMembers
  <2>1. \A t \in Tasks : Queued(t) => t \in late
    <3>1. CASE spawned = 0
      BY <3>1 DEF NeverStarted, Queued
    <3>2. CASE spawned # 0
      <4>1. joinable = {}
        BY <1>9 DEF DestroyMembers, Lifecycle
      <4>2. 1 \in Workers /\ wpc[1] = "exited"
        BY <3>2, <4>1 DEF Lifecycle
      <4> QED BY <4>2
    <3> QED BY <3>1, <3>2
  <2>2. \A t \in Tasks : ~Queued(t)'
    BY <1>9 DEF DestroyMembers, Queued
  <2> QED BY <1>9, <2>1, <2>2 DEF DestroyMembers
<1>10. ASSUME NEW c \in Clients, NEW t \in Tasks, EnqueueCheck(c, t)
      PROVE Accounted'
  BY <1>10 DEF EnqueueCheck, Queued
<1>11. ASSUME NEW c \in Clients, NEW t \in Tasks, GetBegin(c, t)
      PROVE Accounted'
  BY <1>11 DEF GetBegin, Queued
<1>12. ASSUME NEW c \in Clients, EnqueueLock(c)  PROVE Accounted'
  BY <1>12 DEF EnqueueLock, Queued
<1>13. ASSUME NEW c \in Clients, EnqueuePush(c)  PROVE Accounted'
  <2>1. ctask[c] \in Tasks /\ queue' = Append(queue, ctask[c])
    BY <1>13 DEF EnqueuePush, TasksInHand
  <2>2. \A t \in Tasks : Queued(t)' <=> Queued(t) \/ t = ctask[c]
    BY <2>1, QueuedAfterAppend
  <2>3. ASSUME NEW t \in Tasks, fut'[t] = "pending"
        PROVE  Queued(t)' \/ \E w \in Workers : wtask'[w] = t
    BY <1>13, <2>1, <2>2, <2>3 DEF EnqueuePush
  <2>4. ASSUME NEW w \in Workers, wpc'[w] = "exited",
               NEW t \in Tasks, Queued(t)'
        PROVE  t \in late'
    BY <1>13, <2>1, <2>2, <2>4 DEF EnqueuePush, Stopping
  <2>5. ASSUME NEW t \in Tasks, fut'[t] = "broken"  PROVE t \in late'
    BY <1>13, <2>1, <2>5 DEF EnqueuePush
  <2> QED BY <2>3, <2>4, <2>5
<1>14. ASSUME NEW c \in Clients, EnqueuePushFails(c)  PROVE Accounted'
  BY <1>14 DEF EnqueuePushFails, Queued
<1>15. ASSUME NEW c \in Clients, EnqueueUnlock(c)  PROVE Accounted'
  BY <1>15 DEF EnqueueUnlock, Queued
<1>16. ASSUME NEW c \in Clients, EnqueueNotify(c)  PROVE Accounted'
  BY <1>16 DEF EnqueueNotify, NotifyOne, Waiting, Queued
<1>17. ASSUME NEW c \in Clients, GetReturns(c)  PROVE Accounted'
  BY <1>17 DEF GetReturns, Queued
<1>18. ASSUME NEW w \in Workers, WorkerLock(w)  PROVE Accounted'
  BY <1>18 DEF WorkerLock, Queued
<1>19. ASSUME NEW w \in Workers, WorkerWait(w)  PROVE Accounted'
  <2>1. \A v \in Workers : wpc'[v] = "exited" <=> wpc[v] = "exited"
    BY <1>19 DEF WorkerWait
  <2>2. UNCHANGED <<queue, fut, late, wtask>>
    BY <1>19 DEF WorkerWait
  <2> QED BY <2>1, <2>2 DEF Queued
<1>20. ASSUME NEW w \in Workers, WorkerExit(w)  PROVE Accounted'
  <2>1. \A t \in Tasks : ~Queued(t) /\ ~Queued(t)'
    BY <1>20 DEF WorkerExit, Queued
  <2> QED BY <1>20, <2>1 DEF WorkerExit
<1>21. ASSUME NEW w \in Workers, WorkerTake(w)  PROVE Accounted'
  <2>1. queue # <<>> /\ queue' = Tail(queue)
    BY <1>21 DEF WorkerTake, FrontExists
  <2>2. \A t \in Tasks : /\ Queued(t) => Queued(t)' \/ t = Head(queue)
                        /\ Queued(t)' => Queued(t)
    BY <2>1, QueuedAfterTail
  <2>3. wtask[w] = NoTask /\ Head(queue) \in Tasks
    BY <1>21, <2>1 DEF WorkerTake, TasksInHand
  <2>4. ASSUME NEW t \in Tasks, fut'[t] = "pending"
        PROVE  Queued(t)' \/ \E v \in Workers : wtask'[v] = t
    <3>1. CASE t = Head(queue)
      BY <1>21, <3>1 DEF WorkerTake
    <3>2. CASE t # Head(queue) /\ Queued(t)
      <4>1. Queued(t) => Queued(t)' \/ t = Head(queue)
        BY <2>1, QueuedAfterTail
      <4> QED BY <3>2, <4>1
    <3>3. CASE \E v \in Workers : wtask[v] = t
      <4>1. PICK v \in Workers : wtask[v] = t
        BY <3>3
      <4>2. v # w /\ wtask'[v] = t
        BY <1>21, <2>3, <4>1 DEF WorkerTake
      <4> QED BY <4>2
    <3> QED BY <1>21, <2>4, <3>1, <3>2, <3>3 DEF WorkerTake
  <2>5. ASSUME NEW v \in Workers, wpc'[v] = "exited",
               NEW t \in Tasks, Queued(t)'
        PROVE  t \in late'
    BY <1>21, <2>2, <2>5 DEF WorkerTake
  <2>6. \A t \in Tasks : fut'[t] = "broken" => t \in late'
    BY <1>21 DEF WorkerTake
  <2> QED BY <2>4, <2>5, <2>6
<1>22. ASSUME NEW w \in Workers, WorkerRun(w)  PROVE Accounted'
  BY <1>22 DEF WorkerRun, Queued
<1>23. ASSUME NEW w \in Workers, SpuriousWakeup(w)  PROVE Accounted'
  BY <1>23 DEF SpuriousWakeup, Queued
<1>24. CASE Terminated \/ UNCHANGED vars
  BY <1>24 DEF Terminated, vars, Queued
<1> QED
  BY <1>1, <1>2, <1>3, <1>4, <1>5, <1>6, <1>7, <1>8, <1>9, <1>10, <1>11,
     <1>12, <1>13, <1>14, <1>15, <1>16, <1>17, <1>18, <1>19, <1>20, <1>21,
     <1>22, <1>23, <1>24
     DEF Next, OwnerStep, ClientCall, ClientStep, WorkerStep

(* The inductive invariant holds in every reachable state. *)
THEOREM Invariance == Spec => []IInv
<1>1. IInv /\ [Next]_vars => IInv'
  BY TypeStep, MutexStep, TasksStep, FrontStep, StoppingStep, LifecycleStep,
     NeverStartedStep, AccountedStep DEF IInv
<1> QED BY InitInvariant, <1>1, PTL DEF Spec

-----------------------------------------------------------------------------
(* The variables of the pool keep their types: every step is defined in    *)
(* every reachable state.                                                  *)
THEOREM TypeCorrect == Spec => []TypeOK
<1>1. IInv => TypeOK
  BY DEF IInv
<1> QED BY <1>1, Invariance, PTL

(* A worker that leaves the wait finds a task or has to return: front()    *)
(* and pop() are never called on an empty queue (thread_pool.cc:45-49).    *)
THEOREM PopIsSafe == Spec => []FrontExists
<1>1. IInv => FrontExists
  BY DEF IInv
<1> QED BY <1>1, Invariance, PTL

(* All threads have returned when the pool is destroyed or its constructor *)
(* has thrown, for any number of workers and whichever one failed to start *)
(* (thread_pool.cc:11-20, 30-36).                                          *)
THEOREM ThreadsEndFirst == Spec => []NoUseAfterDestroy
<1>1. ASSUME IInv  PROVE NoUseAfterDestroy
  <2> SUFFICES ASSUME cpc[Owner] = "gone", NEW w \in Workers
               PROVE  wpc[w] \in {"none", "exited"}
    BY DEF NoUseAfterDestroy
  <2>1. joinable = {}
    BY <1>1 DEF IInv, Lifecycle
  <2>2. CASE w \in 1..spawned
    BY <1>1, <2>1, <2>2 DEF IInv, Lifecycle
  <2>3. CASE w \notin 1..spawned
    <3>1. w > spawned
      BY <1>1, <2>3, PoolAssumption DEF IInv, TypeOK, Workers, PoolAssumption
    <3> QED BY <1>1, <3>1 DEF IInv, Lifecycle
  <2> QED BY <2>2, <2>3
<1> QED BY <1>1, Invariance, PTL

(* "Already enqueued tasks will be completed" (thread_pool.h:89): with any *)
(* number of callers, what was queued before the stop request is done when *)
(* Shutdown or the destructor has joined the threads.                      *)
THEOREM GracefulShutdown == Spec => []EnqueuedBeforeStopDone
<1>1. ASSUME IInv  PROVE EnqueuedBeforeStopDone
  <2> SUFFICES ASSUME Joined, NEW t \in Tasks, fut[t] \in {"pending", "broken"}
               PROVE  t \in late
    BY DEF EnqueuedBeforeStopDone
  <2> USE PoolAssumption DEF PoolAssumption, IInv, TypeOK, Workers
  <2>1. CASE fut[t] = "broken"
    BY <1>1, <2>1 DEF Accounted
  <2>2. CASE fut[t] = "pending"
    <3>1. spawned # 0
      BY <1>1, <2>2 DEF NeverStarted
    <3>2. \A w \in Workers : wpc[w] \in {"none", "exited"}
      BY <1>1 DEF Joined, Lifecycle
    <3>3. \A w \in Workers : wtask[w] = NoTask
      BY <1>1, <3>2 DEF TasksInHand
    <3>4. Queued(t)
      BY <1>1, <2>2, <3>3 DEF Accounted
    <3>5. 1 \in Workers /\ wpc[1] = "exited"
      BY <1>1, <3>1 DEF Joined, Lifecycle
    <3> QED BY <1>1, <3>4, <3>5 DEF Accounted
  <2> QED BY <2>1, <2>2
<1> QED BY <1>1, Invariance, PTL
-----------------------------------------------------------------------------
(* No lost wakeup.  WorkConserving compares the queue with two sets of     *)
(* threads; a step changes each of them by one thread at most, except for  *)
(* notify_all, after which nobody sleeps.                                  *)

Awake     == {w \in Workers : wpc[w] \in {"lock", "wait", "check"}}
Notifying == {c \in Clients : cpc[c] \in {"unlock", "notify"}}

LEMMA ThreadsFinite ==
  /\ IsFiniteSet(Awake) /\ Cardinality(Awake) \in Nat
  /\ IsFiniteSet(Notifying) /\ Cardinality(Notifying) \in Nat
<1>1. IsFiniteSet(Workers) /\ IsFiniteSet(Clients)
  BY FS_Interval, PoolAssumption DEF Workers
<1>2. IsFiniteSet(Awake)
  BY <1>1, FS_Subset DEF Awake
<1>3. IsFiniteSet(Notifying)
  BY <1>1, FS_Subset DEF Notifying
<1> QED BY <1>2, <1>3, FS_CardinalityType

LEMMA PrimedThreadsFinite ==
  /\ IsFiniteSet(Awake') /\ Cardinality(Awake') \in Nat
  /\ IsFiniteSet(Notifying') /\ Cardinality(Notifying') \in Nat
<1>1. IsFiniteSet(Workers) /\ IsFiniteSet(Clients)
  BY FS_Interval, PoolAssumption DEF Workers
<1>2. IsFiniteSet(Awake')
  BY <1>1, FS_Subset DEF Awake
<1>3. IsFiniteSet(Notifying')
  BY <1>1, FS_Subset DEF Notifying
<1> QED BY <1>2, <1>3, FS_CardinalityType

LEMMA OneMore ==
  ASSUME NEW S, IsFiniteSet(S), NEW x, x \notin S
  PROVE  Cardinality(S \cup {x}) = Cardinality(S) + 1
BY FS_AddElement

LEMMA OneLess ==
  ASSUME NEW S, IsFiniteSet(S), NEW x \in S
  PROVE  Cardinality(S \ {x}) = Cardinality(S) - 1
BY FS_RemoveElement

Conserved == Waiting # {} => Len(queue) <= Cardinality(Awake) + Cardinality(Notifying)

(* The queue does not grow, and nobody falls asleep or ends a call. *)
LEMMA ConservedHarmless ==
  ASSUME TypeOK, Conserved, queue' = queue, Waiting' \subseteq Waiting,
         Awake \subseteq Awake', Notifying \subseteq Notifying'
  PROVE  Conserved'
<1>1. /\ Cardinality(Awake) <= Cardinality(Awake')
      /\ Cardinality(Notifying) <= Cardinality(Notifying')
  BY PrimedThreadsFinite, FS_Subset
<1>2. Len(queue) \in Nat
  BY DEF TypeOK
<1> HIDE DEF Awake, Notifying, Waiting
<1> QED BY <1>1, <1>2, ThreadsFinite, PrimedThreadsFinite DEF Conserved

LEMMA ConservedEmpty == ASSUME queue' = <<>> PROVE Conserved'
<1>1. Len(queue') = 0
  OBVIOUS
<1> HIDE DEF Awake, Notifying, Waiting
<1> QED BY <1>1, PrimedThreadsFinite DEF Conserved

LEMMA ConservedStep == IInv /\ Conserved /\ [Next]_vars => Conserved'
<1> SUFFICES ASSUME IInv, Conserved, [Next]_vars PROVE Conserved'
  OBVIOUS
<1>0. TypeOK /\ Lifecycle /\ Len(queue) \in Nat
  BY DEF IInv, TypeOK
<1>1. ASSUME queue' = queue, wpc' = wpc,
             \A c \in Clients : cpc[c] \in {"unlock", "notify"} =>
                               cpc'[c] \in {"unlock", "notify"}
      PROVE  Conserved'
  BY <1>0, <1>1, ConservedHarmless DEF Awake, Notifying, Waiting
<1>2. ASSUME queue' = queue, cpc' = cpc, NEW w \in Workers,
             NEW at \in {"lock", "wait", "check", "run"}, wpc' = [wpc EXCEPT ![w] = at],
             wpc[w] \in {"lock", "wait", "check"} => at \in {"lock", "wait", "check"}
      PROVE  Conserved'
  <2>1. \A v \in Workers : wpc'[v] = IF v = w THEN at ELSE wpc[v]
    BY <1>0, <1>2 DEF TypeOK
  <2>2. Awake \subseteq Awake' /\ Waiting' \subseteq Waiting
    BY <1>2, <2>1 DEF Awake, Waiting
  <2>3. Notifying' = Notifying
    BY <1>2 DEF Notifying
  <2> QED BY <1>0, <1>2, <2>2, <2>3, ConservedHarmless
<1>3. CASE CtorReject \/ CtorFail \/ Shutdown \/ Destroy \/ JoinThread \/ ShutdownReturns
  <2>1. queue' = queue /\ wpc' = wpc
    BY <1>3 DEF CtorReject, CtorFail, Shutdown, Destroy, RequestStop, JoinThread,
                ShutdownReturns, workerVars
  <2>2. \A c \in Clients : cpc[c] \in {"unlock", "notify"} => cpc'[c] = cpc[c]
    BY <1>0, <1>3 DEF TypeOK, CtorReject, CtorFail, Shutdown, Destroy, RequestStop,
                      JoinThread, ShutdownReturns, clientVars
  <2> QED BY <1>1, <2>1, <2>2
<1>4. CASE CtorSpawn
  <2>1. queue' = queue /\ spawned + 1 \in Workers
    BY <1>0, <1>4, PoolAssumption DEF CtorSpawn, TypeOK, Workers
  <2>2. \A v \in Workers : wpc'[v] = IF v = spawned + 1 THEN "lock" ELSE wpc[v]
    BY <1>0, <1>4 DEF CtorSpawn, TypeOK
  <2>3. Awake \subseteq Awake' /\ Waiting' \subseteq Waiting
    BY <2>2 DEF Awake, Waiting
  <2>4. Notifying \subseteq Notifying'
    BY <1>0, <1>4 DEF CtorSpawn, TypeOK, Notifying
  <2> QED BY <1>0, <2>1, <2>3, <2>4, ConservedHarmless
<1>5. CASE StopCallbacks
  <2>1. Waiting' = {}
    BY <1>5 DEF StopCallbacks, Waiting
  <2> QED BY <2>1 DEF Conserved
<1>6. CASE DestroyMembers
  BY <1>6, ConservedEmpty DEF DestroyMembers
<1>7. ASSUME NEW c \in Clients, ClientCall(c)  PROVE Conserved'
  <2>1. queue' = queue /\ wpc' = wpc
    BY <1>7 DEF ClientCall, EnqueueCheck, GetBegin, workerVars
  <2>2. \A d \in Clients : cpc[d] \in {"unlock", "notify"} => cpc'[d] = cpc[d]
    BY <1>0, <1>7 DEF ClientCall, EnqueueCheck, GetBegin, TypeOK
  <2> QED BY <1>1, <2>1, <2>2
<1>8. ASSUME NEW c \in Clients,
             EnqueueLock(c) \/ EnqueuePushFails(c) \/ EnqueueUnlock(c) \/ GetReturns(c)
      PROVE  Conserved'
  <2>1. queue' = queue /\ wpc' = wpc
    BY <1>8 DEF EnqueueLock, EnqueuePushFails, EnqueueUnlock, GetReturns, workerVars
  <2>2. \A d \in Clients : cpc[d] \in {"unlock", "notify"} =>
                           cpc'[d] \in {"unlock", "notify"}
    BY <1>0, <1>8 DEF EnqueueLock, EnqueuePushFails, EnqueueUnlock, GetReturns, TypeOK
  <2> QED BY <1>1, <2>1, <2>2
<1>9. ASSUME NEW c \in Clients, EnqueuePush(c)  PROVE Conserved'
  <2>1. Len(queue') = Len(queue) + 1
    BY <1>0, <1>9 DEF EnqueuePush, TypeOK
  <2>2. Awake' = Awake /\ Waiting' = Waiting
    BY <1>9 DEF EnqueuePush, workerVars, Awake, Waiting
  <2>3. Notifying' = Notifying \cup {c} /\ c \notin Notifying
    BY <1>0, <1>9 DEF EnqueuePush, TypeOK, Notifying
  <2>4. Cardinality(Notifying') = Cardinality(Notifying) + 1
    BY <2>3, ThreadsFinite, OneMore
  <2> HIDE DEF Awake, Notifying, Waiting
  <2> QED BY <1>0, <2>1, <2>2, <2>4, ThreadsFinite DEF Conserved
<1>10. ASSUME NEW c \in Clients, EnqueueNotify(c)  PROVE Conserved'
  <2>1. queue' = queue
    BY <1>10 DEF EnqueueNotify
  <2>2. CASE Waiting = {} /\ UNCHANGED wpc
    BY <2>2 DEF Conserved, Waiting
  <2>3. CASE \E w \in Waiting : wpc' = [wpc EXCEPT ![w] = "lock"]
    <3>1. PICK w \in Waiting : wpc' = [wpc EXCEPT ![w] = "lock"]
      BY <2>3
    <3>2. w \in Workers /\ wpc[w] = "waiting"
      BY DEF Waiting
    <3>3. Awake' = Awake \cup {w} /\ w \notin Awake
      BY <1>0, <3>1, <3>2 DEF TypeOK, Awake
    <3>4. Notifying' = Notifying \ {c} /\ c \in Notifying
      BY <1>0, <1>10 DEF EnqueueNotify, TypeOK, Notifying
    <3>5. /\ Cardinality(Awake') = Cardinality(Awake) + 1
          /\ Cardinality(Notifying') = Cardinality(Notifying) - 1
      BY <3>3, <3>4, ThreadsFinite, OneMore, OneLess
    <3> HIDE DEF Awake, Notifying, Waiting
    <3> QED BY <1>0, <2>1, <3>1, <3>5, ThreadsFinite DEF Conserved
  <2> QED BY <1>10, <2>2, <2>3 DEF EnqueueNotify, NotifyOne
<1>11. ASSUME NEW w \in Workers, WorkerLock(w)  PROVE Conserved'
  BY <1>2, <1>11 DEF WorkerLock, clientVars
<1>12. ASSUME NEW w \in Workers, WorkerWait(w)  PROVE Conserved'
  <2>1. CASE queue # <<>> \/ stop
    BY <1>2, <1>12, <2>1 DEF WorkerWait, clientVars
  <2>2. CASE ~(queue # <<>> \/ stop)
    BY <1>12, <2>2, ConservedEmpty DEF WorkerWait
  <2> QED BY <2>1, <2>2
<1>13. ASSUME NEW w \in Workers, WorkerExit(w)  PROVE Conserved'
  BY <1>13, ConservedEmpty DEF WorkerExit
<1>14. ASSUME NEW w \in Workers, WorkerTake(w)  PROVE Conserved'
  <2>1. Len(queue') = Len(queue) - 1 /\ Len(queue) # 0
    <3>1. queue # <<>> /\ queue' = Tail(queue) /\ queue \in Seq(Tasks)
      BY <1>14 DEF WorkerTake, IInv, FrontExists, TypeOK
    <3> QED BY <3>1
  <2>2. Awake' = Awake \ {w} /\ w \in Awake /\ Waiting' = Waiting
    BY <1>0, <1>14 DEF WorkerTake, TypeOK, Awake, Waiting
  <2>3. Notifying' = Notifying
    BY <1>14 DEF WorkerTake, clientVars, Notifying
  <2>4. Cardinality(Awake') = Cardinality(Awake) - 1
    BY <2>2, ThreadsFinite, OneLess
  <2> HIDE DEF Awake, Notifying, Waiting
  <2> QED BY <1>0, <2>1, <2>2, <2>3, <2>4, ThreadsFinite DEF Conserved
<1>15. ASSUME NEW w \in Workers, WorkerRun(w)  PROVE Conserved'
  BY <1>2, <1>15 DEF WorkerRun, clientVars
<1>16. ASSUME NEW w \in Workers, SpuriousWakeup(w)  PROVE Conserved'
  BY <1>2, <1>16 DEF SpuriousWakeup, clientVars
<1>17. CASE Terminated \/ UNCHANGED vars
  BY <1>1, <1>17 DEF Terminated, vars, workerVars, clientVars
<1> QED
  BY <1>3, <1>4, <1>5, <1>6, <1>7, <1>8, <1>9, <1>10, <1>11, <1>12, <1>13,
     <1>14, <1>15, <1>16, <1>17
     DEF Next, OwnerStep, ClientStep, WorkerStep

(* While a worker sleeps, there is for every queued task a worker on its   *)
(* way to take it or a caller about to notify one, for any number of       *)
(* workers, callers and tasks (thread_pool.h:115-127, thread_pool.cc:38).  *)
THEOREM NoLostWakeup == Spec => []WorkConserving
<1>1. Init => Conserved
  BY DEF Init, Conserved, Waiting
<1>2. IInv /\ Conserved /\ [Next]_vars => Conserved'
  BY ConservedStep
<1>3. Conserved => WorkConserving
  BY DEF Conserved, WorkConserving, Awake, Notifying
<1> QED BY <1>1, <1>2, <1>3, Invariance, PTL DEF Spec

-----------------------------------------------------------------------------
(* Each task is at one place, once, with any number of callers: in the     *)
(* hands of the caller that enqueues it, in the queue, or in the hands of  *)
(* one worker.                                                             *)

CallersApart ==
  /\ \A c \in Clients : InEnqueue(c) => fut[ctask[c]] = "none"
  /\ \A c, d \in Clients :
       InEnqueue(c) /\ InEnqueue(d) /\ ctask[c] = ctask[d] => c = d

QueueOnce ==
  /\ \A j, k \in DOMAIN queue : queue[j] = queue[k] => j = k
  /\ \A t \in Tasks : Queued(t) => fut[t] = "pending"

WorkersApart ==
  /\ \A w \in Workers : wtask[w] # NoTask =>
       fut[wtask[w]] = "pending" /\ ~Queued(wtask[w])
  /\ \A v, w \in Workers : wtask[v] # NoTask /\ wtask[v] = wtask[w] => v = w

TasksApart == CallersApart /\ QueueOnce /\ WorkersApart

LEMMA ApartInit == Init => TasksApart
BY DEF Init, TasksApart, CallersApart, QueueOnce, WorkersApart, InEnqueue, Queued

(* No task changes hands, and nobody begins to enqueue one. *)
LEMMA ApartFrame ==
  ASSUME TasksApart, UNCHANGED <<queue, wtask, fut>>,
         \A c \in Clients : InEnqueue(c)' => InEnqueue(c) /\ ctask'[c] = ctask[c]
  PROVE  TasksApart'
<1>1. CallersApart'
  BY DEF TasksApart, CallersApart
<1>2. QueueOnce' /\ WorkersApart'
  BY DEF TasksApart, QueueOnce, WorkersApart, Queued
<1> QED BY <1>1, <1>2 DEF TasksApart

(* A task that a caller still holds is in nobody else's hands. *)
LEMMA CallersTask ==
  ASSUME IInv, TasksApart, NEW c \in Clients, InEnqueue(c)
  PROVE  /\ ctask[c] \in Tasks /\ fut[ctask[c]] = "none" /\ ~Queued(ctask[c])
         /\ \A w \in Workers : wtask[w] # ctask[c]
         /\ \A d \in Clients : d # c /\ InEnqueue(d) => ctask[d] # ctask[c]
<1>1. ctask[c] \in Tasks
  BY DEF IInv, TypeOK, TasksInHand, InEnqueue
<1>2. fut[ctask[c]] = "none"
  BY DEF TasksApart, CallersApart
<1>3. ~Queued(ctask[c])
  BY <1>1, <1>2 DEF TasksApart, QueueOnce
<1>4. \A w \in Workers : wtask[w] # ctask[c]
  BY <1>1, <1>2, PoolAssumption DEF TasksApart, WorkersApart
<1>5. \A d \in Clients : d # c /\ InEnqueue(d) => ctask[d] # ctask[c]
  BY DEF TasksApart, CallersApart
<1> QED BY <1>1, <1>2, <1>3, <1>4, <1>5

LEMMA EnqueueCheckApart ==
  ASSUME IInv, TasksApart, NEW c \in Clients, NEW t \in Tasks, EnqueueCheck(c, t)
  PROVE  TasksApart'
<1>0. TypeOK
  BY DEF IInv
<1>1. /\ fut[t] = "none" /\ \A d \in Clients : ctask[d] # t
      /\ UNCHANGED <<queue, wtask>>
  BY DEF EnqueueCheck, workerVars
<1>2. ~Queued(t) /\ \A w \in Workers : wtask[w] # t
  BY <1>1, PoolAssumption DEF TasksApart, QueueOnce, WorkersApart
<1>3. CASE stop
  <2>1. UNCHANGED <<cpc, ctask>> /\ \A u \in Tasks : u # t => fut'[u] = fut[u]
    BY <1>0, <1>3 DEF EnqueueCheck, TypeOK
  <2>2. CallersApart'
    <3>1. \A d \in Clients : InEnqueue(d) => fut'[ctask[d]] = fut[ctask[d]]
      BY <1>1, <2>1, CallersTask
    <3> QED BY <2>1, <3>1 DEF TasksApart, CallersApart, InEnqueue
  <2>3. QueueOnce'
    BY <1>1, <1>2, <2>1 DEF TasksApart, QueueOnce, Queued
  <2>4. WorkersApart'
    <3>1. \A w \in Workers : wtask[w] # NoTask => fut'[wtask[w]] = fut[wtask[w]]
      BY <1>0, <1>2, <2>1 DEF TypeOK
    <3> QED BY <1>1, <3>1 DEF TasksApart, WorkersApart, Queued
  <2> QED BY <2>2, <2>3, <2>4 DEF TasksApart
<1>4. CASE ~stop
  <2>1. /\ fut' = fut /\ ctask'[c] = t
        /\ \A d \in Clients : d # c => cpc'[d] = cpc[d] /\ ctask'[d] = ctask[d]
    BY <1>0, <1>4 DEF EnqueueCheck, TypeOK
  <2>2. CallersApart'
    <3>1. ASSUME NEW d \in Clients, InEnqueue(d)' PROVE fut'[ctask'[d]] = "none"
      BY <1>1, <2>1, <3>1 DEF TasksApart, CallersApart, InEnqueue
    <3>2. ASSUME NEW d \in Clients, NEW e \in Clients, InEnqueue(d)', InEnqueue(e)',
                 ctask'[d] = ctask'[e]
          PROVE  d = e
      BY <1>1, <2>1, <3>2 DEF TasksApart, CallersApart, InEnqueue
    <3> QED BY <3>1, <3>2 DEF CallersApart
  <2>3. QueueOnce' /\ WorkersApart'
    BY <1>1, <2>1 DEF TasksApart, QueueOnce, WorkersApart, Queued
  <2> QED BY <2>2, <2>3 DEF TasksApart
<1> QED BY <1>3, <1>4

(* The last that a caller does with its task. *)
LEMMA PushApart ==
  ASSUME IInv, TasksApart, NEW c \in Clients, EnqueuePush(c) \/ EnqueuePushFails(c)
  PROVE  TasksApart'
<1> DEFINE t == ctask[c]
<1>0. TypeOK
  BY DEF IInv
<1>1. InEnqueue(c)
  BY DEF InEnqueue, EnqueuePush, EnqueuePushFails
<1>2. /\ t \in Tasks /\ fut[t] = "none" /\ ~Queued(t)
      /\ \A w \in Workers : wtask[w] # t
      /\ \A d \in Clients : d # c /\ InEnqueue(d) => ctask[d] # t
  BY <1>1, CallersTask
<1>3. /\ \A u \in Tasks : u # t => fut'[u] = fut[u]
      /\ ctask' = ctask /\ wtask' = wtask
      /\ \A d \in Clients : d # c => cpc'[d] = cpc[d]
      /\ cpc'[c] = "unlock"
      /\ queue \in Seq(Tasks)
  BY <1>0 DEF EnqueuePush, EnqueuePushFails, TypeOK, workerVars
<1>4. EnqueuePush(c) => queue' = Append(queue, t) /\ fut'[t] = "pending"
  BY <1>0, <1>2 DEF EnqueuePush, TypeOK
<1>5. EnqueuePushFails(c) => queue' = queue
  BY DEF EnqueuePushFails
<1> HIDE DEF t
<1>6. CallersApart'
  <2>1. \A d \in Clients : InEnqueue(d)' => d # c /\ InEnqueue(d)
    BY <1>3 DEF InEnqueue
  <2>2. \A d \in Clients : InEnqueue(d)' => ctask[d] \in Tasks /\ ctask[d] # t
    BY <2>1, <1>2, CallersTask
  <2> QED BY <1>3, <2>1, <2>2 DEF TasksApart, CallersApart
<1>7. \A u \in Tasks : Queued(u)' <=> Queued(u) \/ (u = t /\ EnqueuePush(c))
  <2>1. CASE EnqueuePush(c)
    BY <1>2, <1>3, <1>4, <2>1, QueuedAfterAppend
  <2>2. CASE EnqueuePushFails(c)
    <3>1. ~EnqueuePush(c) \/ FALSE
      <4>1. EnqueuePush(c) => fut'[t] = "pending"
        BY <1>4
      <4>2. fut'[t] = "refused"
        BY <1>0, <1>2, <2>2 DEF EnqueuePushFails, TypeOK, t
      <4> QED BY <4>1, <4>2
    <3> QED BY <1>5, <2>2, <3>1 DEF Queued
  <2> QED BY <2>1, <2>2
<1>8. QueueOnce'
  <2>1. \A u \in Tasks : Queued(u)' => fut'[u] = "pending"
    BY <1>2, <1>3, <1>4, <1>7 DEF TasksApart, QueueOnce
  <2>2. \A j, k \in DOMAIN queue' : queue'[j] = queue'[k] => j = k
    <3>1. CASE EnqueuePush(c)
      <4>1. /\ Len(queue) \in Nat /\ DOMAIN queue = 1..Len(queue)
            /\ DOMAIN queue' = 1..(Len(queue) + 1)
            /\ \A k \in 1..Len(queue) : queue'[k] = queue[k]
            /\ queue'[Len(queue) + 1] = t
        BY <1>2, <1>3, <1>4, <3>1
      <4>2. \A k \in DOMAIN queue' : k \in 1..Len(queue) \/ k = Len(queue) + 1
        BY <4>1
      <4>3. \A k \in 1..Len(queue) : queue[k] # t
        BY <1>2, <4>1 DEF Queued
      <4> QED BY <4>1, <4>2, <4>3 DEF TasksApart, QueueOnce
    <3>2. CASE EnqueuePushFails(c)
      BY <1>5, <3>2 DEF TasksApart, QueueOnce
    <3> QED BY <3>1, <3>2
  <2> QED BY <2>1, <2>2 DEF QueueOnce
<1>9. WorkersApart'
  <2>1. \A w \in Workers : wtask[w] # NoTask => wtask[w] \in Tasks /\ wtask[w] # t
    BY <1>0, <1>2 DEF TypeOK
  <2> QED BY <1>3, <1>7, <2>1 DEF TasksApart, WorkersApart
<1> QED BY <1>6, <1>8, <1>9 DEF TasksApart

LEMMA DestroyApart == ASSUME IInv, TasksApart, DestroyMembers PROVE TasksApart'
<1>0. TypeOK
  BY DEF IInv
<1>1. /\ UNCHANGED <<wtask, ctask>>
      /\ \A t \in Tasks : ~Queued(t) => fut'[t] = fut[t]
      /\ \A t \in Tasks : ~Queued(t)'
      /\ DOMAIN queue' = {}
      /\ \A c \in Clients : InEnqueue(c)' => InEnqueue(c)
  BY <1>0, PoolAssumption DEF DestroyMembers, workerVars, TypeOK, Queued, InEnqueue
<1>2. CallersApart'
  <2>1. \A c \in Clients : InEnqueue(c) => fut'[ctask[c]] = fut[ctask[c]]
    BY <1>1, CallersTask
  <2> QED BY <1>1, <2>1 DEF TasksApart, CallersApart
<1>3. QueueOnce'
  BY <1>1 DEF QueueOnce
<1>4. WorkersApart'
  <2>1. \A w \in Workers : wtask[w] # NoTask =>
          wtask[w] \in Tasks /\ fut'[wtask[w]] = fut[wtask[w]]
    BY <1>0, <1>1 DEF TypeOK, TasksApart, WorkersApart
  <2> QED BY <1>1, <2>1 DEF TasksApart, WorkersApart
<1> QED BY <1>2, <1>3, <1>4 DEF TasksApart

LEMMA TakeApart ==
  ASSUME IInv, TasksApart, NEW w \in Workers, WorkerTake(w) PROVE TasksApart'
<1> DEFINE t == Head(queue)
<1>0. TypeOK
  BY DEF IInv
<1>1. /\ queue # <<>> /\ queue' = Tail(queue) /\ queue \in Seq(Tasks)
      /\ UNCHANGED <<fut, cpc, ctask>>
      /\ wtask'[w] = t /\ \A v \in Workers : v # w => wtask'[v] = wtask[v]
  BY <1>0 DEF WorkerTake, IInv, FrontExists, TypeOK, clientVars
<1>2. /\ Len(queue) \in Nat \ {0}
      /\ DOMAIN queue = 1..Len(queue) /\ DOMAIN queue' = 1..(Len(queue) - 1)
      /\ \A k \in 1..(Len(queue) - 1) : queue'[k] = queue[k + 1]
      /\ t = queue[1] /\ t \in Tasks
  BY <1>1
<1> HIDE DEF t
<1>3. Queued(t) /\ fut[t] = "pending"
  BY <1>2 DEF Queued, TasksApart, QueueOnce
<1>4. /\ ~(\E k \in DOMAIN queue' : queue'[k] = t)
      /\ \A u \in Tasks : Queued(u)' => Queued(u)
  <2>1. ASSUME NEW k \in DOMAIN queue' PROVE queue'[k] # t
    <3>1. k + 1 \in DOMAIN queue /\ k + 1 # 1 /\ 1 \in DOMAIN queue
      BY <1>2
    <3> QED BY <1>2, <3>1 DEF TasksApart, QueueOnce
  <2>3. \A u \in Tasks : Queued(u)' => Queued(u)
    BY <1>1, QueuedAfterTail
  <2> QED BY <2>1, <2>3
<1>5. CallersApart'
  BY <1>1 DEF TasksApart, CallersApart, InEnqueue
<1>6. QueueOnce'
  <2>1. ASSUME NEW j \in DOMAIN queue', NEW k \in DOMAIN queue', queue'[j] = queue'[k]
        PROVE  j = k
    <3>1. /\ j + 1 \in DOMAIN queue /\ k + 1 \in DOMAIN queue /\ j \in Nat /\ k \in Nat
          /\ queue[j + 1] = queue[k + 1]
      BY <1>2, <2>1
    <3>2. j + 1 = k + 1
      BY <3>1 DEF TasksApart, QueueOnce
    <3> QED BY <3>1, <3>2
  <2>2. \A u \in Tasks : Queued(u)' => fut'[u] = "pending"
    BY <1>1, <1>4 DEF TasksApart, QueueOnce
  <2> QED BY <2>1, <2>2 DEF QueueOnce
<1>7. WorkersApart'
  <2>1. \A v \in Workers : wtask[v] # NoTask => wtask[v] \in Tasks /\ wtask[v] # t
    BY <1>0, <1>3 DEF TypeOK, TasksApart, WorkersApart
  <2>2. ASSUME NEW v \in Workers, wtask'[v] # NoTask
        PROVE  /\ fut'[wtask'[v]] = "pending"
               /\ ~\E k \in DOMAIN queue' : queue'[k] = wtask'[v]
    <3>1. CASE v = w
      <4>1. wtask'[v] = t
        BY <1>1, <3>1
      <4> QED BY <1>1, <1>3, <1>4, <4>1 DEF Queued
    <3>2. CASE v # w
      <4>1. wtask'[v] = wtask[v] /\ wtask[v] \in Tasks
        BY <1>1, <2>1, <2>2, <3>2
      <4>2. fut[wtask[v]] = "pending" /\ ~Queued(wtask[v])
        BY <2>2, <4>1 DEF TasksApart, WorkersApart
      <4> QED BY <1>1, <1>4, <4>1, <4>2 DEF Queued
    <3> QED BY <3>1, <3>2
  <2>3. ASSUME NEW u \in Workers, NEW v \in Workers, wtask'[u] # NoTask,
               wtask'[u] = wtask'[v]
        PROVE  u = v
    BY <1>1, <2>1, <2>3 DEF TasksApart, WorkersApart
  <2> QED BY <2>2, <2>3 DEF WorkersApart, Queued
<1> QED BY <1>5, <1>6, <1>7 DEF TasksApart

LEMMA RunApart ==
  ASSUME IInv, TasksApart, NEW w \in Workers, WorkerRun(w) PROVE TasksApart'
<1> DEFINE t == wtask[w]
<1>0. TypeOK
  BY DEF IInv
<1>1. t \in Tasks /\ fut[t] = "pending" /\ ~Queued(t)
  BY <1>0 DEF WorkerRun, IInv, TasksInHand, TypeOK, TasksApart, WorkersApart
<1>2. /\ UNCHANGED <<queue, cpc, ctask>>
      /\ \A u \in Tasks : u # t => fut'[u] = fut[u]
      /\ wtask'[w] = NoTask /\ \A v \in Workers : v # w => wtask'[v] = wtask[v]
  BY <1>0 DEF WorkerRun, TypeOK, clientVars
<1>3. CallersApart'
  <2>1. \A c \in Clients : InEnqueue(c) => fut'[ctask[c]] = fut[ctask[c]]
    BY <1>1, <1>2, CallersTask
  <2> QED BY <1>2, <2>1 DEF TasksApart, CallersApart, InEnqueue
<1>4. QueueOnce'
  BY <1>1, <1>2 DEF TasksApart, QueueOnce, Queued
<1>5. WorkersApart'
  <2>1. \A v \in Workers : wtask'[v] # NoTask =>
          v # w /\ wtask[v] \in Tasks /\ wtask'[v] = wtask[v] /\ wtask[v] # t
    BY <1>0, <1>1, <1>2, PoolAssumption DEF TypeOK, TasksApart, WorkersApart
  <2> QED BY <1>2, <2>1 DEF TasksApart, WorkersApart, Queued
<1> QED BY <1>3, <1>4, <1>5 DEF TasksApart

LEMMA ApartStep == IInv /\ TasksApart /\ [Next]_vars => TasksApart'
<1> SUFFICES ASSUME IInv, TasksApart, [Next]_vars PROVE TasksApart'
  OBVIOUS
<1>0. TypeOK
  BY DEF IInv
<1>1. CASE CtorReject \/ CtorSpawn \/ CtorFail \/ Shutdown \/ Destroy \/ StopCallbacks
           \/ JoinThread \/ ShutdownReturns
  <2>1. UNCHANGED <<queue, wtask, fut, ctask>>
    BY <1>1 DEF CtorReject, CtorSpawn, CtorFail, Shutdown, Destroy, RequestStop,
                StopCallbacks, JoinThread, ShutdownReturns, workerVars, clientVars
  <2>2. \A c \in Clients : InEnqueue(c)' => InEnqueue(c)
    BY <1>0, <1>1
       DEF CtorReject, CtorSpawn, CtorFail, Shutdown, Destroy, RequestStop,
           StopCallbacks, JoinThread, ShutdownReturns, clientVars, InEnqueue, TypeOK
  <2> QED BY <2>1, <2>2, ApartFrame
<1>2. ASSUME NEW c \in Clients, NEW t \in Tasks, GetBegin(c, t)  PROVE TasksApart'
  <2>1. UNCHANGED <<queue, wtask, fut>>
    BY <1>2 DEF GetBegin, workerVars
  <2>2. \A d \in Clients : InEnqueue(d)' => InEnqueue(d) /\ ctask'[d] = ctask[d]
    BY <1>0, <1>2 DEF GetBegin, InEnqueue, TypeOK
  <2> QED BY <2>1, <2>2, ApartFrame
<1>3. ASSUME NEW c \in Clients,
             EnqueueLock(c) \/ EnqueueUnlock(c) \/ EnqueueNotify(c) \/ GetReturns(c)
      PROVE  TasksApart'
  <2>1. UNCHANGED <<queue, wtask, fut>>
    BY <1>3 DEF EnqueueLock, EnqueueUnlock, EnqueueNotify, GetReturns, workerVars
  <2>2. \A d \in Clients : InEnqueue(d)' => InEnqueue(d) /\ ctask'[d] = ctask[d]
    BY <1>0, <1>3 DEF EnqueueLock, EnqueueUnlock, EnqueueNotify, GetReturns, InEnqueue,
                      TypeOK
  <2> QED BY <2>1, <2>2, ApartFrame
<1>4. ASSUME NEW w \in Workers,
             WorkerLock(w) \/ WorkerWait(w) \/ WorkerExit(w) \/ SpuriousWakeup(w)
      PROVE  TasksApart'
  BY <1>4, ApartFrame
     DEF WorkerLock, WorkerWait, WorkerExit, SpuriousWakeup, clientVars, InEnqueue
<1>5. CASE Terminated \/ UNCHANGED vars
  BY <1>5, ApartFrame DEF Terminated, vars, workerVars, clientVars, InEnqueue
<1> QED
  BY <1>1, <1>2, <1>3, <1>4, <1>5, EnqueueCheckApart, PushApart, DestroyApart,
     TakeApart, RunApart
     DEF Next, OwnerStep, ClientCall, ClientStep, WorkerStep

(* With any number of callers no task is queued twice, none that is done   *)
(* or refused is queued, and no two workers run the same one               *)
(* (thread_pool.h:104-127, thread_pool.cc:46-52).                          *)
THEOREM EachTaskOnce == Spec => []TasksApart
<1> QED BY ApartInit, ApartStep, Invariance, PTL DEF Spec

-----------------------------------------------------------------------------
(* What the check of thread_pool.h:108 is enough for: the caller that      *)
(* stops the pool is in none of its own calls to Enqueue when it does, and *)
(* a task that another caller pushes too late is not one of its own.       *)

LEMMA OwnFrame ==
  ASSUME OwnInTime, TypeOK, UNCHANGED late,
         stop' => stop \/ ~InEnqueue(Owner)',
         InEnqueue(Owner)' => InEnqueue(Owner) \/ ~stop',
         cpc'[Owner] \in {"unlock", "notify"} =>
           cpc[Owner] \in {"unlock", "notify"} /\ ctask'[Owner] = ctask[Owner]
             /\ ctask[Owner] \in Tasks,
         held'[Owner] \subseteq held[Owner],
         \A t \in Tasks : fut[t] # "none" => fut'[t] # "none",
         \A t \in Tasks : fut[t] \notin {"none", "refused"} => fut'[t] # "refused"
  PROVE  OwnInTime'
<1>1. \A t \in held[Owner] \cup late : t \in Tasks
  BY PoolAssumption DEF TypeOK, PoolAssumption
<1> QED BY <1>1 DEF OwnInTime

LEMMA OwnPush ==
  ASSUME IInv, TasksApart, OwnInTime, NEW c \in Clients,
         EnqueuePush(c) \/ EnqueuePushFails(c)
  PROVE  OwnInTime'
<1> DEFINE t == ctask[c]
<1>0. TypeOK /\ InEnqueue(c) /\ Owner \in Clients
  BY PoolAssumption DEF IInv, InEnqueue, EnqueuePush, EnqueuePushFails, PoolAssumption
<1>1. t \in Tasks /\ fut[t] = "none"
  BY <1>0, CallersTask
<1>2. /\ UNCHANGED <<stop, ctask, held>>
      /\ \A u \in Tasks : u # t => fut'[u] = fut[u]
      /\ fut'[t] # "none" /\ late' \subseteq late \cup {t}
      /\ stop \/ late' = late
      /\ \A d \in Clients : d # c => cpc'[d] = cpc[d]
      /\ cpc'[c] = "unlock"
  BY <1>0, <1>1 DEF EnqueuePush, EnqueuePushFails, TypeOK, poolVars
<1> HIDE DEF t
<1>6. \A u \in late' : fut'[u] # "none"
  BY <1>0, <1>1, <1>2 DEF OwnInTime, TypeOK
<1>3. stop' => ~InEnqueue(Owner)'
  BY <1>0, <1>2 DEF OwnInTime, InEnqueue
<1>4. \A u \in held'[Owner] : fut'[u] \notin {"none", "refused"} /\ u \notin late'
  <2>1. \A u \in held[Owner] : u \in Tasks /\ u # t
    BY <1>0, <1>1 DEF OwnInTime, TypeOK
  <2> QED BY <1>2, <2>1 DEF OwnInTime
<1>5. cpc'[Owner] \in {"unlock", "notify"} =>
        fut'[ctask'[Owner]] # "none" /\ ctask'[Owner] \notin late'
  <2>1. CASE c = Owner
    <3>1. ~stop
      BY <1>0, <2>1 DEF OwnInTime
    <3>2. late' = late /\ ctask'[Owner] = t
      BY <1>2, <2>1, <3>1 DEF t
    <3>3. t \notin late
      BY <1>1 DEF OwnInTime
    <3> QED BY <1>2, <3>2, <3>3
  <2>2. CASE c # Owner
    <3> SUFFICES ASSUME cpc[Owner] \in {"unlock", "notify"}
                 PROVE  fut'[ctask[Owner]] # "none" /\ ctask[Owner] \notin late'
      BY <1>0, <1>2, <2>2
    <3>1. ctask[Owner] \in Tasks /\ fut[ctask[Owner]] # "none" /\ ctask[Owner] \notin late
      BY <1>0 DEF OwnInTime, IInv, TasksInHand, TypeOK
    <3> QED BY <1>1, <1>2, <3>1
  <2> QED BY <2>1, <2>2
<1> QED BY <1>3, <1>4, <1>5, <1>6 DEF OwnInTime

LEMMA OwnNotify ==
  ASSUME IInv, OwnInTime, NEW c \in Clients, EnqueueNotify(c)
  PROVE  OwnInTime'
<1>0. TypeOK /\ Owner \in Clients /\ ctask[c] \in Tasks
  BY PoolAssumption DEF IInv, PoolAssumption, EnqueueNotify, TasksInHand, TypeOK
<1>1. /\ UNCHANGED <<stop, fut, late>>
      /\ cpc'[c] = "idle"
      /\ \A d \in Clients : d # c =>
           cpc'[d] = cpc[d] /\ ctask'[d] = ctask[d] /\ held'[d] = held[d]
      /\ held'[c] = IF fut[ctask[c]] = "refused" THEN held[c] ELSE held[c] \cup {ctask[c]}
  BY <1>0 DEF EnqueueNotify, TypeOK, poolVars
<1>2. CASE c = Owner
  <2>1. fut[ctask[Owner]] # "none" /\ ctask[Owner] \notin late
    BY <1>2 DEF OwnInTime, EnqueueNotify
  <2> QED BY <1>1, <1>2, <2>1 DEF OwnInTime, InEnqueue
<1>3. CASE c # Owner
  BY <1>0, <1>1, <1>3 DEF OwnInTime, InEnqueue
<1> QED BY <1>2, <1>3

LEMMA OwnStep == IInv /\ TasksApart /\ OwnInTime /\ [Next]_vars => OwnInTime'
<1> SUFFICES ASSUME IInv, TasksApart, OwnInTime, [Next]_vars PROVE OwnInTime'
  OBVIOUS
<1>0. TypeOK /\ Owner \in Clients /\ (cpc[Owner] \in {"unlock", "notify"} => ctask[Owner] \in Tasks)
  BY PoolAssumption DEF IInv, TypeOK, TasksInHand, PoolAssumption
<1> USE DEF poolVars, ownerVars, clientVars, workerVars
<1>1. CASE CtorReject \/ CtorSpawn \/ CtorFail \/ Shutdown \/ Destroy \/ StopCallbacks
           \/ JoinThread \/ ShutdownReturns
  BY <1>0, <1>1, OwnFrame
     DEF CtorReject, CtorSpawn, CtorFail, Shutdown, Destroy, RequestStop, StopCallbacks,
         JoinThread, ShutdownReturns, InEnqueue, TypeOK
<1>2. CASE DestroyMembers
  <2>1. \A t \in Tasks : fut'[t] \in {fut[t], "broken"}
    BY <1>0, <1>2 DEF DestroyMembers, TypeOK
  <2> QED BY <1>0, <1>2, <2>1, OwnFrame DEF DestroyMembers, InEnqueue, TypeOK
<1>3. ASSUME NEW c \in Clients, NEW t \in Tasks, EnqueueCheck(c, t) PROVE OwnInTime'
  BY <1>0, <1>3, OwnFrame DEF EnqueueCheck, InEnqueue, TypeOK
<1>4. ASSUME NEW c \in Clients, NEW t \in Tasks, GetBegin(c, t) PROVE OwnInTime'
  BY <1>0, <1>4, OwnFrame DEF GetBegin, InEnqueue, TypeOK
<1>5. ASSUME NEW c \in Clients, EnqueueLock(c) \/ EnqueueUnlock(c) \/ GetReturns(c)
      PROVE  OwnInTime'
  BY <1>0, <1>5, OwnFrame DEF EnqueueLock, EnqueueUnlock, GetReturns, InEnqueue, TypeOK
<1>6. ASSUME NEW w \in Workers,
             WorkerLock(w) \/ WorkerWait(w) \/ WorkerExit(w) \/ WorkerTake(w)
               \/ SpuriousWakeup(w)
      PROVE  OwnInTime'
  BY <1>0, <1>6, OwnFrame
     DEF WorkerLock, WorkerWait, WorkerExit, WorkerTake, SpuriousWakeup, InEnqueue
<1>7. ASSUME NEW w \in Workers, WorkerRun(w) PROVE OwnInTime'
  <2>1. \A t \in Tasks : fut'[t] \in {fut[t], "ready"}
    BY <1>0, <1>7 DEF WorkerRun, TypeOK
  <2> QED BY <1>0, <1>7, <2>1, OwnFrame DEF WorkerRun, InEnqueue
<1>8. CASE Terminated \/ UNCHANGED vars
  BY <1>0, <1>8, OwnFrame DEF Terminated, vars, InEnqueue
<1> QED
  BY <1>1, <1>2, <1>3, <1>4, <1>5, <1>6, <1>7, <1>8, OwnPush, OwnNotify
     DEF Next, OwnerStep, ClientCall, ClientStep, WorkerStep

(* The caller that shuts the pool down, or destroys it, finds every future *)
(* that it holds ready when the threads are joined, however many callers   *)
(* race with it: none is left waiting and none is broken                   *)
(* (thread_pool.h:89, 108).                                                *)
THEOREM OwnersFutures == Spec => []OwnFuturesReady
<1>1. ASSUME Init PROVE OwnInTime
  <2>1. late = {} /\ ~stop /\ cpc[Owner] = "ctor" /\ held[Owner] = {}
    BY <1>1, PoolAssumption DEF Init, PoolAssumption
  <2> QED BY <2>1 DEF OwnInTime, InEnqueue
<1>2. IInv /\ TasksApart /\ OwnInTime /\ [Next]_vars => OwnInTime'
  BY OwnStep
<1>3. IInv /\ OwnInTime /\ EnqueuedBeforeStopDone => OwnFuturesReady
  BY PoolAssumption
     DEF IInv, TypeOK, FutState, OwnInTime, EnqueuedBeforeStopDone, OwnFuturesReady,
         PoolAssumption
<1> QED BY <1>1, <1>2, <1>3, Invariance, EachTaskOnce, GracefulShutdown, PTL DEF Spec

-----------------------------------------------------------------------------
(* The pool is the executor of TaskExecutor: every step of it is one of    *)
(* the executor's or leaves the executor as it is.                         *)

Running  == {wtask[w] : w \in {v \in Workers : wpc[v] = "run"}}
Done     == {t \in Tasks : fut[t] = "ready"}
Admitted == {ctask[c] : c \in {d \in Clients : InEnqueue(d)}}

(* The invariant under which the steps correspond. *)
RInv == IInv /\ TasksApart

LEMMA RunningAreInHand ==
  IInv => Running = {wtask[w] : w \in {v \in Workers : wtask[v] # NoTask}}
BY DEF IInv, TasksInHand, Running

LEMMA SameRunning ==
  ASSUME IInv, IInv', UNCHANGED wtask
  PROVE  Running' = Running
<1>1. Running = {wtask[w] : w \in {v \in Workers : wtask[v] # NoTask}}
  BY RunningAreInHand
<1>2. Running' = {wtask'[w] : w \in {v \in Workers : wtask'[v] # NoTask}}
  BY DEF IInv, TasksInHand, Running
<1> QED BY <1>1, <1>2

LEMMA SameAdmitted ==
  ASSUME \A c \in Clients : InEnqueue(c)' <=> InEnqueue(c),
         \A c \in Clients : InEnqueue(c) => ctask'[c] = ctask[c]
  PROVE  Admitted' = Admitted
BY DEF Admitted

(* A step that moves no task, and neither stops the pool nor starts or     *)
(* ends one of its threads, is none of the executor's.                     *)
LEMMA ExecutorFrame ==
  ASSUME RInv, IInv', UNCHANGED <<queue, wtask, stop>>, Done' = Done,
         Admitted' = Admitted, Idle' = Idle
  PROVE  UNCHANGED Executor!vars
<1>1. Running' = Running
  BY SameRunning DEF RInv
<1> QED BY <1>1 DEF Executor!vars, Running, Done, Admitted

LEMMA IdleFinite ==
  /\ IsFiniteSet(Workers)
  /\ IsFiniteSet(Idle) /\ Cardinality(Idle) \in Nat
<1>1. IsFiniteSet(Workers)
  BY FS_Interval, PoolAssumption DEF Workers, PoolAssumption
<1>2. Idle \subseteq Workers
  BY DEF Idle
<1> QED BY <1>1, <1>2, FS_Subset, FS_CardinalityType

LEMMA OneIdleLess ==
  ASSUME NEW w \in Idle
  PROVE  Cardinality(Idle) > 0 /\ Cardinality(Idle \ {w}) = Cardinality(Idle) - 1
<1>1. IsFiniteSet(Idle \ {w}) /\ Cardinality(Idle \ {w}) = Cardinality(Idle) - 1
  BY IdleFinite, FS_RemoveElement
<1>2. Cardinality(Idle \ {w}) \in Nat
  BY <1>1, FS_CardinalityType
<1> HIDE DEF Idle
<1> QED BY <1>1, <1>2, IdleFinite

(* Joined threads have returned. *)
LEMMA NobodyLeft == ASSUME IInv, joinable = {} PROVE Idle = {} /\ Running = {}
<1>1. ASSUME NEW w \in Workers PROVE wpc[w] \in {"none", "exited"}
  <2>1. w \in Nat /\ spawned \in Nat
    BY PoolAssumption DEF IInv, TypeOK, Workers, PoolAssumption
  <2>2. w > spawned \/ w \in 1..spawned
    BY <2>1 DEF Workers
  <2> QED BY <2>2 DEF IInv, Lifecycle
<1> QED BY <1>1 DEF Idle, Running

(* The constructor hires a thread at a time; the first request to stop is  *)
(* Stop, and the pool's destruction is Discard.                            *)
LEMMA SpawnRefines == ASSUME RInv, IInv', CtorSpawn PROVE Executor!Hire
<1>0. TypeOK /\ ~stop
  BY DEF CtorSpawn, RInv, IInv, Stopping
<1>1. spawned + 1 \in Workers /\ wpc[spawned + 1] = "none"
  BY <1>0, PoolAssumption DEF CtorSpawn, RInv, IInv, Lifecycle, TypeOK, Workers, PoolAssumption
<1>2. Idle' = Idle \cup {spawned + 1} /\ spawned + 1 \notin Idle
  BY <1>0, <1>1 DEF CtorSpawn, Idle, TypeOK
<1>3. Cardinality(Idle') = Cardinality(Idle) + 1
  BY <1>2, IdleFinite, FS_AddElement
<1>4. Admitted' = Admitted
  <2>1. \A c \in Clients : InEnqueue(c)' <=> InEnqueue(c)
    BY <1>0 DEF CtorSpawn, InEnqueue, TypeOK
  <2> QED BY <2>1, SameAdmitted DEF CtorSpawn
<1>5. Running' = Running /\ Done' = Done
  BY SameRunning DEF CtorSpawn, RInv, Done
<1> QED BY <1>0, <1>3, <1>4, <1>5 DEF CtorSpawn, Executor!Hire, Running, Done, Admitted

LEMMA StopRefines ==
  ASSUME RInv, IInv', CtorFail \/ (~stop /\ (Shutdown \/ Destroy))
  PROVE  Executor!Stop
<1>0. TypeOK /\ ~stop /\ stop' /\ UNCHANGED <<queue, wtask, wpc, fut, ctask>>
  BY DEF CtorFail, Shutdown, Destroy, RequestStop, RInv, IInv, Stopping, workerVars
<1>1. \A c \in Clients : InEnqueue(c)' <=> InEnqueue(c)
  BY <1>0 DEF CtorFail, Shutdown, Destroy, RequestStop, InEnqueue, TypeOK
<1>2. Admitted' = Admitted /\ Running' = Running /\ Done' = Done /\ Idle' = Idle
  BY <1>0, <1>1, SameAdmitted DEF Running, Done, Idle
<1> QED BY <1>0, <1>2 DEF Executor!Stop, Running, Done, Admitted

LEMMA DiscardRefines == ASSUME RInv, IInv', DestroyMembers PROVE Executor!Discard
<1>0. TypeOK /\ stop /\ joinable = {}
  BY DEF DestroyMembers, RInv, IInv, Stopping, Lifecycle, TypeOK
<1>1. Idle = {} /\ Running = {} /\ UNCHANGED <<wtask, wpc, stop, ctask>> /\ queue' = <<>>
  BY <1>0, NobodyLeft DEF RInv, DestroyMembers, poolVars, workerVars
<1>2. Done' = Done
  BY <1>0 DEF DestroyMembers, Done, TypeOK, RInv, TasksApart, QueueOnce
<1>3. \A c \in Clients : InEnqueue(c)' <=> InEnqueue(c)
  BY <1>0 DEF DestroyMembers, InEnqueue, TypeOK
<1>4. Admitted' = Admitted /\ Running' = Running /\ Idle' = Idle
  BY <1>1, <1>3, SameAdmitted DEF Running, Idle
<1>5. Cardinality(Idle) = 0
  BY <1>1, FS_EmptySet
<1> QED BY <1>0, <1>1, <1>2, <1>4, <1>5 DEF Executor!Discard, Running, Done, Admitted

LEMMA OwnerRefines ==
  ASSUME RInv, IInv', OwnerStep
  PROVE  [Executor!Next]_Executor!vars
<1>0. TypeOK
  BY DEF RInv, IInv
<1>1. CASE CtorReject \/ StopCallbacks \/ JoinThread \/ ShutdownReturns
           \/ (stop /\ (Shutdown \/ Destroy))
  <2>1. UNCHANGED <<queue, wtask, stop, fut, ctask>>
    BY <1>1 DEF CtorReject, StopCallbacks, JoinThread, ShutdownReturns, Shutdown, Destroy,
                RequestStop, poolVars, workerVars, clientVars, RInv, IInv, TypeOK
  <2>2. \A c \in Clients : InEnqueue(c)' <=> InEnqueue(c)
    BY <1>0, <1>1 DEF CtorReject, StopCallbacks, JoinThread, ShutdownReturns, Shutdown,
                      Destroy, RequestStop, clientVars, InEnqueue, TypeOK
  <2>3. Idle' = Idle
    BY <1>0, <1>1 DEF CtorReject, StopCallbacks, JoinThread, ShutdownReturns, Shutdown,
                      Destroy, RequestStop, workerVars, Idle, Waiting, TypeOK
  <2>4. Done' = Done
    BY <2>1 DEF Done
  <2> QED BY <2>1, <2>2, <2>3, <2>4, SameAdmitted, ExecutorFrame
<1> QED
  BY <1>1, SpawnRefines, StopRefines, DiscardRefines DEF OwnerStep, Executor!Next

(* A call to Enqueue that passes the check is Admit, and one that does not *)
(* is nothing; from then on the caller pushes its task or drops it.        *)
LEMMA CheckRefines ==
  ASSUME RInv, IInv', NEW c \in Clients, NEW t \in Tasks, EnqueueCheck(c, t)
  PROVE  Executor!Admit(t) \/ UNCHANGED Executor!vars
<1>0. TypeOK
  BY DEF RInv, IInv
<1>1. /\ UNCHANGED <<queue, wtask, wpc, stop>>
      /\ fut[t] = "none" /\ ~InEnqueue(c) /\ \A d \in Clients : ctask[d] # t
  BY DEF EnqueueCheck, poolVars, workerVars, InEnqueue
<1>2. Running' = Running /\ Idle' = Idle
  BY <1>1 DEF Running, Idle
<1>3. CASE stop
  <2>1. Done' = Done /\ UNCHANGED <<cpc, ctask>>
    BY <1>0, <1>1, <1>3 DEF EnqueueCheck, Done, TypeOK
  <2>2. Admitted' = Admitted
    BY <2>1 DEF Admitted, InEnqueue
  <2> QED BY <1>1, <1>2, <2>1, <2>2, ExecutorFrame
<1>4. CASE ~stop
  <2>1. /\ fut' = fut /\ ctask'[c] = t /\ InEnqueue(c)'
        /\ \A d \in Clients : d # c => cpc'[d] = cpc[d] /\ ctask'[d] = ctask[d]
    BY <1>0, <1>4 DEF EnqueueCheck, TypeOK, InEnqueue
  <2>2. Admitted' = Admitted \cup {t}
    BY <1>1, <2>1 DEF Admitted, InEnqueue
  <2>3. t \notin Admitted /\ t \notin Done
    BY <1>1 DEF Admitted, Done
  <2>4. ~Queued(t)
    BY <1>1 DEF RInv, TasksApart, QueueOnce
  <2>5. t \notin Running
    BY <1>1, RunningAreInHand DEF RInv, TasksApart, WorkersApart
  <2>6. Executor!Fresh(t)
    BY <2>3, <2>4, <2>5
       DEF Executor!Fresh, Executor!Queued, Queued, Admitted, Running, Done
  <2>7. Done' = Done
    BY <2>1 DEF Done
  <2> QED BY <1>1, <1>2, <1>4, <2>2, <2>6, <2>7 DEF Executor!Admit, Admitted, Running, Done
<1> QED BY <1>3, <1>4

LEMMA PushRefines ==
  ASSUME RInv, IInv', NEW c \in Clients, EnqueuePush(c) \/ EnqueuePushFails(c)
  PROVE  \E t \in Tasks : Executor!Push(t) \/ Executor!Drop(t)
<1>0. TypeOK /\ InEnqueue(c)
  BY DEF EnqueuePush, EnqueuePushFails, InEnqueue, RInv, IInv
<1> PICK t \in Tasks : t = ctask[c]
  BY <1>0, CallersTask DEF RInv
<1>1. /\ t \in Tasks /\ fut[t] = "none"
      /\ \A d \in Clients : d # c /\ InEnqueue(d) => ctask[d] # t
  BY <1>0, CallersTask DEF RInv
<1>2. UNCHANGED <<wtask, wpc, stop, ctask>>
  BY DEF EnqueuePush, EnqueuePushFails, poolVars, workerVars
<1>3. Running' = Running /\ Idle' = Idle
  BY <1>2 DEF Running, Idle
<1>4. Done' = Done
  BY <1>0, <1>1 DEF EnqueuePush, EnqueuePushFails, Done, TypeOK
<1>5. ~InEnqueue(c)' /\ \A d \in Clients : d # c => (InEnqueue(d)' <=> InEnqueue(d))
  BY <1>0 DEF EnqueuePush, EnqueuePushFails, InEnqueue, TypeOK
<1>6. t \in Admitted
  BY <1>0 DEF Admitted
<1>7. Admitted' = Admitted \ {t}
  BY <1>1, <1>2, <1>5 DEF Admitted
<1>8. queue' = Append(queue, t) \/ queue' = queue
  BY DEF EnqueuePush, EnqueuePushFails
<1>9. Executor!Push(t) \/ Executor!Drop(t)
  BY <1>2, <1>3, <1>4, <1>6, <1>7, <1>8
     DEF Executor!Push, Executor!Drop, Admitted, Running, Done
<1> QED BY <1>9

(* A worker that takes the front is Start, one that has run it is Finish,  *)
(* and one that returns is Leave.                                          *)
LEMMA TakeRefines ==
  ASSUME RInv, NEW w \in Workers, WorkerTake(w)
  PROVE  Executor!Start
<1>0. TypeOK
  BY DEF RInv, IInv
<1>1. queue # <<>> /\ UNCHANGED <<stop, cpc, ctask, fut>>
  BY DEF WorkerTake, RInv, IInv, FrontExists, poolVars, clientVars
<1>2. Running' = Running \cup {Head(queue)}
  BY <1>0 DEF WorkerTake, Running, TypeOK
<1>3. w \in Idle /\ Idle' = Idle \ {w}
  BY <1>0 DEF WorkerTake, Idle, TypeOK
<1>4. Cardinality(Idle) > 0 /\ Cardinality(Idle') = Cardinality(Idle) - 1
  BY <1>3, OneIdleLess
<1>5. Admitted' = Admitted
  BY <1>1 DEF Admitted, InEnqueue
<1> QED BY <1>1, <1>2, <1>3, <1>4, <1>5
        DEF WorkerTake, Executor!Start, Running, Done, Admitted

LEMMA ExitRefines ==
  ASSUME RInv, IInv', NEW w \in Workers, WorkerExit(w)
  PROVE  Executor!Leave
<1>0. TypeOK
  BY DEF RInv, IInv
<1>1. stop /\ queue = <<>> /\ UNCHANGED <<queue, wtask, stop, cpc, ctask, fut>>
  BY DEF WorkerExit, poolVars, clientVars
<1>2. w \in Idle /\ Idle' = Idle \ {w}
  BY <1>0 DEF WorkerExit, Idle, TypeOK
<1>4. Cardinality(Idle) > 0 /\ Cardinality(Idle') = Cardinality(Idle) - 1
  BY <1>2, OneIdleLess
<1>5. Admitted' = Admitted /\ Done' = Done /\ Running' = Running
  BY <1>1, SameRunning DEF Admitted, InEnqueue, Done, RInv
<1> QED BY <1>1, <1>4, <1>5 DEF Executor!Leave, Running, Done, Admitted

LEMMA RunRefines ==
  ASSUME RInv, NEW w \in Workers, WorkerRun(w)
  PROVE  \E t \in Tasks : Executor!Finish(t)
<1>0. TypeOK
  BY DEF RInv, IInv
<1> PICK t \in Tasks : t = wtask[w]
  BY <1>0 DEF WorkerRun, RInv, IInv, TasksInHand, TypeOK
<1>1. t # NoTask /\ UNCHANGED <<queue, stop, cpc, ctask>>
  BY PoolAssumption DEF WorkerRun, poolVars, clientVars
<1>2. \A v \in Workers : wpc[v] = "run" /\ wtask[v] = t => v = w
  BY <1>1 DEF RInv, TasksApart, WorkersApart
<1>3. t \in Running
  BY DEF WorkerRun, Running
<1>4. Running' = Running \ {t}
  BY <1>0, <1>2 DEF WorkerRun, Running, TypeOK
<1>5. Done' = Done \cup {t}
  BY <1>0, <1>1 DEF WorkerRun, Done, TypeOK
<1>6. Cardinality(Idle') = Cardinality(Idle) + 1
  <2>1. Idle' = Idle \cup {w} /\ w \notin Idle
    BY <1>0 DEF WorkerRun, Idle, TypeOK
  <2> QED BY <2>1, IdleFinite, FS_AddElement
<1>7. Admitted' = Admitted
  BY <1>1 DEF Admitted, InEnqueue
<1>8. Executor!Finish(t)
  BY <1>1, <1>3, <1>4, <1>5, <1>6, <1>7 DEF Executor!Finish, Running, Done, Admitted
<1> QED BY <1>8

LEMMA StepRefines == RInv /\ [Next]_vars /\ RInv' => [Executor!Next]_Executor!vars
<1> SUFFICES ASSUME RInv, [Next]_vars, RInv'
             PROVE  [Executor!Next]_Executor!vars
  OBVIOUS
<1>0. IInv' /\ TypeOK
  BY DEF RInv, IInv
<1>1. ASSUME NEW c \in Clients, ClientCall(c)
      PROVE  [Executor!Next]_Executor!vars
  <2>1. ASSUME NEW t \in Tasks, EnqueueCheck(c, t)
        PROVE  [Executor!Next]_Executor!vars
    BY <1>0, <2>1, CheckRefines DEF Executor!Next
  <2>2. ASSUME NEW t \in Tasks, GetBegin(c, t)
        PROVE  UNCHANGED Executor!vars
    <3>1. UNCHANGED <<queue, wtask, wpc, stop, fut>>
      BY <2>2 DEF GetBegin, poolVars, workerVars
    <3>2. \A d \in Clients : /\ InEnqueue(d)' <=> InEnqueue(d)
                             /\ InEnqueue(d) => ctask'[d] = ctask[d]
      BY <1>0, <2>2 DEF GetBegin, InEnqueue, TypeOK
    <3> QED BY <1>0, <3>1, <3>2, SameAdmitted, ExecutorFrame DEF Done, Idle
  <2> QED BY <1>1, <2>1, <2>2 DEF ClientCall
<1>2. ASSUME NEW c \in Clients,
             \/ EnqueueLock(c) \/ EnqueueUnlock(c) \/ EnqueueNotify(c)
             \/ GetReturns(c)
      PROVE  UNCHANGED Executor!vars
  <2>1. UNCHANGED <<queue, wtask, stop, fut>>
    BY <1>2 DEF EnqueueLock, EnqueueUnlock, EnqueueNotify, GetReturns, poolVars, workerVars
  <2>2. \A d \in Clients : /\ InEnqueue(d)' <=> InEnqueue(d)
                           /\ InEnqueue(d) => ctask'[d] = ctask[d]
    BY <1>0, <1>2 DEF EnqueueLock, EnqueueUnlock, EnqueueNotify, GetReturns, InEnqueue, TypeOK
  <2>3. Idle' = Idle
    BY <1>0, <1>2
       DEF EnqueueLock, EnqueueUnlock, EnqueueNotify, NotifyOne, Waiting, GetReturns,
           workerVars, Idle, TypeOK
  <2> QED BY <1>0, <2>1, <2>2, <2>3, SameAdmitted, ExecutorFrame DEF Done
<1>3. ASSUME NEW c \in Clients, ClientStep(c)
      PROVE  [Executor!Next]_Executor!vars
  BY <1>0, <1>2, <1>3, PushRefines DEF ClientStep, Executor!Next
<1>4. ASSUME NEW w \in Workers, WorkerLock(w) \/ WorkerWait(w) \/ SpuriousWakeup(w)
      PROVE  UNCHANGED Executor!vars
  <2>1. UNCHANGED <<queue, wtask, stop, fut, cpc, ctask>>
    BY <1>4 DEF WorkerLock, WorkerWait, SpuriousWakeup, poolVars, clientVars
  <2>2. Idle' = Idle
    BY <1>0, <1>4 DEF WorkerLock, WorkerWait, SpuriousWakeup, Idle, TypeOK
  <2> QED BY <1>0, <2>1, <2>2, ExecutorFrame DEF Done, Admitted, InEnqueue
<1>5. ASSUME NEW w \in Workers, WorkerStep(w) \/ SpuriousWakeup(w)
      PROVE  [Executor!Next]_Executor!vars
  BY <1>0, <1>4, <1>5, TakeRefines, RunRefines, ExitRefines DEF WorkerStep, Executor!Next
<1>6. CASE Terminated \/ UNCHANGED vars
  BY <1>0, <1>6, ExecutorFrame
     DEF Terminated, vars, poolVars, workerVars, clientVars, Done, Admitted, InEnqueue, Idle
<1> QED BY <1>0, <1>1, <1>3, <1>5, <1>6, OwnerRefines DEF Next

(* The pool is a task executor (thread_pool.h:74-127), with any number of  *)
(* callers: nobody is admitted after a stop request, tasks start in the    *)
(* order they were pushed, each at most once and each on a thread of its   *)
(* own, and a thread returns only after a stop request, when it finds      *)
(* nothing queued.  The safety half of ImplementsExecutor; its fairness is *)
(* left to the model checker.                                              *)
THEOREM PoolIsExecutor == Spec => Executor!SafeSpec
<1>1. Init => Executor!Init
  <2>1. Init => Idle = {}
    BY DEF Init, Idle
  <2> SUFFICES ASSUME Init PROVE Executor!Init
    OBVIOUS
  <2>2. Cardinality(Idle) = 0
    BY <2>1, FS_EmptySet
  <2>3. {ctask[c] : c \in {d \in Clients : InEnqueue(d)}} = {}
    <3>1. \A d \in Clients : ~InEnqueue(d)
      BY DEF Init, InEnqueue
    <3> QED BY <3>1
  <2>4. {wtask[w] : w \in {v \in Workers : wpc[v] = "run"}} = {}
    <3>1. \A v \in Workers : wpc[v] # "run"
      BY DEF Init
    <3> QED BY <3>1
  <2>5. {t \in Tasks : fut[t] = "ready"} = {}
    BY DEF Init
  <2>6. queue = <<>> /\ stop = FALSE
    BY DEF Init
  <2> QED BY <2>2, <2>3, <2>4, <2>5, <2>6 DEF Executor!Init
<1>2. Spec => []RInv
  BY Invariance, EachTaskOnce, PTL DEF RInv
<1>3. RInv /\ [Next]_vars /\ RInv' => [Executor!Next]_Executor!vars
  BY StepRefines
<1> QED BY <1>1, <1>2, <1>3, PTL DEF Spec, Executor!SafeSpec
=============================================================================
