---------------------------- MODULE TaskExecutor ----------------------------
(***************************************************************************)
(* What hwmod5::ThreadPool does for its callers, however many they are,    *)
(* without locks or condition variables.  A caller is admitted unless stop *)
(* was requested, and pushes its task later; tasks are started in the      *)
(* order they were pushed, each at most once, by as many threads as there  *)
(* are; after a stop request a thread returns only when it finds the queue *)
(* empty, and nobody runs what is pushed when all have returned            *)
(* (thread_pool.h:74-127, thread_pool.cc:23-60).                           *)
(***************************************************************************)
EXTENDS Naturals, Sequences

CONSTANT Tasks

VARIABLES
  admitted, \* tasks whose caller has passed the check, not pushed yet
  queue,    \* tasks that have not started, oldest first
  running,  \* tasks that a thread is executing
  done,     \* tasks whose future is ready
  idle,     \* how many threads there are that execute no task
  stopped   \* stop was requested

vars == <<admitted, queue, running, done, idle, stopped>>

Queued(t) == \E i \in DOMAIN queue : queue[i] = t

Fresh(t) == ~Queued(t) /\ t \notin admitted \cup running \cup done

Init ==
  /\ admitted = {} /\ running = {} /\ done = {}
  /\ queue = <<>>
  /\ idle = 0
  /\ stopped = FALSE

Hire ==
  /\ ~stopped
  /\ idle' = idle + 1
  /\ UNCHANGED <<admitted, queue, running, done, stopped>>

Admit(t) ==
  /\ ~stopped
  /\ Fresh(t)
  /\ admitted' = admitted \cup {t}
  /\ UNCHANGED <<queue, running, done, idle, stopped>>

(* Stopped or not: the caller does not look again. *)
Push(t) ==
  /\ t \in admitted
  /\ admitted' = admitted \ {t}
  /\ queue' = Append(queue, t)
  /\ UNCHANGED <<running, done, idle, stopped>>

(* There is no memory for the task. *)
Drop(t) ==
  /\ t \in admitted
  /\ admitted' = admitted \ {t}
  /\ UNCHANGED <<queue, running, done, idle, stopped>>

Start ==
  /\ queue # <<>>
  /\ idle > 0
  /\ idle' = idle - 1
  /\ running' = running \cup {Head(queue)}
  /\ queue' = Tail(queue)
  /\ UNCHANGED <<admitted, done, stopped>>

Finish(t) ==
  /\ t \in running
  /\ running' = running \ {t}
  /\ done' = done \cup {t}
  /\ idle' = idle + 1
  /\ UNCHANGED <<admitted, queue, stopped>>

Stop ==
  /\ ~stopped
  /\ stopped' = TRUE
  /\ UNCHANGED <<admitted, queue, running, done, idle>>

Leave ==
  /\ stopped /\ queue = <<>>
  /\ idle > 0
  /\ idle' = idle - 1
  /\ UNCHANGED <<admitted, queue, running, done, stopped>>

(* The queue is destroyed, with what was pushed too late. *)
Discard ==
  /\ stopped /\ idle = 0 /\ running = {}
  /\ queue' = <<>>
  /\ UNCHANGED <<admitted, running, done, idle, stopped>>

Next ==
  \/ Hire \/ Start \/ Stop \/ Leave \/ Discard
  \/ \E t \in Tasks : Admit(t) \/ Push(t) \/ Drop(t) \/ Finish(t)

SafeSpec == Init /\ [][Next]_vars

(* Callers that were admitted and threads go on; nobody has to call.       *)
Fairness ==
  /\ WF_vars(Start) /\ WF_vars(Leave)
  /\ \A t \in Tasks : WF_vars(Push(t) \/ Drop(t)) /\ WF_vars(Finish(t))

Spec == SafeSpec /\ Fairness
=============================================================================
