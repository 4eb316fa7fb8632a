----------------------------- MODULE ThreadPool -----------------------------
(***************************************************************************)
(* The pool of worker threads of a node (util/thread_pool.cpp): a queue of *)
(* tasks under a mutex, a condition variable, a stop flag, and the         *)
(* destructor that runs while workers and submitters are still about.      *)
(*                                                                         *)
(* An action is one critical section, or one step outside of them.  The    *)
(* members are destroyed in the reverse of their declaration: the          *)
(* condition variable, the mutex and the queue before the workers are      *)
(* joined.  The object's memory is there until they are: a worker that     *)
(* comes late finds a mutex and a queue whose lifetime is over, which it   *)
(* may or may not survive, and no task.                                    *)
(***************************************************************************)
EXTENDS Naturals, Sequences, FiniteSets

CONSTANTS Workers, Submitters,
          Tasks,       \* what may be submitted
          NoTask

ASSUME PoolAssumption ==
    /\ IsFiniteSet(Workers) /\ IsFiniteSet(Submitters)
    /\ NoTask \notin Tasks

VARIABLES pool,       \* how far construction and destruction have got
          tasks,      \* ThreadPool::tasks
          stop,       \* ThreadPool::stop
          worker,     \* pc and task of each worker
          notifying,  \* submitters between the unlock and notify_one()
          failed      \* an access to something destroyed, or "no"

poolVars == <<pool, tasks, stop, worker, notifying>>

Pcs == {"unborn", "check", "lock", "asleep", "woken", "run", "exited"}

PoolTypeOK ==
    /\ pool \in {"none", "alive", "stopping", "notified", "dead", "gone"}
    /\ tasks \in Seq(Tasks)
    /\ stop \in BOOLEAN
    /\ worker \in [Workers -> [pc : Pcs, task : Tasks \cup {NoTask}]]
    /\ notifying \subseteq Submitters

PoolInit ==
    /\ pool = "none"
    /\ tasks = <<>>
    /\ stop = FALSE
    /\ worker = [w \in Workers |-> [pc |-> "unborn", task |-> NoTask]]
    /\ notifying = {}

At(pc)     == {w \in Workers : worker[w].pc = pc}
Go(w, pc)  == worker' = [worker EXCEPT ![w].pc = pc]
Woken(S)   == [w \in Workers |-> IF w \in S THEN [worker[w] EXCEPT !.pc = "woken"]
                                            ELSE worker[w]]
Locks      == pool \in {"alive", "stopping", "notified"}   \* mutex and cv exist

\* The constructor starts the workers when every member is initialised.
MakePool ==
    /\ pool = "none"
    /\ pool' = "alive"
    /\ worker' = [w \in Workers |-> [worker[w] EXCEPT !.pc = "check"]]
    /\ UNCHANGED <<tasks, stop, notifying, failed>>

---------------------------------------------------------------------------
(* enqueueTask(): the push under the lock, the notification after it.      *)

Enqueue(s, t) ==
    /\ s \notin notifying
    /\ IF Locks THEN /\ tasks' = Append(tasks, t)
                     /\ notifying' = notifying \cup {s}
                     /\ UNCHANGED failed
                ELSE failed' = "pool" /\ UNCHANGED <<tasks, notifying>>
    /\ UNCHANGED <<pool, stop, worker>>

\* Mutant of NotifyOne: the push notifies only if the queue was empty before,
\* as seen after the unlock.
NotifyIfFirst(s) ==
    /\ s \in notifying
    /\ notifying' = notifying \ {s}
    /\ IF At("asleep") # {} /\ Len(tasks) <= 1
       THEN \E w \in At("asleep") : worker' = Woken({w})
       ELSE UNCHANGED worker
    /\ UNCHANGED <<pool, tasks, stop, failed>>

NotifyOne(s) ==
    /\ s \in notifying
    /\ notifying' = notifying \ {s}
    /\ failed' = IF Locks THEN failed ELSE "pool"
    /\ IF At("asleep") # {} THEN \E w \in At("asleep") : worker' = Woken({w})
                            ELSE UNCHANGED worker
    /\ UNCHANGED <<pool, tasks, stop>>

---------------------------------------------------------------------------
(* workerFunction().                                                       *)

\* while (!stop), without the lock.
WorkerCheck(w) ==
    /\ worker[w].pc = "check"
    /\ Go(w, IF stop THEN "exited" ELSE "lock")
    /\ UNCHANGED <<pool, tasks, stop, notifying, failed>>

\* The lock is taken, or taken again after a wait.
HasLock(w) == worker[w].pc \in {"lock", "woken"}

WorkerSleep(w) ==
    /\ HasLock(w)
    /\ ~stop /\ tasks = <<>>
    /\ Go(w, "asleep")
    /\ UNCHANGED <<pool, tasks, stop, notifying, failed>>

\* What comes of locking the mutex and looking into the queue.
LockOutcomes == IF Locks THEN {failed} ELSE {failed, "locks"}

WorkerExit(w) ==
    /\ HasLock(w)
    /\ stop /\ tasks = <<>>
    /\ Go(w, "exited")
    /\ failed' \in LockOutcomes
    /\ UNCHANGED <<pool, tasks, stop, notifying>>

\* A task is taken even after the stop; from a queue already destroyed it is
\* a task that no longer exists.
WorkerTake(w) ==
    /\ HasLock(w)
    /\ tasks # <<>>
    /\ IF Locks
       THEN /\ worker' = [worker EXCEPT ![w] = [pc |-> "run", task |-> Head(tasks)]]
            /\ tasks' = Tail(tasks)
            /\ UNCHANGED failed
       ELSE failed' = "tasks" /\ UNCHANGED <<worker, tasks>>
    /\ UNCHANGED <<pool, stop, notifying>>

\* The task returns.  One that throws leaves its exception in the
\* packaged_task, and the worker goes on.
WorkerReturn(w) ==
    /\ worker[w].pc = "run"
    /\ worker' = [worker EXCEPT ![w] = [pc |-> "check", task |-> NoTask]]
    /\ UNCHANGED <<pool, tasks, stop, notifying>>

---------------------------------------------------------------------------
(* ~ThreadPool().                                                          *)

DtorStop ==
    /\ pool = "alive"
    /\ stop' = TRUE
    /\ pool' = "stopping"
    /\ UNCHANGED <<tasks, worker, notifying, failed>>

\* Mutant of DtorNotify: one worker is woken.
DtorNotifyOne ==
    /\ pool = "stopping"
    /\ pool' = "notified"
    /\ IF At("asleep") # {} THEN \E w \in At("asleep") : worker' = Woken({w})
                            ELSE UNCHANGED worker
    /\ UNCHANGED <<tasks, stop, notifying, failed>>

DtorNotify ==
    /\ pool = "stopping"
    /\ pool' = "notified"
    /\ worker' = Woken(At("asleep"))
    /\ UNCHANGED <<tasks, stop, notifying, failed>>

\* cv, tasksMutex and tasks are destroyed.
DtorMembers ==
    /\ pool = "notified"
    /\ pool' = "dead"
    /\ UNCHANGED <<tasks, stop, worker, notifying, failed>>

\* The jthreads in workers are joined.
DtorJoin ==
    /\ pool = "dead"
    /\ Workers = At("exited")
    /\ pool' = "gone"
    /\ UNCHANGED <<tasks, stop, worker, notifying, failed>>

---------------------------------------------------------------------------

\* Workers that will look at the queue before they sleep.
OnTheWay == At("check") \cup At("lock") \cup At("woken")

\* No worker sleeps while a task waits that neither a worker on its way nor a
\* notification will take care of: notify_one() comes after the unlock
\* (thread_pool.cpp:24-28), so another worker may have stolen the task it
\* announces, and one that is busy in a handler is never told.
WorkConserving ==
    pool = "alive" /\ At("asleep") # {} =>
        Len(tasks) <= Cardinality(notifying) + Cardinality(OnTheWay)
=============================================================================
