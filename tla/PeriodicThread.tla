--------------------------- MODULE PeriodicThread ---------------------------
(***************************************************************************)
(* util/periodic_thread.cpp: a thread that runs a task once in a period    *)
(* until it is stopped.  The member thread is declared before the mutex,   *)
(* the condition variable and the stop flag.  It is therefore initialised  *)
(* first, and may be running before they exist, and destroyed last: it is  *)
(* joined only when they are gone.  It waits with a timeout, so that a     *)
(* notification it misses only delays it.                                  *)
(***************************************************************************)
EXTENDS Naturals

CONSTANT CtorFirst    \* the constructor ends before the thread first runs

ASSUME PeriodicAssumption == CtorFirst \in BOOLEAN

VARIABLES thread,     \* pc of the thread
          members,    \* mutex and cv (and stopped): not yet, there, destroyed
          stopped     \* PeriodicThread::stopped

periodicVars == <<thread, members, stopped>>

PeriodicTypeOK ==
    /\ thread \in {"none", "check", "lock", "wait", "task", "exited", "stuck"}
    /\ members \in {"none", "ready", "gone"}
    /\ stopped \in BOOLEAN

PeriodicInit == thread = "none" /\ members = "none" /\ stopped = FALSE

StartThread ==
    /\ thread = "none"
    /\ thread' = "check"
    /\ UNCHANGED <<members, stopped>>

InitMembers ==
    /\ thread # "none" /\ members = "none"
    /\ members' = "ready"
    /\ stopped' = FALSE
    /\ UNCHANGED thread

\* The thread gets to run.
Runs == members # "none" \/ ~CtorFirst

\* What a read of stopped may return; its memory outlives the join.
Reads == IF members = "none" THEN BOOLEAN ELSE {stopped}

\* while (!stopped), without the lock.
PeriodicCheck ==
    /\ thread = "check" /\ Runs
    /\ \E v \in Reads : thread' = IF v THEN "exited" ELSE "lock"
    /\ UNCHANGED <<members, stopped>>

\* The lock, and the first look at the predicate of the wait.  A mutex that
\* is not initialised may look as if it were held, for ever.
PeriodicLock ==
    /\ thread = "lock"
    /\ thread' \in {IF v THEN "exited" ELSE "wait" : v \in Reads}
                   \cup (IF members = "none" THEN {"stuck"} ELSE {})
    /\ UNCHANGED <<members, stopped>>

\* The end of the wait: notified or timed out.  The mutex is locked again.
PeriodicWake ==
    /\ thread = "wait"
    /\ \E v \in Reads : thread' = IF v THEN "exited" ELSE "task"
    /\ UNCHANGED <<members, stopped>>

PeriodicReturn ==
    /\ thread = "task"
    /\ thread' = "check"
    /\ UNCHANGED <<members, stopped>>

\* stop(); a second call does nothing.
StopThread ==
    /\ members = "ready"
    /\ stopped' = TRUE
    /\ UNCHANGED <<thread, members>>

\* The destructor has called stop(): cv and mutex are destroyed.
DestroyMembers ==
    /\ stopped /\ members = "ready"
    /\ members' = "gone"
    /\ UNCHANGED <<thread, stopped>>

\* The thread's next step locks a mutex that is destroyed.
LocksDestroyed == members = "gone" /\ thread \in {"lock", "wait"}

\* The end of the destructor: the jthread is joined.
Joinable == members = "gone" /\ thread = "exited"
=============================================================================
