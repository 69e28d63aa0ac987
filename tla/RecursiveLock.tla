---------------------------- MODULE RecursiveLock ----------------------------
(***************************************************************************)
(* What sched_lock and sched_unlock of task.c promise: a lock with one     *)
(* holder, which may take it again and gives it up at the outermost        *)
(* release.  A task that is deleted gives up whatever it holds.            *)
(***************************************************************************)
EXTENDS Naturals

CONSTANTS
    Task,       \* the threads that use the lock
    NoTask      \* the value of the holder of a free lock

VARIABLES
    holder,     \* the task that holds the lock, or NoTask
    depth       \* how many more releases than acquisitions are still due

lockVars == <<holder, depth>>

LockInit == holder = NoTask /\ depth = 0

\* A task takes a free lock, or takes its own lock once more.
Acquire(t) ==
    /\ holder \in {NoTask, t}
    /\ holder' = t
    /\ depth' = depth + 1

\* The holder undoes its latest acquisition.
Release(t) ==
    /\ holder = t
    /\ depth' = depth - 1
    /\ holder' = IF depth = 1 THEN NoTask ELSE t

\* The holder dies and everything it held goes with it.
Abandon(t) ==
    /\ holder = t
    /\ holder' = NoTask
    /\ depth' = 0

LockNext == \E t \in Task : Acquire(t) \/ Release(t) \/ Abandon(t)

LockSpec == LockInit /\ [][LockNext]_lockVars
==============================================================================
