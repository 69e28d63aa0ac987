------------------------------ MODULE SchedLock ------------------------------
(***************************************************************************)
(* The scheduler lock of task.c: sched_lock, sched_unlock, the handler     *)
(* cleanup_scheduler_lock and the operations that take the lock in an      *)
(* unusual way (t_mode, t_delete, a task function that returns).           *)
(*                                                                         *)
(* A thread is between two accesses to shared state at each value of pc.   *)
(* p2pt_sched_lock is an ordinary NPTL mutex: unlocking it never looks at  *)
(* its owner, so the model's unlock does not either.  task_list_lock is    *)
(* held only inside one step and is left out.                              *)
(***************************************************************************)
EXTENDS Naturals, FiniteSets

CONSTANTS
    Task,       \* the started tasks
    NoTask,     \* (pthread_t)NULL
    Uses        \* what the tasks call, see Use

\* plain:     any call that brackets its work with sched_lock/sched_unlock
\* nopreempt: t_mode sets T_NOPREEMPT     preempt: t_mode clears it
\* delself:   t_delete(0) or t_delete(own tid)
\* delother:  t_delete(tid of another task)
\* return:    the task function returns to task_wrapper
AllOps == {"plain", "nopreempt", "preempt", "delself", "delother", "return"}

\* A use says which operations each task calls, whose tids are given to t_delete by
\* others, and (a bound) how many operations a task calls.
Use == [ops: [Task -> SUBSET AllOps], victims: SUBSET Task, calls: Nat]

ASSUME NoTaskAssumption == NoTask \notin Task
ASSUME UsesAssumption == Uses \subseteq Use

VARIABLES
    mutex,              \* who locked p2pt_sched_lock last, NoTask when free
    scheduler_locked,   \* the flag: the task that has the scheduler locked
    sched_lock_level,   \* nesting depth of the flag's owner
    waiting,            \* the threads asleep on sched_lock_change
    raised,             \* the threads sched_lock gave the maximum priority
    nopreempt,          \* the tasks with T_NOPREEMPT in tcb->flags
    listed,             \* the tasks on task_list
    handler,            \* the tasks with cleanup_scheduler_lock pushed
    canceled,           \* the threads with a pending pthread_cancel
    victim,             \* whom a task in t_delete cancels and joins
    op, pc, calls,      \* a thread's operation, its place, calls made so far
    use                 \* never changes

Ops      == use.ops
Victims  == use.victims
MaxCalls == use.calls

lock == <<mutex, scheduler_locked, sched_lock_level, waiting>>
task == <<raised, nopreempt, listed, handler, canceled, victim>>
ctl  == <<op, pc, calls>>
vars == <<mutex, scheduler_locked, sched_lock_level, waiting, raised, nopreempt,
          listed, handler, canceled, victim, op, pc, calls, use>>

Places == {"user", "lock", "test", "set", "wait", "waiting", "woken",
           "tcgot", "tcretry", "raise", "crit", "join", "unlock", "dec",
           "exit", "cleanup", "clear", "dead"}

TypeOK ==
    /\ mutex \in Task \cup {NoTask}
    /\ scheduler_locked \in Task \cup {NoTask}
    /\ sched_lock_level \in Nat
    /\ waiting \subseteq Task
    /\ raised \subseteq Task
    /\ nopreempt \subseteq Task
    /\ listed \subseteq Task
    /\ handler \subseteq Task
    /\ canceled \subseteq Task
    /\ victim \in [Task -> Task \cup {NoTask}]
    /\ op \in [Task -> AllOps \cup {"none", "killed"}]
    /\ pc \in [Task -> Places]
    /\ calls \in [Task -> Nat]
    /\ use \in Uses

StartLevel == 0

Init ==
    /\ mutex = NoTask /\ scheduler_locked = NoTask /\ sched_lock_level = StartLevel
    /\ waiting = {} /\ raised = {} /\ nopreempt = {} /\ canceled = {}
    /\ listed = Task /\ handler = Task
    /\ victim = [t \in Task |-> NoTask]
    /\ op = [t \in Task |-> "none"]
    /\ pc = [t \in Task |-> "user"]
    /\ calls = [t \in Task |-> 0]
    /\ use \in Uses

Goto(t, from, to) == pc[t] = from /\ pc' = [pc EXCEPT ![t] = to]

\* Mutant: the broadcast is forgotten.
Broadcast_Missing(moved) == pc' = moved /\ UNCHANGED waiting

\* pthread_cond_broadcast: every sleeper leaves the condition variable and
\* competes for the mutex.  moved is pc after the caller's own move.
Broadcast(moved) ==
    /\ waiting' = {}
    /\ pc' = [t \in Task |-> IF t \in waiting THEN "woken" ELSE moved[t]]

------------------------------------------------------------------------------
(* The calling task.                                                       *)

\* A task keeps one call back while it is not preemptible: the bound on
\* calls must not be what keeps it from allowing preemption again.
MayCall(t, o) ==
    LET left == MaxCalls - calls[t] IN
    CASE o = "preempt"   -> t \in nopreempt /\ left >= 1
      [] o = "nopreempt" -> t \notin nopreempt /\ left >= 2
      [] o \in {"plain", "delother"} -> left >= IF t \in nopreempt THEN 2 ELSE 1
      [] OTHER           -> left >= 1

Call(t, o) ==
    /\ MayCall(t, o)
    /\ Goto(t, "user", CASE o = "preempt" -> "unlock"
                         [] o = "return"  -> "cleanup"
                         [] OTHER         -> "lock")
    /\ op' = [op EXCEPT ![t] = o]
    /\ calls' = [calls EXCEPT ![t] = @ + 1]
    /\ UNCHANGED <<lock, task, use>>

------------------------------------------------------------------------------
(* sched_lock                                                              *)

LockMutex(t) ==
    /\ mutex = NoTask
    /\ mutex' = t
    /\ Goto(t, "lock", "test")
    /\ UNCHANGED <<scheduler_locked, sched_lock_level, waiting, task, op, calls>>

\* Mutant: the flag is not looked at.
FlagIsMine_Ignored(t) == TRUE
FlagIsMine(t) == scheduler_locked \in {NoTask, t}

TestFlag(t) ==
    /\ Goto(t, "test", IF FlagIsMine(t) THEN "set" ELSE "wait")
    /\ UNCHANGED <<lock, task, op, calls>>

Nested(level) == level + 1

\* The last step under the mutex and the unlock: got_lock = TRUE.
SetFlag(t) ==
    /\ pc[t] = "set"
    /\ scheduler_locked' = t
    /\ sched_lock_level' = Nested(sched_lock_level)
    /\ Broadcast([pc EXCEPT ![t] = "tcgot"])
    /\ mutex' = NoTask
    /\ UNCHANGED <<task, op, calls>>

\* pthread_cond_wait releases the mutex and goes to sleep in one step.
CondWait(t) ==
    /\ Goto(t, "wait", "waiting")
    /\ waiting' = waiting \cup {t}
    /\ mutex' = NoTask
    /\ UNCHANGED <<scheduler_locked, sched_lock_level, task, op, calls>>

\* pthread_cond_wait takes the mutex back and the loop unlocks it at once.
WakeUp(t) ==
    /\ mutex = NoTask
    /\ Goto(t, "woken", "tcretry")
    /\ UNCHANGED <<lock, task, op, calls>>

\* pthread_testcancel without a cancellation pending, and the loop's end.
TestCancel(t) ==
    /\ t \notin canceled
    /\ \/ Goto(t, "tcgot", "raise")
       \/ Goto(t, "tcretry", "lock")
    /\ UNCHANGED <<lock, task, op, calls>>

\* my_tcb finds a listed task only.  t_mode returns with the lock held.
RaisePriority(t) ==
    /\ raised' = IF t \in listed THEN raised \cup {t} ELSE raised
    /\ IF op[t] = "nopreempt"
         THEN Goto(t, "raise", "user") /\ nopreempt' = nopreempt \cup {t}
         ELSE Goto(t, "raise", "crit") /\ UNCHANGED nopreempt
    /\ UNCHANGED <<lock, listed, handler, canceled, victim, op, calls>>

------------------------------------------------------------------------------
(* What the calls do while they hold the lock.                             *)

FinishWork(t) ==
    /\ op[t] = "plain"
    /\ Goto(t, "crit", "unlock")
    /\ UNCHANGED <<lock, task, op, calls>>

\* t_delete(tid): pthread_cancel of a listed task, or ERR_OBJDEL when none has
\* this tid.
CancelOther(t) ==
    /\ op[t] = "delother"
    /\ \/ \E v \in (Victims \cap listed) \ {t} :
            /\ canceled' = canceled \cup {v}
            /\ victim' = [victim EXCEPT ![t] = v]
            /\ Goto(t, "crit", "join")
       \/ /\ Goto(t, "crit", "unlock")
          /\ UNCHANGED <<canceled, victim>>
    /\ UNCHANGED <<lock, raised, nopreempt, listed, handler, op, calls>>

\* Mutant: nobody waits for the victim.
Joined_AtOnce(v) == TRUE
Joined(v) == pc[v] = "dead"

\* pthread_join returns when the victim is gone; then tcb_delete.
JoinVictim(t) ==
    /\ Goto(t, "join", "unlock")
    /\ Joined(victim[t])
    /\ listed' = listed \ {victim[t]}
    /\ victim' = [victim EXCEPT ![t] = NoTask]
    /\ UNCHANGED <<lock, raised, nopreempt, handler, canceled, op, calls>>

\* t_delete of the caller: pthread_exit will run the handlers.
ExitSelf(t) ==
    /\ op[t] \in {"delself", "return"}
    /\ Goto(t, "crit", "exit")
    /\ UNCHANGED <<lock, task, op, calls>>

\* The handler pushed last, tcb_delete, runs first; the one task_wrapper
\* pushed runs next unless pthread_cleanup_pop(1) has already run it.
DeleteOwnTcb(t) ==
    /\ Goto(t, "exit", IF t \in handler THEN "cleanup" ELSE "dead")
    /\ listed' = listed \ {t}
    /\ raised' = IF t \in handler THEN raised ELSE raised \ {t}
    /\ UNCHANGED <<lock, nopreempt, handler, canceled, victim, op, calls>>

------------------------------------------------------------------------------
(* sched_unlock                                                            *)

UnlockMutex(t) ==
    /\ mutex = NoTask
    /\ mutex' = t
    /\ Goto(t, "unlock", "dec")
    /\ UNCHANGED <<scheduler_locked, sched_lock_level, waiting, task, op, calls>>

ReturnFrom(t) == [pc EXCEPT ![t] = "user"]

\* Mutant: an inner sched_unlock already unlocks the scheduler.
Outermost_TooEarly(level) == level <= 1
Outermost(level) == level < 1

\* Mutant: the caller keeps the maximum priority.
Restored_Never(t) == raised
Restored(t) == IF t \in listed THEN raised \ {t} ELSE raised

LeaveFlag(t) ==
    IF scheduler_locked = t
      THEN /\ sched_lock_level' = IF sched_lock_level > 0 THEN sched_lock_level - 1 ELSE 0
           /\ IF Outermost(sched_lock_level')
                THEN /\ raised' = Restored(t)
                     /\ scheduler_locked' = NoTask
                     /\ Broadcast(ReturnFrom(t))
                ELSE /\ UNCHANGED <<scheduler_locked, waiting, raised>>
                     /\ pc' = ReturnFrom(t)
      ELSE /\ UNCHANGED <<scheduler_locked, sched_lock_level, waiting, raised>>
           /\ pc' = ReturnFrom(t)

DecrementLevel(t) ==
    /\ pc[t] = "dec"
    /\ LeaveFlag(t)
    /\ mutex' = NoTask
    /\ nopreempt' = IF op[t] = "preempt" THEN nopreempt \ {t} ELSE nopreempt
    /\ op' = [op EXCEPT ![t] = "none"]
    /\ UNCHANGED <<listed, handler, canceled, victim, calls>>

------------------------------------------------------------------------------
(* Cancellation, and the handler of a thread that ends.                    *)

\* A pending cancellation takes effect at a cancellation point of the task's
\* own code, in pthread_cond_wait (which takes the mutex back before the
\* pushed pthread_mutex_unlock runs), or in pthread_testcancel.  In the last
\* case the pushed unlock releases a mutex this thread does not hold.
Killed(t, from, to) ==
    /\ t \in canceled
    /\ Goto(t, from, IF t \in handler THEN "cleanup" ELSE to)
    /\ op' = [op EXCEPT ![t] = "killed"]
    /\ raised' = IF t \in handler THEN raised ELSE raised \ {t}
    /\ UNCHANGED <<scheduler_locked, sched_lock_level, nopreempt, listed,
                   handler, canceled, victim, calls>>

KilledInUserCode(t) ==
    /\ Killed(t, "user", "dead")
    /\ UNCHANGED <<mutex, waiting>>

KilledInCondWait(t) ==
    /\ mutex = NoTask
    /\ Killed(t, "waiting", "dead")
    /\ waiting' = waiting \ {t}
    /\ UNCHANGED mutex

KilledInTestCancel(t) ==
    /\ \/ Killed(t, "tcretry", "dead")
       \/ Killed(t, "tcgot", "dead")
    /\ mutex' = NoTask
    /\ UNCHANGED waiting

CleanupLock(t) ==
    /\ mutex = NoTask
    /\ mutex' = t
    /\ Goto(t, "cleanup", "clear")
    /\ UNCHANGED <<scheduler_locked, sched_lock_level, waiting, task, op, calls>>

\* Mutant: the handler does not look for the scheduler lock.
cleanup_scheduler_lock_Missing(t) == UNCHANGED <<scheduler_locked, sched_lock_level, waiting>>

\* cleanup_scheduler_lock frees the flag but signals no one.
cleanup_scheduler_lock(t) ==
    /\ scheduler_locked' = IF scheduler_locked = t THEN NoTask ELSE scheduler_locked
    /\ sched_lock_level' = IF scheduler_locked = t THEN 0 ELSE sched_lock_level
    /\ UNCHANGED waiting

\* The handler's last step: the thread ends, or, when task_wrapper called
\* it by pthread_cleanup_pop(1), goes on to t_delete its own task.
ClearFlag(t) ==
    /\ Goto(t, "clear", IF op[t] = "return" THEN "lock" ELSE "dead")
    /\ cleanup_scheduler_lock(t)
    /\ mutex' = NoTask
    /\ nopreempt' = nopreempt \ {t}
    /\ raised' = IF op[t] = "return" THEN raised ELSE raised \ {t}
    /\ handler' = handler \ {t}
    /\ UNCHANGED <<listed, canceled, victim, op, calls>>

------------------------------------------------------------------------------
Step(t) ==
    /\ \/ LockMutex(t) \/ TestFlag(t) \/ SetFlag(t) \/ CondWait(t) \/ WakeUp(t)
       \/ TestCancel(t) \/ RaisePriority(t)
       \/ FinishWork(t) \/ CancelOther(t) \/ JoinVictim(t)
       \/ ExitSelf(t) \/ DeleteOwnTcb(t)
       \/ UnlockMutex(t) \/ DecrementLevel(t)
       \/ KilledInUserCode(t) \/ KilledInCondWait(t) \/ KilledInTestCancel(t)
       \/ CleanupLock(t) \/ ClearFlag(t)
    /\ UNCHANGED use

Next == \E t \in Task : Step(t) \/ \E o \in Ops[t] : Call(t, o)

\* Every thread inside the library keeps running, and a task that switched
\* preemption off switches it on again some day.
Fairness ==
    \A t \in Task : WF_vars(Step(t)) /\ WF_vars("preempt" \in Ops[t] /\ Call(t, "preempt"))

Spec == Init /\ [][Next]_vars
FairSpec == Spec /\ Fairness

------------------------------------------------------------------------------
(* What a thread itself may rely on, and the properties.                   *)

\* The calls between a successful sched_lock and the matching release.
HasLock(t) ==
    \/ pc[t] \in {"tcgot", "raise", "crit", "join", "exit"}
    \/ pc[t] \in {"unlock", "dec"} /\ op[t] # "preempt"
    \/ pc[t] \in {"cleanup", "clear"} /\ op[t] = "delself"

\* How often the task's own code has locked the scheduler and not unlocked.
Depth(t) == (IF t \in nopreempt THEN 1 ELSE 0) + (IF HasLock(t) THEN 1 ELSE 0)

Holders == {t \in Task : Depth(t) > 0}

\* Who is deleted by others locks nothing: a thread killed inside sched_lock unlocks
\* a mutex that it does not hold (task.c:258, 303).
Disciplined == \A v \in Victims : Ops[v] = {}
NoReturns   == \A t \in Task : "return" \notin Ops[t]
\* No task ends with the scheduler locked.
NoEnds == \A t \in Task : Ops[t] \cap {"delself", "return"} = {}

\* At most one task at a time is between sched_lock and sched_unlock, or in
\* T_NOPREEMPT mode (task.c:225-308).
OneHolder == Disciplined => \A s, t \in Holders : s = t

\* The flag and the level always describe the holder, so that the scheduler
\* is unlocked at the outermost sched_unlock and no earlier (task.c:341-388).
LevelMatchesHolder ==
    Disciplined /\ NoReturns =>
        /\ \A t \in Task : Depth(t) > 0 => scheduler_locked = t /\ sched_lock_level = Depth(t)
        /\ Holders = {} => scheduler_locked = NoTask /\ sched_lock_level = 0

\* Only the holder of the scheduler lock runs at the maximum priority, from
\* sched_lock's tail to the outermost sched_unlock (task.c:235-242).
OnlyHolderIsRaised == Disciplined => raised \subseteq Holders

\* A thread goes to sleep, and sleeps, only while somebody who will wake it
\* has the scheduler locked (task.c:296, 384).
SleepersHaveWaker ==
    Disciplined /\ NoEnds =>
        ((waiting # {} \/ \E t \in Task : pc[t] = "wait") => Holders # {})

\* A thread that ends does not take the scheduler lock with it
\* (cleanup_scheduler_lock, task.c:806-824).
OwnerIsAlive == scheduler_locked # NoTask => pc[scheduler_locked] # "dead"

\* A task control block is off the list, and freed, only once its thread
\* runs nothing but its exit handlers (t_delete, task.c:741-784).
FreedTaskIsGone ==
    \A t \in Task \ listed : pc[t] \in {"cleanup", "clear", "dead"}

\* Every operation a task calls returns, or ends the task, if no task ends with
\* the scheduler locked (task.c:225-330).
CallsComplete ==
    \A t \in Task : pc[t] = "lock" /\ Disciplined /\ NoEnds ~> pc[t] \in {"user", "dead"}

\* Who sleeps for the scheduler gets it, if all that lock it unlock it: "We will
\* 'spin' and briefly suspend until the scheduler is unlocked, and will then lock
\* it ourselves before proceeding" (task.c:241-243).
SleepersGoOn == \A t \in Task : pc[t] = "waiting" ~> pc[t] # "waiting"

\* The disciplined tasks see one recursive lock.
TheHolder == IF Holders = {} \/ ~Disciplined THEN NoTask ELSE CHOOSE t \in Task : t \in Holders
TheDepth  == IF Holders = {} \/ ~Disciplined THEN 0 ELSE Depth(TheHolder)
Abstract  == INSTANCE RecursiveLock WITH holder <- TheHolder, depth <- TheDepth

\* The scheduler lock implements RecursiveLock.
ImplementsLock == Abstract!LockSpec
==============================================================================
