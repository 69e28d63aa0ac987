-------------------------------- MODULE Tasks ---------------------------------
(***************************************************************************)
(* The life of a task (task.c): t_create, t_start, t_suspend, t_resume,    *)
(* t_delete, its priority, mode and registers, and the suspend lists it is *)
(* on while it waits at an object.                                         *)
(*                                                                         *)
(* A task, its control block and its thread have one name.  The scheduler  *)
(* lock is a flag here, taken and given back in one step each; SchedLock   *)
(* models the mutex that it is under.                                      *)
(* ObjectLists models the list of control blocks, the set listed here.     *)
(* Threads inherit their priority, as they do by default.                  *)
(***************************************************************************)
EXTENDS Naturals, Sequences, SuspendList

CONSTANTS
    Task,
    Root,       \* a thread that is no task, such as the initialization thread
    NoOne,
    Object,     \* what tasks wait at: semaphores and queues
    RootPriority,
    Uses        \* what the threads call, see Use

Caller == Task \cup {Root}

\* suspend0 is t_suspend(0).  nopreempt, preempt and tslice are the calls of t_mode.
\* startnp is t_start with T_NOPREEMPT.  wait is a call that waits at an object.
OwnOps   == {"suspend0", "nopreempt", "preempt", "tslice", "exit", "wait"}
OtherOps == {"create", "start", "startnp", "suspend", "resume", "setreg", "getreg", "setpri", "delete"}

\* A use says which operations a thread calls, and on which tasks.
Use == [Caller -> SUBSET ((OwnOps \cup OtherOps) \X Task)]

ASSUME RootAssumption == Root \notin Task
ASSUME NoOneAssumption == NoOne \notin Caller \cup Object
ASSUME UsesAssumption == Uses \subseteq Use

\* The priorities that tasks are given, and the one that is reserved; 0 is that of a
\* thread outside of real-time scheduling.
Priorities == {1, 2}
max_priority == 3

ASSUME RootPriorityAssumption == RootPriority \in 0..max_priority

VARIABLES
    listed,                     \* the tasks on task_list
    suspend_reason, suspend_list,
    nopreempt,                  \* the tasks with T_NOPREEMPT in tcb->flags
    registers, prv_priority,
    first_susp,                 \* the suspend list of each object
    thread, priority,           \* a task's thread and its scheduling priority
    attr,                       \* the priority in tcb->attr, 0 by default
    settled,                    \* history: the tasks that have unlocked the scheduler
                                \* since they were started
    stopped,                    \* the threads that SIGSTOP has stopped
    canceled,                   \* the threads with a pending pthread_cancel
    scheduler_locked, sched_lock_level,
    op, pc, tcb,                \* a thread's call, its place, its argument
    use                         \* never changes

tcbs    == <<listed, suspend_reason, nopreempt, registers, prv_priority>>
lists   == <<suspend_list, first_susp>>
prio    == <<priority, attr, settled>>
threads == <<thread, prio, stopped, canceled>>
lock    == <<scheduler_locked, sched_lock_level>>
vars    == <<listed, suspend_reason, suspend_list, nopreempt, registers, prv_priority,
             first_susp, thread, priority, attr, settled, stopped, canceled, scheduler_locked,
             sched_lock_level, op, pc, tcb, use>>

TypeOK ==
    /\ listed \subseteq Task
    /\ suspend_reason \in [Task -> {"TSTRT", "READY", "TSUSP"}]
    /\ suspend_list \in [Task -> Object \cup {NoOne}]
    /\ nopreempt \subseteq Task /\ registers \in [Task -> BOOLEAN]
    /\ prv_priority \in [Task -> Priorities]
    /\ first_susp \in [Object -> Seq(Task)]
    /\ thread \in [Task -> {"none", "running", "ended"}]
    /\ priority \in [Task -> 0..max_priority]
    /\ attr \in [Task -> {0} \cup Priorities] /\ settled \subseteq Task
    /\ stopped \subseteq Task /\ canceled \subseteq Task
    /\ scheduler_locked \in Caller \cup {NoOne} /\ sched_lock_level \in 0..2
    /\ op \in [Caller -> OwnOps \cup OtherOps \cup {"none"}]
    /\ pc \in [Caller -> {"user", "lock", "asleep", "crit", "found", "join", "unlock",
                          "asktime", "reason", "kill", "blocked", "exit", "cleanup"}]
    /\ tcb \in [Caller -> Task \cup {NoOne}]
    /\ use \in Uses

Init ==
    /\ use \in Uses
    /\ listed = {} /\ nopreempt = {} /\ stopped = {} /\ canceled = {}
    /\ suspend_reason = [k \in Task |-> "TSTRT"]
    /\ suspend_list = [k \in Task |-> NoOne]
    /\ registers = [k \in Task |-> FALSE]
    /\ prv_priority = [k \in Task |-> 1] /\ priority = [k \in Task |-> 1]
    /\ attr = [k \in Task |-> 0] /\ settled = {}
    /\ first_susp = [x \in Object |-> <<>>]
    /\ thread = [k \in Task |-> "none"]
    /\ scheduler_locked = NoOne /\ sched_lock_level = 0
    /\ op = [c \in Caller |-> "none"] /\ pc = [c \in Caller |-> "user"]
    /\ tcb = [c \in Caller |-> NoOne]

Runs(c) == c = Root \/ (c \in Task /\ thread[c] = "running" /\ c \notin stopped)
Goto(c, from, to) == pc[c] = from /\ pc' = [pc EXCEPT ![c] = to]
Call(c, o, k) == op' = [op EXCEPT ![c] = o] /\ tcb' = [tcb EXCEPT ![c] = k]
Return(c, from) == Goto(c, from, "user") /\ Call(c, "none", NoOne)

------------------------------------------------------------------------------
(* Suspend lists.  tcb_delete unlinks a task by suspend_list.              *)

\* Mutant: the pointer back to the list is set once.
ListOf_Once(k, x) == IF suspend_list[k] = NoOne THEN x ELSE suspend_list[k]
ListOf(k, x) == x

link_susp_tcb(k, x) ==
    /\ first_susp' = [first_susp EXCEPT ![x] = Append(@, k)]
    /\ suspend_list' = [suspend_list EXCEPT ![k] = ListOf(k, x)]

unlink_susp_tcb(k, x) ==
    first_susp' = IF x = NoOne THEN first_susp
                  ELSE [first_susp EXCEPT ![x] = Without(@, k)]

tcb_delete(k) ==
    /\ unlink_susp_tcb(k, suspend_list[k])
    /\ listed' = listed \ {k}
    /\ UNCHANGED suspend_list

\* sm_p, q_receive and q_vreceive link the caller, which is a task, sleep and unlink it.
Wait(c, x) ==
    /\ c \in Task /\ Goto(c, "user", "blocked")
    /\ link_susp_tcb(c, x) /\ Call(c, "wait", c)
    /\ UNCHANGED <<tcbs, threads, lock, use>>

\* A wait is a cancellation point: a canceled thread dies there.
Wake(c) ==
    /\ op[c] = "wait" /\ c \notin canceled /\ Return(c, "blocked")
    /\ \E x \in Object : c \in Members(first_susp[x]) /\ unlink_susp_tcb(c, x)
    /\ UNCHANGED <<suspend_list, tcbs, threads, lock, use>>

------------------------------------------------------------------------------
(* t_create, in one step.                                                  *)

\* Which priority a task gets does not matter here.
t_create(c, k) ==
    /\ pc[c] = "user" /\ k \notin listed /\ thread[k] # "running"
    /\ listed' = listed \cup {k}
    /\ suspend_reason' = [suspend_reason EXCEPT ![k] = "TSTRT"]
    /\ suspend_list' = [suspend_list EXCEPT ![k] = NoOne]
    /\ registers' = [registers EXCEPT ![k] = FALSE]
    /\ prv_priority' = [prv_priority EXCEPT ![k] = 1] /\ attr' = [attr EXCEPT ![k] = 1]
    /\ thread' = [thread EXCEPT ![k] = "none"]
    /\ UNCHANGED <<nopreempt, first_susp, priority, settled, stopped, canceled, lock, op, pc,
                   tcb, use>>

------------------------------------------------------------------------------
(* sched_lock and sched_unlock                                             *)

\* Mutant: the flag is not looked at.
FlagIsMine_Ignored(c) == TRUE
FlagIsMine(c) == scheduler_locked \in {NoOne, c}

\* Mutant: the sleepers are not woken.
Woken_None(moved) == moved
Woken(moved) == [c \in Caller |-> IF pc[c] = "asleep" THEN "lock" ELSE moved[c]]

\* It broadcasts, too.
sched_lock(c) ==
    /\ pc[c] = "lock" /\ FlagIsMine(c)
    /\ pc' = Woken([pc EXCEPT ![c] = "crit"])
    /\ scheduler_locked' = c /\ sched_lock_level' = sched_lock_level + 1
    /\ priority' = [k \in Task |-> IF k = c /\ k \in listed THEN max_priority ELSE priority[k]]
    /\ UNCHANGED <<tcbs, lists, thread, attr, settled, stopped, canceled, op, tcb, use>>

Sleep(c) ==
    /\ ~FlagIsMine(c) /\ Goto(c, "lock", "asleep")
    /\ UNCHANGED <<tcbs, lists, threads, lock, op, tcb, use>>

\* Mutant: the thread gets the priority it was created with.
Restored_Created(k) == 1
Restored(k) == prv_priority[k]

\* A task that suspends itself by its own tid does so after sched_unlock.
AfterUnlock(c) ==
    [pc EXCEPT ![c] = IF op[c] = "suspend" /\ tcb[c] = c THEN "asktime" ELSE "user"]

sched_unlock(c) ==
    /\ pc[c] = "unlock"
    /\ \/ /\ scheduler_locked = c /\ sched_lock_level <= 1
          /\ scheduler_locked' = NoOne /\ sched_lock_level' = 0
          /\ pc' = Woken(AfterUnlock(c))
          /\ priority' = [k \in Task |-> IF k = c /\ k \in listed THEN Restored(k)
                                         ELSE priority[k]]
          /\ settled' = settled \cup ({c} \cap listed)
       \/ /\ scheduler_locked = c /\ sched_lock_level > 1
          /\ sched_lock_level' = sched_lock_level - 1 /\ pc' = AfterUnlock(c)
          /\ UNCHANGED <<scheduler_locked, priority, settled>>
       \/ /\ scheduler_locked # c /\ pc' = AfterUnlock(c)
          /\ UNCHANGED <<scheduler_locked, sched_lock_level, priority, settled>>
    /\ nopreempt' = IF op[c] = "preempt" THEN nopreempt \ {c} ELSE nopreempt
    /\ IF AfterUnlock(c)[c] = "user" THEN Call(c, "none", NoOne) ELSE UNCHANGED <<op, tcb>>
    /\ UNCHANGED <<listed, suspend_reason, registers, prv_priority, lists, thread, attr, stopped,
                   canceled, use>>

------------------------------------------------------------------------------
(* The calls on a task begin with sched_lock and then look it up.          *)

Begin(c, o, k) ==
    /\ o \in OtherOps \ {"create", "suspend"}
    /\ Goto(c, "user", "lock") /\ Call(c, o, k)
    /\ UNCHANGED <<tcbs, lists, threads, lock, use>>

\* t_mode locks the scheduler only if the task's flag says that it is not
\* locked, and the other way round; t_delete(0) needs no lookup.
BeginOwn(c, o) ==
    /\ c \in Task
    /\ \/ o = "nopreempt" /\ c \notin nopreempt /\ Goto(c, "user", "lock")
       \/ o = "preempt" /\ c \in nopreempt /\ Goto(c, "user", "unlock")
       \/ o = "exit" /\ Goto(c, "user", "lock")
    /\ Call(c, o, c)
    /\ UNCHANGED <<tcbs, lists, threads, lock, use>>

t_mode(c) ==
    /\ op[c] = "nopreempt" /\ Return(c, "crit")
    /\ nopreempt' = nopreempt \cup {c}
    /\ UNCHANGED <<listed, suspend_reason, registers, prv_priority, lists, threads, lock, use>>

\* T_TSLICE gives the thread the priority in its attributes, which is an error
\* for the default one.
t_mode_slice(c) ==
    /\ c \in listed /\ pc[c] = "user"
    /\ priority' = [priority EXCEPT ![c] = IF attr[c] = 0 THEN @ ELSE attr[c]]
    /\ UNCHANGED <<tcbs, lists, thread, attr, settled, stopped, canceled, lock, op, pc, tcb, use>>

\* ERR_OBJDEL when the task is not there.
Find(c) ==
    /\ op[c] \in OtherOps \ {"suspend"}
    /\ Goto(c, "crit", IF tcb[c] \in listed THEN "found" ELSE "unlock")
    /\ UNCHANGED <<tcbs, lists, threads, lock, op, tcb, use>>

\* Mutant: a task is started again.
Startable_Any(k) == TRUE
Startable(k) == suspend_reason[k] = "TSTRT"

\* A task that calls it is raised; the priority of a thread that is no task is its own.
PriorityOf(c) == IF c = Root THEN RootPriority ELSE priority[c]

\* The attributes are reset and the thread inherits the starter's priority.
\* T_NOPREEMPT sets the flag and locks nothing.  When pthread_create fails, the
\* task is deleted.
t_start(c) ==
    LET k == tcb[c] IN
    /\ op[c] \in {"start", "startnp"} /\ Goto(c, "found", "unlock")
    /\ \/ /\ Startable(k)
          /\ suspend_reason' = [suspend_reason EXCEPT ![k] = "READY"]
          /\ nopreempt' = IF op[c] = "startnp" THEN nopreempt \cup {k} ELSE nopreempt \ {k}
          /\ attr' = [attr EXCEPT ![k] = 0]
          /\ \/ /\ thread' = [thread EXCEPT ![k] = "running"]
                /\ priority' = [priority EXCEPT ![k] = PriorityOf(c)]
                /\ settled' = settled \ {k}
                /\ UNCHANGED <<listed, lists>>
             \/ /\ tcb_delete(k)
                /\ UNCHANGED <<thread, priority, settled>>
       \/ /\ ~Startable(k)
          /\ UNCHANGED <<suspend_reason, nopreempt, thread, prio, listed, lists>>
    /\ UNCHANGED <<registers, prv_priority, stopped, canceled, lock, op, tcb, use>>

t_resume(c) ==
    LET k == tcb[c] IN
    /\ op[c] = "resume" /\ Goto(c, "found", "unlock")
    /\ \/ /\ suspend_reason[k] = "TSUSP"
          /\ suspend_reason' = [suspend_reason EXCEPT ![k] = "READY"]
          /\ stopped' = stopped \ {k}
       \/ /\ suspend_reason[k] # "TSUSP"                           \* ERR_NOTSUSP
          /\ UNCHANGED <<suspend_reason, stopped>>
    /\ UNCHANGED <<listed, nopreempt, registers, prv_priority, lists, thread, prio,
                   canceled, lock, op, tcb, use>>

t_setreg(c) ==
    /\ op[c] = "setreg" /\ Goto(c, "found", "unlock")
    /\ registers' = [registers EXCEPT ![tcb[c]] = TRUE]
    /\ UNCHANGED <<listed, suspend_reason, nopreempt, prv_priority, lists, threads, lock, op,
                   tcb, use>>

t_getreg(c) ==
    /\ op[c] = "getreg" /\ Goto(c, "found", "unlock")
    /\ UNCHANGED <<tcbs, lists, threads, lock, op, tcb, use>>

\* pri % max_priority, and at least the lowest priority.  Of a priority out of
\* range, too, which is an error.
translate_priority(pri) ==
    IF pri % max_priority = 0 THEN 1 ELSE pri % max_priority

\* For another task it changes the attributes, not the priority of the thread.
t_setpri(c) ==
    /\ op[c] = "setpri" /\ Goto(c, "found", "unlock")
    /\ \E pri \in 1..(max_priority + 1) :
         /\ prv_priority' = [prv_priority EXCEPT ![tcb[c]] = translate_priority(pri)]
         /\ attr' = IF tcb[c] = c THEN attr
                    ELSE [attr EXCEPT ![tcb[c]] = translate_priority(pri)]
    /\ UNCHANGED <<listed, suspend_reason, nopreempt, registers, lists, thread, priority, settled,
                   stopped, canceled, lock, op, tcb, use>>

------------------------------------------------------------------------------
(* t_suspend.  The lookup and the first test come before sched_lock.       *)

\* ERR_OBJDEL or ERR_SUSP otherwise, without a change.
BeginSuspend(c, k) ==
    /\ k \in listed /\ suspend_reason[k] # "TSUSP"
    /\ Goto(c, "user", "lock") /\ Call(c, "suspend", k)
    /\ UNCHANGED <<tcbs, lists, threads, lock, use>>

\* t_suspend(0) has no such test.
BeginSuspendSelf(c) ==
    /\ c \in listed
    /\ Goto(c, "user", "asktime") /\ Call(c, "suspend0", c)
    /\ UNCHANGED <<tcbs, lists, threads, lock, use>>

t_suspend(c) ==
    LET k == tcb[c] IN
    /\ op[c] = "suspend" /\ Goto(c, "crit", "unlock")
    /\ \/ /\ k # c
          /\ suspend_reason' = [suspend_reason EXCEPT ![k] = "TSUSP"]
          /\ stopped' = stopped \cup {k}
       \/ k = c /\ UNCHANGED <<suspend_reason, stopped>>
    /\ UNCHANGED <<listed, nopreempt, registers, prv_priority, lists, thread, prio,
                   canceled, lock, op, tcb, use>>

\* Mutant: a task suspends itself with the scheduler locked.
MaySuspendSelf_Always(c) == TRUE
MaySuspendSelf(c) == scheduler_locked # c

\* The flag is tested under p2pt_sched_lock.
TestOwnLock(c) ==
    /\ IF MaySuspendSelf(c) THEN Goto(c, "asktime", "reason") /\ UNCHANGED <<op, tcb>>
                            ELSE Return(c, "asktime")
    /\ UNCHANGED <<tcbs, lists, threads, lock, use>>

\* Without any lock.
SetReason(c) ==
    /\ Goto(c, "reason", "kill")
    /\ suspend_reason' = [suspend_reason EXCEPT ![c] = "TSUSP"]
    /\ UNCHANGED <<listed, nopreempt, registers, prv_priority, lists, threads, lock, op, tcb, use>>

StopSelf(c) ==
    /\ Return(c, "kill")
    /\ stopped' = stopped \cup {c}
    /\ UNCHANGED <<tcbs, lists, thread, prio, canceled, lock, use>>

------------------------------------------------------------------------------
(* t_delete and the end of a thread.                                       *)

t_delete(c) ==
    /\ op[c] = "delete"
    /\ \/ /\ tcb[c] # c
          /\ canceled' = canceled \cup {tcb[c]}
          /\ Goto(c, "found", "join")
       \/ /\ tcb[c] = c
          /\ Goto(c, "found", "exit") /\ UNCHANGED canceled
    /\ UNCHANGED <<tcbs, lists, thread, prio, stopped, lock, op, tcb, use>>

DeleteSelf(c) ==
    /\ op[c] = "exit" /\ Goto(c, "crit", "exit")
    /\ UNCHANGED <<tcbs, lists, threads, lock, op, tcb, use>>

\* pthread_join, then tcb_delete.
Join(c) ==
    /\ Goto(c, "join", "unlock") /\ thread[tcb[c]] = "ended"
    /\ tcb_delete(tcb[c])
    /\ UNCHANGED <<suspend_reason, nopreempt, registers, prv_priority, threads, lock, op, tcb, use>>

\* tcb_delete is the handler pushed last.
Exit(c) ==
    /\ Goto(c, "exit", "cleanup")
    /\ tcb_delete(c)
    /\ UNCHANGED <<suspend_reason, nopreempt, registers, prv_priority, threads, lock, op, tcb, use>>

\* A canceled thread ends in its own code, where it waits or where it sleeps for the
\* scheduler, if it runs.
Die(c) ==
    /\ c \in canceled
    /\ \E place \in {"user", "blocked", "asleep"} : Goto(c, place, "cleanup")
    /\ UNCHANGED <<tcbs, lists, threads, lock, op, tcb, use>>

\* It frees the scheduler lock and wakes nobody.
cleanup_scheduler_lock(c) ==
    /\ scheduler_locked' = IF scheduler_locked = c THEN NoOne ELSE scheduler_locked
    /\ sched_lock_level' = IF scheduler_locked = c THEN 0 ELSE sched_lock_level
    /\ thread' = [thread EXCEPT ![c] = "ended"]
    /\ Return(c, "cleanup")
    /\ nopreempt' = nopreempt \ {c}
    /\ canceled' = canceled \ {c}
    /\ UNCHANGED <<listed, suspend_reason, registers, prv_priority, lists, prio, stopped, use>>

------------------------------------------------------------------------------
\* What the callers have to see to: only a task that runs is suspended or
\* deleted by others, a suspended one is not deleted, and one that suspends
\* itself is resumed when it has stopped.
Careful(o, k) ==
    /\ o \in {"suspend", "delete"} => thread[k] = "running"
    /\ o = "delete" => k \notin stopped
    /\ o = "resume" => k \in stopped

Invoke(c, o, k) ==
    \/ o = "create" /\ t_create(c, k)
    \/ Careful(o, k) /\ Begin(c, o, k)
    \/ o = "suspend" /\ Careful(o, k) /\ BeginSuspend(c, k)
    \/ o = "suspend0" /\ BeginSuspendSelf(c)
    \/ o = "tslice" /\ t_mode_slice(c)
    \/ BeginOwn(c, o)
    \/ o = "wait" /\ \E x \in Object : Wait(c, x)

Step(c) ==
    \/ Wake(c) \/ sched_lock(c) \/ Sleep(c) \/ sched_unlock(c)
    \/ t_mode(c) \/ Find(c) \/ t_start(c) \/ t_resume(c) \/ t_setreg(c) \/ t_getreg(c)
    \/ t_setpri(c) \/ t_suspend(c) \/ TestOwnLock(c) \/ SetReason(c) \/ StopSelf(c)
    \/ t_delete(c) \/ DeleteSelf(c) \/ Join(c) \/ Exit(c) \/ Die(c) \/ cleanup_scheduler_lock(c)

Next == \E c \in Caller : Runs(c) /\ (Step(c) \/ \E ok \in use[c] : Invoke(c, ok[1], ok[2]))

Spec == Init /\ [][Next]_vars

\* Threads that run go on; who sleeps for the scheduler gets it at last; and a
\* task that is not preemptible becomes so again, or ends.
FairSpec ==
    /\ Spec
    /\ \A c \in Caller : SF_vars(Runs(c) /\ Step(c)) /\ SF_vars(Runs(c) /\ sched_lock(c))
    /\ \A c \in Task : SF_vars(Runs(c) /\ <<"preempt", c>> \in use[c] /\ BeginOwn(c, "preempt"))

------------------------------------------------------------------------------
\* A control block that a call has looked up stays allocated until the call is
\* done with it (tcb_for under sched_lock, task.c:763, 1040, 1275).
FoundIsThere ==
    \A c \in Caller :
        pc[c] \in {"found", "join"} \/ (op[c] = "suspend" /\ pc[c] \in {"lock", "asleep", "crit"})
            => tcb[c] \in listed

\* No freed control block is on the suspend list of an object ("Remove the task
\* from the suspend list for any object it is pending on", task.c:668).
FreedOnNoList == \A x \in Object : Members(first_susp[x]) \subseteq listed

\* A stopped task is one that t_resume makes runnable (task.c:1184, 1280).
StoppedIsSuspended ==
    \A k \in stopped \cap listed : thread[k] = "running" => suspend_reason[k] = "TSUSP"

\* A stopped task does not have the scheduler locked: "Don't suspend if currently executing task has
\* the scheduler locked!" (task.c:1159).
StoppedIsFree == scheduler_locked \notin stopped

\* A task in its own code that has the scheduler locked is at the highest priority
\* (task.c:220-223); one that has not, and has unlocked it since it was started, is at
\* the priority that it set last: "the sched_unlock operation will restore this task
\* to the new priority level" (task.c:1474-1478).  Of a task whose priority others set
\* this is not so.
OthersSet(k) == \E c \in Caller \ {k} : <<"setpri", k>> \in use[c]
PriorityInEffect ==
    \A k \in listed :
        thread[k] = "running" /\ pc[k] \in {"user", "blocked"} /\ ~OthersSet(k) =>
            /\ scheduler_locked = k => priority[k] = max_priority
            /\ scheduler_locked # k /\ k \in settled => priority[k] = prv_priority[k]

\* A task runs from its start at the priority it was created with, or has set: "the
\* priority of the task has been set by the arg 'pri' of t_create() function"
\* (p2linux.h:69-72).  The thread inherits another one (task.c:1057, 1093): StartUses in MCTasks.
StartsAtItsPriority ==
    \A k \in listed :
        thread[k] = "running" /\ pc[k] = "user" /\ scheduler_locked # k /\ ~OthersSet(k)
            => priority[k] = prv_priority[k]

\* A task in its own code that has the scheduler locked is "above that of any other
\* thread, thus guaranteeing that no other tasks preempt it" (task.c:220-223), also
\* after t_mode (task.c:1549-1559), which breaks it: SliceUses in MCTasks.
RaisedWhileLocked ==
    \A k \in listed :
        thread[k] = "running" /\ pc[k] = "user" /\ scheduler_locked = k
            => priority[k] = max_priority

\* Every call that locks the scheduler returns, whoever is suspended, resumed and
\* deleted meanwhile, when its caller is not stopped itself, if no task deletes itself:
\* cleanup_scheduler_lock wakes nobody (task.c:710-1575).
DeletesItself(c) == c \in Task /\ {<<"exit", c>>, <<"delete", c>>} \cap use[c] # {}
CallsReturn ==
    \A c \in Caller :
        pc[c] = "lock" /\ ~(\E d \in Caller : DeletesItself(d)) ~> pc[c] = "user" \/ c \in stopped
==============================================================================
