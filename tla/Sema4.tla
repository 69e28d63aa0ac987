-------------------------------- MODULE Sema4 --------------------------------
(***************************************************************************)
(* One semaphore of sema4.c: sm_p, sm_v, sm_delete, and t_delete of a task *)
(* that waits in sm_p.                                                     *)
(*                                                                         *)
(* Every call first looks the control block up without any lock.  sm_p     *)
(* works under sema4_lock and gives it up in two places: asleep on the     *)
(* condition variable sema4_send, and in the tick it naps when there is a  *)
(* token but another task's turn.  The scheduler lock is one variable      *)
(* here; SchedLock is its detailed model.                                  *)
(***************************************************************************)
EXTENDS Naturals, Sequences, SuspendList

CONSTANTS
    Task, NoTask,
    Prio,           \* a task's prv_priority
    Uses            \* the ways the semaphore is created and used, see Use

\* wait, timed, nowait: sm_p without and with max_wait, and with SM_NOWAIT
\* post: sm_v     delete: sm_delete     kill: t_delete of a victim
Pends  == {"wait", "timed", "nowait"}
AllOps == Pends \cup {"post", "delete", "kill"}

\* count and prior are what sm_create is given.  The rest is what the tasks do:
\* the operations each of them calls, and at most how often (a bound), whom
\* t_delete is called for, and whether sm_delete is called only when no call is
\* under way, blocked ones apart.
Use == [count : Nat, prior : BOOLEAN, ops : [Task -> SUBSET AllOps], calls : Nat,
        victims : SUBSET Task, quiet : BOOLEAN]

ASSUME NoTaskAssumption == NoTask \notin Task
ASSUME PrioAssumption == Prio \in [Task -> Nat]
ASSUME UsesAssumption ==
    Uses \subseteq Use /\ \A u \in Uses : \A v \in u.victims : u.ops[v] \subseteq Pends

VARIABLES
    count,          \* pthread_sema4
    first_susp,     \* the list of waiting tasks
    send_type,      \* SEND or KILLD
    live,           \* the control block is on sema4_list, and not freed
    sema4_lock, smdel_lock, sched,      \* owners of the locks
    op, pc, calls,
    expired,        \* the deadline of the call is in the past
    retcode,        \* 0 or ETIMEDOUT
    result,         \* what the last sm_p returned
    canceled, victim,
    use             \* never changes

sem  == <<count, first_susp, send_type, live>>
loc  == <<sema4_lock, smdel_lock, sched>>
call == <<op, calls, expired, retcode, result>>
kill == <<canceled, victim, use>>
vars == <<count, first_susp, send_type, live, sema4_lock, smdel_lock, sched, op,
          pc, calls, expired, retcode, result, canceled, victim, use>>

\* The places of sm_p that hold sema4_lock.
Inside == {"check", "again", "took", "leave", "signal", "unlock"}

TypeOK ==
    /\ count \in Nat
    /\ first_susp \in Seq(Task)
    /\ send_type \in {"SEND", "KILLD"}
    /\ live \in BOOLEAN
    /\ {sema4_lock, smdel_lock, sched} \subseteq Task \cup {NoTask}
    /\ op \in [Task -> AllOps]
    /\ pc \in [Task -> Inside \cup {"idle", "found", "wait", "woken", "nap", "locked",
                  "kill", "killing", "drain", "asleep", "drained", "free", "join", "dead"}]
    /\ calls \in [Task -> Nat]
    /\ expired \in [Task -> BOOLEAN]
    /\ retcode \in [Task -> {"0", "ETIMEDOUT"}]
    /\ result \in [Task -> {"none", "token", "timeout", "killed"}]
    /\ canceled \in [Task -> BOOLEAN]
    /\ victim \in [Task -> Task \cup {NoTask}]
    /\ use \in Uses

Init ==
    /\ use \in Uses
    /\ count = use.count /\ first_susp = <<>> /\ send_type = "SEND" /\ live = TRUE
    /\ sema4_lock = NoTask /\ smdel_lock = NoTask /\ sched = NoTask
    /\ op = [t \in Task |-> "wait"]
    /\ pc = [t \in Task |-> "idle"]
    /\ calls = [t \in Task |-> 0]
    /\ expired = [t \in Task |-> FALSE]
    /\ retcode = [t \in Task |-> "0"]
    /\ result = [t \in Task |-> "none"]
    /\ canceled = [t \in Task |-> FALSE]
    /\ victim = [t \in Task |-> NoTask]

Goto(t, from, to) == pc[t] = from /\ pc' = [pc EXCEPT ![t] = to]
Waiting == Members(first_susp)
Unlinked(t) == Without(first_susp, t)

\* pthread_cond_broadcast of sema4_send.  moved is pc after the caller's own move.
Woken(moved) == [t \in Task |-> IF pc[t] = "wait" THEN "woken" ELSE moved[t]]

------------------------------------------------------------------------------
(* A call starts with smcb_for, which takes no lock.                       *)

NoCallUnderWay ==
    \A t \in Task : pc[t] \in {"idle", "check", "again", "wait", "woken", "nap", "dead"}
NoDelete == \A t \in Task : pc[t] = "idle" \/ op[t] # "delete"

Lookup(t, o) ==
    /\ calls[t] < use.calls
    /\ o = "kill" \/ live
    /\ use.quiet => NoDelete /\ (o = "delete" => NoCallUnderWay)
    /\ Goto(t, "idle", "found")
    /\ op' = [op EXCEPT ![t] = o]
    /\ calls' = [calls EXCEPT ![t] = @ + 1]
    /\ UNCHANGED <<sem, loc, expired, retcode, result, kill>>

------------------------------------------------------------------------------
(* sm_p                                                                    *)

\* link_susp_tcb.  SM_NOWAIT waits with a deadline that is now.
LinkSelf(t) ==
    /\ op[t] \in Pends /\ sema4_lock = NoTask
    /\ Goto(t, "found", "check")
    /\ sema4_lock' = t
    /\ first_susp' = Append(first_susp, t)
    /\ expired' = [expired EXCEPT ![t] = op[t] = "nowait"]
    /\ retcode' = [retcode EXCEPT ![t] = "0"]
    /\ result' = [result EXCEPT ![t] = "none"]
    /\ UNCHANGED <<count, send_type, live, smdel_lock, sched, op, calls, kill>>

\* The deadline passes.
Expire(t) ==
    /\ op[t] = "timed" /\ ~expired[t]
    /\ pc[t] \in {"check", "again", "wait", "woken", "nap"}
    /\ expired' = [expired EXCEPT ![t] = TRUE]
    /\ UNCHANGED <<sem, loc, op, pc, calls, retcode, result, kill>>

Better(t, u) == Prio[t] > Prio[u]

\* signal_for_my_task: the head of the list, or the first of highest priority.
Signalled(list, prior) ==
    IF ~prior THEN Head(list)
    ELSE LET ahead(i, j) == Better(list[i], list[j]) \/ (i < j /\ ~Better(list[j], list[i]))
         IN  list[CHOOSE i \in DOMAIN list : \A j \in DOMAIN list \ {i} : ahead(i, j)]

\* Mutant: whoever finds the token takes it.
MyTurn_Always(t) == TRUE
MyTurn(t) == Signalled(first_susp, use.prior) = t

\* sem_trywait succeeds and it is this task's turn.
TakeToken(t) ==
    /\ count > 0 /\ MyTurn(t)
    /\ count' = count - 1
    /\ retcode' = [retcode EXCEPT ![t] = "0"]
    /\ pc' = [pc EXCEPT ![t] = "took"]
    /\ UNCHANGED sema4_lock

\* sem_trywait, sem_post, and tm_wkafter(1) without sema4_lock.
PutBack(t) ==
    /\ count > 0 /\ ~MyTurn(t)
    /\ pc' = [pc EXCEPT ![t] = "nap"]
    /\ sema4_lock' = NoTask
    /\ UNCHANGED <<count, retcode>>

\* Mutant: the loop of sm_p does not look at retcode.
GivesUp_Never(t) == FALSE
GivesUp(t) == retcode[t] = "ETIMEDOUT"

\* waiting_on_sema4 returns nonzero: the loop ends, or the task waits.
NoToken(t) ==
    /\ \/ GivesUp(t)
          /\ pc' = [pc EXCEPT ![t] = "leave"] /\ UNCHANGED sema4_lock
       \/ ~GivesUp(t)
          /\ pc' = [pc EXCEPT ![t] = "wait"] /\ sema4_lock' = NoTask
    /\ UNCHANGED <<count, retcode>>

TryToken(t) == TakeToken(t) \/ PutBack(t) \/ (count = 0 /\ NoToken(t))

Killed(t) ==
    /\ send_type = "KILLD"
    /\ pc' = [pc EXCEPT ![t] = "leave"]
    /\ retcode' = [retcode EXCEPT ![t] = "0"]
    /\ UNCHANGED <<count, sema4_lock>>

\* waiting_on_sema4 from its start.
Check(t) ==
    /\ pc[t] = "check"
    /\ \/ Killed(t)
       \/ send_type = "SEND" /\ TryToken(t)
    /\ UNCHANGED <<first_susp, send_type, live, smdel_lock, sched, op, calls, expired,
                   result, kill>>

TimeIsUp(t) == expired[t]

\* Its inner loop after the nap: the timeout, then the tokens, and not KILLD.
CheckAgain(t) ==
    /\ pc[t] = "again"
    /\ \/ TimeIsUp(t) /\ NoToken(t)
       \/ ~TimeIsUp(t) /\ TryToken(t)
    /\ UNCHANGED <<first_susp, send_type, live, smdel_lock, sched, op, calls, expired,
                   result, kill>>

\* Mutant: after the condition variable the task goes on without the mutex.
Relock_Unlocked(t) ==
    /\ UNCHANGED sema4_lock
    /\ Goto(t, "woken", "check") \/ Goto(t, "nap", "again")
    /\ UNCHANGED <<sem, smdel_lock, sched, call, kill>>
Relock(t) ==
    /\ sema4_lock = NoTask
    /\ sema4_lock' = t
    /\ Goto(t, "woken", "check") \/ Goto(t, "nap", "again")
    /\ UNCHANGED <<sem, smdel_lock, sched, call, kill>>

\* pthread_cond_timedwait returns ETIMEDOUT.
TimeOut(t) ==
    /\ expired[t]
    /\ Goto(t, "wait", "woken")
    /\ retcode' = [retcode EXCEPT ![t] = "ETIMEDOUT"]
    /\ UNCHANGED <<sem, loc, op, calls, expired, result, kill>>

\* Mutant: the list is not looked at, every killed task signals.
LastOne_Any(list) == TRUE
LastOne(list) == list = <<>>

\* unlink_susp_tcb, and what the call returns.
UnlinkSelf(t) ==
    /\ pc[t] \in {"took", "leave"}
    /\ first_susp' = Unlinked(t)
    /\ result' = [result EXCEPT ![t] =
                    IF send_type = "KILLD" THEN "killed"
                    ELSE IF retcode[t] = "ETIMEDOUT" THEN "timeout" ELSE "token"]
    /\ pc' = [pc EXCEPT ![t] =
                    IF send_type = "KILLD" /\ LastOne(first_susp') THEN "signal" ELSE "unlock"]
    /\ UNCHANGED <<count, send_type, live, loc, op, calls, expired, retcode, kill>>

\* The last task that is told of the delete signals smdel_cplt.
SignalDelete(t) ==
    /\ smdel_lock = NoTask
    /\ pc[t] = "signal"
    /\ send_type' = "SEND"
    /\ pc' = [u \in Task |-> IF u = t THEN "unlock"
                             ELSE IF pc[u] = "asleep" THEN "drained" ELSE pc[u]]
    /\ UNCHANGED <<count, first_susp, live, loc, call, kill>>

Unlock(t) ==
    /\ Goto(t, "unlock", "idle")
    /\ sema4_lock' = NoTask
    /\ UNCHANGED <<sem, smdel_lock, sched, call, kill>>

------------------------------------------------------------------------------
(* sm_v, sm_delete and t_delete lock the scheduler.                        *)

SchedLock(t) ==
    /\ op[t] \notin Pends /\ sched = NoTask
    /\ Goto(t, "found", "locked")
    /\ sched' = t
    /\ UNCHANGED <<sem, sema4_lock, smdel_lock, call, kill>>

\* Nobody is awakened when nobody is on the list.
WokenByPost(moved) == IF Waiting = {} THEN moved ELSE Woken(moved)

\* sm_v under both locks; it leaves them both.
Post(t) ==
    /\ pc[t] = "locked" /\ op[t] = "post" /\ sema4_lock = NoTask
    /\ count' = count + 1
    /\ pc' = WokenByPost([pc EXCEPT ![t] = "idle"])
    /\ sched' = NoTask
    /\ UNCHANGED <<first_susp, send_type, live, sema4_lock, smdel_lock, call, kill>>

\* Mutant: the waiting tasks are not waited for.
NoneLeft_Assumed == TRUE
NoneLeft == Waiting = {}

\* sm_delete reads first_susp without sema4_lock.
AnyToKill(t) ==
    /\ op[t] = "delete"
    /\ Goto(t, "locked", IF NoneLeft THEN "free" ELSE "kill")
    /\ UNCHANGED <<sem, loc, call, kill>>

LockDelete(t) ==
    /\ smdel_lock = NoTask
    /\ smdel_lock' = t
    /\ Goto(t, "kill", "killing") \/ Goto(t, "drained", "drain")
    /\ UNCHANGED <<sem, sema4_lock, sched, call, kill>>

Kill(t) ==
    /\ pc[t] = "killing" /\ sema4_lock = NoTask
    /\ send_type' = "KILLD"
    /\ pc' = Woken([pc EXCEPT ![t] = "drain"])
    /\ UNCHANGED <<count, first_susp, live, loc, call, kill>>

\* The loop around pthread_cond_wait on smdel_cplt.
Drain(t) ==
    /\ Goto(t, "drain", IF NoneLeft THEN "free" ELSE "asleep")
    /\ smdel_lock' = NoTask
    /\ UNCHANGED <<sem, sema4_lock, sched, call, kill>>

delete_sema4(t) ==
    /\ Goto(t, "free", "idle")
    /\ live' = FALSE
    /\ sched' = NoTask
    /\ UNCHANGED <<count, first_susp, send_type, sema4_lock, smdel_lock, call, kill>>

\* t_delete finds the victim, cancels it and joins it.
Cancel(t, v) ==
    /\ op[t] = "kill" /\ pc[v] # "dead"
    /\ Goto(t, "locked", "join")
    /\ victim' = [victim EXCEPT ![t] = v]
    /\ canceled' = [canceled EXCEPT ![v] = TRUE]
    /\ UNCHANGED <<sem, loc, call, use>>

\* Or finds it no longer: ERR_OBJDEL.
NotFound(t, v) ==
    /\ op[t] = "kill" /\ pc[v] = "dead"
    /\ Goto(t, "locked", "idle")
    /\ sched' = NoTask
    /\ UNCHANGED <<sem, sema4_lock, smdel_lock, call, kill>>

\* The cleanup handler of sm_p unlocks sema4_lock.  After pthread_cond_wait
\* the task has locked it again; in its nap it has not.
Die(t) ==
    /\ canceled[t]
    /\ \/ Goto(t, "idle", "dead") /\ UNCHANGED sema4_lock
       \/ Goto(t, "wait", "dead") /\ sema4_lock = NoTask /\ UNCHANGED sema4_lock
       \/ Goto(t, "nap", "dead") /\ sema4_lock' = NoTask
    /\ UNCHANGED <<sem, smdel_lock, sched, call, kill>>

\* Mutant: the task stays on the list.
Join_StillListed(t) ==
    /\ pc[t] = "join" /\ pc[victim[t]] = "dead"
    /\ pc' = [pc EXCEPT ![t] = "idle"]
    /\ sched' = NoTask
    /\ UNCHANGED <<count, first_susp, send_type, live, sema4_lock, smdel_lock, call, kill>>
\* tcb_delete takes the dead task off the list it is on.
Join(t) ==
    /\ pc[t] = "join" /\ pc[victim[t]] = "dead"
    /\ pc' = [pc EXCEPT ![t] = "idle"]
    /\ first_susp' = Unlinked(victim[t])
    /\ sched' = NoTask
    /\ UNCHANGED <<count, send_type, live, sema4_lock, smdel_lock, call, kill>>

------------------------------------------------------------------------------
Work(t) ==
    \/ LinkSelf(t) \/ Check(t) \/ CheckAgain(t) \/ Relock(t) \/ TimeOut(t)
    \/ UnlinkSelf(t) \/ SignalDelete(t) \/ Unlock(t)
    \/ SchedLock(t) \/ Post(t) \/ AnyToKill(t) \/ LockDelete(t) \/ Kill(t)
    \/ Drain(t) \/ delete_sema4(t) \/ Join(t) \/ Die(t)
    \/ \E v \in use.victims \ {t} : Cancel(t, v) \/ NotFound(t, v)

Next == \E t \in Task : Work(t) \/ Expire(t) \/ \E o \in use.ops[t] : Lookup(t, o)

Spec == Init /\ [][Next]_vars

\* Threads run, deadlines pass, and a mutex that is free again and again is
\* locked at last: a napping task leaves sema4_lock alone for a tick.
FairSpec == Spec /\ \A t \in Task : SF_vars(Work(t)) /\ WF_vars(Expire(t))

------------------------------------------------------------------------------
\* Two tasks are never inside sema4_lock ("Lock mutex for semaphore pend",
\* sema4.c:771): through sleeps, naps, timeouts, sm_delete and the deletion of a task that
\* sleeps.  One that is deleted in its nap (sema4.c:713) breaks it: NapUses.
LockHeldOnce == \A t, u \in Task : pc[t] \in Inside /\ pc[u] \in Inside => t = u

\* A token does not stay while a task is waiting (waiting_on_sema4,
\* sema4.c:680-716): no wakeup is lost, whoever gives up or is deleted.
TokenIsTaken == (count > 0 /\ Waiting # {}) ~> (count = 0 \/ Waiting = {})

\* sm_p with max_wait or SM_NOWAIT returns (sema4.c:790-855), also when other
\* tasks are always ahead in the queue.
TimedCallsReturn ==
    \A t \in Task : (pc[t] = "check" /\ op[t] # "wait") ~> pc[t] \in {"idle", "dead"}

\* sm_delete returns: every waiting task is told, and the last one tells the
\* deleting task (sema4.c:620-627, 863-892).  A task that naps when it is told
\* breaks it: UntoldUses.
DeleteReturns ==
    \A t \in Task : (pc[t] = "locked" /\ op[t] = "delete") ~> pc[t] = "idle"

\* sm_delete blocks "while any tasks are still waiting on the semaphore"
\* (sema4.c:582).
FreedUnwaited == ~live => Waiting = {}

\* What sm_p and sm_v do looks like a queue for tokens: a token goes to the
\* task at the head, or to the first of the highest priority, and whoever
\* takes one is told so (sema4.c:686-716, 898-929).
TookToken == {t \in Task : pc[t] = "took"}
StillQueued == IF TookToken = {} THEN first_susp
               ELSE Without(first_susp, CHOOSE t \in TookToken : TRUE)
Told == [t \in Task |-> IF t \in TookToken THEN "token" ELSE result[t]]
TokenView == INSTANCE TokenQueue WITH
    Client  <- Task, Turn <- Signalled, prior <- use.prior,
    tokens  <- count, queue <- StillQueued, outcome <- Told
ImplementsQueue == TokenView!TQSpec
==============================================================================
