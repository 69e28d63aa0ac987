----------------------------- MODULE TasksProofs -----------------------------
(***************************************************************************)
(* What holds of tasks for any number of them, whatever they call.         *)
(***************************************************************************)
EXTENDS Tasks, SuspendListProofs, TLAPS

USE RootAssumption, NoOneAssumption, UsesAssumption DEF Caller

TcbTypeOK ==
    /\ listed \subseteq Task /\ stopped \subseteq Task
    /\ DOMAIN pc = Caller /\ DOMAIN op = Caller /\ DOMAIN tcb = Caller
    /\ DOMAIN priority = Task /\ DOMAIN prv_priority = Task /\ DOMAIN attr = Task
    /\ DOMAIN suspend_reason = Task
    /\ thread \in [Task -> {"none", "running", "ended"}]
    /\ canceled \subseteq Task
    /\ use \in Uses

\* From sched_lock to sched_unlock the flag is the caller's.  A task that was started
\* with T_NOPREEMPT and allows preemption unlocks what it has not locked.
Inside(c) ==
    pc[c] \in {"crit", "found", "join", "exit"} \/ (pc[c] = "unlock" /\ op[c] # "preempt")
InsideHolds == \A c \in Caller : Inside(c) => scheduler_locked = c

\* Between its test and its stop a task that suspends itself takes no lock.
StillUnlocked == \A c \in Caller : pc[c] \in {"reason", "kill"} => scheduler_locked # c

\* A call is one of its caller's.
Names(calls) == {ok[1] : ok \in calls}
CallFits ==
    \A c \in Caller :
        /\ op[c] \in OtherOps => tcb[c] \in Task /\ <<op[c], tcb[c]>> \in use[c]
        /\ op[c] \in OwnOps => op[c] \in Names(use[c])

\* Only tasks suspend themselves.
SelfSuspends ==
    \A c \in Caller :
        pc[c] \in {"asktime", "reason", "kill"} =>
            c \in Task /\ tcb[c] = c /\ op[c] \in {"suspend", "suspend0"}

\* A running task that only itself sets the priority of is at the maximum when the flag
\* is its own, and otherwise, once it has given it back, at the priority it has set; its
\* attributes have the default one.
InEffect(k) ==
    /\ attr[k] = 0
    /\ scheduler_locked = k => priority[k] = max_priority
    /\ scheduler_locked # k /\ k \in settled => priority[k] = prv_priority[k]
Raised == \A k \in listed : thread[k] = "running" /\ ~OthersSet(k) => InEffect(k)

IInv == /\ TcbTypeOK /\ InsideHolds /\ StillUnlocked /\ StoppedIsFree
        /\ CallFits /\ SelfSuspends /\ Raised

\* A step that begins no thread and sets no priority keeps the priorities in effect.
LEMMA RaisedStays ==
    ASSUME TcbTypeOK, Raised, UNCHANGED <<prv_priority, prio, scheduler_locked, use>>,
           listed' \subseteq listed,
           \A k \in Task : thread'[k] = "running" => thread[k] = "running"
    PROVE  Raised'
<1>1. \A k \in Task : OthersSet(k)' <=> OthersSet(k)
  BY DEF OthersSet
<1>2. \A k \in Task : InEffect(k)' <=> InEffect(k)
  BY DEF InEffect, prio
<1>3. QED
  BY <1>1, <1>2 DEF Raised, TcbTypeOK

\* Before the first call.
LEMMA InitIInv == Init => IInv
<1>1. Init => TcbTypeOK
  BY DEF Init, TcbTypeOK
<1>2. Init => InsideHolds /\ StillUnlocked
  BY DEF Init, InsideHolds, Inside, StillUnlocked
<1>3. Init => StoppedIsFree /\ CallFits /\ SelfSuspends /\ Raised
  BY DEF Init, StoppedIsFree, CallFits, OtherOps, OwnOps, SelfSuspends, Raised
<1>4. QED
  BY <1>1, <1>2, <1>3 DEF IInv

\* The beginning of a call keeps the invariant.
LEMMA StepInvoke ==
    ASSUME IInv, NEW c \in Caller, Runs(c), NEW ok \in use[c], Invoke(c, ok[1], ok[2])
    PROVE  IInv'
<1> USE DEF IInv, TcbTypeOK, InsideHolds, Inside, StillUnlocked, StoppedIsFree, CallFits,
        SelfSuspends, Raised, InEffect, OthersSet, OtherOps, OwnOps, Goto, Call, tcbs, lists, threads, prio, lock
<1>1. /\ ok[1] \in OwnOps \cup OtherOps /\ ok[2] \in Task /\ ok = <<ok[1], ok[2]>>
      /\ ok[1] \in Names(use[c])
  <2>1. use \in Use
    BY DEF Use
  <2>2. use[c] \in SUBSET ((OwnOps \cup OtherOps) \X Task)
    BY ONLY <2>1, c \in Caller DEF Use
  <2>3. QED
    BY ONLY <2>2, ok \in use[c] DEF Names
<1>2. CASE ok[1] = "create" /\ t_create(c, ok[2])
  BY <1>1, <1>2 DEF t_create
<1>3. CASE Begin(c, ok[1], ok[2])
  BY <1>1, <1>3 DEF Begin
<1>4. CASE ok[1] = "suspend" /\ BeginSuspend(c, ok[2])
  BY <1>1, <1>4 DEF BeginSuspend
<1>5. CASE ok[1] = "suspend0" /\ BeginSuspendSelf(c)
  BY <1>1, <1>5 DEF BeginSuspendSelf
<1>6. CASE BeginOwn(c, ok[1])
  BY <1>1, <1>6 DEF BeginOwn
<1>7. ASSUME ok[1] = "wait", NEW x \in Object, Wait(c, x) PROVE IInv'
  BY <1>1, <1>7 DEF Wait, link_susp_tcb
<1>8. CASE ok[1] = "tslice" /\ t_mode_slice(c)
  BY <1>1, <1>8 DEF t_mode_slice
<1>9. QED
  BY <1>2, <1>3, <1>4, <1>5, <1>6, <1>7, <1>8 DEF Invoke

\* So does every step of a call.
LEMMA StepStep ==
    ASSUME IInv, NEW c \in Caller, Runs(c), Step(c) PROVE IInv'
<1> USE DEF IInv, TcbTypeOK, InsideHolds, Inside, StillUnlocked, StoppedIsFree, CallFits,
        SelfSuspends, Raised, InEffect, OthersSet, OtherOps, OwnOps, Goto, Call, Return, tcbs, lists, threads, prio, lock
<1>1. CASE Wake(c) BY <1>1 DEF Wake
<1>2. CASE sched_lock(c)
  <2>1. TcbTypeOK'
    BY <1>2 DEF sched_lock, FlagIsMine, Woken, Runs
  <2>2. InsideHolds'
    BY <1>2 DEF sched_lock, FlagIsMine, Woken, Runs
  <2>3. StillUnlocked'
    BY <1>2 DEF sched_lock, FlagIsMine, Woken, Runs
  <2>4. StoppedIsFree'
    BY <1>2 DEF sched_lock, FlagIsMine, Woken, Runs
  <2>5. CallFits'
    BY <1>2 DEF sched_lock, FlagIsMine, Woken, Runs
  <2>6. Raised'
    BY <1>2 DEF sched_lock, FlagIsMine
  <2>7. SelfSuspends'
    BY <1>2 DEF sched_lock, FlagIsMine, Woken, Runs
  <2>8. QED
    BY <2>1, <2>2, <2>3, <2>4, <2>5, <2>6, <2>7
<1>3. CASE Sleep(c) BY <1>3 DEF Sleep
<1>4. CASE sched_unlock(c)
  <2>1. TcbTypeOK'
    BY <1>4 DEF sched_unlock, AfterUnlock, Woken, Restored
  <2>2. InsideHolds'
    BY <1>4 DEF sched_unlock, AfterUnlock, Woken, Restored
  <2>3. StillUnlocked'
    BY <1>4 DEF sched_unlock, AfterUnlock, Woken, Restored
  <2>4. StoppedIsFree'
    BY <1>4 DEF sched_unlock, AfterUnlock, Woken, Restored
  <2>5. CallFits'
    BY <1>4 DEF sched_unlock, AfterUnlock, Woken, Restored
  <2>6. Raised'
    <3>1. /\ UNCHANGED <<listed, thread, prv_priority, attr, use>>
          /\ \A k \in Task \ {c} : /\ priority'[k] = priority[k]
                                   /\ (k \in settled') = (k \in settled)
                                   /\ (scheduler_locked' = k) = (scheduler_locked = k)
          /\ c \in listed => \/ UNCHANGED <<priority, settled, scheduler_locked>>
                             \/ scheduler_locked' # c /\ priority'[c] = prv_priority[c]
      BY <1>4 DEF sched_unlock, Restored
    <3>2. QED
      BY <3>1
  <2>7. SelfSuspends'
    <3>1. pc'[c] = "asktime" => op[c] = "suspend" /\ tcb[c] = c /\ UNCHANGED <<op, tcb>>
      BY <1>4 DEF sched_unlock, AfterUnlock, Woken
    <3>2. op[c] = "suspend" => tcb[c] \in Task
      OBVIOUS
    <3>3. pc'[c] \in {"asktime", "user"}
      BY <1>4 DEF sched_unlock, AfterUnlock, Woken
    <3>4. \A k \in Caller \ {c} : /\ op'[k] = op[k] /\ tcb'[k] = tcb[k]
                                  /\ pc'[k] = pc[k] \/ pc'[k] = "lock"
      BY <1>4 DEF sched_unlock, AfterUnlock, Woken
    <3>5. QED
      BY ONLY <3>1, <3>2, <3>3, <3>4, SelfSuspends DEF SelfSuspends
  <2>8. QED
    BY <2>1, <2>2, <2>3, <2>4, <2>5, <2>6, <2>7
<1>5. CASE t_mode(c) BY <1>5 DEF t_mode
<1>6. CASE Find(c) BY <1>6 DEF Find
<1>7. CASE t_start(c)
  <2>1. TcbTypeOK'
    BY <1>7 DEF t_start, tcb_delete
  <2>2. InsideHolds'
    BY <1>7 DEF t_start, tcb_delete
  <2>3. StillUnlocked'
    BY <1>7 DEF t_start, tcb_delete
  <2>4. StoppedIsFree'
    BY <1>7 DEF t_start, tcb_delete
  <2>5. CallFits'
    BY <1>7 DEF t_start, tcb_delete
  <2>6. Raised'
    <3>1. CASE /\ thread' = [thread EXCEPT ![tcb[c]] = "running"] /\ UNCHANGED listed
               /\ attr' = [attr EXCEPT ![tcb[c]] = 0] /\ settled' = settled \ {tcb[c]}
               /\ priority' = [priority EXCEPT ![tcb[c]] = PriorityOf(c)]
      <4>1. UNCHANGED <<prv_priority, scheduler_locked, use>> /\ scheduler_locked = c
        BY <1>7, <3>1 DEF t_start
      <4>2. ASSUME NEW k \in listed', thread'[k] = "running", ~OthersSet(k)' PROVE InEffect(k)'
        <5>0. k \in Task /\ k \in listed /\ ~OthersSet(k)
          BY <3>1, <4>1, <4>2
        <5>1. CASE k # tcb[c]
          <6>1. /\ thread[k] = "running" /\ attr'[k] = attr[k] /\ priority'[k] = priority[k]
                /\ k \in settled' => k \in settled
            BY <3>1, <4>2, <5>0, <5>1
          <6>2. QED
            BY <4>1, <5>0, <6>1 DEF InEffect
        <5>2. CASE k = tcb[c] /\ k # c
          BY <3>1, <4>1, <5>0, <5>2 DEF InEffect
        <5>3. CASE k = tcb[c] /\ k = c
          BY <3>1, <4>1, <5>0, <5>3 DEF InEffect, PriorityOf, Runs
        <5>4. QED
          BY <5>1, <5>2, <5>3
      <4>3. QED
        BY <4>2
    <3>2. CASE UNCHANGED <<thread, priority, settled>>
      BY <1>7, <3>2 DEF t_start, tcb_delete, InEffect
    <3>3. QED
      BY <1>7, <3>1, <3>2 DEF t_start
  <2>7. SelfSuspends'
    BY <1>7 DEF t_start, tcb_delete
  <2>8. QED
    BY <2>1, <2>2, <2>3, <2>4, <2>5, <2>6, <2>7
<1>8. CASE t_resume(c) BY <1>8 DEF t_resume
<1>9. CASE t_setreg(c) BY <1>9 DEF t_setreg
<1>10. CASE t_getreg(c) BY <1>10 DEF t_getreg
<1>11. CASE t_setpri(c) BY <1>11 DEF t_setpri
<1>12. CASE t_suspend(c)
  <2>1. StoppedIsFree'
    BY <1>12 DEF t_suspend
  <2>2. Raised'
    <3> HIDE DEF Raised, TcbTypeOK
    <3>1. QED
      BY <1>12, RaisedStays DEF t_suspend
  <2>3. TcbTypeOK'
    <3>1. tcb[c] \in Task
      BY <1>12 DEF t_suspend
    <3>2. QED
      BY <1>12, <3>1 DEF t_suspend
  <2>4. CallFits' /\ SelfSuspends'
    BY <1>12 DEF t_suspend
  <2>5. InsideHolds' /\ StillUnlocked'
    BY <1>12 DEF t_suspend
  <2>6. QED
    BY <2>1, <2>2, <2>3, <2>4, <2>5
<1>13. CASE TestOwnLock(c) BY <1>13 DEF TestOwnLock, MaySuspendSelf
<1>14. CASE SetReason(c) BY <1>14 DEF SetReason
<1>15. CASE StopSelf(c) BY <1>15 DEF StopSelf
<1>16. CASE t_delete(c)
  <2>1. Raised'
    <3> HIDE DEF Raised, TcbTypeOK
    <3>1. QED
      BY <1>16, RaisedStays DEF t_delete
  <2>2. TcbTypeOK'
    <3>1. op[c] \in OtherOps
      BY <1>16 DEF t_delete
    <3>2. tcb[c] \in Task
      BY <3>1
    <3>3. QED
      BY <1>16, <3>2 DEF t_delete
  <2>3. CallFits' /\ SelfSuspends'
    BY <1>16 DEF t_delete
  <2>4. InsideHolds' /\ StillUnlocked' /\ StoppedIsFree'
    BY <1>16 DEF t_delete
  <2>5. QED
    BY <2>1, <2>2, <2>3, <2>4
<1>17. CASE DeleteSelf(c) BY <1>17 DEF DeleteSelf
<1>18. CASE Join(c) BY <1>18 DEF Join, tcb_delete
<1>19. CASE Exit(c) BY <1>19 DEF Exit, tcb_delete
<1>20. CASE Die(c) BY <1>20 DEF Die
<1>21. CASE cleanup_scheduler_lock(c)
  <2>1. Raised'
    <3>1. UNCHANGED <<listed, prv_priority, priority, attr, settled, use>>
      BY <1>21 DEF cleanup_scheduler_lock
    <3>2. thread' = [thread EXCEPT ![c] = "ended"]
      BY <1>21 DEF cleanup_scheduler_lock
    <3>3. \A k \in Task \ {c} : (scheduler_locked' = k) = (scheduler_locked = k)
      BY <1>21 DEF cleanup_scheduler_lock
    <3>4. \A k \in Task : thread'[k] = "running" => k # c /\ thread[k] = "running"
      BY <3>2
    <3>5. QED
      BY <3>1, <3>3, <3>4
  <2>2. TcbTypeOK' /\ InsideHolds' /\ StillUnlocked'
    BY <1>21 DEF cleanup_scheduler_lock
  <2>3. StoppedIsFree' /\ CallFits' /\ SelfSuspends'
    BY <1>21 DEF cleanup_scheduler_lock
  <2>4. QED
    BY <2>1, <2>2, <2>3
<1>22. QED
  BY <1>1, <1>2, <1>3, <1>4, <1>5, <1>6, <1>7, <1>8, <1>9, <1>10, <1>11, <1>12, <1>13,
     <1>14, <1>15, <1>16, <1>17, <1>18, <1>19, <1>20, <1>21 DEF Step

\* The invariant of who holds the scheduler lock and at which priority.
LEMMA Invariance == Spec => []IInv
<1>1. ASSUME IInv, [Next]_vars PROVE IInv'
  <2>1. CASE UNCHANGED vars
    BY <1>1, <2>1 DEF vars, IInv, TcbTypeOK, InsideHolds, Inside, StillUnlocked,
       StoppedIsFree, CallFits, SelfSuspends, Raised, InEffect, OthersSet
  <2>2. QED
    BY <1>1, <2>1, StepInvoke, StepStep DEF Next
<1>2. QED
  BY <1>1, InitIInv, PTL DEF Spec

\* No stopped task has the scheduler locked, whatever tasks call: others are stopped
\* by the holder, and a task stops itself only when it is not (t_suspend,
\* task.c:1136-1240).
THEOREM StoppedTasksAreFree == Spec => []StoppedIsFree
<1>1. IInv => StoppedIsFree
  BY DEF IInv
<1>2. QED
  BY <1>1, Invariance, PTL

\* A task whose priority no other task sets runs its own code at the maximum while it has
\* the scheduler locked, and otherwise, from its first sched_unlock, at the priority it set
\* last, whatever it and other tasks call (task.c:316-327, 369-381, 1474-1478).
THEOREM PriorityTakesEffect == Spec => []PriorityInEffect
<1>1. IInv => PriorityInEffect
  BY DEF IInv, Raised, InEffect, PriorityInEffect
<1>2. QED
  BY <1>1, Invariance, PTL

------------------------------------------------------------------------------
(* The life of a task, and the lists it is on.                              *)

\* Some call has canceled the task and waits for its end.
Joined(k) == \E d \in Caller : pc[d] = "join" /\ op[d] = "delete" /\ tcb[d] = k

TaskLives(k) ==
    /\ thread[k] = "running" /\ k \notin listed => pc[k] = "cleanup"
    /\ k \in listed /\ suspend_reason[k] = "TSTRT" => thread[k] = "none"
    /\ thread[k] # "running" => pc[k] = "user"
    /\ pc[k] = "cleanup" /\ k \in listed => k \in canceled
    /\ k \in listed /\ thread[k] = "ended" => Joined(k)
    /\ k \in canceled => thread[k] # "ended" /\ Joined(k)

CallLives(c) ==
    /\ pc[c] \in {"found", "join"} => tcb[c] \in listed
    /\ pc[c] = "join" => op[c] = "delete"
    /\ pc[c] = "exit" => op[c] = "exit" \/ (op[c] = "delete" /\ tcb[c] = c)
    /\ op[c] = "exit" \/ pc[c] \in {"exit", "cleanup"} => c \in Task

LifeInv == /\ \A k \in Task : TaskLives(k)
           /\ \A c \in Caller : CallLives(c)

Does(c) == Step(c) \/ \E ok \in use[c] : Invoke(c, ok[1], ok[2])

\* A step of one thread moves another one's call only when it wakes it for the scheduler.
LEMMA OthersStay ==
    ASSUME TcbTypeOK, NEW c \in Caller, Does(c), NEW d \in Caller, d # c
    PROVE  /\ op'[d] = op[d] /\ tcb'[d] = tcb[d]
           /\ pc'[d] = pc[d] \/ (pc[d] = "asleep" /\ pc'[d] = "lock")
<1> USE DEF TcbTypeOK, Goto, Call, Return
<1>1. ASSUME NEW ok \in use[c], Invoke(c, ok[1], ok[2])
      PROVE  op'[d] = op[d] /\ tcb'[d] = tcb[d] /\ pc'[d] = pc[d]
  BY <1>1 DEF Invoke, t_create, t_mode_slice, Begin, BeginSuspend, BeginSuspendSelf, BeginOwn, Wait
<1>2. CASE sched_lock(c)
  BY <1>2 DEF sched_lock, Woken
<1>3. CASE sched_unlock(c)
  BY <1>3 DEF sched_unlock, AfterUnlock, Woken
<1>4. ASSUME Step(c), ~sched_lock(c), ~sched_unlock(c)
      PROVE  op'[d] = op[d] /\ tcb'[d] = tcb[d] /\ pc'[d] = pc[d]
  BY <1>4 DEF Step, Wake, Sleep, t_mode, Find, t_start, t_resume, t_setreg, t_getreg, t_setpri,
     t_suspend, TestOwnLock, SetReason, StopSelf, t_delete, DeleteSelf, Join, Exit, Die,
     cleanup_scheduler_lock
<1>5. QED
  BY <1>1, <1>2, <1>3, <1>4 DEF Does

\* A step that neither creates nor ends a task or a thread.
LEMMA CallGoesOn ==
    ASSUME TcbTypeOK, LifeInv, NEW c \in Caller, Runs(c), Does(c),
           UNCHANGED <<listed, thread, canceled>>,
           \A k \in Task : suspend_reason'[k] \in {suspend_reason[k], "READY", "TSUSP"},
           pc[c] \notin {"join", "cleanup"}, pc'[c] = "cleanup" => c \in canceled,
           CallLives(c)'
    PROVE  LifeInv'
<1>1. ASSUME NEW d \in Caller \ {c} PROVE CallLives(d)'
  BY <1>1, OthersStay DEF LifeInv, CallLives
<1>2. ASSUME NEW k \in Task PROVE TaskLives(k)'
  <2>1. Joined(k) => Joined(k)'
    BY OthersStay DEF Joined
  <2>2. pc'[k] = pc[k] \/ k = c \/ (pc[k] = "asleep" /\ pc'[k] = "lock")
    BY OthersStay
  <2>3. k = c => thread[k] = "running"
    BY RootAssumption DEF Runs
  <2>4. TaskLives(k) /\ suspend_reason'[k] \in {suspend_reason[k], "READY", "TSUSP"}
    BY DEF LifeInv
  <2> HIDE DEF Joined
  <2>5. (k \in listed /\ suspend_reason'[k] = "TSTRT") => suspend_reason[k] = "TSTRT"
    BY <2>4
  <2>6. pc[k] = "cleanup" => pc'[k] = "cleanup"
    BY <2>2
  <2>7. QED
    BY <2>1, <2>2, <2>3, <2>4, <2>5, <2>6 DEF TaskLives
<1>3. QED
  BY <1>1, <1>2 DEF LifeInv

\* One caller at most is between sched_lock and sched_unlock.
LEMMA InsideAlone ==
    ASSUME IInv, NEW c \in Caller, NEW d \in Caller, Inside(c), Inside(d) PROVE c = d
  BY DEF IInv, InsideHolds

\* The beginning of a call keeps the lives of tasks in order.
LEMMA InvokeLives ==
    ASSUME IInv, LifeInv, NEW c \in Caller, Runs(c),
           NEW ok \in use[c], Invoke(c, ok[1], ok[2])
    PROVE  LifeInv'
<1>1. TcbTypeOK /\ CallLives(c) /\ Does(c)
  BY DEF IInv, LifeInv, Does
<1>2. ok[1] \in OwnOps \cup OtherOps /\ ok[2] \in Task
  <2>1. use[c] \in SUBSET ((OwnOps \cup OtherOps) \X Task)
    BY <1>1 DEF TcbTypeOK, Use
  <2>2. QED
    BY ONLY <2>1, ok \in use[c]
<1> USE DEF tcbs, lists, threads, prio, lock, Goto, Call
<1>3. CASE t_create(c, ok[2])
  <2> DEFINE k == ok[2]
  <2>1. /\ pc' = pc /\ op' = op /\ tcb' = tcb /\ canceled' = canceled
        /\ listed' = listed \cup {k} /\ k \notin listed /\ thread[k] # "running"
        /\ \A j \in Task \ {k} : thread'[j] = thread[j] /\ suspend_reason'[j] = suspend_reason[j]
        /\ thread'[k] = "none"
    BY <1>1, <1>2, <1>3 DEF t_create, TcbTypeOK
  <2> HIDE DEF k
  <2>2. ASSUME NEW d \in Caller PROVE CallLives(d)'
    BY <2>1 DEF LifeInv, CallLives
  <2>3. ASSUME NEW j \in Task PROVE TaskLives(j)'
    <3>1. Joined(j)' <=> Joined(j)
      BY <2>1 DEF Joined
    <3>2. Joined(j) => j \in listed
      BY DEF Joined, LifeInv, CallLives
    <3>3. TaskLives(j)
      BY DEF LifeInv
    <3>4. QED
      BY <2>1, <3>1, <3>2, <3>3 DEF TaskLives
  <2>4. QED
    BY <2>2, <2>3 DEF LifeInv
<1>4. ASSUME \/ Begin(c, ok[1], ok[2]) \/ BeginSuspend(c, ok[2]) \/ BeginSuspendSelf(c)
             \/ BeginOwn(c, ok[1]) \/ (\E x \in Object : Wait(c, x)) \/ t_mode_slice(c)
      PROVE  LifeInv'
  <2>1. UNCHANGED <<listed, suspend_reason, thread, canceled>>
    BY <1>4 DEF Begin, BeginSuspend, BeginSuspendSelf, BeginOwn, Wait, t_mode_slice
  <2>2. /\ pc[c] = "user" /\ pc'[c] \in {"user", "lock", "asktime", "unlock", "blocked"}
        /\ op'[c] = "exit" => c \in Task
    BY <1>1, <1>2, <1>4 DEF t_mode_slice, Begin, BeginSuspend, BeginSuspendSelf, BeginOwn, Wait,
       TcbTypeOK, OtherOps
  <2>3. QED
    BY <1>1, <2>1, <2>2, CallGoesOn DEF CallLives
<1>5. QED
  BY <1>3, <1>4 DEF Invoke

\* So does every step of a call.
LEMMA StepLives ==
    ASSUME IInv, LifeInv, NEW c \in Caller, Runs(c), Step(c)
    PROVE  LifeInv'
<1>1. TcbTypeOK /\ CallLives(c) /\ Does(c) /\ CallFits
  BY DEF IInv, LifeInv, Does
<1>2. \A d \in Caller \ {c} : Inside(c) => ~Inside(d)
  BY InsideAlone
<1> USE DEF tcbs, lists, threads, prio, lock, Goto, Call, Return, OtherOps
<1>3. CASE Wake(c) \/ Sleep(c) \/ t_mode(c) \/ t_setreg(c) \/ t_getreg(c) \/ t_setpri(c)
           \/ TestOwnLock(c) \/ StopSelf(c)
  <2>1. /\ UNCHANGED <<listed, suspend_reason, thread, canceled>>
        /\ pc[c] \notin {"join", "cleanup"} /\ op'[c] \in {op[c], "none"}
        /\ pc'[c] \in {"user", "asleep", "unlock", "reason"}
    BY <1>1, <1>3 DEF Wake, Sleep, t_mode, t_setreg, t_getreg, t_setpri, TestOwnLock, StopSelf, TcbTypeOK
  <2>2. CallLives(c)'
    BY <1>1, <2>1 DEF CallLives
  <2>3. QED
    BY <1>1, <2>1, <2>2, CallGoesOn
<1>4. CASE t_resume(c) \/ t_suspend(c) \/ SetReason(c)
  <2>1. /\ UNCHANGED <<listed, thread, canceled, op, tcb>>
        /\ \A k \in Task : suspend_reason'[k] \in {suspend_reason[k], "READY", "TSUSP"}
        /\ pc[c] \notin {"join", "cleanup"} /\ pc'[c] \in {"unlock", "kill"}
    BY <1>1, <1>4 DEF t_resume, t_suspend, SetReason, TcbTypeOK
  <2>2. CallLives(c)'
    BY <1>1, <2>1 DEF CallLives
  <2>3. QED
    BY <1>1, <2>1, <2>2, CallGoesOn
<1>5. CASE sched_lock(c) \/ sched_unlock(c)
  <2>1. /\ UNCHANGED <<listed, suspend_reason, thread, canceled>>
        /\ pc[c] \in {"lock", "unlock"} /\ pc'[c] \in {"crit", "user", "asktime"}
        /\ op'[c] \in {op[c], "none"}
    BY <1>1, <1>5 DEF sched_lock, sched_unlock, Woken, AfterUnlock, TcbTypeOK
  <2>2. CallLives(c)'
    BY <1>1, <2>1 DEF CallLives
  <2>3. QED
    BY <1>1, <2>1, <2>2, CallGoesOn
<1>6. CASE Find(c) \/ DeleteSelf(c) \/ Die(c)
  <2>1. /\ UNCHANGED <<listed, suspend_reason, thread, canceled, op, tcb>>
        /\ pc[c] \notin {"join", "cleanup"}
        /\ pc'[c] = "cleanup" => c \in canceled
        /\ CallLives(c)'
    BY <1>1, <1>6 DEF Find, DeleteSelf, Die, TcbTypeOK, CallLives
  <2>2. QED
    BY <1>1, <2>1, CallGoesOn

<1>7. CASE t_start(c)
  <2>1. tcb[c] \in listed /\ tcb[c] \in Task /\ pc[c] = "found" /\ pc' = [pc EXCEPT ![c] = "unlock"]
        /\ UNCHANGED <<op, tcb, canceled>>
    BY <1>1, <1>7 DEF t_start, CallFits, CallLives
  <2>2. ASSUME NEW d \in Caller \ {c} PROVE pc[d] \notin {"found", "join"} /\ ~Inside(d)
    BY <1>2, <2>1 DEF Inside
  <2>3. CASE UNCHANGED <<listed, suspend_reason, thread>>
    <3>1. CallLives(c)'
      BY <1>1, <2>1 DEF CallLives, TcbTypeOK
    <3>2. QED
      BY <1>1, <2>1, <2>3, <3>1, CallGoesOn DEF TcbTypeOK
  <2>4. CASE /\ Startable(tcb[c]) /\ suspend_reason' = [suspend_reason EXCEPT ![tcb[c]] = "READY"]
             /\ \/ thread' = [thread EXCEPT ![tcb[c]] = "running"] /\ UNCHANGED listed
                \/ listed' = listed \ {tcb[c]} /\ UNCHANGED thread
    <3>1. ASSUME NEW d \in Caller PROVE CallLives(d)'
      BY <1>1, <2>1, <2>2, <3>1 DEF CallLives, LifeInv, TcbTypeOK
    <3>2. ASSUME NEW j \in Task PROVE TaskLives(j)'
      <4>1. Joined(j) => Joined(j)'
        BY <1>1, <2>1 DEF Joined, TcbTypeOK
      <4>2. TaskLives(j) /\ TaskLives(tcb[c]) /\ thread[tcb[c]] = "none"
        BY <2>1, <2>4 DEF LifeInv, TaskLives, Startable
      <4>3. (j = c => thread[j] = "running") /\ (j # c => pc'[j] = pc[j])
        BY <1>1, <2>1, RootAssumption DEF Runs, TcbTypeOK
      <4>4. /\ thread'[j] = IF j = tcb[c] THEN thread'[j] ELSE thread[j]
            /\ suspend_reason'[j] = IF j = tcb[c] THEN "READY" ELSE suspend_reason[j]
            /\ thread'[tcb[c]] \in {"none", "running"}
        BY <1>1, <2>1, <2>4, <4>2 DEF TcbTypeOK
      <4> HIDE DEF Joined
      <4>5. CASE j = tcb[c]
        BY <2>1, <2>4, <4>1, <4>2, <4>3, <4>4, <4>5 DEF TaskLives
      <4>6. CASE j # tcb[c]
        BY <2>1, <2>4, <4>1, <4>2, <4>3, <4>4, <4>6 DEF TaskLives
      <4>7. QED
        BY <4>5, <4>6
    <3>3. QED
      BY <3>1, <3>2 DEF LifeInv
  <2>5. QED
    BY <1>7, <2>3, <2>4 DEF t_start, tcb_delete
<1>8. CASE t_delete(c)
  <2>1. /\ UNCHANGED <<listed, suspend_reason, thread, op, tcb>>
        /\ op[c] = "delete" /\ tcb[c] \in listed /\ tcb[c] \in Task /\ pc[c] = "found"
        /\ pc'[c] = IF tcb[c] = c THEN "exit" ELSE "join"
        /\ \A d \in Caller \ {c} : pc'[d] = pc[d] /\ pc[d] # "join"
        /\ canceled' = IF tcb[c] = c THEN canceled ELSE canceled \cup {tcb[c]}
    BY <1>1, <1>2, <1>8 DEF t_delete, CallFits, CallLives, TcbTypeOK, Inside
  <2>2. ASSUME NEW d \in Caller PROVE CallLives(d)'
    BY <1>1, <2>1 DEF CallLives, LifeInv
  <2>3. ASSUME NEW j \in Task PROVE TaskLives(j)'
    <3>1. ~Joined(j) /\ (j = tcb[c] /\ j # c => Joined(j)')
      BY <2>1 DEF Joined
    <3>2. TaskLives(j) /\ (j = c => thread[j] = "running")
      BY RootAssumption DEF LifeInv, Runs
    <3> HIDE DEF Joined
    <3>3. QED
      BY <2>1, <3>1, <3>2 DEF TaskLives
  <2>4. QED
    BY <2>2, <2>3 DEF LifeInv
<1>9. CASE Join(c)
  <2>1. /\ UNCHANGED <<suspend_reason, thread, canceled, op, tcb>>
        /\ tcb[c] \in Task /\ pc[c] = "join" /\ thread[tcb[c]] = "ended" /\ pc'[c] = "unlock"
        /\ \A d \in Caller \ {c} : pc'[d] = pc[d] /\ pc[d] \notin {"found", "join"}
        /\ listed' = listed \ {tcb[c]}
    BY <1>1, <1>2, <1>9 DEF Join, tcb_delete, CallFits, CallLives, TcbTypeOK, Inside
  <2>2. ASSUME NEW d \in Caller PROVE CallLives(d)'
    BY <1>1, <2>1 DEF CallLives, LifeInv
  <2>3. ASSUME NEW j \in Task PROVE TaskLives(j)'
    <3>1. Joined(j) => j = tcb[c]
      BY <2>1 DEF Joined
    <3>2. TaskLives(j) /\ (j = c => thread[j] = "running")
      BY RootAssumption DEF LifeInv, Runs
    <3> HIDE DEF Joined
    <3>3. QED
      BY <2>1, <3>1, <3>2 DEF TaskLives
  <2>4. QED
    BY <2>2, <2>3 DEF LifeInv
<1>10. CASE Exit(c)
  <2>1. /\ UNCHANGED <<suspend_reason, thread, canceled, op, tcb>>
        /\ c \in Task /\ pc[c] = "exit" /\ pc'[c] = "cleanup"
        /\ \A d \in Caller \ {c} : pc'[d] = pc[d] /\ pc[d] \notin {"found", "join"}
        /\ listed' = listed \ {c}
    BY <1>1, <1>2, <1>10 DEF Exit, tcb_delete, CallLives, TcbTypeOK, Inside
  <2>2. ASSUME NEW d \in Caller PROVE CallLives(d)'
    BY <1>1, <2>1 DEF CallLives, LifeInv
  <2>3. ASSUME NEW j \in Task PROVE TaskLives(j)'
    <3>1. ~Joined(j)
      BY <2>1 DEF Joined
    <3>2. TaskLives(j) /\ (j = c => thread[j] = "running")
      BY RootAssumption DEF LifeInv, Runs
    <3> HIDE DEF Joined
    <3>3. QED
      BY <2>1, <3>1, <3>2 DEF TaskLives
  <2>4. QED
    BY <2>2, <2>3 DEF LifeInv
<1>11. CASE cleanup_scheduler_lock(c)
  <2>1. /\ UNCHANGED <<suspend_reason, listed>>
        /\ c \in Task /\ pc[c] = "cleanup" /\ pc'[c] = "user" /\ op'[c] = "none"
        /\ \A d \in Caller \ {c} : pc'[d] = pc[d] /\ op'[d] = op[d] /\ tcb'[d] = tcb[d]
        /\ canceled' = canceled \ {c}
        /\ \A j \in Task : thread'[j] = IF j = c THEN "ended" ELSE thread[j]
    BY <1>1, <1>2, <1>11 DEF cleanup_scheduler_lock, CallLives, TcbTypeOK
  <2>2. ASSUME NEW d \in Caller PROVE CallLives(d)'
    BY <1>1, <2>1 DEF CallLives, LifeInv
  <2>3. ASSUME NEW j \in Task PROVE TaskLives(j)'
    <3>1. Joined(j) => Joined(j)'
      BY <2>1 DEF Joined
    <3>2. TaskLives(j) /\ thread[c] = "running"
      BY <2>1, RootAssumption DEF LifeInv, Runs
    <3>3. Joined(j) => j \in listed
      BY DEF Joined, LifeInv, CallLives
    <3> HIDE DEF Joined
    <3>4. QED
      BY <2>1, <3>1, <3>2, <3>3 DEF TaskLives
  <2>4. QED
    BY <2>2, <2>3 DEF LifeInv
<1>12. QED
  BY <1>3, <1>4, <1>5, <1>6, <1>7, <1>8, <1>9, <1>10, <1>11 DEF Step

\* A task on the list of an object waits there, once, and its control block says so; or
\* it was canceled there and will be taken off by the one that joins it.
ListsTyped == suspend_list \in [Task -> Object \cup {NoOne}] /\ first_susp \in [Object -> Seq(Task)]
WaitsAt(k, x) ==
    /\ k \in listed /\ suspend_list[k] = x /\ thread[k] # "none"
    /\ thread[k] = "running" => pc[k] \in {"blocked", "cleanup"}
OnOwnList ==
    /\ ListsTyped
    /\ \A x \in Object : Distinct(first_susp[x]) /\ \A k \in Members(first_susp[x]) : WaitsAt(k, x)

\* A task is taken off the list that its control block names, and is then on none.
LEMMA UnlinkFromOwn ==
    ASSUME OnOwnList, NEW k \in Task, unlink_susp_tcb(k, suspend_list[k])
    PROVE  /\ first_susp' \in [Object -> Seq(Task)]
           /\ \A x \in Object : /\ Distinct(first_susp[x])'
                                /\ Members(first_susp[x])' = Members(first_susp[x]) \ {k}
<1> USE DEF OnOwnList, ListsTyped, WaitsAt
<1> DEFINE z == suspend_list[k]
<1>1. \A x \in Object : x # z => k \notin Members(first_susp[x])
  OBVIOUS
<1>2. CASE z = NoOne
  <2>1. first_susp' = first_susp
    BY <1>2 DEF unlink_susp_tcb
  <2>2. \A x \in Object : x # z
    BY <1>2, NoOneAssumption
  <2>3. QED
    BY <1>1, <2>1, <2>2
<1>3. CASE z # NoOne
  <2>1. first_susp' = [first_susp EXCEPT ![z] = Without(@, k)] /\ z \in Object
    BY <1>3 DEF unlink_susp_tcb
  <2>2. /\ Without(first_susp[z], k) \in Seq(Task) /\ Distinct(Without(first_susp[z], k))
        /\ Members(Without(first_susp[z], k)) = Members(first_susp[z]) \ {k}
    BY <2>1, UnlinkRemoves
  <2> HIDE DEF z
  <2>3. /\ first_susp' \in [Object -> Seq(Task)] /\ first_susp'[z] = Without(first_susp[z], k)
        /\ \A x \in Object \ {z} : first_susp'[x] = first_susp[x]
    BY <2>1, <2>2
  <2>4. QED
    BY <1>1, <2>2, <2>3
<1>4. QED
  BY <1>2, <1>3

\* A step that unlinks and links nobody.
LEMMA ListsStay ==
    ASSUME OnOwnList, UNCHANGED lists, listed \subseteq listed',
           \A k \in listed : thread[k] = "none" \/ WaitsAt(k, suspend_list[k])' \/
               (pc[k] \notin {"blocked", "cleanup"} /\ thread[k] = "running")
    PROVE  OnOwnList'
<1>1. UNCHANGED <<suspend_list, first_susp>>
  BY DEF lists
<1>2. QED
  BY <1>1 DEF OnOwnList, ListsTyped, WaitsAt

\* A waiting task is on the list that its control block names, whatever happens.
LEMMA ListsKept ==
    ASSUME IInv, LifeInv, OnOwnList, NEW c \in Caller, Runs(c), Does(c)
    PROVE  OnOwnList'
<1>1. TcbTypeOK /\ CallFits /\ CallLives(c)
  BY DEF IInv, LifeInv
<1>2. \A k \in Task : /\ k = c => thread[k] = "running"
                      /\ pc[k] \in {"blocked", "cleanup"} /\ k # c => pc'[k] = pc[k]
  BY <1>1, OthersStay, RootAssumption DEF Runs
<1>3. \A x \in Object : \A k \in Members(first_susp[x]) : WaitsAt(k, x) /\ k \in Task
  <2>1. \A x \in Object : first_susp[x] \in Seq(Task)
    BY DEF OnOwnList, ListsTyped
  <2>2. QED
    BY <2>1 DEF OnOwnList, Members
<1> USE DEF tcbs, lists, threads, prio, lock, Goto, Call, Return
<1>4. ASSUME NEW k \in Task, tcb_delete(k), UNCHANGED thread, pc[c] \notin {"blocked", "cleanup"}
      PROVE  OnOwnList'
  <2>1. /\ first_susp' \in [Object -> Seq(Task)] /\ UNCHANGED suspend_list
        /\ \A x \in Object : /\ Distinct(first_susp[x])'
                             /\ Members(first_susp[x])' = Members(first_susp[x]) \ {k}
    BY <1>4, UnlinkFromOwn DEF tcb_delete
  <2>2. \A x \in Object : \A j \in Members(first_susp[x]) \ {k} : WaitsAt(j, x)'
    BY <1>2, <1>3, <1>4, <2>1 DEF WaitsAt, tcb_delete
  <2>3. QED
    BY <2>1, <2>2 DEF OnOwnList, ListsTyped
<1>5. CASE Wake(c)
  <2>1. PICK x \in Object : c \in Members(first_susp[x]) /\ unlink_susp_tcb(c, x)
    BY <1>5 DEF Wake
  <2>2. x = suspend_list[c] /\ c \in Task
    BY <1>3, <2>1 DEF WaitsAt
  <2>3. /\ first_susp' \in [Object -> Seq(Task)] /\ UNCHANGED <<suspend_list, listed, thread>>
        /\ \A y \in Object : /\ Distinct(first_susp[y])'
                             /\ Members(first_susp[y])' = Members(first_susp[y]) \ {c}
    BY <1>5, <2>1, <2>2, UnlinkFromOwn DEF Wake
  <2>4. \A y \in Object : \A j \in Members(first_susp[y]) \ {c} : WaitsAt(j, y)'
    BY <1>2, <1>3, <2>3 DEF WaitsAt
  <2>5. QED
    BY <2>3, <2>4 DEF OnOwnList, ListsTyped
<1>6. ASSUME NEW z \in Object, Wait(c, z) PROVE OnOwnList'
  <2>1. /\ c \in Task /\ pc[c] = "user" /\ pc'[c] = "blocked" /\ UNCHANGED <<listed, thread>>
        /\ first_susp' = [first_susp EXCEPT ![z] = Append(@, c)]
        /\ suspend_list' = [suspend_list EXCEPT ![c] = z]
    BY <1>1, <1>6 DEF Wait, link_susp_tcb, ListOf, TcbTypeOK
  <2>2. c \in listed /\ thread[c] = "running" /\ \A x \in Object : c \notin Members(first_susp[x])
    BY <1>2, <1>3, <2>1 DEF LifeInv, TaskLives, WaitsAt
  <2>3. /\ Append(first_susp[z], c) \in Seq(Task) /\ Distinct(Append(first_susp[z], c))
        /\ Members(Append(first_susp[z], c)) = Members(first_susp[z]) \cup {c}
    BY <2>1, <2>2, LinkAdds DEF OnOwnList, ListsTyped
  <2>4. /\ first_susp' \in [Object -> Seq(Task)] /\ first_susp'[z] = Append(first_susp[z], c)
        /\ suspend_list' \in [Task -> Object \cup {NoOne}] /\ suspend_list'[c] = z
        /\ \A x \in Object \ {z} : first_susp'[x] = first_susp[x]
        /\ \A k \in Task \ {c} : suspend_list'[k] = suspend_list[k]
    BY <2>1, <2>3 DEF OnOwnList, ListsTyped
  <2>5. ASSUME NEW x \in Object, NEW j \in Members(first_susp'[x]) PROVE WaitsAt(j, x)'
    <3>1. CASE j = c
      BY <2>1, <2>2, <2>3, <2>4, <2>5, <3>1 DEF WaitsAt
    <3>2. CASE j # c
      <4>1. j \in Members(first_susp[x])
        BY <2>3, <2>4, <2>5, <3>2
      <4>2. QED
        BY <1>2, <1>3, <2>1, <2>4, <3>2, <4>1 DEF WaitsAt
    <3>3. QED
      BY <3>1, <3>2
  <2>6. \A x \in Object : Distinct(first_susp'[x])
    BY <2>3, <2>4 DEF OnOwnList
  <2>7. QED
    BY <2>4, <2>5, <2>6 DEF OnOwnList, ListsTyped
<1>7. ASSUME NEW k \in Task, t_create(c, k) PROVE OnOwnList'
  <2>1. /\ suspend_list' = [suspend_list EXCEPT ![k] = NoOne] /\ first_susp' = first_susp
        /\ k \notin listed /\ listed \subseteq listed' /\ pc' = pc
        /\ \A j \in Task \ {k} : thread'[j] = thread[j]
    BY <1>1, <1>7 DEF t_create, TcbTypeOK
  <2>2. suspend_list' \in [Task -> Object \cup {NoOne}]
    BY <2>1 DEF OnOwnList, ListsTyped
  <2>3. \A x \in Object : \A j \in Members(first_susp[x]) : WaitsAt(j, x)'
    BY <1>3, <2>1 DEF WaitsAt, OnOwnList, ListsTyped
  <2>4. QED
    BY <2>1, <2>2, <2>3 DEF OnOwnList, ListsTyped
<1>8. CASE UNCHANGED <<lists, listed, thread>> /\ (pc[c] \in {"blocked", "cleanup"} => pc'[c] = "cleanup")
  <2>1. \A x \in Object : \A k \in Members(first_susp[x]) : WaitsAt(k, x)'
    BY <1>2, <1>3, <1>8 DEF WaitsAt
  <2>2. QED
    BY <1>8, <2>1 DEF OnOwnList, ListsTyped

<1>9. CASE t_start(c)
  <2>1. tcb[c] \in Task /\ tcb[c] \in listed /\ pc[c] = "found" /\ pc'[c] = "unlock"
    BY <1>1, <1>9 DEF t_start, CallFits, CallLives, OtherOps, TcbTypeOK
  <2>2. CASE tcb_delete(tcb[c]) /\ UNCHANGED thread
    BY <1>4, <2>1, <2>2
  <2>3. CASE UNCHANGED <<thread, listed, lists>>
    BY <1>8, <2>1, <2>3
  <2>4. CASE Startable(tcb[c]) /\ thread' = [thread EXCEPT ![tcb[c]] = "running"]
             /\ UNCHANGED <<listed, lists>>
    <3>1. thread[tcb[c]] = "none"
      BY <2>1, <2>4 DEF LifeInv, TaskLives, Startable
    <3>2. \A x \in Object : \A k \in Members(first_susp[x]) : WaitsAt(k, x)'
      BY <1>1, <1>2, <1>3, <2>1, <2>4, <3>1 DEF WaitsAt, TcbTypeOK
    <3>3. QED
      BY <2>4, <3>2 DEF OnOwnList, ListsTyped
  <2>5. QED
    BY <1>9, <2>2, <2>3, <2>4 DEF t_start
<1>10. CASE Join(c)
  <2>1. tcb[c] \in Task /\ pc[c] = "join"
    BY <1>1, <1>10 DEF Join, CallFits, CallLives, OtherOps, TcbTypeOK
  <2>2. QED
    BY <1>4, <1>10, <2>1 DEF Join
<1>11. CASE Exit(c)
  BY <1>1, <1>4, <1>11 DEF Exit, CallLives
<1>12. CASE cleanup_scheduler_lock(c)
  <2>1. /\ UNCHANGED <<lists, listed>> /\ pc[c] = "cleanup"
        /\ \A k \in Task : thread'[k] = IF k = c THEN "ended" ELSE thread[k]
    BY <1>1, <1>12 DEF cleanup_scheduler_lock, TcbTypeOK
  <2>2. \A x \in Object : \A k \in Members(first_susp[x]) : WaitsAt(k, x)'
    BY <1>2, <1>3, <2>1 DEF WaitsAt
  <2>3. QED
    BY <2>1, <2>2 DEF OnOwnList, ListsTyped
<1>13. CASE Die(c)
  BY <1>1, <1>8, <1>13 DEF Die, TcbTypeOK
<1>14. ASSUME NEW ok \in use[c],
              \/ Begin(c, ok[1], ok[2]) \/ BeginSuspend(c, ok[2]) \/ BeginSuspendSelf(c)
              \/ BeginOwn(c, ok[1]) \/ t_mode_slice(c)
       PROVE  OnOwnList'
  BY <1>8, <1>14 DEF t_mode_slice, Begin, BeginSuspend, BeginSuspendSelf, BeginOwn
<1>15. ASSUME \/ sched_lock(c) \/ Sleep(c) \/ sched_unlock(c) \/ t_mode(c) \/ Find(c)
              \/ t_resume(c) \/ t_setreg(c) \/ t_getreg(c) \/ t_setpri(c) \/ t_suspend(c)
              \/ TestOwnLock(c) \/ SetReason(c) \/ StopSelf(c) \/ t_delete(c) \/ DeleteSelf(c)
       PROVE  OnOwnList'
  BY <1>8, <1>15 DEF sched_lock, Sleep, sched_unlock, t_mode, Find, t_resume, t_setreg, t_getreg,
     t_setpri, t_suspend, TestOwnLock, SetReason, StopSelf, t_delete, DeleteSelf
<1>16. ASSUME NEW ok \in use[c], Invoke(c, ok[1], ok[2]) PROVE OnOwnList'
  <2>1. ok[2] \in Task
    <3>1. use[c] \in SUBSET ((OwnOps \cup OtherOps) \X Task)
      BY <1>1 DEF TcbTypeOK, Use
    <3>2. QED
      BY ONLY <3>1, ok \in use[c]
  <2>2. QED
    BY <1>6, <1>7, <1>14, <1>16, <2>1 DEF Invoke
<1>17. QED
  BY <1>5, <1>9, <1>10, <1>11, <1>12, <1>13, <1>15, <1>16 DEF Does, Step

\* What holds of tasks, whatever is called.
TasksInv == IInv /\ LifeInv /\ OnOwnList

\* The invariants of the lock, of the lives and of the lists together.
LEMMA TasksInvariance == Spec => []TasksInv
<1>1. Init => TasksInv
  <2>1. Init => LifeInv
    BY DEF Init, LifeInv, TaskLives, Joined, CallLives, OwnOps, OtherOps
  <2>2. Init => OnOwnList
    BY NobodyWaits DEF Init, OnOwnList, ListsTyped
  <2>3. QED
    BY <2>1, <2>2, InitIInv DEF TasksInv
<1>2. ASSUME TasksInv, [Next]_vars PROVE TasksInv'
  <2>1. CASE UNCHANGED vars
    <3>1. IInv'
      BY <1>2, <2>1 DEF vars, TasksInv, IInv, TcbTypeOK, InsideHolds, Inside, StillUnlocked,
         StoppedIsFree, CallFits, SelfSuspends, Raised, InEffect, OthersSet
    <3>2. LifeInv'
      BY <1>2, <2>1 DEF vars, TasksInv, LifeInv, TaskLives, Joined, CallLives
    <3>3. OnOwnList'
      BY <1>2, <2>1 DEF vars, TasksInv, OnOwnList, ListsTyped, WaitsAt
    <3>4. QED
      BY <3>1, <3>2, <3>3 DEF TasksInv
  <2>2. ASSUME NEW c \in Caller, Runs(c), Step(c) PROVE TasksInv'
    BY <1>2, <2>2, StepStep, StepLives, ListsKept DEF TasksInv, Does
  <2>3. ASSUME NEW c \in Caller, Runs(c), NEW ok \in use[c], Invoke(c, ok[1], ok[2])
        PROVE  TasksInv'
    BY <1>2, <2>3, StepInvoke, InvokeLives, ListsKept DEF TasksInv, Does
  <2>4. QED
    BY <1>2, <2>1, <2>2, <2>3 DEF Next
<1>3. QED
  BY <1>1, <1>2, PTL DEF Spec

\* No control block that has been freed is on the list of an object, whatever is
\* called and whoever waits, is deleted or canceled where it waits (task.c:668).
THEOREM FreedTasksAreOnNoList == Spec => []FreedOnNoList
<1>1. TasksInv => FreedOnNoList
  BY DEF TasksInv, OnOwnList, WaitsAt, FreedOnNoList
<1>2. QED
  BY <1>1, TasksInvariance, PTL

------------------------------------------------------------------------------
(* What the callers have to see to, for a suspended task to be there and to *)
(* be one that can be resumed.                                              *)

Looks(c) == op[c] = "suspend" /\ pc[c] \in {"lock", "asleep", "crit"}
Resumes(c) == op[c] = "resume" /\ pc[c] \in {"lock", "asleep", "crit", "found"}

\* A task that another one suspends is not deleted meanwhile: it does not exit,
\* and only the one that suspends it deletes it.
SuspendsAlone ==
    \A c \in Caller, k \in Task : <<"suspend", k>> \in use[c] /\ c # k =>
        /\ "exit" \notin Names(use[k])
        /\ \A d \in Caller \ {c} : <<"delete", k>> \notin use[d]

\* A task that suspends itself is suspended by no other, and resumed by one.
StopsItself(k) == "suspend0" \in Names(use[k]) \/ <<"suspend", k>> \in use[k]
OneWay ==
    \A k \in Task : StopsItself(k) =>
        /\ \A c \in Caller \ {k} : <<"suspend", k>> \notin use[c]
        /\ \A c, d \in Caller : <<"resume", k>> \in use[c] \cap use[d] => c = d

\* Who takes a control block off the list, and who ends a thread.
LEMMA WhoEnds ==
    ASSUME TasksInv, NEW c \in Caller, Runs(c), Does(c), NEW k \in Task, thread[k] = "running"
    PROVE  /\ k \in listed \ listed' => k = c /\ pc[c] = "exit"
           /\ thread'[k] # "running" => k = c /\ pc[c] = "cleanup"
<1> USE DEF tcbs, lists, threads, prio, lock, Goto, Call, Return
<1>1. IInv /\ TcbTypeOK /\ LifeInv
  BY DEF TasksInv, IInv
<1>2. ASSUME NEW ok \in use[c], Invoke(c, ok[1], ok[2])
      PROVE  k \notin listed \ listed' /\ thread'[k] = thread[k]
  BY <1>1, <1>2 DEF Invoke, TcbTypeOK, t_create, t_mode_slice, Begin, BeginSuspend, BeginSuspendSelf, BeginOwn, Wait
<1>3. ASSUME \/ Wake(c) \/ sched_lock(c) \/ Sleep(c) \/ sched_unlock(c)
             \/ t_mode(c) \/ Find(c) \/ t_resume(c) \/ t_setreg(c) \/ t_getreg(c)
             \/ t_setpri(c) \/ t_suspend(c) \/ TestOwnLock(c) \/ SetReason(c) \/ StopSelf(c)
             \/ t_delete(c) \/ DeleteSelf(c) \/ Die(c)
      PROVE  UNCHANGED <<listed, thread>>
  BY <1>3 DEF Wake, sched_lock, Sleep, sched_unlock, t_mode, Find, t_resume, t_setreg, t_getreg,
     t_setpri, t_suspend, TestOwnLock, SetReason, StopSelf, t_delete, DeleteSelf, Die
<1>4. CASE t_start(c)
  <2>1. tcb[c] \in listed \cap Task
    BY <1>1, <1>4 DEF t_start, LifeInv, CallLives, TcbTypeOK
  <2>2. Startable(tcb[c]) => thread[tcb[c]] = "none"
    BY <1>1, <2>1 DEF LifeInv, TaskLives, Startable
  <2>3. QED
    BY <1>1, <1>4, <2>1, <2>2 DEF t_start, tcb_delete, TcbTypeOK
<1>5. CASE Join(c)
  BY <1>1, <1>5 DEF Join, tcb_delete
<1>6. CASE Exit(c) \/ cleanup_scheduler_lock(c)
  BY <1>1, <1>6 DEF Exit, tcb_delete, cleanup_scheduler_lock, TcbTypeOK
<1>7. QED
  BY <1>2, <1>3, <1>4, <1>5, <1>6 DEF Does, Step

\* Who stops and resumes a thread.
LEMMA WhoStops ==
    ASSUME TasksInv, NEW c \in Caller, Runs(c), Does(c), NEW k \in Task
    PROVE  /\ k \in stopped' \ stopped =>
                  \/ Looks(c) /\ tcb[c] = k /\ k # c /\ suspend_reason'[k] = "TSUSP"
                  \/ k = c /\ pc[c] = "kill" /\ suspend_reason'[k] = suspend_reason[k]
           /\ k \in stopped \ stopped' => Resumes(c) /\ tcb[c] = k
           /\ suspend_reason[k] = "TSUSP" /\ suspend_reason'[k] # "TSUSP" =>
                  \/ Resumes(c) /\ tcb[c] = k /\ k \notin stopped'
                  \/ thread[k] # "running"
<1> USE DEF tcbs, lists, threads, prio, lock, Goto, Call, Return
<1>1. IInv /\ TcbTypeOK
  BY DEF TasksInv, IInv
<1>2. ASSUME NEW ok \in use[c], Invoke(c, ok[1], ok[2])
      PROVE  stopped' = stopped /\ (thread[k] = "running" => suspend_reason'[k] = suspend_reason[k])
  BY <1>1, <1>2 DEF Invoke, TcbTypeOK, t_create, t_mode_slice, Begin, BeginSuspend, BeginSuspendSelf, BeginOwn, Wait
<1>3. ASSUME \/ Wake(c) \/ sched_lock(c) \/ Sleep(c) \/ sched_unlock(c)
             \/ t_mode(c) \/ Find(c) \/ t_setreg(c) \/ t_getreg(c)
             \/ t_setpri(c) \/ TestOwnLock(c) \/ t_delete(c) \/ DeleteSelf(c) \/ Die(c)
             \/ Join(c) \/ Exit(c) \/ cleanup_scheduler_lock(c)
      PROVE  UNCHANGED <<stopped, suspend_reason>>
  BY <1>3 DEF Wake, sched_lock, Sleep, sched_unlock, t_mode, Find, t_setreg, t_getreg,
     t_setpri, TestOwnLock, t_delete, DeleteSelf, Die, Join, Exit, cleanup_scheduler_lock
<1>4. CASE t_start(c)
  BY <1>1, <1>4 DEF t_start, tcb_delete, Startable, TcbTypeOK
<1>5. CASE t_resume(c)
  BY <1>1, <1>5 DEF t_resume, TcbTypeOK, Resumes
<1>6. CASE t_suspend(c)
  BY <1>1, <1>6 DEF t_suspend, TcbTypeOK, Looks
<1>7. CASE SetReason(c) \/ StopSelf(c)
  BY <1>1, <1>7 DEF SetReason, StopSelf, TcbTypeOK
<1>8. QED
  BY <1>2, <1>3, <1>4, <1>5, <1>6, <1>7 DEF Does, Step

\* What a caller does keeps all three.
LEMMA StepKept == ASSUME TasksInv, NEW c \in Caller, Runs(c), Does(c) PROVE TasksInv'
<1>1. IInv /\ LifeInv /\ OnOwnList
  BY DEF TasksInv
<1>2. CASE Step(c)
  BY <1>1, <1>2, StepStep, StepLives, ListsKept DEF TasksInv
<1>3. ASSUME NEW ok \in use[c], Invoke(c, ok[1], ok[2]) PROVE TasksInv'
  BY <1>1, <1>3, StepInvoke, InvokeLives, ListsKept DEF TasksInv, Does
<1>4. QED
  BY <1>2, <1>3 DEF Does

\* What the threads call is settled at the start.
LEMMA UseStays == ASSUME NEW c \in Caller, Does(c) PROVE use' = use
<1>1. ASSUME NEW ok \in use[c], Invoke(c, ok[1], ok[2]) PROVE use' = use
  BY <1>1 DEF Invoke, t_create, t_mode_slice, Begin, BeginSuspend, BeginSuspendSelf, BeginOwn, Wait
<1>2. CASE Step(c)
  BY <1>2 DEF Step, Wake, sched_lock, Sleep, sched_unlock, t_mode, Find, t_start, t_resume, t_setreg,
     t_getreg, t_setpri, t_suspend, TestOwnLock, SetReason, StopSelf, t_delete, DeleteSelf, Join,
     Exit, Die, cleanup_scheduler_lock
<1>3. QED
  BY <1>1, <1>2 DEF Does

\* How a call to suspend or resume begins.
LEMMA WhoBegins ==
    ASSUME TasksInv, NEW c \in Caller, Runs(c), Does(c)
    PROVE  /\ Looks(c)' => pc[c] \in {"user", "lock"}
           /\ Looks(c)' => \/ Looks(c) /\ tcb'[c] = tcb[c]
                           \/ tcb'[c] \in listed /\ thread[tcb'[c]] = "running"
           /\ Resumes(c)' => \/ Resumes(c) /\ tcb'[c] = tcb[c] /\ stopped' = stopped
                             \/ tcb'[c] \in stopped \cap stopped'
           /\ pc'[c] = "kill" => pc[c] = "reason" /\ suspend_reason'[c] = "TSUSP" /\ stopped' = stopped
<1> USE DEF tcbs, lists, threads, prio, lock, Goto, Call, Return, Looks, Resumes
<1>1. TcbTypeOK /\ SelfSuspends
  BY DEF TasksInv, IInv
<1>2. ASSUME NEW ok \in use[c], Invoke(c, ok[1], ok[2])
      PROVE  /\ Looks(c)' => pc[c] = "user" /\ tcb'[c] \in listed /\ thread[tcb'[c]] = "running"
             /\ Resumes(c)' => tcb'[c] \in stopped \cap stopped'
             /\ pc'[c] # "kill"
  <2>1. CASE t_create(c, ok[2])
    BY <1>1, <2>1 DEF t_create
  <2>2. CASE ~t_create(c, ok[2])
    BY <1>1, <1>2, <2>2 DEF Invoke, TcbTypeOK, t_mode_slice, Begin, BeginSuspend, BeginSuspendSelf, BeginOwn, Wait, Careful
  <2>3. QED
    BY <2>1, <2>2
<1>3. ASSUME \/ Wake(c) \/ sched_unlock(c) \/ t_mode(c) \/ t_setreg(c) \/ t_getreg(c) \/ t_start(c)
             \/ t_setpri(c) \/ TestOwnLock(c) \/ t_delete(c) \/ DeleteSelf(c) \/ Die(c)
             \/ Join(c) \/ Exit(c) \/ cleanup_scheduler_lock(c) \/ t_resume(c) \/ t_suspend(c)
             \/ StopSelf(c)
      PROVE  ~Looks(c)' /\ ~Resumes(c)' /\ pc'[c] # "kill"
  BY <1>1, <1>3 DEF Wake, sched_unlock, t_mode, t_setreg, t_getreg, Woken, AfterUnlock, TcbTypeOK,
     t_setpri, TestOwnLock, t_delete, DeleteSelf, Die, Join, Exit, cleanup_scheduler_lock, t_start,
     t_resume, t_suspend, StopSelf
<1>4. CASE sched_lock(c) \/ Sleep(c) \/ Find(c)
  BY <1>1, <1>4 DEF sched_lock, Woken, Sleep, Find, TcbTypeOK
<1>5. CASE SetReason(c)
  BY <1>1, <1>5 DEF SetReason, TcbTypeOK, SelfSuspends
<1>6. QED
  BY <1>2, <1>3, <1>4, <1>5 DEF Does, Step

\* The task that is about to be suspended runs, and only threads that run are stopped.
LookedUpRuns == \A c \in Caller : Looks(c) => tcb[c] \in listed /\ thread[tcb[c]] = "running"
StoppedRun   == \A k \in stopped : thread[k] = "running"
SuspInv == SuspendsAlone => LookedUpRuns /\ StoppedRun

\* Stopped is suspended; between its mark and its stop a task that suspends itself is
\* suspended and not resumed; and who resumes it finds it stopped.
MarkedNotStopped ==
    \A k \in Task : pc[k] = "kill" => k \notin stopped /\ suspend_reason[k] = "TSUSP"
ResumedIsStopped == \A c \in Caller : Resumes(c) /\ StopsItself(tcb[c]) => tcb[c] \in stopped
StopInv ==
    SuspendsAlone /\ OneWay =>
        /\ \A k \in stopped : suspend_reason[k] = "TSUSP"
        /\ MarkedNotStopped /\ ResumedIsStopped

\* What t_suspend has looked up keeps running, and what is stopped does.
LEMMA SuspKept ==
    ASSUME TasksInv, SuspInv, SuspendsAlone, NEW c \in Caller, Runs(c), Does(c)
    PROVE  LookedUpRuns' /\ StoppedRun'
<1>1. IInv /\ TcbTypeOK /\ LifeInv /\ CallFits /\ LookedUpRuns /\ StoppedRun
  BY DEF TasksInv, IInv, SuspInv
<1>2. ASSUME NEW d \in Caller, d # c, Looks(d) PROVE tcb[d] \in listed' /\ thread'[tcb[d]] = "running"
  <2> DEFINE k == tcb[d]
  <2>1. /\ k \in listed /\ k \in Task /\ thread[k] = "running"
        /\ op[d] = "suspend" /\ <<"suspend", k>> \in use[d]
    BY <1>1, <1>2 DEF LookedUpRuns, Looks, CallFits, OtherOps
  <2> HIDE DEF k
  <2>2. ASSUME k = c, pc[c] = "exit" PROVE FALSE
    <3>1. op[c] = "exit" \/ (op[c] = "delete" /\ tcb[c] = c)
      BY <1>1, <2>2 DEF LifeInv, CallLives
    <3>2. "exit" \in Names(use[c]) \/ <<"delete", c>> \in use[c]
      BY <1>1, <3>1 DEF CallFits, OtherOps, OwnOps
    <3>3. QED
      BY <1>2, <2>1, <2>2, <3>2 DEF SuspendsAlone
  <2>3. ASSUME k = c, pc[c] = "cleanup" PROVE FALSE
    <3>1. Joined(c)
      BY <1>1, <2>1, <2>3 DEF LifeInv, TaskLives
    <3>2. PICK e \in Caller : op[e] = "delete" /\ <<"delete", c>> \in use[e]
      BY <1>1, <3>1 DEF Joined, CallFits, OtherOps
    <3>3. e # d
      BY <2>1, <3>2
    <3>4. QED
      BY <1>2, <2>1, <2>3, <3>2, <3>3 DEF SuspendsAlone
  <2>4. QED
    BY <2>1, <2>2, <2>3, WhoEnds DEF k
<1>3. ASSUME NEW d \in Caller, Looks(d)' PROVE tcb'[d] \in listed' /\ thread'[tcb'[d]] = "running"
  <2>1. CASE d # c
    <3>1. Looks(d) /\ tcb'[d] = tcb[d]
      BY <1>1, <1>3, <2>1, OthersStay DEF Looks
    <3>2. QED
      BY <1>2, <2>1, <3>1
  <2>2. CASE d = c
    <3>1. tcb'[c] \in listed /\ thread[tcb'[c]] = "running" /\ tcb'[c] \in Task
      BY <1>1, <1>3, <2>2, WhoBegins DEF LookedUpRuns, TcbTypeOK
    <3>2. pc[c] \notin {"exit", "cleanup"}
      BY <1>3, <2>2, WhoBegins
    <3>3. QED
      BY <2>2, <3>1, <3>2, WhoEnds
  <2>3. QED
    BY <2>1, <2>2
<1>4. ASSUME NEW k \in stopped' PROVE thread'[k] = "running"
  <2>1. k \in Task
    BY <1>4, StepKept DEF TasksInv, IInv, TcbTypeOK
  <2>2. CASE k \in stopped
    <3>1. thread[k] = "running" /\ k # c
      BY <1>1, <2>1, <2>2, RootAssumption DEF StoppedRun, Runs
    <3>2. QED
      BY <2>1, <3>1, WhoEnds
  <2>3. CASE k \notin stopped
    <3>1. (Looks(c) /\ tcb[c] = k /\ k # c) \/ (k = c /\ pc[c] = "kill")
      BY <1>4, <2>1, <2>3, WhoStops
    <3>2. thread[k] = "running" /\ (k = c => pc[c] = "kill")
      BY <1>1, <2>1, <3>1, RootAssumption DEF LookedUpRuns, Runs
    <3>3. QED
      BY <2>1, <3>2, WhoEnds
  <2>4. QED
    BY <2>2, <2>3
<1>5. QED
  BY <1>3, <1>4 DEF LookedUpRuns, StoppedRun

\* What is stopped is marked as suspended, in uses where it is resumed by one task.
LEMMA StopKept ==
    ASSUME TasksInv, SuspInv, StopInv, SuspendsAlone, OneWay, NEW c \in Caller, Runs(c), Does(c)
    PROVE  /\ \A k \in stopped' : suspend_reason'[k] = "TSUSP"
           /\ MarkedNotStopped' /\ ResumedIsStopped'
<1>1. /\ IInv /\ TcbTypeOK /\ LifeInv /\ CallFits /\ SelfSuspends /\ LookedUpRuns /\ StoppedRun
      /\ MarkedNotStopped /\ ResumedIsStopped
      /\ \A k \in stopped : k \in Task /\ suspend_reason[k] = "TSUSP" /\ thread[k] = "running"
  BY DEF TasksInv, IInv, SuspInv, StopInv, TcbTypeOK, StoppedRun
<1>2. /\ use' = use /\ stopped' \subseteq Task
      /\ \A d \in Caller : /\ Resumes(d) => tcb[d] \in Task /\ <<"resume", tcb[d]>> \in use[d]
                           /\ Looks(d) => tcb[d] \in Task /\ <<"suspend", tcb[d]>> \in use[d]
  BY <1>1, StepKept, UseStays DEF TasksInv, IInv, TcbTypeOK, CallFits, OtherOps, Resumes, Looks
<1>3. ASSUME NEW k \in stopped' PROVE suspend_reason'[k] = "TSUSP"
  <2>1. CASE k \in stopped
    BY <1>1, <1>2, <1>3, <2>1, WhoStops
  <2>2. CASE k \notin stopped
    BY <1>1, <1>2, <1>3, <2>2, WhoStops DEF MarkedNotStopped
  <2>3. QED
    BY <2>1, <2>2
<1>4. ASSUME NEW k \in Task, pc'[k] = "kill"
      PROVE  k \notin stopped' /\ suspend_reason'[k] = "TSUSP"
  <2>1. CASE k = c
    <3>1. pc[c] = "reason" /\ suspend_reason'[c] = "TSUSP" /\ stopped' = stopped
      BY <1>4, <2>1, WhoBegins
    <3>2. QED
      BY <2>1, <3>1, RootAssumption DEF Runs
  <2>2. CASE k # c
    <3>1. pc[k] = "kill" /\ thread[k] = "running"
      BY <1>1, <1>4, <2>2, OthersStay DEF LifeInv, TaskLives
    <3>2. k \notin stopped /\ suspend_reason[k] = "TSUSP"
      BY <1>1, <3>1 DEF MarkedNotStopped
    <3>3. StopsItself(k)
      BY <1>1, <3>1 DEF SelfSuspends, CallFits, OwnOps, OtherOps, StopsItself
    <3>4. ~(Looks(c) /\ tcb[c] = k)
      BY <1>2, <2>2, <3>3 DEF OneWay
    <3>5. ~(Resumes(c) /\ tcb[c] = k)
      BY <1>1, <3>2, <3>3 DEF ResumedIsStopped
    <3>6. QED
      BY <2>2, <3>1, <3>2, <3>4, <3>5, WhoStops
  <2>3. QED
    BY <2>1, <2>2
<1>5. ASSUME NEW d \in Caller, Resumes(d)', StopsItself(tcb[d])' PROVE tcb'[d] \in stopped'
  <2>1. CASE d = c
    <3>1. CASE tcb'[c] \in stopped \cap stopped'
      BY <2>1, <3>1
    <3>2. CASE Resumes(c) /\ tcb'[c] = tcb[c] /\ stopped' = stopped
      BY <1>1, <1>2, <1>5, <2>1, <3>2 DEF ResumedIsStopped, StopsItself
    <3>3. QED
      BY <1>5, <2>1, <3>1, <3>2, WhoBegins
  <2>2. CASE d # c
    <3>1. Resumes(d) /\ tcb'[d] = tcb[d]
      BY <1>1, <1>5, <2>2, OthersStay DEF Resumes
    <3>2. tcb[d] \in stopped /\ tcb[d] \in Task /\ StopsItself(tcb[d]) /\ <<"resume", tcb[d]>> \in use[d]
      BY <1>1, <1>2, <1>5, <3>1 DEF ResumedIsStopped, StopsItself
    <3>3. ~(Resumes(c) /\ tcb[c] = tcb[d])
      BY <1>2, <2>2, <3>2 DEF OneWay
    <3>4. QED
      BY <3>1, <3>2, <3>3, WhoStops
  <2>3. QED
    BY <2>1, <2>2
<1>6. QED
  BY <1>3, <1>4, <1>5 DEF MarkedNotStopped, ResumedIsStopped

\* The invariants of careful uses.
LEMMA CarefulInvariance == Spec => [](TasksInv /\ SuspInv /\ StopInv)
<1>1. Init => SuspInv /\ StopInv
  BY DEF Init, SuspInv, StopInv, LookedUpRuns, StoppedRun, Looks, Resumes, MarkedNotStopped,
     ResumedIsStopped
<1>2. ASSUME TasksInv, SuspInv, StopInv, [Next]_vars PROVE SuspInv' /\ StopInv'
  <2>1. CASE UNCHANGED vars
    <3>1. SuspInv'
      BY <1>2, <2>1 DEF vars, SuspInv, LookedUpRuns, StoppedRun, Looks, SuspendsAlone
    <3>2. StopInv'
      BY <1>2, <2>1 DEF vars, StopInv, SuspendsAlone, OneWay, StopsItself, MarkedNotStopped,
         ResumedIsStopped, Resumes
    <3>3. QED
      BY <3>1, <3>2
  <2>2. ASSUME NEW c \in Caller, Runs(c), Does(c) PROVE SuspInv' /\ StopInv'
    <3>1. use' = use
      BY <2>2, UseStays
    <3>2. (SuspendsAlone' <=> SuspendsAlone) /\ (OneWay' <=> OneWay)
      BY <3>1 DEF SuspendsAlone, OneWay, StopsItself
    <3>3. SuspendsAlone => LookedUpRuns' /\ StoppedRun'
      BY <1>2, <2>2, SuspKept
    <3>4. SuspendsAlone /\ OneWay => /\ \A k \in stopped' : suspend_reason'[k] = "TSUSP"
                                     /\ MarkedNotStopped' /\ ResumedIsStopped'
      BY <1>2, <2>2, StopKept
    <3>5. QED
      BY <3>2, <3>3, <3>4 DEF SuspInv, StopInv
  <2>3. QED
    BY <1>2, <2>1, <2>2 DEF Next, Does
<1>3. QED
  BY <1>1, <1>2, TasksInvariance, PTL DEF Spec

\* A call that has looked a task up works on a control block that is still allocated,
\* t_suspend too, which looks it up before it has the scheduler locked, if no task that
\* is suspended by others deletes itself or is deleted by a third one (task.c:1136-1152).
THEOREM FoundTasksAreThere == Spec => [](SuspendsAlone => FoundIsThere)
<1>1. TasksInv /\ SuspInv => (SuspendsAlone => FoundIsThere)
  BY DEF TasksInv, LifeInv, CallLives, SuspInv, LookedUpRuns, Looks, FoundIsThere
<1>2. QED
  BY <1>1, CarefulInvariance, PTL

\* A stopped task can be resumed, if, besides, a task that suspends itself is suspended
\* by no other and resumed by one: t_suspend of the caller marks it and stops it in two
\* steps without a lock (task.c:1159-1186, 1280).
THEOREM StoppedTasksCanBeResumed == Spec => [](SuspendsAlone /\ OneWay => StoppedIsSuspended)
<1>1. StopInv => (SuspendsAlone /\ OneWay => StoppedIsSuspended)
  BY DEF StopInv, StoppedIsSuspended
<1>2. QED
  BY <1>1, CarefulInvariance, PTL
==============================================================================
