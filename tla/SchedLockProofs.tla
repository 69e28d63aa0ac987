--------------------------- MODULE SchedLockProofs ---------------------------
(***************************************************************************)
(* What the scheduler lock guarantees for any number of tasks and calls.   *)
(***************************************************************************)
EXTENDS SchedLock, TLAPS

USE NoTaskAssumption, UsesAssumption

\* A use is what UsesAssumption says, and it never changes.
UseOK == Ops \in [Task -> SUBSET AllOps] /\ Victims \subseteq Task /\ MaxCalls \in Nat

\* It is, in a well-formed state.
LEMMA UseIsOK == TypeOK => UseOK
BY DEF TypeOK, UseOK, Use, Ops, Victims, MaxCalls

Frozen ==
    /\ use' = use /\ Ops' = Ops /\ Victims' = Victims
    /\ Disciplined' = Disciplined /\ NoReturns' = NoReturns

\* No step changes the use.
LEMMA UseIsFrozen == [Next]_vars => Frozen
BY DEF Next, Step, Call, vars, Frozen, Ops, Victims, Disciplined, NoReturns

------------------------------------------------------------------------------
(* The state stays well formed whatever the tasks do (task.c:57-90).       *)
LEMMA TypeStep == TypeOK /\ [Next]_vars => TypeOK'
<1> SUFFICES ASSUME TypeOK, [Next]_vars PROVE TypeOK'
  OBVIOUS
<1>u. UseOK /\ use' = use
  BY UseIsOK, UseIsFrozen DEF Frozen
<1> USE <1>u DEF TypeOK, Goto, lock, task
<1>1. CASE UNCHANGED vars
  BY <1>1 DEF vars
<1>2. ASSUME NEW t \in Task, NEW o \in Ops[t], Call(t, o)
      PROVE  TypeOK'
  BY <1>2 DEF Call, AllOps, Places, UseOK
<1>3. ASSUME NEW t \in Task, Step(t)
      PROVE  TypeOK'
  <2>1. CASE LockMutex(t) BY <2>1 DEF LockMutex, Places
  <2>2. CASE TestFlag(t) BY <2>2 DEF TestFlag, Places
  <2>3. CASE SetFlag(t) BY <2>3 DEF SetFlag, Broadcast, Nested, Places
  <2>4. CASE CondWait(t) BY <2>4 DEF CondWait, Places
  <2>5. CASE WakeUp(t) BY <2>5 DEF WakeUp, Places
  <2>6. CASE TestCancel(t) BY <2>6 DEF TestCancel, Places
  <2>7. CASE RaisePriority(t) BY <2>7 DEF RaisePriority, Places
  <2>8. CASE FinishWork(t) BY <2>8 DEF FinishWork, Places
  <2>9. CASE CancelOther(t) BY <2>9 DEF CancelOther, Places
  <2>10. CASE JoinVictim(t) BY <2>10 DEF JoinVictim, Places
  <2>11. CASE ExitSelf(t) BY <2>11 DEF ExitSelf, Places
  <2>12. CASE DeleteOwnTcb(t) BY <2>12 DEF DeleteOwnTcb, Places
  <2>13. CASE UnlockMutex(t) BY <2>13 DEF UnlockMutex, Places
  <2>14. CASE DecrementLevel(t)
    BY <2>14 DEF DecrementLevel, LeaveFlag, Outermost, Restored, Broadcast, ReturnFrom, Places
  <2>15. CASE KilledInUserCode(t) BY <2>15 DEF KilledInUserCode, Killed, Places
  <2>16. CASE KilledInCondWait(t) BY <2>16 DEF KilledInCondWait, Killed, Places
  <2>17. CASE KilledInTestCancel(t) BY <2>17 DEF KilledInTestCancel, Killed, Places
  <2>18. CASE CleanupLock(t) BY <2>18 DEF CleanupLock, Places
  <2>19. CASE ClearFlag(t) BY <2>19 DEF ClearFlag, cleanup_scheduler_lock, Places
  <2>20. QED
    BY <1>3, <2>1, <2>2, <2>3, <2>4, <2>5, <2>6, <2>7, <2>8, <2>9, <2>10, <2>11,
       <2>12, <2>13, <2>14, <2>15, <2>16, <2>17, <2>18, <2>19 DEF Step
<1>4. QED
  BY <1>1, <1>2, <1>3 DEF Next

\* The lock's variables stay well formed (sched_lock and sched_unlock, p2pthread.c).
THEOREM TypeCorrect == Spec => []TypeOK
<1>1. Init => TypeOK
  BY DEF Init, TypeOK, StartLevel, Places, AllOps
<1>2. QED
  BY <1>1, TypeStep, PTL DEF Spec

------------------------------------------------------------------------------
(* The inductive invariant, in named parts.  It holds in the disciplined   *)
(* uses, where those whom others delete never lock the scheduler.          *)

\* Who is killed was not in the library.
VictimsAreQuiet ==
    /\ canceled \subseteq Victims
    /\ \A v \in Victims : /\ pc[v] \in {"user", "cleanup", "clear", "dead"}
                          /\ op[v] \in {"none", "killed"}
                          /\ v \notin nopreempt

\* Whoever is between a lock and an unlock of p2pt_sched_lock holds it.
MutexIsHeld ==
    \A t \in Task : pc[t] \in {"test", "set", "wait", "dec", "clear"} => mutex = t

\* What the test of the flag found stays true up to the assignment.
TestStaysTrue == \A t \in Task : pc[t] = "set" => FlagIsMine(t)

SleepersSleep == \A t \in waiting : pc[t] = "waiting"

\* The operation fits the place.
OpFits ==
    \A t \in Task :
        /\ pc[t] \in {"lock", "test", "set", "wait", "waiting", "woken", "tcgot",
                      "tcretry", "raise", "crit", "join", "exit"} => op[t] # "preempt"
        /\ pc[t] \in {"unlock", "dec"} /\ op[t] = "preempt" => t \in nopreempt
        /\ op[t] = "nopreempt" /\ pc[t] = "raise" => t \notin nopreempt
        /\ op[t] = "nopreempt" /\ pc[t] \in {"lock", "test", "set", "wait", "waiting",
             "woken", "tcgot", "tcretry"} => t \notin nopreempt
        /\ pc[t] \in {"cleanup", "clear"} => op[t] \in {"delself", "return", "killed"}
        /\ pc[t] = "exit" => op[t] \in {"delself", "return"}
        /\ pc[t] = "join" => op[t] = "delother"

\* A returning task has run its handler before it calls t_delete.
HandlerFits ==
    \A t \in Task :
        /\ t \notin handler => op[t] = "return" \/ pc[t] = "dead"
        /\ op[t] = "return" /\ pc[t] \notin {"cleanup", "clear"}
             => t \notin handler /\ t \notin nopreempt
        /\ op[t] = "return" => pc[t] \notin {"user", "unlock", "dec"}
        /\ pc[t] = "dead" => t \notin nopreempt

\* The flag and the level are the holder's.
HolderHasFlag ==
    \A t \in Task : Depth(t) > 0 => scheduler_locked = t /\ sched_lock_level = Depth(t)

\* Nobody else owns the flag, but for a task that has returned for good.
FlagHasHolder ==
    /\ scheduler_locked = NoTask => sched_lock_level = 0
    /\ \A t \in Task : scheduler_locked = t /\ Depth(t) = 0
                         => pc[t] = "dead" /\ op[t] = "return"

IInv == /\ TypeOK /\ VictimsAreQuiet /\ MutexIsHeld /\ TestStaysTrue /\ SleepersSleep
        /\ OpFits /\ HandlerFits /\ HolderHasFlag /\ FlagHasHolder

\* The lock is free at the beginning.
LEMMA InitIInv == Init => IInv
<1>1. Init => TypeOK
  BY DEF Init, TypeOK, StartLevel, Places, AllOps
<1>2. QED
  BY <1>1, UseIsOK
  DEF UseOK, Init, StartLevel, IInv, VictimsAreQuiet, MutexIsHeld,
       TestStaysTrue, SleepersSleep, OpFits, HandlerFits, HolderHasFlag,
       FlagHasHolder, Depth, HasLock

\* Every step of disciplined tasks keeps the invariant.
LEMMA StepIInv == ASSUME Disciplined, IInv, [Next]_vars PROVE IInv'
<1>t. TypeOK'
  BY TypeStep DEF IInv
<1>u. UseOK /\ Frozen
  BY UseIsOK, UseIsFrozen DEF IInv
<1> USE <1>u DEF IInv, UseOK, Frozen, TypeOK, Goto, lock, task, VictimsAreQuiet, MutexIsHeld,
       TestStaysTrue, SleepersSleep, OpFits, HandlerFits, HolderHasFlag,
       FlagHasHolder, Depth, HasLock, FlagIsMine
<1>1. CASE UNCHANGED vars
  BY <1>1 DEF vars
<1>2. ASSUME NEW t \in Task, NEW o \in Ops[t], Call(t, o)
      PROVE  IInv'
  BY <1>2, <1>t DEF Call, MayCall, Disciplined
<1>3. ASSUME NEW t \in Task, Step(t)
      PROVE  IInv'
  <2>1. CASE LockMutex(t) BY <2>1, <1>t DEF LockMutex
  <2>2. CASE TestFlag(t) BY <2>2, <1>t DEF TestFlag
  <2>3. CASE SetFlag(t) BY <2>3, <1>t DEF SetFlag, Broadcast, Nested
  <2>4. CASE CondWait(t) BY <2>4, <1>t DEF CondWait
  <2>5. CASE WakeUp(t) BY <2>5, <1>t DEF WakeUp
  <2>6. CASE TestCancel(t) BY <2>6, <1>t DEF TestCancel
  <2>7. CASE RaisePriority(t) BY <2>7, <1>t DEF RaisePriority
  <2>8. CASE FinishWork(t) BY <2>8, <1>t DEF FinishWork
  <2>9. CASE CancelOther(t) BY <2>9, <1>t DEF CancelOther
  <2>10. CASE JoinVictim(t) BY <2>10, <1>t DEF JoinVictim
  <2>11. CASE ExitSelf(t) BY <2>11, <1>t DEF ExitSelf
  <2>12. CASE DeleteOwnTcb(t) BY <2>12, <1>t DEF DeleteOwnTcb
  <2>13. CASE UnlockMutex(t) BY <2>13, <1>t DEF UnlockMutex
  <2>14. CASE DecrementLevel(t)
    BY <2>14, <1>t DEF DecrementLevel, LeaveFlag, Outermost, Restored, Broadcast, ReturnFrom
  <2>15. CASE KilledInUserCode(t) BY <2>15, <1>t DEF KilledInUserCode, Killed
  <2>16. CASE KilledInCondWait(t) BY <2>16, <1>t DEF KilledInCondWait, Killed
  <2>17. CASE KilledInTestCancel(t) BY <2>17, <1>t DEF KilledInTestCancel, Killed
  <2>18. CASE CleanupLock(t) BY <2>18, <1>t DEF CleanupLock
  <2>19. CASE ClearFlag(t) BY <2>19, <1>t DEF ClearFlag, cleanup_scheduler_lock
  <2>20. QED
    BY <1>3, <2>1, <2>2, <2>3, <2>4, <2>5, <2>6, <2>7, <2>8, <2>9, <2>10, <2>11,
       <2>12, <2>13, <2>14, <2>15, <2>16, <2>17, <2>18, <2>19 DEF Step
<1>4. QED
  BY <1>1, <1>2, <1>3 DEF Next

------------------------------------------------------------------------------
\* The invariant of disciplined tasks holds always.
LEMMA Invariance == Spec => [](Disciplined => IInv)
<1>1. ASSUME Disciplined => IInv, [Next]_vars PROVE (Disciplined => IInv)'
  BY <1>1, StepIInv, UseIsFrozen DEF Frozen
<1>2. QED
  BY <1>1, InitIInv, PTL DEF Spec

\* Mutual exclusion: at most one task at a time is between sched_lock and its
\* outermost sched_unlock (task.c:225-400).
THEOREM MutualExclusion == Spec => []OneHolder
<1>1. (Disciplined => IInv) => OneHolder
  BY DEF IInv, HolderHasFlag, OneHolder, Holders
<1>2. QED
  BY <1>1, Invariance, PTL

NobodyReturned == \A t \in Task : op[t] # "return"

\* Where no task returns from its function, none has returned.
LEMMA NoReturnInvariant == Spec => [](NoReturns => NobodyReturned)
<1>1. Init => NobodyReturned
  BY DEF Init, NobodyReturned
<1>2. ASSUME TypeOK, NoReturns, NobodyReturned, [Next]_vars PROVE NobodyReturned'
  <2> USE <1>2 DEF NobodyReturned, TypeOK
  <2>1. CASE UNCHANGED vars
    BY <2>1 DEF vars
  <2>2. ASSUME NEW t \in Task, NEW o \in Ops[t], Call(t, o) PROVE NobodyReturned'
    BY <2>2 DEF NoReturns, Call
  <2>3. ASSUME NEW t \in Task, Step(t) PROVE NobodyReturned'
    BY <2>3 DEF Step, LockMutex, TestFlag, SetFlag, CondWait, WakeUp, TestCancel,
       RaisePriority, FinishWork, CancelOther, JoinVictim, ExitSelf, DeleteOwnTcb,
       UnlockMutex, DecrementLevel, KilledInUserCode, KilledInCondWait,
       KilledInTestCancel, Killed, CleanupLock, ClearFlag
  <2>4. QED
    BY <2>1, <2>2, <2>3, <1>2 DEF Next
<1>3. ASSUME TypeOK, NoReturns => NobodyReturned, [Next]_vars PROVE (NoReturns => NobodyReturned)'
  BY <1>2, <1>3, UseIsFrozen DEF Frozen
<1>4. QED
  BY <1>1, <1>3, TypeCorrect, PTL DEF Spec

\* The scheduler is locked exactly while it has a holder, as deep as the holder
\* has locked it, if no task function returns (task.c:266-279, 357-386).
THEOREM LevelCorrect == Spec => []LevelMatchesHolder
<1>1. (Disciplined => IInv) /\ (NoReturns => NobodyReturned) => LevelMatchesHolder
  <2> SUFFICES ASSUME Disciplined => IInv, NoReturns => NobodyReturned, Disciplined, NoReturns
               PROVE  LevelMatchesHolder
    BY DEF LevelMatchesHolder
  <2>1. ASSUME Holders = {} PROVE scheduler_locked = NoTask /\ sched_lock_level = 0
    <3>1. \A t \in Task : Depth(t) = 0
      BY <2>1 DEF Holders, Depth
    <3>2. QED
      BY <3>1 DEF IInv, TypeOK, FlagHasHolder, NobodyReturned
  <2>2. QED
    BY <2>1 DEF LevelMatchesHolder, IInv, HolderHasFlag
<1>2. QED
  BY <1>1, Invariance, NoReturnInvariant, PTL

\* A task that ends, deleted or killed, leaves the scheduler unlocked, if no task
\* function returns (task.c:806-824).
THEOREM OwnerLives == Spec => [](Disciplined /\ NoReturns => OwnerIsAlive)
<1>1. (Disciplined => IInv) /\ (NoReturns => NobodyReturned)
        => (Disciplined /\ NoReturns => OwnerIsAlive)
  <2> SUFFICES ASSUME IInv, NobodyReturned, NEW t \in Task, scheduler_locked = t
               PROVE  pc[t] # "dead"
    BY DEF OwnerIsAlive, IInv, TypeOK
  <2>1. Depth(t) # 0
    BY DEF IInv, FlagHasHolder, NobodyReturned
  <2>2. QED
    BY <2>1 DEF Depth, HasLock, IInv, HandlerFits
<1>2. QED
  BY <1>1, Invariance, NoReturnInvariant, PTL

------------------------------------------------------------------------------
(* A freed task control block belongs to a thread that is past its last    *)
(* use.  This needs no discipline.                                         *)

FreedInv ==
    /\ FreedTaskIsGone
    /\ SleepersSleep
    /\ \A t \in Task :
         /\ t \notin handler => op[t] = "return" \/ pc[t] = "dead"
         /\ op[t] = "return" /\ pc[t] \notin {"cleanup", "clear"} => t \notin handler
         /\ op[t] = "return" => pc[t] \notin {"user", "unlock", "dec"}
         /\ pc[t] = "join" => op[t] = "delother"
         /\ pc[t] \in {"cleanup", "clear"} /\ op[t] = "return" => t \in listed

\* Every step keeps what is said of freed tasks.
LEMMA StepFreed == ASSUME TypeOK, FreedInv, [Next]_vars PROVE FreedInv'
<1>u. UseOK
  BY UseIsOK
<1> USE <1>u DEF UseOK, TypeOK, FreedInv, FreedTaskIsGone, SleepersSleep, Goto, lock, task
<1>1. CASE UNCHANGED vars
  BY <1>1 DEF vars
<1>2. ASSUME NEW t \in Task, NEW o \in Ops[t], Call(t, o)
      PROVE  FreedInv'
  BY <1>2 DEF Call
<1>3. ASSUME NEW t \in Task, Step(t)
      PROVE  FreedInv'
  <2>1. CASE LockMutex(t) BY <2>1 DEF LockMutex
  <2>2. CASE TestFlag(t) BY <2>2 DEF TestFlag
  <2>3. CASE SetFlag(t) BY <2>3 DEF SetFlag, Broadcast
  <2>4. CASE CondWait(t) BY <2>4 DEF CondWait
  <2>5. CASE WakeUp(t) BY <2>5 DEF WakeUp
  <2>6. CASE TestCancel(t) BY <2>6 DEF TestCancel
  <2>7. CASE RaisePriority(t) BY <2>7 DEF RaisePriority
  <2>8. CASE FinishWork(t) BY <2>8 DEF FinishWork
  <2>9. CASE CancelOther(t) BY <2>9 DEF CancelOther
  <2>10. CASE JoinVictim(t) BY <2>10 DEF JoinVictim, Joined
  <2>11. CASE ExitSelf(t) BY <2>11 DEF ExitSelf
  <2>12. CASE DeleteOwnTcb(t) BY <2>12 DEF DeleteOwnTcb
  <2>13. CASE UnlockMutex(t) BY <2>13 DEF UnlockMutex
  <2>14. CASE DecrementLevel(t) BY <2>14 DEF DecrementLevel, LeaveFlag, Broadcast, ReturnFrom
  <2>15. CASE KilledInUserCode(t) BY <2>15 DEF KilledInUserCode, Killed
  <2>16. CASE KilledInCondWait(t) BY <2>16 DEF KilledInCondWait, Killed
  <2>17. CASE KilledInTestCancel(t) BY <2>17 DEF KilledInTestCancel, Killed
  <2>18. CASE CleanupLock(t) BY <2>18 DEF CleanupLock
  <2>19. CASE ClearFlag(t) BY <2>19 DEF ClearFlag, cleanup_scheduler_lock
  <2>20. QED
    BY <1>3, <2>1, <2>2, <2>3, <2>4, <2>5, <2>6, <2>7, <2>8, <2>9, <2>10, <2>11,
       <2>12, <2>13, <2>14, <2>15, <2>16, <2>17, <2>18, <2>19 DEF Step
<1>4. QED
  BY <1>1, <1>2, <1>3 DEF Next

\* t_delete frees a task control block only when the task's thread runs nothing
\* but its exit handlers, whoever deletes whom (task.c:741-804).
THEOREM FreedTasksGone == Spec => []FreedTaskIsGone
<1>1. Init => FreedInv
  BY DEF Init, FreedInv, FreedTaskIsGone, SleepersSleep
<1>2. TypeOK /\ FreedInv /\ [Next]_vars => FreedInv'
  BY StepFreed
<1>3. FreedInv => FreedTaskIsGone
  BY DEF FreedInv
<1>4. QED
  BY <1>1, <1>2, <1>3, TypeCorrect, PTL DEF Spec

------------------------------------------------------------------------------
(* Priorities, and those who sleep for the lock.                           *)

\* Who is raised is a holder: only sched_lock raises, and a holder that stops being
\* one is lowered first.  A task that returned in T_NOPREEMPT mode is not.
LEMMA StepRaised ==
    ASSUME Disciplined, IInv, NobodyReturned, FreedTaskIsGone, raised \subseteq Holders,
           [Next]_vars
    PROVE  raised' \subseteq Holders'
<1> USE DEF IInv, TypeOK, Goto, lock, task, OpFits, HandlerFits, SleepersSleep,
        VictimsAreQuiet, NobodyReturned, Holders, Depth, HasLock
<1>1. CASE UNCHANGED vars
  BY <1>1 DEF vars
<1>2. ASSUME NEW t \in Task, NEW o \in Ops[t], Call(t, o)
      PROVE  raised' \subseteq Holders'
  BY <1>2 DEF Call, MayCall
<1>3. ASSUME NEW t \in Task, Step(t)
      PROVE  raised' \subseteq Holders'
  <2>1. CASE LockMutex(t) \/ TestFlag(t) \/ CondWait(t) \/ WakeUp(t) \/ TestCancel(t)
    BY <2>1 DEF LockMutex, TestFlag, CondWait, WakeUp, TestCancel
  <2>2. CASE SetFlag(t)
    BY <2>2 DEF SetFlag, Broadcast
  <2>3. CASE RaisePriority(t)
    BY <2>3 DEF RaisePriority
  <2>4. CASE FinishWork(t) \/ CancelOther(t) \/ JoinVictim(t) \/ ExitSelf(t)
    BY <2>4 DEF FinishWork, CancelOther, JoinVictim, ExitSelf
  <2>5. CASE DeleteOwnTcb(t)
    BY <2>5 DEF DeleteOwnTcb
  <2>6. CASE UnlockMutex(t)
    BY <2>6 DEF UnlockMutex
  <2>7. CASE DecrementLevel(t)
    <3>1. t \in listed
      BY <2>7 DEF DecrementLevel, FreedTaskIsGone
    <3>2. \A s \in Task \ {t} : s \in Holders => s \in Holders'
      BY <2>7 DEF DecrementLevel, LeaveFlag, Broadcast, ReturnFrom
    <3>3. t \in raised' => t \in Holders'
      <4>1. CASE scheduler_locked # t
        BY <2>7, <4>1 DEF DecrementLevel, LeaveFlag, HolderHasFlag
      <4>2. CASE scheduler_locked = t /\ Outermost(sched_lock_level')
        BY <2>7, <3>1, <4>2 DEF DecrementLevel, LeaveFlag, Restored
      <4>3. CASE scheduler_locked = t /\ ~Outermost(sched_lock_level')
        BY <2>7, <4>3 DEF DecrementLevel, LeaveFlag, Outermost, ReturnFrom, HolderHasFlag
      <4>4. QED
        BY <4>1, <4>2, <4>3
    <3>4. raised' \subseteq raised
      BY <2>7 DEF DecrementLevel, LeaveFlag, Restored
    <3>5. QED
      BY <3>2, <3>3, <3>4
  <2>8. CASE KilledInUserCode(t) \/ KilledInCondWait(t) \/ KilledInTestCancel(t)
    BY <2>8 DEF KilledInUserCode, KilledInCondWait, KilledInTestCancel, Killed
  <2>9. CASE CleanupLock(t)
    BY <2>9 DEF CleanupLock
  <2>10. CASE ClearFlag(t)
    BY <2>10 DEF ClearFlag
  <2>11. QED
    BY <1>3, <2>1, <2>2, <2>3, <2>4, <2>5, <2>6, <2>7, <2>8, <2>9, <2>10 DEF Step
<1>4. QED
  BY <1>1, <1>2, <1>3 DEF Next

\* Only the holder of the scheduler lock runs at the maximum priority, if no task
\* function returns: one that returns in T_NOPREEMPT mode keeps the priority when
\* its handler has freed the lock (task.c:235-242, 363-382).
THEOREM HolderIsRaised == Spec => [](NoReturns => OnlyHolderIsRaised)
<1> DEFINE Pre == (Disciplined => IInv) /\ (NoReturns => NobodyReturned) /\ FreedTaskIsGone
           Inv == NoReturns => OnlyHolderIsRaised
<1>1. Init => Inv
  BY DEF Init, OnlyHolderIsRaised
<1>2. ASSUME Pre, Inv, [Next]_vars PROVE Inv'
  <2>1. Disciplined' = Disciplined /\ NoReturns' = NoReturns
    BY <1>2, UseIsFrozen DEF Frozen
  <2>2. CASE Disciplined /\ NoReturns
    BY <1>2, <2>1, <2>2, StepRaised DEF OnlyHolderIsRaised
  <2>3. QED
    BY <2>1, <2>2 DEF OnlyHolderIsRaised
<1>3. Spec => []Pre
  BY Invariance, NoReturnInvariant, FreedTasksGone, PTL
<1>4. QED
  BY <1>1, <1>2, <1>3, PTL DEF Spec

\* Where no task ends, only those whom others delete are ever killed, and whoever
\* is about to sleep or sleeps has found the scheduler locked.
SleepInv ==
    /\ \A t \in Task : op[t] \notin {"delself", "return"}
    /\ \A t \in Task : op[t] = "killed" => t \in Victims
    /\ (waiting # {} \/ \E t \in Task : pc[t] = "wait") => scheduler_locked # NoTask

\* Every step keeps what is said of sleepers.
LEMMA StepSleep ==
    ASSUME Disciplined, NoEnds, IInv, SleepInv, [Next]_vars PROVE SleepInv'
<1>u. UseOK /\ Ops' = Ops /\ Victims' = Victims
  BY UseIsOK, UseIsFrozen DEF Frozen, IInv
<1> USE <1>u DEF IInv, TypeOK, SleepInv, Goto, lock, task
<1>1. CASE UNCHANGED vars
  BY <1>1 DEF vars
<1>2. ASSUME NEW t \in Task, NEW o \in Ops[t], Call(t, o)
      PROVE  SleepInv'
  <2>1. o \notin {"delself", "return", "killed"}
    BY <1>2 DEF NoEnds, UseOK, AllOps
  <2>2. waiting' = waiting /\ scheduler_locked' = scheduler_locked
    BY <1>2 DEF Call
  <2>3. \A s \in Task : pc'[s] = "wait" => pc[s] = "wait"
    BY <1>2 DEF Call
  <2>4. \A s \in Task : op'[s] = o \/ op'[s] = op[s]
    BY <1>2 DEF Call
  <2>5. QED
    BY <2>1, <2>2, <2>3, <2>4
<1>3. ASSUME NEW t \in Task, Step(t)
      PROVE  SleepInv'
  <2>1. CASE LockMutex(t) BY <2>1 DEF LockMutex
  <2>2. CASE TestFlag(t) BY <2>2 DEF TestFlag, FlagIsMine
  <2>3. CASE SetFlag(t) BY <2>3 DEF SetFlag, Broadcast
  <2>4. CASE CondWait(t) BY <2>4 DEF CondWait
  <2>5. CASE WakeUp(t) BY <2>5 DEF WakeUp
  <2>6. CASE TestCancel(t) BY <2>6 DEF TestCancel
  <2>7. CASE RaisePriority(t) BY <2>7 DEF RaisePriority
  <2>8. CASE FinishWork(t) \/ CancelOther(t) \/ JoinVictim(t) \/ ExitSelf(t)
    BY <2>8 DEF FinishWork, CancelOther, JoinVictim, ExitSelf
  <2>9. CASE DeleteOwnTcb(t) BY <2>9 DEF DeleteOwnTcb
  <2>10. CASE UnlockMutex(t) BY <2>10 DEF UnlockMutex
  <2>11. CASE DecrementLevel(t)
    BY <2>11 DEF DecrementLevel, LeaveFlag, Broadcast, ReturnFrom, MutexIsHeld
  <2>12. CASE KilledInUserCode(t) \/ KilledInCondWait(t) \/ KilledInTestCancel(t)
    BY <2>12 DEF KilledInUserCode, KilledInCondWait, KilledInTestCancel, Killed, VictimsAreQuiet
  <2>13. CASE CleanupLock(t) BY <2>13 DEF CleanupLock
  <2>14. CASE ClearFlag(t)
    <3>1. scheduler_locked # t
      BY <2>14 DEF ClearFlag, OpFits, VictimsAreQuiet, FlagHasHolder, Depth, HasLock
    <3>2. QED
      BY <2>14, <3>1 DEF ClearFlag, cleanup_scheduler_lock
  <2>15. QED
    BY <1>3, <2>1, <2>2, <2>3, <2>4, <2>5, <2>6, <2>7, <2>8, <2>9, <2>10, <2>11,
       <2>12, <2>13, <2>14 DEF Step
<1>4. QED
  BY <1>1, <1>2, <1>3 DEF Next

\* Nobody sleeps for the scheduler without a holder that will wake it, where no task
\* ends itself (task.c:296, 384).
THEOREM SleepersAreWoken == Spec => []SleepersHaveWaker
<1> DEFINE Inv == Disciplined /\ NoEnds => SleepInv
<1>1. Init => Inv
  BY NoTaskAssumption DEF Init, SleepInv
<1>2. ASSUME Disciplined => IInv, Inv, [Next]_vars PROVE Inv'
  <2>1. Disciplined' = Disciplined /\ NoEnds' = NoEnds
    BY <1>2, UseIsFrozen DEF Frozen, NoEnds
  <2>2. QED
    BY <1>2, <2>1, StepSleep
<1>3. (Disciplined => IInv) /\ Inv => SleepersHaveWaker
  <2> SUFFICES ASSUME IInv, SleepInv, scheduler_locked # NoTask PROVE Holders # {}
    BY DEF SleepersHaveWaker, SleepInv
  <2>1. scheduler_locked \in Task /\ Depth(scheduler_locked) # 0
    BY DEF IInv, TypeOK, SleepInv, FlagHasHolder
  <2>2. Depth(scheduler_locked) > 0
    BY <2>1 DEF Depth
  <2>3. QED
    BY <2>1, <2>2 DEF Holders
<1>4. QED
  BY <1>1, <1>2, <1>3, Invariance, PTL DEF Spec

------------------------------------------------------------------------------
(* The refinement: every step of the tasks is a step of RecursiveLock or   *)
(* leaves its holder and depth alone.                                      *)

HolderIsUnique ==
    /\ \A t \in Task : Depth(t) > 0 => TheHolder = t /\ TheDepth = Depth(t)
    /\ (\A t \in Task : Depth(t) = 0) => TheHolder = NoTask /\ TheDepth = 0

\* Only one task has locked the scheduler, and it is the one that is noted.
LEMMA HolderIs == Disciplined /\ IInv => HolderIsUnique
<1> SUFFICES ASSUME Disciplined, IInv PROVE HolderIsUnique
  OBVIOUS
<1>1. ASSUME NEW t \in Task, Depth(t) > 0 PROVE TheHolder = t /\ TheDepth = Depth(t)
  <2>1. t \in Holders /\ \A s \in Task : s \in Holders => s = t
    BY <1>1 DEF Holders, IInv, HolderHasFlag
  <2>2. QED
    BY <2>1 DEF TheHolder, TheDepth
<1>2. ASSUME \A t \in Task : Depth(t) = 0 PROVE TheHolder = NoTask /\ TheDepth = 0
  <2>1. Holders = {}
    BY <1>2 DEF Holders
  <2>2. QED
    BY <2>1 DEF TheHolder, TheDepth
<1>3. QED
  BY <1>1, <1>2 DEF HolderIsUnique

\* A task holds the lock not at all, once or twice.
LEMMA DepthValue == \A t \in Task : Depth(t) \in 0..2
BY DEF Depth

\* A step of t changes t's depth only, and in one of four ways.
OneDepthChanges(t) ==
    /\ \A s \in Task \ {t} : Depth(s)' = Depth(s)
    /\ \/ Depth(t)' = Depth(t)
       \/ Depth(t)' = Depth(t) + 1
       \/ Depth(t)' = Depth(t) - 1
       \/ Depth(t)' = 0

\* A step changes the depth of the task that makes it, and of no other.
LEMMA DepthStep ==
    ASSUME Disciplined, IInv, NEW t \in Task, Step(t) \/ \E o \in Ops[t] : Call(t, o)
    PROVE  OneDepthChanges(t)
<1> USE DEF OneDepthChanges, Depth, HasLock, IInv, TypeOK, Goto, lock, task, OpFits,
        HandlerFits, SleepersSleep, VictimsAreQuiet
<1>1. ASSUME NEW o \in Ops[t], Call(t, o) PROVE OneDepthChanges(t)
  BY <1>1 DEF Call, MayCall
<1>2. CASE LockMutex(t) \/ TestFlag(t) \/ CondWait(t) \/ WakeUp(t) \/ TestCancel(t)
  BY <1>2 DEF LockMutex, TestFlag, CondWait, WakeUp, TestCancel
<1>3. CASE SetFlag(t)
  BY <1>3 DEF SetFlag, Broadcast
<1>4. CASE RaisePriority(t)
  BY <1>4 DEF RaisePriority
<1>5. CASE FinishWork(t) \/ CancelOther(t) \/ JoinVictim(t) \/ ExitSelf(t)
  BY <1>5 DEF FinishWork, CancelOther, JoinVictim, ExitSelf
<1>6. CASE DeleteOwnTcb(t)
  BY <1>6 DEF DeleteOwnTcb
<1>7. CASE UnlockMutex(t)
  BY <1>7 DEF UnlockMutex
<1>8. CASE DecrementLevel(t)
  BY <1>8 DEF DecrementLevel, LeaveFlag, Broadcast, ReturnFrom
<1>9. CASE KilledInUserCode(t) \/ KilledInCondWait(t) \/ KilledInTestCancel(t)
  BY <1>9 DEF KilledInUserCode, KilledInCondWait, KilledInTestCancel, Killed
<1>10. CASE CleanupLock(t)
  BY <1>10 DEF CleanupLock
<1>11. CASE ClearFlag(t)
  BY <1>11 DEF ClearFlag
<1>12. QED
  BY <1>1, <1>2, <1>3, <1>4, <1>5, <1>6, <1>7, <1>8, <1>9, <1>10, <1>11 DEF Step

\* Whatever else the tasks do, they see one recursive lock (task.c:225-400).
THEOREM LockRefinement == Spec => ImplementsLock
<1>1. Init => Abstract!LockInit
  <2> SUFFICES ASSUME Init PROVE Abstract!LockInit
    OBVIOUS
  <2>1. Holders = {}
    BY DEF Init, Holders, Depth, HasLock
  <2>2. QED
    BY <2>1 DEF Abstract!LockInit, TheHolder, TheDepth
<1>2. ASSUME Disciplined => IInv, (Disciplined => IInv)', [Next]_vars
      PROVE  [Abstract!LockNext]_<<TheHolder, TheDepth>>
  <2>f. Disciplined' = Disciplined
    BY <1>2, UseIsFrozen DEF Frozen
  <2>1. CASE UNCHANGED vars
    BY <2>1, <2>f DEF vars, TheHolder, TheDepth, Holders, Depth, HasLock
  <2>2. CASE ~Disciplined
    BY <2>2, <2>f DEF TheHolder, TheDepth
  <2>3. ASSUME Disciplined, NEW t \in Task, Step(t) \/ \E o \in Ops[t] : Call(t, o)
        PROVE  [Abstract!LockNext]_<<TheHolder, TheDepth>>
    <3>1. OneDepthChanges(t)
      BY <1>2, <2>3, DepthStep
    <3>2. Depth(t) \in 0..2 /\ Depth(t)' \in 0..2
      BY DEF Depth
    <3>3. HolderIsUnique /\ HolderIsUnique'
      <4>1. Disciplined /\ Disciplined' /\ IInv /\ IInv'
        BY <1>2, <2>3, <2>f
      <4>2. QED
        BY <4>1, HolderIs, PTL
    <3>4. QED
      BY <2>3, <3>1, <3>2, <3>3, DepthValue
         DEF HolderIsUnique, OneDepthChanges, Abstract!LockNext, Abstract!Acquire,
             Abstract!Release, Abstract!Abandon
  <2>4. QED
    BY <1>2, <2>1, <2>2, <2>3 DEF Next
<1>3. QED
  BY <1>1, <1>2, Invariance, PTL DEF Spec, ImplementsLock, Abstract!LockSpec, Abstract!lockVars
==============================================================================
