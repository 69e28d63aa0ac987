----------------------------- MODULE Sema4Proofs -----------------------------
(***************************************************************************)
(* What sema4_lock guarantees for any number of tasks and calls.           *)
(***************************************************************************)
EXTENDS Sema4, SuspendListProofs

USE NoTaskAssumption

\* No task is deleted by another: one deleted in its nap unlocks a mutex that it has
\* not locked (sema4.c:713, 770).
NoVictims == use.victims = {}

\* The scenario never changes.
LEMMA UseIsFrozen == [Next]_vars => use' = use
BY DEF Next, Work, vars, kill, LinkSelf, Check, CheckAgain, Relock, TimeOut, UnlinkSelf,
       SignalDelete, Unlock, SchedLock, Post, AnyToKill, LockDelete, Kill, Drain,
       delete_sema4, Join, Die, Cancel, NotFound, Expire, Lookup

\* Whoever is between the lock and the unlock of sema4_lock holds it, and who gives
\* it up, asleep or in a nap, is not.
InsideHolds == \A t \in Task : pc[t] \in Inside => sema4_lock = t

IInv == /\ DOMAIN pc = Task
        /\ \A t \in Task : ~canceled[t]
        /\ InsideHolds

\* A new semaphore is not locked.
LEMMA InitIInv == Init => IInv
BY DEF Init, IInv, InsideHolds, Inside

\* sema4_lock has the holder that its users' places say.
LEMMA StepIInv == ASSUME NoVictims, IInv, [Next]_vars PROVE IInv'
<1> USE DEF IInv, InsideHolds, Inside, Goto, sem, loc, call, kill
<1>1. CASE UNCHANGED vars
  BY <1>1 DEF vars
<1>2. ASSUME NEW t \in Task, NEW o \in use.ops[t], Lookup(t, o) PROVE IInv'
  BY <1>2 DEF Lookup
<1>3. ASSUME NEW t \in Task, Expire(t) PROVE IInv'
  BY <1>3 DEF Expire
<1>4. ASSUME NEW t \in Task, Work(t) PROVE IInv'
  <2>1. CASE LinkSelf(t) BY <2>1 DEF LinkSelf
  <2>2. CASE Check(t)
    BY <2>2 DEF Check, Killed, TryToken, TakeToken, PutBack, NoToken
  <2>3. CASE CheckAgain(t)
    BY <2>3 DEF CheckAgain, TryToken, TakeToken, PutBack, NoToken
  <2>4. CASE Relock(t) BY <2>4 DEF Relock
  <2>5. CASE TimeOut(t) BY <2>5 DEF TimeOut
  <2>6. CASE UnlinkSelf(t) BY <2>6 DEF UnlinkSelf
  <2>7. CASE SignalDelete(t) BY <2>7 DEF SignalDelete
  <2>8. CASE Unlock(t) BY <2>8 DEF Unlock
  <2>9. CASE SchedLock(t) BY <2>9 DEF SchedLock
  <2>10. CASE Post(t) BY <2>10 DEF Post, WokenByPost, Woken
  <2>11. CASE AnyToKill(t) BY <2>11 DEF AnyToKill
  <2>12. CASE LockDelete(t) BY <2>12 DEF LockDelete
  <2>13. CASE Kill(t) BY <2>13 DEF Kill, Woken
  <2>14. CASE Drain(t) BY <2>14 DEF Drain
  <2>15. CASE delete_sema4(t) BY <2>15 DEF delete_sema4
  <2>16. CASE Join(t) BY <2>16 DEF Join
  <2>17. CASE Die(t) BY <2>17 DEF Die
  <2>18. ASSUME NEW v \in use.victims \ {t} PROVE FALSE
    BY <2>18 DEF NoVictims
  <2>19. QED
    BY <1>4, <2>1, <2>2, <2>3, <2>4, <2>5, <2>6, <2>7, <2>8, <2>9, <2>10, <2>11,
       <2>12, <2>13, <2>14, <2>15, <2>16, <2>17, <2>18 DEF Work
<1>5. QED
  BY <1>1, <1>2, <1>3, <1>4 DEF Next

\* No two tasks are in sm_p's section under sema4_lock, through sleeps, naps, timeouts
\* and sm_delete, where no task is deleted by another (sema4.c:751-935).
THEOREM LockIsExclusive == Spec => [](NoVictims => LockHeldOnce)
<1>1. ASSUME NoVictims => IInv, [Next]_vars PROVE (NoVictims => IInv)'
  BY <1>1, StepIInv, UseIsFrozen DEF NoVictims
<1>2. (NoVictims => IInv) => (NoVictims => LockHeldOnce)
  BY DEF IInv, InsideHolds, LockHeldOnce
<1>3. QED
  BY <1>1, <1>2, InitIInv, PTL DEF Spec

------------------------------------------------------------------------------
(* sm_delete frees the control block when the list is empty, and it stays   *)
(* empty if no call begins or has just looked the semaphore up meanwhile.   *)

\* sm_delete is called only when no call is under way, blocked ones apart, or never.
DeletesQuietly == use.quiet \/ \A t \in Task : "delete" \notin use.ops[t]

Deleting == \E t \in Task : pc[t] \notin {"idle", "dead"} /\ op[t] = "delete"
\* About to link itself.
Linking(t) == pc[t] = "found" /\ op[t] \in Pends
Deletes(t) == pc[t] \in {"kill", "killing", "drain", "asleep", "drained", "free"}

QuietInv ==
    /\ use \in Uses /\ DOMAIN pc = Task /\ DOMAIN op = Task /\ first_susp \in Seq(Task)
    /\ \A t \in Task : op[t] \in use.ops[t] \cup {"wait"}
    /\ \A t \in Task : Deletes(t) => op[t] = "delete"
    /\ Deleting \/ ~live => ~\E t \in Task : Linking(t)
    /\ (\E t \in Task : pc[t] = "free") \/ ~live => Waiting = {}

\* Nobody waits at a new semaphore.
LEMMA InitQuietInv == Init => QuietInv
BY NobodyWaits DEF Init, QuietInv, Deletes, Deleting, Linking, Pends, Waiting

\* Only LinkSelf makes the list longer.
LEMMA ListShrinks ==
    ASSUME QuietInv, [Next]_vars
    PROVE  /\ first_susp' \in Seq(Task)
           /\ (\A t \in Task : ~Linking(t)) => Waiting' \subseteq Waiting
<1> USE DEF QuietInv, Goto, sem, loc, call, kill
<1>1. CASE UNCHANGED vars
  BY <1>1 DEF vars, Waiting
<1>2. ASSUME NEW t \in Task, NEW o \in use.ops[t], Lookup(t, o)
      PROVE  first_susp' = first_susp
  BY <1>2 DEF Lookup
<1>3. ASSUME NEW t \in Task, Expire(t) PROVE first_susp' = first_susp
  BY <1>3 DEF Expire
<1>4. ASSUME NEW t \in Task, LinkSelf(t)
      PROVE  first_susp' \in Seq(Task) /\ Linking(t)
  BY <1>4 DEF LinkSelf, Linking
<1>5. ASSUME NEW t \in Task, UnlinkSelf(t) \/ Join(t)
      PROVE  first_susp' \in Seq(Task) /\ Waiting' \subseteq Waiting
  <2>1. first_susp' = Without(first_susp, t) \/ first_susp' = Without(first_susp, victim[t])
    BY <1>5 DEF UnlinkSelf, Join, Unlinked
  <2>2. QED
    BY <2>1, UnlinkRemoves DEF Waiting
<1>6. ASSUME NEW t \in Task, Work(t), ~LinkSelf(t), ~UnlinkSelf(t), ~Join(t)
      PROVE  first_susp' = first_susp
  BY <1>6 DEF Work, Check, CheckAgain, Relock, TimeOut, SignalDelete, Unlock, SchedLock, Post,
     AnyToKill, LockDelete, Kill, Drain, delete_sema4, Die, Cancel, NotFound
<1>7. QED
  BY <1>1, <1>2, <1>3, <1>4, <1>5, <1>6 DEF Next, Waiting

\* A deletion that nobody else's call overlaps stays alone.
LEMMA StepQuietInv == ASSUME DeletesQuietly, QuietInv, [Next]_vars PROVE QuietInv'
<1>1. use' = use /\ first_susp' \in Seq(Task)
  BY UseIsFrozen, ListShrinks
\* A step of a call that has begun.
<1>2. ASSUME DOMAIN pc' = Task, op' = op,
             \A t \in Task : pc'[t] = "found" => pc[t] = "found",
             \A t \in Task : pc'[t] \notin {"idle", "dead"} => pc[t] \notin {"idle", "dead"},
             \A t \in Task : Deletes(t)' => op[t] = "delete",
             \A t \in Task : pc'[t] = "free" => pc[t] = "free" \/ Waiting' = {},
             live' = live \/ \E t \in Task : pc[t] = "free"
      PROVE  QuietInv'
  <2>1. (\E t \in Task : pc[t] = "free") => Deleting
    BY DEF QuietInv, Deletes, Deleting
  <2>2. Deleting' \/ ~live' => ~\E t \in Task : Linking(t)'
    BY <1>2, <2>1 DEF QuietInv, Deleting, Linking
  <2>3. (\E t \in Task : pc[t] = "free") \/ ~live => Waiting' = {}
    BY <2>1, ListShrinks DEF QuietInv
  <2>4. (\E t \in Task : pc'[t] = "free") \/ ~live' => Waiting' = {}
    BY <1>2, <2>3
  <2>5. QED
    BY <1>1, <1>2, <2>2, <2>4 DEF QuietInv
<1> USE DEF Goto, sem, loc, call, kill
<1>3. CASE UNCHANGED vars
  BY <1>3 DEF vars, QuietInv, Deletes, Deleting, Linking, Waiting
<1>4. ASSUME NEW t \in Task, NEW o \in use.ops[t], Lookup(t, o) PROVE QuietInv'
  <2>1. /\ UNCHANGED <<live, first_susp>> /\ DOMAIN pc' = Task /\ DOMAIN op' = Task
        /\ pc[t] = "idle" /\ pc'[t] = "found" /\ op'[t] = o /\ (o = "kill" \/ live)
        /\ \A u \in Task \ {t} : pc'[u] = pc[u] /\ op'[u] = op[u]
    BY <1>4 DEF Lookup, QuietInv
  <2>2. use.quiet => NoDelete /\ (o = "delete" => NoCallUnderWay)
    BY <1>4 DEF Lookup
  <2>3. Deleting' \/ ~live' => ~\E u \in Task : Linking(u)'
    <3>1. CASE use.quiet
      BY <1>4, <2>1, <2>2, <3>1 DEF QuietInv, NoDelete, NoCallUnderWay, Deleting, Linking, Pends
    <3>2. CASE ~use.quiet
      BY <1>4, <2>1, <3>2 DEF QuietInv, DeletesQuietly, Deleting, Linking, Pends
    <3>3. QED
      BY <3>1, <3>2
  <2>4. QED
    BY <1>1, <1>4, <2>1, <2>3 DEF QuietInv, Deletes, Waiting
<1>5. ASSUME NEW t \in Task, Expire(t) PROVE QuietInv'
  BY <1>2, <1>5 DEF Expire, QuietInv, Deletes
<1>6. ASSUME NEW t \in Task, Work(t) PROVE QuietInv'
  <2> USE DEF QuietInv, Deletes
  <2>1. CASE LinkSelf(t)
    BY <1>2, <2>1 DEF LinkSelf
  <2>2. CASE Check(t) \/ CheckAgain(t)
    BY <1>2, <2>2 DEF Check, CheckAgain, Killed, TryToken, TakeToken, PutBack, NoToken
  <2>3. CASE Relock(t) \/ TimeOut(t) \/ UnlinkSelf(t) \/ Unlock(t)
    BY <1>2, <2>3 DEF Relock, TimeOut, UnlinkSelf, Unlock
  <2>4. CASE SignalDelete(t)
    BY <1>2, <2>4 DEF SignalDelete
  <2>5. CASE SchedLock(t) \/ Die(t) \/ Join(t)
    BY <1>2, <2>5 DEF SchedLock, Die, Join
  <2>6. CASE Post(t)
    BY <1>2, <2>6 DEF Post, WokenByPost, Woken
  <2>7. CASE AnyToKill(t) \/ Drain(t)
    BY <1>2, <2>7 DEF AnyToKill, Drain, NoneLeft, Waiting
  <2>8. CASE LockDelete(t) \/ delete_sema4(t)
    BY <1>2, <2>8 DEF LockDelete, delete_sema4
  <2>9. CASE Kill(t)
    BY <1>2, <2>9 DEF Kill, Woken
  <2>10. ASSUME NEW v \in Task, Cancel(t, v) \/ NotFound(t, v) PROVE QuietInv'
    BY <1>2, <2>10 DEF Cancel, NotFound
  <2>11. use.victims \subseteq Task
    BY UsesAssumption DEF Use
  <2>12. QED
    BY <1>6, <2>1, <2>2, <2>3, <2>4, <2>5, <2>6, <2>7, <2>8, <2>9, <2>10, <2>11 DEF Work
<1>7. QED
  BY <1>3, <1>4, <1>5, <1>6 DEF Next

\* sm_delete frees the semaphore only when nobody is on its list any more, also when tasks
\* time out, get a token or are deleted meanwhile, where no call has just looked it up
\* (sema4.c:582-636).
THEOREM FreedSemaphoreIsUnwaited == Spec => [](DeletesQuietly => FreedUnwaited)
<1>1. ASSUME DeletesQuietly => QuietInv, [Next]_vars PROVE (DeletesQuietly => QuietInv)'
  BY <1>1, StepQuietInv, UseIsFrozen DEF DeletesQuietly
<1>2. (DeletesQuietly => QuietInv) => (DeletesQuietly => FreedUnwaited)
  BY DEF QuietInv, FreedUnwaited
<1>3. QED
  BY <1>1, <1>2, InitQuietInv, PTL DEF Spec

------------------------------------------------------------------------------
(* sm_p and sm_v implement the queue for tokens.                            *)

\* A token that comes to a semaphore which is being deleted is taken by a task that is
\* told of the delete, after a nap (sema4.c:700-716), and a token is not told so then.
NeverBoth ==
    \/ \A t \in Task : "delete" \notin use.ops[t]
    \/ use.count = 0 /\ \A t \in Task : "post" \notin use.ops[t]

\* The places of sm_p between link_susp_tcb and unlink_susp_tcb.
Listed == {"check", "again", "wait", "woken", "nap", "took", "leave"}

TokenInv ==
    /\ IInv /\ use \in Uses
    /\ DOMAIN op = Task /\ DOMAIN retcode = Task /\ DOMAIN result = Task
    /\ first_susp \in Seq(Task) /\ Distinct(first_susp)
    /\ Waiting = {t \in Task : pc[t] \in Listed}
    /\ \A t \in Task : /\ pc[t] \notin {"join", "dead"}
                       /\ op[t] \in use.ops[t] \cup {"wait"}
                       /\ Deletes(t) => op[t] = "delete"
                       /\ pc[t] = "took" => send_type = "SEND" /\ retcode[t] = "0"
                       /\ pc[t] = "leave" => send_type = "KILLD" \/ retcode[t] = "ETIMEDOUT"
    /\ \/ send_type = "SEND" /\ \A t \in Task : "delete" \notin use.ops[t]
       \/ count = 0 /\ \A t \in Task : "post" \notin use.ops[t]

Plain == NoVictims /\ NeverBoth

\* A new semaphore has no waiting task.
LEMMA InitTokenInv == Plain /\ Init => TokenInv
<1>1. Init => IInv
  BY InitIInv
<1>2. Init => first_susp \in Seq(Task) /\ Distinct(first_susp) /\ Waiting = {}
  BY NobodyWaits DEF Init, Waiting
<1>3. QED
  BY <1>1, <1>2 DEF Init, TokenInv, Plain, NeverBoth, Listed, Deletes

\* A step that leaves the list and who is on it as they are.
LEMMA ListKept ==
    ASSUME TokenInv, IInv', UNCHANGED <<first_susp, use, result>>,
           DOMAIN op' = Task, DOMAIN retcode' = Task,
           \A t \in Task : (pc'[t] \in Listed) <=> (pc[t] \in Listed),
           \A t \in Task : op'[t] \in use.ops[t] \cup {"wait"},
           \A t \in Task : pc'[t] \notin {"join", "dead"} /\ (Deletes(t)' => op'[t] = "delete"),
           \A t \in Task : pc'[t] = "took" => send_type' = "SEND" /\ retcode'[t] = "0",
           \A t \in Task : pc'[t] = "leave" => send_type' = "KILLD" \/ retcode'[t] = "ETIMEDOUT",
           send_type = "SEND" /\ send_type' # "SEND" => \E t \in Task : "delete" \in use.ops[t],
           count = 0 /\ count' # 0 => \E t \in Task : "post" \in use.ops[t]
    PROVE  TokenInv'
<1>1. Waiting' = {t \in Task : pc'[t] \in Listed}
  BY DEF TokenInv, Waiting
<1>2. QED
  BY <1>1 DEF TokenInv

\* What the queue for tokens is read from keeps its shape.
LEMMA StepTokenInv == ASSUME NoVictims, TokenInv, [Next]_vars PROVE TokenInv'
<1>1. IInv' /\ use' = use
  BY StepIInv, UseIsFrozen DEF TokenInv
<1>2. \A t, u \in Task : pc[t] \in Inside /\ pc[u] \in Inside => t = u
  BY DEF TokenInv, IInv, InsideHolds
<1>3. \A t \in Task : sema4_lock = NoTask => pc[t] \notin Inside
  BY DEF TokenInv, IInv, InsideHolds
<1> USE DEF Goto, sem, loc, call, kill
<1>4. CASE UNCHANGED vars
  BY <1>1, <1>4, ListKept DEF vars, TokenInv, Deletes
<1>5. ASSUME NEW t \in Task, NEW o \in use.ops[t], Lookup(t, o) PROVE TokenInv'
  BY <1>1, <1>5, ListKept DEF Lookup, TokenInv, IInv, Deletes, Listed
<1>6. ASSUME NEW t \in Task, Expire(t) PROVE TokenInv'
  BY <1>1, <1>6, ListKept DEF Expire, TokenInv, Deletes
<1>7. ASSUME NEW t \in Task, LinkSelf(t) PROVE TokenInv'
  <2>1. /\ first_susp' = Append(first_susp, t) /\ t \notin Waiting
        /\ \A u \in Task : pc'[u] = IF u = t THEN "check" ELSE pc[u]
        /\ UNCHANGED <<op, send_type, count>>
    BY <1>7 DEF LinkSelf, TokenInv, IInv, Listed
  <2>2. first_susp' \in Seq(Task) /\ Distinct(first_susp)' /\ Waiting' = Waiting \cup {t}
    BY <2>1, LinkAdds DEF TokenInv, Waiting
  <2>3. \A u \in Task : pc'[u] \in {"took", "leave"} => pc'[u] = pc[u] /\ retcode'[u] = retcode[u]
    BY <1>7, <2>1 DEF LinkSelf, TokenInv
  <2>4. DOMAIN retcode' = Task /\ DOMAIN result' = Task
    BY <1>7 DEF LinkSelf, TokenInv
  <2>5. QED
    BY <1>1, <2>1, <2>2, <2>3, <2>4 DEF TokenInv, Listed, Deletes
<1>8. ASSUME NEW t \in Task, UnlinkSelf(t) PROVE TokenInv'
  <2>1. /\ first_susp' = Without(first_susp, t)
        /\ pc'[t] \in {"signal", "unlock"} /\ \A u \in Task \ {t} : pc'[u] = pc[u]
        /\ UNCHANGED <<op, send_type, count, retcode>> /\ DOMAIN result' = Task
    BY <1>8 DEF UnlinkSelf, Unlinked, TokenInv, IInv
  <2>2. first_susp' \in Seq(Task) /\ Distinct(first_susp)' /\ Waiting' = Waiting \ {t}
    BY <2>1, UnlinkRemoves DEF TokenInv, Waiting
  <2>3. QED
    BY <1>1, <2>1, <2>2 DEF TokenInv, Listed, Deletes
<1>9. ASSUME NEW t \in Task, Work(t), ~LinkSelf(t), ~UnlinkSelf(t) PROVE TokenInv'
  <2> USE DEF TokenInv, IInv, Deletes, Listed
  <2>1. CASE Check(t)
    <3>1. CASE Killed(t)
      BY <1>1, <2>1, <3>1, ListKept DEF Check, Killed
    <3>2. CASE send_type = "SEND" /\ TryToken(t)
      BY <1>1, <2>1, <3>2, ListKept DEF Check, TryToken, TakeToken, PutBack, NoToken, GivesUp
    <3>3. QED
      BY <2>1, <3>1, <3>2 DEF Check
  <2>2. CASE CheckAgain(t)
    BY <1>1, <2>2, ListKept DEF CheckAgain, TryToken, TakeToken, PutBack, NoToken, GivesUp
  <2>3. CASE Relock(t) \/ TimeOut(t) \/ Unlock(t)
    BY <1>1, <2>3, ListKept DEF Relock, TimeOut, Unlock
  <2>4. CASE SignalDelete(t)
    BY <1>1, <1>2, <2>4, ListKept DEF SignalDelete, Inside
  <2>5. CASE SchedLock(t) \/ AnyToKill(t) \/ LockDelete(t) \/ Drain(t) \/ delete_sema4(t)
    BY <1>1, <2>5, ListKept DEF SchedLock, AnyToKill, LockDelete, Drain, delete_sema4
  <2>6. CASE Post(t)
    BY <1>1, <2>6, ListKept DEF Post, WokenByPost, Woken
  <2>7. CASE Kill(t)
    BY <1>1, <1>3, <2>7, ListKept DEF Kill, Woken, Inside
  <2>8. ~Die(t) /\ ~Join(t) /\ use.victims = {}
    BY DEF Die, Join, NoVictims
  <2>9. QED
    BY <1>9, <2>1, <2>2, <2>3, <2>4, <2>5, <2>6, <2>7, <2>8 DEF Work
<1>10. QED
  BY <1>4, <1>5, <1>6, <1>7, <1>8, <1>9 DEF Next

\* The task that has taken its token and is still on the list is on the queue no more.
QueueIsSeen ==
    /\ TookToken = {} => StillQueued = first_susp
    /\ \A t \in Task : pc[t] = "took" => TookToken = {t} /\ StillQueued = Without(first_susp, t)
    /\ \A t \in Task : pc[t] \in Inside \ {"took"} => TookToken = {}
    /\ sema4_lock = NoTask => TookToken = {}

\* In a state of the invariant the mapping shows a queue for tokens.
LEMMA QueueSeen == TokenInv => QueueIsSeen
<1> SUFFICES ASSUME TokenInv PROVE QueueIsSeen
  OBVIOUS
<1>1. \A t, u \in Task : pc[t] \in Inside /\ pc[u] \in Inside => t = u
  BY DEF TokenInv, IInv, InsideHolds
<1>2. ASSUME NEW t \in Task, pc[t] = "took" PROVE TookToken = {t}
  BY <1>1, <1>2 DEF TookToken, Inside
<1>3. ASSUME NEW t \in Task, pc[t] = "took" PROVE StillQueued = Without(first_susp, t)
  BY <1>2, <1>3 DEF StillQueued
<1>4. \A t \in Task : pc[t] \in Inside \ {"took"} => TookToken = {}
  BY <1>1 DEF TookToken, Inside
<1>5. sema4_lock = NoTask => TookToken = {}
  BY DEF TookToken, TokenInv, IInv, InsideHolds, Inside
<1>6. QED
  BY <1>2, <1>3, <1>4, <1>5 DEF StillQueued, QueueIsSeen

\* Both modules mean the same lists.
LEMMA SameList ==
    ASSUME NEW list, NEW t
    PROVE  TokenView!Without(list, t) = Without(list, t) /\ TokenView!Members(list) = Members(list)
BY DEF TokenView!Without, Without, TokenView!Members, Members

\* A step of which the queue for tokens sees nothing.
LEMMA SeenStutter ==
    ASSUME UNCHANGED <<count, first_susp, result, use>>,
           \A t \in Task : pc'[t] = "took" <=> pc[t] = "took"
    PROVE  UNCHANGED TokenView!tqVars
<1>1. TookToken' = TookToken
  BY DEF TookToken
<1>2. StillQueued' = StillQueued /\ Told' = Told
  BY <1>1 DEF StillQueued, Told
<1>3. QED
  BY <1>2 DEF TokenView!tqVars

\* Every step is one of the queue for tokens, or nothing to it.
LEMMA QueueStep == ASSUME NoVictims, TokenInv, Next PROVE [TokenView!TQNext]_(TokenView!tqVars)
<1>1. TokenInv' /\ use' = use
  BY StepTokenInv, UseIsFrozen
<1>seen. QueueIsSeen /\ QueueIsSeen'
  <2>1. TokenInv' => QueueIsSeen'
    BY QueueSeen, PTL
  <2>2. QED
    BY <1>1, <2>1, QueueSeen
<1> USE DEF Goto, sem, loc, call, kill
<1>2. DOMAIN pc = Task
  BY DEF TokenInv, IInv
<1>3. ASSUME NEW t \in Task, NEW o \in use.ops[t], Lookup(t, o) PROVE UNCHANGED TokenView!tqVars
  BY <1>1, <1>2, <1>3, SeenStutter DEF Lookup
<1>4. ASSUME NEW t \in Task, Expire(t) PROVE UNCHANGED TokenView!tqVars
  BY <1>1, <1>4, SeenStutter DEF Expire
<1>5. ASSUME NEW t \in Task, LinkSelf(t) PROVE TokenView!TQNext
  <2>1. StillQueued = first_susp /\ StillQueued' = first_susp' /\ TookToken = {} /\ TookToken' = {}
    <3>1. sema4_lock = NoTask /\ pc'[t] \in Inside \ {"took"}
      BY <1>2, <1>5 DEF LinkSelf, Inside
    <3>2. QED
      BY <1>seen, <3>1 DEF QueueIsSeen
  <2>2. StillQueued' = Append(StillQueued, t) /\ UNCHANGED <<count, use>>
    BY <1>5, <2>1 DEF LinkSelf
  <2>3. t \notin Members(StillQueued)
    BY <1>5, <2>1 DEF LinkSelf, TokenInv, Waiting, Listed
  <2>4. Told' = [Told EXCEPT ![t] = "none"]
    BY <1>5, <2>1 DEF LinkSelf, Told, TokenInv
  <2>5. TokenView!Arrive(t)
    BY <2>2, <2>3, <2>4, SameList DEF TokenView!Arrive, TokenView!Queued
  <2>6. QED
    BY <2>2, <2>5 DEF TokenView!TQNext
<1>6. ASSUME NEW t \in Task, TakeToken(t), pc[t] \in {"check", "again"},
             UNCHANGED <<first_susp, result>>
      PROVE  TokenView!TQNext
  <2>1. /\ StillQueued = first_susp /\ TookToken = {}
        /\ StillQueued' = Without(first_susp, t) /\ TookToken' = {t}
    <3>1. pc[t] \in Inside \ {"took"} /\ pc'[t] = "took"
      BY <1>2, <1>6 DEF TakeToken, Inside
    <3>2. QED
      BY <1>6, <1>seen, <3>1 DEF QueueIsSeen
  <2>2. t \in Waiting /\ Signalled(first_susp, use.prior) = t
    BY <1>6 DEF TakeToken, MyTurn, TokenInv, Listed
  <2>3. first_susp # <<>>
    BY <2>2, NobodyWaits DEF Waiting
  <2>4. Told' = [Told EXCEPT ![t] = "token"]
    BY <1>6, <2>1 DEF Told
  <2>5. TokenView!Grant
    BY <1>6, <2>1, <2>2, <2>3, <2>4, SameList DEF TokenView!Grant, TakeToken
  <2>6. QED
    BY <1>1, <2>5 DEF TokenView!TQNext
<1>7. ASSUME NEW t \in Task, Check(t) \/ CheckAgain(t)
      PROVE  [TokenView!TQNext]_(TokenView!tqVars)
  <2>1. pc[t] \in {"check", "again"} /\ UNCHANGED <<first_susp, result>>
    BY <1>7 DEF Check, CheckAgain
  <2>2. CASE TakeToken(t)
    BY <1>6, <2>1, <2>2
  <2>3. CASE Killed(t) \/ PutBack(t) \/ NoToken(t)
    BY <1>1, <1>2, <2>1, <2>3, SeenStutter DEF Killed, PutBack, NoToken
  <2>4. QED
    BY <1>7, <2>2, <2>3 DEF Check, CheckAgain, TryToken
<1>8. ASSUME NEW t \in Task, UnlinkSelf(t) PROVE [TokenView!TQNext]_(TokenView!tqVars)
  <2>1. /\ StillQueued' = first_susp' /\ TookToken' = {} /\ first_susp' = Without(first_susp, t)
        /\ UNCHANGED <<count, use>>
    <3>1. pc'[t] \in Inside \ {"took"}
      BY <1>2, <1>8 DEF UnlinkSelf, Inside
    <3>2. QED
      BY <1>8, <1>seen, <3>1 DEF QueueIsSeen, UnlinkSelf, Unlinked
  <2>2. CASE pc[t] = "took"
    <3>1. StillQueued = Without(first_susp, t) /\ TookToken = {t}
      BY <1>seen, <2>2 DEF QueueIsSeen
    <3>2. Told' = Told
      BY <1>8, <2>1, <2>2, <3>1 DEF UnlinkSelf, Told, TokenInv
    <3>3. QED
      BY <2>1, <3>1, <3>2 DEF TokenView!tqVars
  <2>3. CASE pc[t] = "leave"
    <3>1. StillQueued = first_susp /\ TookToken = {}
      BY <1>seen, <2>3 DEF QueueIsSeen, Inside
    <3>2. t \in Members(StillQueued)
      BY <2>3, <3>1 DEF TokenInv, Waiting, Listed
    <3>3. \E o \in {"timeout", "killed"} : Told' = [Told EXCEPT ![t] = o]
      BY <1>8, <2>1, <2>3, <3>1 DEF UnlinkSelf, Told, TokenInv
    <3>4. TokenView!GiveUp(t)
      BY <2>1, <3>1, <3>2, <3>3, SameList DEF TokenView!GiveUp, TokenView!Queued
    <3>5. QED
      BY <2>1, <3>4 DEF TokenView!TQNext
  <2>4. QED
    BY <1>8, <2>2, <2>3 DEF UnlinkSelf
<1>9. ASSUME NEW t \in Task, Post(t) PROVE TokenView!TQNext
  <2>1. /\ UNCHANGED <<first_susp, result, use>> /\ count' = count + 1
        /\ \A u \in Task : pc'[u] = "took" <=> pc[u] = "took"
    BY <1>2, <1>9 DEF Post, WokenByPost, Woken
  <2>2. TookToken' = TookToken
    BY <2>1 DEF TookToken
  <2>3. StillQueued' = StillQueued /\ Told' = Told
    BY <2>1, <2>2 DEF StillQueued, Told
  <2>4. QED
    BY <2>1, <2>3 DEF TokenView!TQNext, TokenView!Put
<1>10. ASSUME NEW t \in Task, \/ Relock(t) \/ TimeOut(t) \/ SignalDelete(t) \/ Unlock(t)
                              \/ SchedLock(t) \/ AnyToKill(t) \/ LockDelete(t) \/ Kill(t)
                              \/ Drain(t) \/ delete_sema4(t)
       PROVE  UNCHANGED TokenView!tqVars
  BY <1>1, <1>2, <1>10, SeenStutter DEF Relock, TimeOut, SignalDelete, Unlock, SchedLock, AnyToKill,
     LockDelete, Kill, Woken, Drain, delete_sema4
<1>11. ASSUME NEW t \in Task PROVE ~Die(t) /\ ~Join(t) /\ use.victims = {}
  BY DEF Die, Join, NoVictims, TokenInv, IInv
<1>12. QED
  BY <1>3, <1>4, <1>5, <1>7, <1>8, <1>9, <1>10, <1>11 DEF Next, Work

\* Every step of sm_p, sm_v and sm_delete is one of the queue for tokens: a token goes to the
\* task whose turn it is, who takes one is told so, and nobody leaves without one but by
\* a timeout or the delete; where no task is deleted by another, and a semaphore that is
\* deleted has no tokens (sema4.c:680-935).
THEOREM Sema4ImplementsQueue == Spec /\ Plain => ImplementsQueue
<1>1. Plain /\ Init => TokenInv /\ TokenView!TQInit
  <2>1. Plain /\ Init => TokenInv
    BY InitTokenInv
  <2>2. Init => TookToken = {}
    BY DEF Init, TookToken
  <2>3. Init => use.count \in Nat /\ use.prior \in BOOLEAN
    BY UsesAssumption DEF Init, Use
  <2>4. QED
    BY <2>1, <2>2, <2>3 DEF Init, TokenView!TQInit, StillQueued, Told
<1>2. ASSUME NoVictims, TokenInv, [Next]_vars
      PROVE  NoVictims' /\ TokenInv' /\ [TokenView!TQNext]_(TokenView!tqVars)
  <2>1. NoVictims'
    BY <1>2, UseIsFrozen DEF NoVictims
  <2>2. CASE UNCHANGED vars
    BY <1>2, <2>1, <2>2, SeenStutter, StepTokenInv DEF vars
  <2>3. QED
    BY <1>2, <2>1, <2>2, StepTokenInv, QueueStep
<1>3. Plain => NoVictims
  BY DEF Plain
<1>4. QED
  BY <1>1, <1>2, <1>3, PTL DEF Spec, ImplementsQueue, TokenView!TQSpec
==============================================================================
