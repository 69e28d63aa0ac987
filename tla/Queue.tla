-------------------------------- MODULE Queue --------------------------------
(***************************************************************************)
(* One message queue and the tasks at it: q_receive, q_send, q_urgent,     *)
(* q_broadcast and q_delete of queue.c, or the same calls of vqueue.c,     *)
(* which differ in when there is room and in how a broadcast is put.  The  *)
(* messages are a sequence here; QueueRing models the rings that hold      *)
(* them, and SchedLock the scheduler lock.                                 *)
(*                                                                         *)
(* q_broadcast and q_delete put their message first, let queue_lock go,    *)
(* and only then lock the scheduler, wake the waiting tasks and wait for   *)
(* the last of them.                                                       *)
(***************************************************************************)
EXTENDS Integers, Sequences, FiniteSets, SuspendList

CONSTANTS
    Task, NoTask,
    Prio,           \* a task's prv_priority
    Uses            \* the ways the queue is created and used, see Use

\* wait, timed, nowait: q_receive without and with max_wait, and with Q_NOWAIT
Receives == {"wait", "timed", "nowait"}
AllOps == Receives \cup {"send", "urgent", "bcast", "delete"}

\* kind is the file.  limit (the size, with Q_LIMIT) and prior (Q_PRIOR) are what
\* q_create or q_vcreate is given; only vqueue.c has queues of size 0.  The rest is
\* what the tasks do: the operations each of them calls, and at most how often (a
\* bound), and whether q_broadcast and q_delete are called only when no call is
\* under way, blocked ones apart.
Use == [kind : {"queue", "vqueue"}, limit : Nat, prior : BOOLEAN,
        ops : [Task -> SUBSET AllOps], calls : [Task -> Nat], quiet : BOOLEAN]

ASSUME NoTaskAssumption == NoTask \notin Task
ASSUME PrioAssumption == Prio \in [Task -> Nat]
ASSUME UsesAssumption ==
    Uses \subseteq Use /\ \A u \in Uses : u.kind = "queue" => u.limit > 0

VARIABLES
    msgs,           \* the messages, the one at queue_head first
    sent,           \* messages are numbered as they are sent
    first_susp, send_type, bcst_tasks_awakened, live,
    queue_lock, qbcst_lock, sched,      \* owners of the locks
    op, pc, calls,
    expired, retcode,                   \* of a receive in progress
    result, msg,                        \* what the last call returned
    bcast,          \* history: the last broadcast message, whose call in progress
                    \* put it, how many tasks it was for, and those of them that
                    \* have yet to get it
    use             \* never changes

queue == <<msgs, sent, first_susp, send_type, bcst_tasks_awakened, live>>
locks == <<queue_lock, qbcst_lock, sched>>
call  == <<op, calls, expired, retcode, result, msg>>
vars  == <<msgs, sent, first_susp, send_type, bcst_tasks_awakened, live, queue_lock,
           qbcst_lock, sched, op, pc, calls, expired, retcode, result, msg, bcast, use>>

deleted_msg == 0
NoMsg == -1

\* The places of q_receive that hold queue_lock.
Inside == {"check", "again", "took", "leave", "fetch", "signal", "unlock"}

TypeOK ==
    /\ msgs \in Seq(0..sent) /\ Len(msgs) <= use.limit + IF send_type = "KILLD" THEN 2 ELSE 1
    /\ sent \in Nat
    /\ first_susp \in Seq(Task)
    /\ send_type \in {"SEND", "BCAST", "KILLD"}
    /\ bcst_tasks_awakened \in Nat
    /\ live \in BOOLEAN
    /\ {queue_lock, qbcst_lock, sched} \subseteq Task \cup {NoTask}
    /\ op \in [Task -> AllOps]
    /\ pc \in [Task -> Inside \cup {"idle", "found", "hold", "wait", "woken", "nap", "reset",
                 "lock", "locked", "tell", "telling", "drain", "asleep", "drained", "done"}]
    /\ calls \in [Task -> Nat]
    /\ expired \in [Task -> BOOLEAN]
    /\ retcode \in [Task -> {"0", "ETIMEDOUT"}]
    /\ result \in [Task -> {"none", "message", "timeout", "killed", "full"}]
    /\ msg \in [Task -> NoMsg..sent]
    /\ use \in Uses
    /\ bcast \in [no : NoMsg..sent, by : Task \cup {NoTask}, all : Nat, left : SUBSET Task]

Init ==
    /\ use \in Uses
    /\ msgs = <<>> /\ sent = 0 /\ first_susp = <<>> /\ send_type = "SEND"
    /\ bcst_tasks_awakened = 0 /\ live = TRUE
    /\ queue_lock = NoTask /\ qbcst_lock = NoTask /\ sched = NoTask
    /\ op = [t \in Task |-> "wait"]
    /\ pc = [t \in Task |-> "idle"]
    /\ calls = [t \in Task |-> 0]
    /\ expired = [t \in Task |-> FALSE]
    /\ retcode = [t \in Task |-> "0"]
    /\ result = [t \in Task |-> "none"]
    /\ msg = [t \in Task |-> NoMsg]
    /\ bcast = [no |-> NoMsg, by |-> NoTask, all |-> 0, left |-> {}]

Goto(t, from, to) == pc[t] = from /\ pc' = [pc EXCEPT ![t] = to]
Is(kind) == use.kind = kind
Waiting == Members(first_susp)

\* Mutant: no signal at all.
Woken_None(moved) == moved
\* pthread_cond_broadcast of queue_send.  moved is pc after the caller's own move.
Woken(moved) == [t \in Task |-> IF pc[t] = "wait" THEN "woken" ELSE moved[t]]

------------------------------------------------------------------------------
(* A call starts with qcb_for, which takes no lock.                        *)

Blocked == {"check", "again", "wait", "woken", "nap", "hold"}
Alone(o) == o \in {"bcast", "delete"}

Lookup(t, o) ==
    /\ calls[t] < use.calls[t] /\ live
    /\ use.quiet => \A u \in Task \ {t} : pc[u] # "idle" => ~Alone(op[u])
    /\ use.quiet /\ Alone(o) => \A u \in Task \ {t} : pc[u] \in Blocked \cup {"idle"}
    /\ Goto(t, "idle", "found")
    /\ op' = [op EXCEPT ![t] = o]
    /\ calls' = [calls EXCEPT ![t] = @ + 1]
    /\ UNCHANGED <<queue, locks, expired, retcode, result, msg, bcast, use>>

------------------------------------------------------------------------------
(* q_receive                                                               *)

MayJoin == send_type = "SEND"

\* While a broadcast is in progress the task looks again every tick.
Hold(t) ==
    /\ op[t] \in Receives /\ queue_lock = NoTask /\ ~MayJoin
    /\ Goto(t, "found", "hold")
    /\ UNCHANGED <<queue, locks, call, bcast, use>>

\* link_susp_tcb.  Q_NOWAIT waits with a deadline that is now.
LinkSelf(t) ==
    /\ op[t] \in Receives /\ queue_lock = NoTask /\ MayJoin
    /\ Goto(t, "found", "check") \/ Goto(t, "hold", "check")
    /\ queue_lock' = t
    /\ first_susp' = Append(first_susp, t)
    /\ expired' = [expired EXCEPT ![t] = op[t] = "nowait"]
    /\ retcode' = [retcode EXCEPT ![t] = "0"]
    /\ result' = [result EXCEPT ![t] = "none"]
    /\ UNCHANGED <<msgs, sent, send_type, bcst_tasks_awakened, live, qbcst_lock, sched,
                   op, calls, msg, bcast, use>>

\* The deadline passes.
Expire(t) ==
    /\ op[t] = "timed" /\ ~expired[t]
    /\ pc[t] \in Blocked \ {"hold"}
    /\ expired' = [expired EXCEPT ![t] = TRUE]
    /\ UNCHANGED <<queue, locks, op, pc, calls, retcode, result, msg, bcast, use>>

\* signal_for_my_task: the head of the list, or the first of highest priority.
Signalled(list, prior) ==
    IF ~prior THEN Head(list)
    ELSE list[CHOOSE i \in DOMAIN list : \A j \in DOMAIN list \ {i} :
                 Prio[list[i]] > Prio[list[j]] \/ (i < j /\ Prio[list[i]] = Prio[list[j]])]

MyTurn(t) == Signalled(first_susp, use.prior) = t

\* The message is for this task, or for all.
TakeMsg(t) ==
    /\ msgs # <<>> /\ (send_type = "BCAST" \/ MyTurn(t))
    /\ pc' = [pc EXCEPT ![t] = "took"]
    /\ retcode' = [retcode EXCEPT ![t] = "0"]
    /\ UNCHANGED queue_lock

\* It is not: tm_wkafter(1) without queue_lock.
Nap(t) ==
    /\ msgs # <<>> /\ send_type # "BCAST" /\ ~MyTurn(t)
    /\ pc' = [pc EXCEPT ![t] = "nap"]
    /\ queue_lock' = NoTask
    /\ UNCHANGED retcode

\* Mutant: the task waits again after its timeout.
NotYet_Again(t) ==
    /\ pc' = [pc EXCEPT ![t] = "wait"] /\ queue_lock' = NoTask
    /\ UNCHANGED retcode
\* waiting_on_queue returns nonzero: the loop ends, or the task waits.
NotYet(t) ==
    /\ \/ retcode[t] = "ETIMEDOUT"
          /\ pc' = [pc EXCEPT ![t] = "leave"] /\ UNCHANGED queue_lock
       \/ retcode[t] = "0"
          /\ pc' = [pc EXCEPT ![t] = "wait"] /\ queue_lock' = NoTask
    /\ UNCHANGED retcode

Killed(t) ==
    /\ pc' = [pc EXCEPT ![t] = "leave"]
    /\ retcode' = [retcode EXCEPT ![t] = "0"]
    /\ UNCHANGED queue_lock

TryMsg(t) == TakeMsg(t) \/ Nap(t) \/ (msgs = <<>> /\ NotYet(t))

\* waiting_on_queue from its start.
Check(t) ==
    /\ pc[t] = "check"
    /\ \/ send_type = "KILLD" /\ Killed(t)
       \/ send_type # "KILLD" /\ TryMsg(t)
    /\ UNCHANGED <<queue, qbcst_lock, sched, op, calls, expired, result, msg, bcast, use>>

\* Its inner loop after the nap: the timeout, then the messages, and not KILLD.
CheckAgain(t) ==
    /\ pc[t] = "again"
    /\ \/ expired[t] /\ NotYet(t)
       \/ ~expired[t] /\ TryMsg(t)
    /\ UNCHANGED <<queue, qbcst_lock, sched, op, calls, expired, result, msg, bcast, use>>

Relock(t) ==
    /\ queue_lock = NoTask
    /\ queue_lock' = t
    /\ Goto(t, "woken", "check") \/ Goto(t, "nap", "again")
    /\ UNCHANGED <<queue, qbcst_lock, sched, call, bcast, use>>

\* pthread_cond_timedwait returns ETIMEDOUT.
TimeOut(t) ==
    /\ expired[t]
    /\ Goto(t, "wait", "woken")
    /\ retcode' = [retcode EXCEPT ![t] = "ETIMEDOUT"]
    /\ UNCHANGED <<queue, locks, op, calls, expired, result, msg, bcast, use>>

\* Mutant: a task that takes a message with a timeout reports the timeout.
TimedOut_Expired(t) == expired[t]
TimedOut(t) == send_type # "KILLD" /\ retcode[t] = "ETIMEDOUT"

\* unlink_susp_tcb, and the end of a call that has timed out.
UnlinkSelf(t) ==
    /\ pc[t] \in {"took", "leave"}
    /\ first_susp' = Without(first_susp, t)
    /\ pc' = [pc EXCEPT ![t] = IF TimedOut(t) THEN "unlock" ELSE "fetch"]
    /\ result' = [result EXCEPT ![t] = IF TimedOut(t) THEN "timeout" ELSE @]
    /\ UNCHANGED <<msgs, sent, send_type, bcst_tasks_awakened, live, locks, op, calls,
                   expired, retcode, msg, bcast, use>>

\* Mutant: the first task that gets a broadcast message takes it off the queue.
LastFetch_Any == TRUE
LastFetch == send_type = "SEND" \/ Waiting = {}

\* fetch_msg_from: a message for several tasks stays until the last one.
Fetch(t) ==
    /\ pc[t] = "fetch"
    /\ msg' = [msg EXCEPT ![t] = Head(msgs)]
    /\ result' = [result EXCEPT ![t] = IF send_type = "KILLD" THEN "killed" ELSE "message"]
    /\ bcst_tasks_awakened' = bcst_tasks_awakened + IF send_type = "BCAST" THEN 1 ELSE 0
    /\ msgs' = IF LastFetch THEN Tail(msgs) ELSE msgs
    /\ pc' = [pc EXCEPT ![t] = IF LastFetch /\ send_type # "SEND" THEN "signal" ELSE "unlock"]
    /\ bcast' = [bcast EXCEPT !.left = @ \ {t}]
    /\ UNCHANGED <<sent, first_susp, send_type, live, locks, op, calls, expired, retcode, use>>

\* Mutant: the broadcasting task is not awakened.
BroadcastComplete_Silent(moved) == moved
BroadcastComplete(moved) ==
    [u \in Task |-> IF pc[u] = "asleep" THEN "drained" ELSE moved[u]]

Signal(t) ==
    /\ pc[t] = "signal" /\ qbcst_lock = NoTask
    /\ send_type' = "SEND"
    /\ pc' = BroadcastComplete([pc EXCEPT ![t] = "unlock"])
    /\ UNCHANGED <<msgs, sent, first_susp, bcst_tasks_awakened, live, locks, call, bcast, use>>

Unlock(t) ==
    /\ Goto(t, "unlock", "idle")
    /\ queue_lock' = NoTask
    /\ UNCHANGED <<queue, qbcst_lock, sched, call, bcast, use>>

------------------------------------------------------------------------------
(* q_send and q_urgent, under the scheduler lock and queue_lock.           *)

SchedLock(t) ==
    /\ sched = NoTask
    /\ \/ ~Alone(op[t]) /\ Goto(t, "found", "locked")
       \/ Goto(t, "lock", "locked")
    /\ sched' = t
    /\ UNCHANGED <<queue, queue_lock, qbcst_lock, call, bcast, use>>

Put(t, room, contents) ==
    /\ pc[t] = "locked" /\ queue_lock = NoTask
    /\ sched' = NoTask
    /\ \/ /\ room
          /\ msgs' = contents /\ sent' = sent + 1
          /\ pc' = Woken([pc EXCEPT ![t] = "idle"])
       \/ /\ ~room                                                 \* ERR_QFULL
          /\ pc' = [pc EXCEPT ![t] = "idle"]
          /\ UNCHANGED <<msgs, sent>>
    /\ UNCHANGED <<first_susp, send_type, bcst_tasks_awakened, live, queue_lock, qbcst_lock,
                   call, bcast, use>>

HasRoom == Len(msgs) < use.limit
UrgentHasRoom == Len(msgs) <= use.limit

\* Mutant: a queue of size 0 takes a message although nobody waits.
VHasRoom_Always == Len(msgs) <= use.limit
\* A queue of size 0 takes a message for a task that waits.
VHasRoom == Len(msgs) < use.limit \/ (use.limit = 0 /\ msgs = <<>> /\ Waiting # {})

Send(t, room) ==
    op[t] = "send" /\ (SchedLock(t) \/ Put(t, room, Append(msgs, sent + 1)))
Urgent(t) ==
    op[t] = "urgent" /\ (SchedLock(t) \/ Put(t, UrgentHasRoom, <<sent + 1>> \o msgs))

------------------------------------------------------------------------------
(* q_broadcast and q_delete                                                *)

\* Under queue_lock, without the scheduler lock and without a wakeup.
BroadcastMsg(t, told, then) ==
    /\ op[t] = "bcast" /\ queue_lock = NoTask
    /\ Goto(t, "found", then)
    /\ \/ /\ told
          /\ msgs' = <<sent + 1>> \o msgs /\ sent' = sent + 1
          /\ send_type' = "BCAST"
       \/ ~told /\ UNCHANGED <<msgs, sent, send_type>>
    /\ result' = [result EXCEPT ![t] = IF Waiting # {} /\ ~told THEN "full" ELSE "none"]
    /\ bcast' = IF told THEN [no |-> sent + 1, by |-> t, all |-> Cardinality(Waiting),
                              left |-> Waiting]
                ELSE [bcast EXCEPT !.by = IF @ = t THEN NoTask ELSE @]
    /\ UNCHANGED <<first_susp, live, locks, op, calls, expired, retcode, msg, use>>

Told == Waiting # {} /\ UrgentHasRoom

\* Without any lock.
ResetCount(t) ==
    /\ Goto(t, "reset", "lock")
    /\ bcst_tasks_awakened' = 0
    /\ UNCHANGED <<msgs, sent, first_susp, send_type, live, locks, call, bcast, use>>

PutBroadcast(t) ==
    \/ BroadcastMsg(t, Told, "reset") /\ UNCHANGED bcst_tasks_awakened
    \/ ResetCount(t)

\* Mutant: the count goes on from the last broadcast.
NewCount_Old == bcst_tasks_awakened
NewCount == IF Told THEN 0 ELSE bcst_tasks_awakened

\* vqueue.c resets the count with the message.
VPutBroadcast(t) ==
    BroadcastMsg(t, Told, "lock") /\ bcst_tasks_awakened' = NewCount

\* The delete message goes in front even when there is no room for it.
DeleteMsg(t) ==
    /\ op[t] = "delete" /\ queue_lock = NoTask
    /\ Goto(t, "found", "lock")
    /\ \/ /\ Waiting # {}
          /\ msgs' = <<deleted_msg>> \o msgs
          /\ send_type' = "KILLD"
       \/ Waiting = {} /\ UNCHANGED <<msgs, send_type>>
    /\ UNCHANGED <<sent, first_susp, bcst_tasks_awakened, live, locks, call, bcast, use>>

NoneLeft(t) == Waiting = {}

\* first_susp is read without queue_lock.
AnyToTell(t) ==
    /\ Alone(op[t])
    /\ Goto(t, "locked", IF NoneLeft(t) \/ result[t] = "full" THEN "done" ELSE "tell")
    /\ UNCHANGED <<queue, locks, call, bcast, use>>

LockBroadcast(t) ==
    /\ qbcst_lock = NoTask
    /\ qbcst_lock' = t
    /\ Goto(t, "tell", "telling") \/ Goto(t, "drained", "drain")
    /\ UNCHANGED <<queue, queue_lock, sched, call, bcast, use>>

Tell(t) ==
    /\ pc[t] = "telling" /\ queue_lock = NoTask
    /\ pc' = Woken([pc EXCEPT ![t] = "drain"])
    /\ UNCHANGED <<queue, locks, call, bcast, use>>

\* The loop around pthread_cond_wait on queue_bcplt.
Drain(t) ==
    /\ Goto(t, "drain", IF NoneLeft(t) THEN "done" ELSE "asleep")
    /\ qbcst_lock' = NoTask
    /\ UNCHANGED <<queue, queue_lock, sched, call, bcast, use>>

\* delete_queue, or the return of the count; and sched_unlock.
Done(t) ==
    /\ Goto(t, "done", "idle")
    /\ live' = (live /\ op[t] # "delete")
    /\ sched' = NoTask
    /\ UNCHANGED <<msgs, sent, first_susp, send_type, bcst_tasks_awakened, queue_lock,
                   qbcst_lock, call, bcast, use>>

------------------------------------------------------------------------------
Receive(t) == \/ Hold(t) \/ LinkSelf(t) \/ Relock(t) \/ TimeOut(t) \/ UnlinkSelf(t) \/ Unlock(t)
Look(t)    == Check(t) \/ CheckAgain(t)
TakeOff(t) == Fetch(t) \/ Signal(t)
Alert(t)   == \/ SchedLock(t) \/ AnyToTell(t) \/ LockBroadcast(t) \/ Tell(t) \/ Drain(t)
              \/ Done(t)
Delete(t)  == op[t] = "delete" /\ (DeleteMsg(t) \/ Alert(t))

q_receive(t)        == Is("queue") /\ Receive(t)
waiting_on_queue(t) == Is("queue") /\ Look(t)
fetch_msg_from(t)   == Is("queue") /\ TakeOff(t)
q_send(t)           == Is("queue") /\ Send(t, HasRoom)
q_urgent(t)         == Is("queue") /\ Urgent(t)
q_broadcast(t)      == Is("queue") /\ op[t] = "bcast" /\ (PutBroadcast(t) \/ Alert(t))
q_delete(t)         == Is("queue") /\ Delete(t)

q_vreceive(t)        == Is("vqueue") /\ Receive(t)
waiting_on_vqueue(t) == Is("vqueue") /\ Look(t)
fetch_vmsg_from(t)   == Is("vqueue") /\ TakeOff(t)
q_vsend(t)           == Is("vqueue") /\ Send(t, VHasRoom)
q_vurgent(t)         == Is("vqueue") /\ Urgent(t)
q_vbroadcast(t)      == Is("vqueue") /\ op[t] = "bcast" /\ (VPutBroadcast(t) \/ Alert(t))
q_vdelete(t)         == Is("vqueue") /\ Delete(t)

Work(t) ==
    \/ q_receive(t) \/ waiting_on_queue(t) \/ fetch_msg_from(t) \/ q_send(t) \/ q_urgent(t)
    \/ q_broadcast(t) \/ q_delete(t)
    \/ q_vreceive(t) \/ waiting_on_vqueue(t) \/ fetch_vmsg_from(t) \/ q_vsend(t)
    \/ q_vurgent(t) \/ q_vbroadcast(t) \/ q_vdelete(t)

Next == \E t \in Task : Work(t) \/ Expire(t) \/ \E o \in use.ops[t] : Lookup(t, o)

Spec == Init /\ [][Next]_vars

\* Threads run, deadlines pass, and a mutex that is free again and again is
\* locked at last: a napping task leaves queue_lock alone for a tick.
FairSpec == Spec /\ \A t \in Task : SF_vars(Work(t)) /\ WF_vars(Expire(t))

------------------------------------------------------------------------------
\* The tasks only send and receive.
MailOnly == \A t \in Task : ~\E o \in use.ops[t] : Alone(o)

\* A message does not stay while a task is waiting (waiting_on_queue,
\* queue.c:1622-1656).
MessageIsTaken == (MailOnly /\ msgs # <<>> /\ Waiting # {}) ~> (msgs = <<>> \/ Waiting = {})

\* q_receive with max_wait or Q_NOWAIT returns (queue.c:1743-1813), also when
\* other tasks are always ahead in the queue.
TimedCallsReturn ==
    \A t \in Task : (MailOnly /\ pc[t] = "check" /\ op[t] # "wait") ~> pc[t] = "idle"

\* Messages go out in order, each to one task, and to the task whose turn it
\* is; no message is lost with a timeout (queue.c:1616-1656, 1815-1863).
TookMsg   == {t \in Task : pc[t] = "took"}
Delivered == {t \in Task : pc[t] \in {"took", "fetch"}}
Seen(x, empty) == IF MailOnly THEN x ELSE empty
StillQueued ==
    IF TookMsg = {} THEN first_susp ELSE Without(first_susp, CHOOSE t \in TookMsg : TRUE)
StillThere == IF Delivered = {} THEN msgs ELSE Tail(msgs)
Outcome == [t \in Task |-> IF t \in Delivered THEN "message" ELSE result[t]]
Letter  == [t \in Task |-> IF t \in Delivered THEN Head(msgs) ELSE msg[t]]
MailView == INSTANCE Mailbox WITH
    Client <- Task, Turn <- Signalled, prior <- use.prior,
    contents <- Seen(StillThere, <<>>),
    queue    <- Seen(StillQueued, <<>>),
    outcome  <- Seen(Outcome, [t \in Task |-> "none"]),
    letter   <- Seen(Letter, [t \in Task |-> NoMsg])
ImplementsMailbox == MailView!MBSpec

\* A broadcast message reaches every task that was waiting: q_broadcast "sends
\* the specified message to all tasks pending" (queue.c:1291).
BroadcastReaches ==
    [][\A t \in bcast.left : result'[t] # result[t] => msg'[t] = bcast.no]_vars

\* A call of q_vbroadcast that has put its message, with no other put since, counts no
\* more tasks than were waiting then, whatever the last broadcast has counted
\* (vqueue.c:1105, 1165).
Counting(t) == Is("vqueue") /\ op[t] = "bcast" /\ pc[t] \in {"tell", "telling", "drain", "done"}
CountBounded ==
    \A t \in Task : Counting(t) /\ bcast.by = t => bcst_tasks_awakened <= bcast.all

\* The other calls, which have awakened nobody, count nobody: what is stored is the "count
\* of tasks awakened by q_broadcast call" (vqueue.c:141, 1168).  It is not so: RepeatedUses in MCQueue.
NoneCounted ==
    \A t \in Task : Counting(t) /\ pc[t] = "done" /\ bcast.by # t => bcst_tasks_awakened = 0

\* A queue of size 0 holds a message only for tasks that wait for it, if none gives
\* up waiting and the queue is not deleted (vqueue.c:1014-1030).
NothingStored ==
    use.limit = 0 /\ (\A t \in Task : use.ops[t] \cap {"timed", "nowait", "urgent", "delete"} = {})
        => Len(msgs) <= Cardinality(Waiting) + Cardinality({t \in Task : pc[t] = "fetch"})

\* Called when no other call is under way, q_broadcast and q_delete return: every
\* waiting task is told, and the last one tells the calling task
\* (queue.c:1421-1428, 1562-1569).
BroadcastReturns ==
    \A t \in Task : (use.quiet /\ pc[t] = "found" /\ Alone(op[t])) ~> pc[t] = "idle"
==============================================================================
