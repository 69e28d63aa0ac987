----------------------------- MODULE QueueProofs ------------------------------
(***************************************************************************)
(* What holds of a message queue for any number of tasks, messages and     *)
(* calls.                                                                  *)
(***************************************************************************)
EXTENDS Queue, SuspendListProofs

USE NoTaskAssumption

\* Whoever is between the lock and the unlock of queue_lock holds it.
InsideHolds == \A t \in Task : pc[t] \in Inside => queue_lock = t

\* The places of q_receive between link_susp_tcb and unlink_susp_tcb.
Listed == {"check", "again", "wait", "woken", "nap", "took", "leave"}

QueueTyped ==
    /\ use \in Uses
    /\ DOMAIN pc = Task /\ DOMAIN op = Task /\ DOMAIN expired = Task /\ DOMAIN retcode = Task
    /\ DOMAIN result = Task /\ DOMAIN msg = Task
    /\ msgs \in Seq(Nat) /\ sent \in Nat
    /\ send_type \in {"SEND", "BCAST", "KILLD"}
    /\ \A t \in Task : op[t] \in use.ops[t] \cup {"wait"} /\ retcode[t] \in {"0", "ETIMEDOUT"}

\* The list has the tasks that are in q_receive, each once.
ListIsRight ==
    /\ first_susp \in Seq(Task) /\ Distinct(first_susp)
    /\ Waiting = {t \in Task : pc[t] \in Listed}

\* Who fetches a message finds one: who took it, and who is told of the delete.
MsgThere ==
    /\ \A t \in Task : /\ pc[t] \in {"took", "fetch"} => msgs # <<>>
                       /\ pc[t] = "took" => retcode[t] = "0"
                       /\ pc[t] = "leave" => send_type = "KILLD" \/ retcode[t] = "ETIMEDOUT"
    /\ send_type # "SEND" /\ msgs = <<>> => \E t \in Task : pc[t] = "signal"

QInv == QueueTyped /\ InsideHolds /\ ListIsRight /\ MsgThere

\* A new queue is empty, unlocked and without waiting tasks.
LEMMA InitQInv == Init => QInv
<1>1. Init => QueueTyped /\ InsideHolds
  BY DEF Init, QueueTyped, InsideHolds, Inside
<1>2. Init => ListIsRight
  BY NobodyWaits DEF Init, ListIsRight, Waiting, Listed
<1>3. Init => MsgThere
  BY DEF Init, MsgThere
<1>4. QED
  BY <1>1, <1>2, <1>3 DEF QInv

\* The steps of a call, whichever file it is of.
PutsUp(t) ==
    \/ op[t] = "send" /\ Is("queue") /\ Put(t, HasRoom, Append(msgs, sent + 1))
    \/ op[t] = "send" /\ Is("vqueue") /\ Put(t, VHasRoom, Append(msgs, sent + 1))
    \/ op[t] = "urgent" /\ Put(t, UrgentHasRoom, <<sent + 1>> \o msgs)
Broadcasts(t) ==
    /\ op[t] = "bcast"
    /\ \/ Is("queue") /\ PutBroadcast(t)
       \/ Is("vqueue") /\ VPutBroadcast(t)

\* The steps inside calls, those of both files side by side.
LEMMA WorkCases ==
    ASSUME NEW t \in Task, Work(t)
    PROVE  \/ Hold(t) \/ LinkSelf(t) \/ Relock(t) \/ TimeOut(t) \/ UnlinkSelf(t) \/ Unlock(t)
           \/ Check(t) \/ CheckAgain(t) \/ Fetch(t) \/ Signal(t)
           \/ PutsUp(t) \/ Broadcasts(t) \/ (op[t] = "delete" /\ DeleteMsg(t))
           \/ Alert(t)
<1> USE DEF Receive, Look, TakeOff, Send, Urgent, Delete, PutsUp, Broadcasts, Alert
<1>1. CASE Is("queue")
  <2>1. \/ q_receive(t) \/ waiting_on_queue(t) \/ fetch_msg_from(t) \/ q_send(t) \/ q_urgent(t)
        \/ q_broadcast(t) \/ q_delete(t)
    BY <1>1 DEF Work, Is, q_vreceive, waiting_on_vqueue, fetch_vmsg_from, q_vsend, q_vurgent,
       q_vbroadcast, q_vdelete
  <2>2. QED
    BY <2>1 DEF q_receive, waiting_on_queue, fetch_msg_from, q_send, q_urgent, q_broadcast, q_delete
<1>2. CASE ~Is("queue")
  <2>1. \/ q_vreceive(t) \/ waiting_on_vqueue(t) \/ fetch_vmsg_from(t) \/ q_vsend(t)
        \/ q_vurgent(t) \/ q_vbroadcast(t) \/ q_vdelete(t)
    BY <1>2 DEF Work, q_receive, waiting_on_queue, fetch_msg_from, q_send, q_urgent, q_broadcast,
       q_delete
  <2>2. QED
    BY <2>1 DEF q_vreceive, waiting_on_vqueue, fetch_vmsg_from, q_vsend, q_vurgent, q_vbroadcast,
       q_vdelete
<1>3. QED
  BY <1>1, <1>2

\* The scenario never changes.
LEMMA UseIsFrozen == [Next]_vars => use' = use
<1> SUFFICES ASSUME [Next]_vars PROVE use' = use
  OBVIOUS
<1> USE DEF queue, locks, call
<1>1. CASE UNCHANGED vars
  BY <1>1 DEF vars
<1>2. ASSUME NEW t \in Task, Work(t) PROVE use' = use
  BY <1>2, WorkCases DEF Hold, LinkSelf, Relock, TimeOut, UnlinkSelf, Unlock, Check, CheckAgain,
     Fetch, Signal, PutsUp, Put, Broadcasts, PutBroadcast, BroadcastMsg, ResetCount, VPutBroadcast,
     DeleteMsg, Alert, SchedLock, AnyToTell, LockBroadcast, Tell, Drain, Done
<1>3. ASSUME NEW t \in Task, Expire(t) \/ \E o \in use.ops[t] : Lookup(t, o) PROVE use' = use
  BY <1>3 DEF Expire, Lookup
<1>4. QED
  BY <1>1, <1>2, <1>3 DEF Next

\* A step that links and unlinks nobody and takes no message off.
LEMMA ListKept ==
    ASSUME QInv, UNCHANGED <<first_susp, use>>,
           QueueTyped', InsideHolds',
           \A t \in Task : pc'[t] \in Listed <=> pc[t] \in Listed,
           msgs # <<>> => msgs' # <<>>,
           send_type' = send_type \/ send_type' = "SEND" \/ msgs' # <<>>,
           \A t \in Task : pc'[t] \in {"took", "fetch"} => msgs' # <<>>,
           \A t \in Task : pc'[t] = "took" => retcode'[t] = "0",
           \A t \in Task : pc'[t] = "leave" => send_type' = "KILLD" \/ retcode'[t] = "ETIMEDOUT",
           send_type' # "SEND" => \A t \in Task : pc[t] = "signal" => pc'[t] = "signal"
    PROVE  QInv'
<1>1. ListIsRight'
  BY DEF QInv, ListIsRight, Waiting
<1>2. MsgThere'
  BY DEF QInv, MsgThere
<1>3. QED
  BY <1>1, <1>2 DEF QInv

\* A message that is put in front, or at the end, is there.
LEMMA PutMsg ==
    ASSUME NEW S, NEW list \in Seq(S), NEW m \in S
    PROVE  /\ <<m>> \o list \in Seq(S) /\ Append(list, m) \in Seq(S)
           /\ <<m>> \o list # <<>> /\ Append(list, m) # <<>>
           /\ Len(<<m>> \o list) = Len(list) + 1 /\ Len(Append(list, m)) = Len(list) + 1
           /\ Head(<<m>> \o list) = m
           /\ list # <<>> => Head(Append(list, m)) = Head(list)
<1>1. <<m>> \in Seq(S) /\ Len(<<m>>) = 1 /\ <<m>>[1] = m
  OBVIOUS
<1>2. <<m>> \o list \in Seq(S) /\ Len(<<m>> \o list) = Len(list) + 1 /\ (<<m>> \o list)[1] = m
  BY <1>1
<1>3. Append(list, m) \in Seq(S) /\ Len(Append(list, m)) = Len(list) + 1
  OBVIOUS
<1>4. list # <<>> => Append(list, m)[1] = list[1]
  OBVIOUS
<1>5. QED
  BY <1>2, <1>3, <1>4

\* The messages that were there before.
LEMMA FrontMsg ==
    ASSUME NEW S, NEW list \in Seq(S), NEW m \in S
    PROVE  /\ Tail(<<m>> \o list) = list
           /\ SubSeq(Append(list, m), 1, Len(Append(list, m)) - 1) = list
<1>1. Tail(<<m>> \o list) = list
  <2>1. <<m>> \in Seq(S) /\ Len(<<m>>) = 1
    OBVIOUS
  <2>2. <<m>> \o list \in Seq(S) /\ Len(<<m>> \o list) = Len(list) + 1
    BY <2>1
  <2>3. Tail(<<m>> \o list) \in Seq(S) /\ Len(Tail(<<m>> \o list)) = Len(list)
    BY <2>2
  <2>4. \A i \in 1..Len(list) : Tail(<<m>> \o list)[i] = list[i]
    BY <2>1, <2>2
  <2>5. QED
    BY <2>3, <2>4
<1>2. SubSeq(Append(list, m), 1, Len(Append(list, m)) - 1) = list
  <2>1. Append(list, m) \in Seq(S) /\ Len(Append(list, m)) = Len(list) + 1
    OBVIOUS
  <2>2. SubSeq(Append(list, m), 1, Len(list)) = list
    OBVIOUS
  <2>3. QED
    BY <2>1, <2>2
<1>3. QED
  BY <1>1, <1>2

\* Types, and who holds queue_lock.
LEMMA StepTyped == ASSUME QInv, [Next]_vars PROVE QueueTyped' /\ InsideHolds'
<1> USE DEF QInv, QueueTyped, InsideHolds, Inside, Goto, queue, locks, call
<1>0. use' = use
  BY UseIsFrozen
<1>put. /\ sent + 1 \in Nat /\ <<sent + 1>> \o msgs \in Seq(Nat) /\ Append(msgs, sent + 1) \in Seq(Nat)
        /\ <<deleted_msg>> \o msgs \in Seq(Nat)
  <2>1. sent + 1 \in Nat /\ deleted_msg \in Nat
    BY DEF deleted_msg
  <2>2. QED
    BY <2>1, PutMsg
<1>1. CASE UNCHANGED vars
  BY <1>1 DEF vars
<1>2. ASSUME NEW t \in Task, NEW o \in use.ops[t], Lookup(t, o) PROVE QueueTyped' /\ InsideHolds'
  BY <1>0, <1>2 DEF Lookup
<1>3. ASSUME NEW t \in Task, Expire(t) PROVE QueueTyped' /\ InsideHolds'
  BY <1>0, <1>3 DEF Expire
<1>4. ASSUME NEW t \in Task, Work(t) PROVE QueueTyped' /\ InsideHolds'
  <2>1. CASE Hold(t) \/ LinkSelf(t) \/ Relock(t) \/ TimeOut(t) \/ Unlock(t)
    BY <1>0, <2>1 DEF Hold, LinkSelf, Relock, TimeOut, Unlock
  <2>2. CASE UnlinkSelf(t)
    BY <1>0, <2>2 DEF UnlinkSelf
  <2>3. CASE Check(t) \/ CheckAgain(t)
    BY <1>0, <2>3 DEF Check, CheckAgain, Killed, TryMsg, TakeMsg, Nap, NotYet
  <2>4. CASE Fetch(t)
    <3>1. msgs # <<>> /\ msgs' \in Seq(Nat)
      BY <2>4 DEF Fetch, MsgThere
    <3>2. QED
      BY <1>0, <2>4, <3>1 DEF Fetch
  <2>5. CASE Signal(t)
    BY <1>0, <2>5 DEF Signal, BroadcastComplete
  <2>6. CASE PutsUp(t)
    <3>1. msgs' \in Seq(Nat) /\ sent' \in Nat
      BY <1>put, <2>6 DEF PutsUp, Put
    <3>2. QED
      BY <1>0, <2>6, <3>1 DEF PutsUp, Put, Woken
  <2>7. CASE Broadcasts(t)
    <3>1. msgs' \in Seq(Nat) /\ sent' \in Nat
      BY <1>put, <2>7 DEF Broadcasts, PutBroadcast, VPutBroadcast, BroadcastMsg, ResetCount
    <3>2. QED
      BY <1>0, <2>7, <3>1 DEF Broadcasts, PutBroadcast, VPutBroadcast, BroadcastMsg, ResetCount
  <2>8. CASE DeleteMsg(t)
    <3>1. msgs' \in Seq(Nat)
      BY <1>put, <2>8 DEF DeleteMsg
    <3>2. QED
      BY <1>0, <2>8, <3>1 DEF DeleteMsg
  <2>9. CASE Alert(t)
    BY <1>0, <2>9 DEF Alert, SchedLock, AnyToTell, LockBroadcast, Tell, Woken, Drain, Done
  <2>10. QED
    BY <1>4, <2>1, <2>2, <2>3, <2>4, <2>5, <2>6, <2>7, <2>8, <2>9, WorkCases
<1>5. QED
  BY <1>1, <1>2, <1>3, <1>4 DEF Next

\* The invariant of locks, list and messages.
LEMMA StepQInv == ASSUME QInv, [Next]_vars PROVE QInv'
<1>0. use' = use /\ QueueTyped' /\ InsideHolds'
  BY UseIsFrozen, StepTyped
<1>put. <<sent + 1>> \o msgs # <<>> /\ Append(msgs, sent + 1) # <<>> /\ <<deleted_msg>> \o msgs # <<>>
  <2>1. msgs \in Seq(Nat) /\ sent + 1 \in Nat /\ deleted_msg \in Nat
    BY DEF QInv, QueueTyped, deleted_msg
  <2>2. QED
    BY <2>1, PutMsg
\* One task at a time is between the lock and the unlock.
<1>one. /\ \A t, u \in Task : pc[t] \in Inside /\ pc[u] \in Inside => t = u
        /\ queue_lock = NoTask => \A t \in Task : pc[t] \notin Inside
  BY DEF QInv, InsideHolds
<1> USE DEF Goto, queue, locks, call
<1>1. CASE UNCHANGED vars
  BY <1>0, <1>1, ListKept DEF vars, QInv, MsgThere
<1>2. ASSUME NEW t \in Task, NEW o \in use.ops[t], Lookup(t, o) PROVE QInv'
  BY <1>0, <1>2, ListKept DEF Lookup, QInv, QueueTyped, MsgThere, Listed
<1>3. ASSUME NEW t \in Task, Expire(t) PROVE QInv'
  BY <1>0, <1>3, ListKept DEF Expire, QInv, MsgThere
<1>4. ASSUME NEW t \in Task, LinkSelf(t) PROVE QInv'
  <2>1. /\ first_susp' = Append(first_susp, t) /\ t \notin Waiting
        /\ \A u \in Task : pc'[u] = IF u = t THEN "check" ELSE pc[u]
        /\ \A u \in Task \ {t} : retcode'[u] = retcode[u]
        /\ UNCHANGED <<msgs, send_type>>
    BY <1>4 DEF LinkSelf, QInv, QueueTyped, ListIsRight, Listed
  <2>2. first_susp' \in Seq(Task) /\ Distinct(first_susp)' /\ Waiting' = Waiting \cup {t}
    BY <2>1, LinkAdds DEF QInv, ListIsRight, Waiting
  <2>3. ListIsRight'
    BY <2>1, <2>2 DEF QInv, ListIsRight, Listed
  <2>4. MsgThere'
    BY <1>4, <2>1 DEF LinkSelf, MayJoin, QInv, MsgThere
  <2>5. QED
    BY <1>0, <2>3, <2>4 DEF QInv
<1>5. ASSUME NEW t \in Task, UnlinkSelf(t) PROVE QInv'
  <2>1. /\ first_susp' = Without(first_susp, t) /\ pc[t] \in {"took", "leave"}
        /\ \A u \in Task : pc'[u] = IF u = t THEN IF TimedOut(t) THEN "unlock" ELSE "fetch" ELSE pc[u]
        /\ UNCHANGED <<msgs, send_type, retcode>>
    BY <1>5 DEF UnlinkSelf, QInv, QueueTyped
  <2>2. first_susp' \in Seq(Task) /\ Distinct(first_susp)' /\ Waiting' = Waiting \ {t}
    BY <2>1, UnlinkRemoves DEF QInv, ListIsRight, Waiting
  <2>3. ListIsRight'
    BY <2>1, <2>2 DEF QInv, ListIsRight, Listed
  <2>4. ~TimedOut(t) => msgs # <<>>
    BY <1>one, <2>1 DEF TimedOut, QInv, MsgThere, Inside
  <2>5. MsgThere'
    BY <2>1, <2>4 DEF QInv, MsgThere
  <2>6. QED
    BY <1>0, <2>3, <2>5 DEF QInv
<1>6. ASSUME NEW t \in Task, Fetch(t) PROVE QInv'
  <2>1. /\ UNCHANGED <<first_susp, send_type, retcode>>
        /\ pc[t] = "fetch" /\ msgs' \in {msgs, Tail(msgs)}
        /\ \A u \in Task : pc'[u] = IF u = t THEN IF LastFetch /\ send_type # "SEND" THEN "signal" ELSE "unlock" ELSE pc[u]
        /\ ~LastFetch => msgs' = msgs
    BY <1>6 DEF Fetch, QInv, QueueTyped
  <2>2. ListIsRight'
    BY <2>1 DEF QInv, ListIsRight, Waiting, Listed
  <2>3. MsgThere'
    BY <1>one, <2>1 DEF QInv, MsgThere, Inside
  <2>4. QED
    BY <1>0, <2>2, <2>3 DEF QInv
<1>7. ASSUME NEW t \in Task, Work(t), ~LinkSelf(t), ~UnlinkSelf(t), ~Fetch(t) PROVE QInv'
  <2> USE DEF QInv, QueueTyped, MsgThere, Listed
  <2>1. CASE Hold(t) \/ Relock(t) \/ Unlock(t)
    BY <1>0, <2>1, ListKept DEF Hold, Relock, Unlock
  <2>2. CASE TimeOut(t)
    BY <1>0, <2>2, ListKept DEF TimeOut
  <2>3. CASE Check(t) \/ CheckAgain(t)
    BY <1>0, <2>3, ListKept DEF Check, CheckAgain, Killed, TryMsg, TakeMsg, Nap, NotYet
  <2>4. CASE Signal(t)
    <3>1. /\ send_type' = "SEND" /\ UNCHANGED <<msgs, first_susp, retcode>> /\ pc[t] = "signal"
          /\ \A u \in Task : pc'[u] = pc[u] \/ (pc[u] \in {"asleep", "signal"} /\ pc'[u] \in {"drained", "unlock"})
      BY <2>4 DEF Signal, BroadcastComplete
    <3>2. \A u \in Task : pc[u] # "leave"
      BY <1>one, <3>1 DEF Inside
    <3>3. \A u \in Task : /\ pc'[u] \in Listed <=> pc[u] \in Listed
                          /\ pc'[u] \in {"took", "fetch", "leave"} => pc'[u] = pc[u]
      BY <3>1
    <3>4. QED
      BY <1>0, <3>1, <3>2, <3>3, ListKept
  <2>5. CASE PutsUp(t)
    <3>1. /\ msgs # <<>> => msgs' # <<>>
          /\ UNCHANGED <<first_susp, send_type, retcode>>
          /\ \A u \in Task : pc'[u] = pc[u] \/ (pc[u] = "wait" /\ pc'[u] = "woken") \/ (pc[u] = "locked" /\ pc'[u] = "idle")
      BY <1>put, <2>5 DEF PutsUp, Put, Woken
    <3>2. QED
      BY <1>0, <3>1, ListKept
  <2>6. CASE Broadcasts(t)
    <3>1. /\ msgs # <<>> => msgs' # <<>>
          /\ UNCHANGED <<first_susp, retcode>>
          /\ send_type' = send_type \/ (msgs' # <<>> /\ queue_lock = NoTask)
          /\ \A u \in Task : pc'[u] = pc[u] \/ (pc[u] \in {"found", "reset"} /\ pc'[u] \in {"reset", "lock"})
      BY <1>put, <2>6 DEF Broadcasts, PutBroadcast, VPutBroadcast, BroadcastMsg, ResetCount
    <3>2. \A u \in Task : pc[u] \in {"took", "fetch"} => msgs' # <<>>
      BY <3>1
    <3>3. \A u \in Task : pc[u] = "leave" => send_type' = "KILLD" \/ retcode'[u] = "ETIMEDOUT"
      BY <1>one, <3>1 DEF Inside
    <3>4. QED
      BY <1>0, <3>1, <3>2, <3>3, ListKept
  <2>7. CASE DeleteMsg(t)
    <3>1. /\ msgs # <<>> => msgs' # <<>>
          /\ UNCHANGED <<first_susp, retcode>>
          /\ send_type' = send_type \/ (send_type' = "KILLD" /\ msgs' # <<>>)
          /\ \A u \in Task : pc'[u] = pc[u] \/ (pc[u] = "found" /\ pc'[u] = "lock")
      BY <1>put, <2>7 DEF DeleteMsg
    <3>2. QED
      BY <1>0, <3>1, ListKept
  <2>8. CASE Alert(t)
    <3>1. /\ UNCHANGED <<first_susp, retcode, send_type, msgs>>
          /\ \A u \in Task : \/ pc'[u] = pc[u] \/ (pc[u] = "wait" /\ pc'[u] = "woken")
                             \/ /\ pc[u] \notin Listed \cup Inside
                                /\ pc'[u] \notin Listed \cup Inside
      BY <2>8 DEF Alert, SchedLock, AnyToTell, LockBroadcast, Tell, Woken, Drain, Done, Inside
    <3>2. QED
      BY <1>0, <3>1, ListKept DEF Inside
  <2>9. QED
    BY <1>7, <2>1, <2>2, <2>3, <2>4, <2>5, <2>6, <2>7, <2>8, WorkCases
<1>8. QED
  BY <1>1, <1>2, <1>3, <1>4, <1>5, <1>6, <1>7 DEF Next

------------------------------------------------------------------------------
(* A broadcast message is for the tasks on the list, and those that have    *)
(* left it to fetch their message.                                          *)

Pending == {t \in Task : pc[t] \in Listed \cup {"fetch"}}

\* They are finitely many, all on the list while queue_lock is free.
LEMMA PendingFinite ==
    ASSUME QInv
    PROVE  /\ IsFiniteSet(Pending) /\ Cardinality(Pending) \in Nat
           /\ Waiting \subseteq Pending
           /\ \A t \in Task : pc[t] \in Inside \ {"fetch"} => Pending = Waiting
           /\ \A t \in Task : pc[t] = "fetch" => Pending = Waiting \cup {t}
           /\ queue_lock = NoTask => Pending = Waiting
<1> USE DEF QInv, ListIsRight, InsideHolds, Inside, Listed, Pending
<1>1. IsFiniteSet(Waiting)
  BY MembersFinite DEF Waiting
<1>2. IsFiniteSet(Waiting \cup {queue_lock})
  BY <1>1, FS_AddElement
<1>3. Pending \subseteq Waiting \cup {queue_lock}
  OBVIOUS
<1>4. IsFiniteSet(Pending)
  BY <1>2, <1>3, FS_Subset
<1>5. Cardinality(Pending) \in Nat
  BY <1>4, FS_CardinalityType
<1>6. Waiting \subseteq Pending
  OBVIOUS
<1>7. QED
  BY <1>4, <1>5, <1>6

\* The tasks that have yet to be counted can be counted.
LEMMA PendingCount == QInv => Cardinality(Pending) \in Nat
BY PendingFinite

\* Of a variable-length queue: no more tasks have been counted than the message is for,
\* and those that have yet to fetch it are among the others.
CountInv ==
    /\ bcast \in [no : Int, by : Task \cup {NoTask}, all : Nat, left : SUBSET Task]
    /\ Is("vqueue") =>
         /\ bcst_tasks_awakened \in Nat /\ bcst_tasks_awakened <= bcast.all
         /\ send_type = "BCAST" => bcst_tasks_awakened + Cardinality(Pending) <= bcast.all

\* A step that counts nobody, and after which a message is for no more tasks.
LEMMA CountKept ==
    ASSUME QInv, QInv', CountInv, UNCHANGED <<use, bcast, bcst_tasks_awakened>>,
           send_type' = "BCAST" => send_type = "BCAST" /\ Pending' \subseteq Pending
    PROVE  CountInv'
<1>1. CASE send_type' = "BCAST"
  <2>1. Cardinality(Pending') <= Cardinality(Pending)
    BY <1>1, PendingFinite, FS_Subset
  <2>2. Cardinality(Pending') \in Nat
    <3>1. QInv' => (Cardinality(Pending) \in Nat)'
      BY PendingCount, PTL
    <3>2. QED
      BY <3>1
  <2>3. QED
    BY <1>1, <2>1, <2>2, PendingFinite DEF CountInv, Is
<1>2. CASE send_type' # "BCAST"
  BY <1>2 DEF CountInv, Is
<1>3. QED
  BY <1>1, <1>2

\* The count of a broadcast stays within those it is for.
LEMMA StepCount == ASSUME QInv, CountInv, [Next]_vars PROVE CountInv'
<1>0. QInv' /\ use' = use
  BY StepQInv, UseIsFrozen
<1>t. DOMAIN pc = Task /\ DOMAIN bcast = {"no", "by", "all", "left"} /\ sent \in Nat
  BY DEF QInv, QueueTyped, CountInv
<1> USE DEF Goto, queue, locks, call
<1>1. CASE UNCHANGED vars
  BY <1>0, <1>1, CountKept DEF vars, Pending
<1>2. ASSUME NEW t \in Task, NEW o \in use.ops[t], Lookup(t, o) PROVE CountInv'
  BY <1>0, <1>t, <1>2, CountKept DEF Lookup, Pending, Listed
<1>3. ASSUME NEW t \in Task, Expire(t) PROVE CountInv'
  BY <1>0, <1>3, CountKept DEF Expire, Pending
<1>4. ASSUME NEW t \in Task, Fetch(t) PROVE CountInv'
  <2>1. /\ UNCHANGED send_type
        /\ bcst_tasks_awakened' = bcst_tasks_awakened + IF send_type = "BCAST" THEN 1 ELSE 0
        /\ bcast' = [bcast EXCEPT !.left = bcast.left \ {t}]
    BY <1>4 DEF Fetch
  <2>2. t \in Pending /\ Pending' = Pending \ {t}
    BY <1>t, <1>4 DEF Fetch, Pending, Listed
  <2>3. Cardinality(Pending') = Cardinality(Pending) - 1 /\ Cardinality(Pending) \in Nat \ {0}
    <3>1. IsFiniteSet(Pending) /\ Cardinality(Pending) \in Nat
      BY PendingFinite
    <3>2. Cardinality(Pending) # 0
      BY <2>2, <3>1, FS_EmptySet
    <3>3. QED
      BY <2>2, <3>1, <3>2, FS_RemoveElement
  <2>4. bcast' \in [no : Int, by : Task \cup {NoTask}, all : Nat, left : SUBSET Task] /\ bcast'.all = bcast.all
    BY <2>1 DEF CountInv
  <2>5. QED
    BY <1>0, <2>1, <2>3, <2>4 DEF CountInv, Is
<1>5. ASSUME NEW t \in Task, Broadcasts(t) PROVE CountInv'
  <2>1. CASE ResetCount(t)
    BY <1>0, <1>5, <2>1 DEF Broadcasts, ResetCount, VPutBroadcast, BroadcastMsg, CountInv, Is
  <2>2. CASE ~ResetCount(t)
    <3>1. /\ queue_lock = NoTask
          /\ bcast' = IF Told THEN [no |-> sent + 1, by |-> t, all |-> Cardinality(Waiting), left |-> Waiting]
                      ELSE [bcast EXCEPT !.by = IF bcast.by = t THEN NoTask ELSE bcast.by]
          /\ Is("vqueue") => bcst_tasks_awakened' = IF Told THEN 0 ELSE bcst_tasks_awakened
          /\ ~Told => UNCHANGED send_type
      BY <1>5, <2>2 DEF Broadcasts, PutBroadcast, VPutBroadcast, BroadcastMsg, NewCount, Is
    <3>2. Pending = Waiting /\ Pending' = Pending /\ Cardinality(Pending) \in Nat
      <4>1. Pending' = Pending
        BY <1>t, <1>5 DEF Broadcasts, PutBroadcast, VPutBroadcast, BroadcastMsg, ResetCount, Pending, Listed
      <4>2. QED
        BY <3>1, <4>1, PendingFinite
    <3>3. CASE Told
      <4>1. bcast' = [no |-> sent + 1, by |-> t, all |-> Cardinality(Waiting), left |-> Waiting]
        BY <3>1, <3>3
      <4>2. bcast' \in [no : Int, by : Task \cup {NoTask}, all : Nat, left : SUBSET Task] /\ bcast'.all = Cardinality(Pending)
        <5>1. Waiting \subseteq Task /\ Cardinality(Waiting) = Cardinality(Pending)
          BY <3>2 DEF Pending
        <5>2. sent + 1 \in Int
          BY <1>t
        <5>3. QED
          BY ONLY <3>2, <4>1, <5>1, <5>2, t \in Task
      <4>3. QED
        BY <1>0, <3>1, <3>2, <3>3, <4>2 DEF CountInv, Is
    <3>4. CASE ~Told
      <4>1. bcast \in [no : Int, by : Task \cup {NoTask}, all : Nat, left : SUBSET Task]
        BY DEF CountInv
      <4>2. bcast' \in [no : Int, by : Task \cup {NoTask}, all : Nat, left : SUBSET Task] /\ bcast'.all = bcast.all
        BY <3>1, <3>4, <4>1
      <4>3. QED
        BY <1>0, <3>1, <3>2, <3>4, <4>2 DEF CountInv, Is
    <3>5. QED
      BY <3>3, <3>4
  <2>3. QED
    BY <2>1, <2>2
<1>6. ASSUME NEW t \in Task, Work(t), ~Fetch(t), ~Broadcasts(t) PROVE CountInv'
  <2>1. CASE LinkSelf(t)
    BY <1>0, <2>1, CountKept DEF LinkSelf, MayJoin
  <2>2. CASE Hold(t) \/ Relock(t) \/ TimeOut(t) \/ UnlinkSelf(t) \/ Unlock(t)
    BY <1>0, <1>t, <2>2, CountKept DEF Hold, Relock, TimeOut, UnlinkSelf, Unlock, Pending, Listed
  <2>3. CASE Check(t) \/ CheckAgain(t)
    BY <1>0, <1>t, <2>3, CountKept DEF Check, CheckAgain, Killed, TryMsg, TakeMsg, Nap, NotYet, Pending, Listed
  <2>4. CASE Signal(t)
    BY <1>0, <2>4, CountKept DEF Signal
  <2>5. CASE PutsUp(t)
    BY <1>0, <1>t, <2>5, CountKept DEF PutsUp, Put, Woken, Pending, Listed
  <2>6. CASE DeleteMsg(t)
    BY <1>0, <1>t, <2>6, CountKept DEF DeleteMsg, Pending, Listed
  <2>7. CASE Alert(t)
    BY <1>0, <1>t, <2>7, CountKept DEF Alert, SchedLock, AnyToTell, LockBroadcast, Tell, Woken, Drain, Done,
       Pending, Listed
  <2>8. QED
    BY <1>6, <2>1, <2>2, <2>3, <2>4, <2>5, <2>6, <2>7, WorkCases
<1>7. QED
  BY <1>1, <1>2, <1>3, <1>4, <1>5, <1>6 DEF Next

\* A call of q_vbroadcast that has put its message counts no more tasks than were waiting
\* then, through timeouts and new receives, as long as no other broadcast puts one
\* (vqueue.c:1073-1170).
THEOREM BroadcastCountIsBounded == Spec => []CountBounded
<1>1. Init => QInv /\ CountInv
  <2>1. Init => CountInv
    BY DEF Init, CountInv, NoMsg
  <2>2. QED
    BY <2>1, InitQInv
<1>2. QInv /\ CountInv /\ [Next]_vars => QInv' /\ CountInv'
  BY StepQInv, StepCount
<1>3. CountInv => CountBounded
  BY DEF CountInv, CountBounded, Counting
<1>4. QED
  BY <1>1, <1>2, <1>3, PTL DEF Spec

------------------------------------------------------------------------------
(* Where nobody gives up waiting, a message stays for those it was put for. *)

Patient == \A t \in Task : use.ops[t] \cap {"timed", "nowait"} = {}
Never(o) == \A t \in Task : o \notin use.ops[t]

PatientInv ==
    /\ Patient => \A t \in Task : ~expired[t] /\ retcode[t] = "0"
    /\ Never("delete") => send_type # "KILLD"

\* A task that waits for good is never refused.
LEMMA StepPatient == ASSUME QInv, PatientInv, [Next]_vars PROVE PatientInv'
<1> USE DEF Goto, queue, locks, call
<1>0. /\ use' = use /\ (Patient' <=> Patient) /\ (Never("delete")' <=> Never("delete"))
      /\ DOMAIN expired = Task /\ DOMAIN retcode = Task
      /\ \A t \in Task : op[t] \in use.ops[t] \cup {"wait"}
  BY UseIsFrozen DEF Patient, Never, QInv, QueueTyped
<1>1. CASE UNCHANGED vars
  BY <1>0, <1>1 DEF vars, PatientInv
<1>2. ASSUME NEW t \in Task, NEW o \in use.ops[t], Lookup(t, o) PROVE PatientInv'
  BY <1>0, <1>2 DEF Lookup, PatientInv
<1>3. ASSUME NEW t \in Task, Expire(t) PROVE PatientInv'
  BY <1>0, <1>3 DEF Expire, PatientInv, Patient
<1>4. ASSUME NEW t \in Task, LinkSelf(t) PROVE PatientInv'
  <2>1. Patient => op[t] # "nowait"
    BY <1>0 DEF Patient
  <2>2. QED
    BY <1>0, <1>4, <2>1 DEF LinkSelf, PatientInv
<1>5. ASSUME NEW t \in Task, DeleteMsg(t), op[t] = "delete" PROVE PatientInv'
  BY <1>0, <1>5 DEF DeleteMsg, PatientInv, Never
<1>6. ASSUME NEW t \in Task, Work(t), ~LinkSelf(t), ~(op[t] = "delete" /\ DeleteMsg(t))
      PROVE  PatientInv'
  <2> USE DEF PatientInv
  <2>1. CASE Hold(t) \/ Relock(t) \/ TimeOut(t) \/ UnlinkSelf(t) \/ Unlock(t)
    BY <1>0, <2>1 DEF Hold, Relock, TimeOut, UnlinkSelf, Unlock
  <2>2. CASE Check(t) \/ CheckAgain(t)
    BY <1>0, <2>2 DEF Check, CheckAgain, Killed, TryMsg, TakeMsg, Nap, NotYet
  <2>3. CASE Fetch(t) \/ Signal(t)
    BY <1>0, <2>3 DEF Fetch, Signal
  <2>4. CASE PutsUp(t)
    BY <1>0, <2>4 DEF PutsUp, Put
  <2>5. CASE Broadcasts(t)
    BY <1>0, <2>5 DEF Broadcasts, PutBroadcast, VPutBroadcast, BroadcastMsg, ResetCount
  <2>6. CASE Alert(t)
    BY <1>0, <2>6 DEF Alert, SchedLock, AnyToTell, LockBroadcast, Tell, Drain, Done
  <2>7. QED
    BY <1>6, <2>1, <2>2, <2>3, <2>4, <2>5, <2>6, WorkCases
<1>7. QED
  BY <1>1, <1>2, <1>3, <1>4, <1>5, <1>6 DEF Next

\* A message is for the same tasks after any step but those that link a task, unlink it and
\* fetch its message; and who does not give up is unlinked to fetch one.
LEMMA PendingSame ==
    ASSUME QInv, PatientInv, [Next]_vars
    PROVE  /\ \/ Pending' = Pending
              \/ \E t \in Task : \/ LinkSelf(t) /\ Pending' = Pending \cup {t}
                                 \/ UnlinkSelf(t) /\ ~Patient
                                 \/ Fetch(t)
<1> USE DEF Goto, queue, locks, call, Pending, Listed
<1>t. DOMAIN pc = Task
  BY DEF QInv, QueueTyped
<1>1. CASE UNCHANGED vars
  BY <1>1 DEF vars
<1>2. ASSUME NEW t \in Task, NEW o \in use.ops[t], Lookup(t, o) PROVE Pending' = Pending
  BY <1>t, <1>2 DEF Lookup
<1>3. ASSUME NEW t \in Task, Expire(t) PROVE Pending' = Pending
  BY <1>3 DEF Expire
<1>4. ASSUME NEW t \in Task, LinkSelf(t) PROVE Pending' = Pending \cup {t}
  BY <1>t, <1>4 DEF LinkSelf
<1>5. ASSUME NEW t \in Task, UnlinkSelf(t), Patient PROVE Pending' = Pending
  BY <1>t, <1>5 DEF UnlinkSelf, TimedOut, PatientInv
<1>6. ASSUME NEW t \in Task, Work(t), ~LinkSelf(t), ~UnlinkSelf(t), ~Fetch(t) PROVE Pending' = Pending
  <2>1. CASE Hold(t) \/ Relock(t) \/ TimeOut(t) \/ Unlock(t)
    BY <1>t, <2>1 DEF Hold, Relock, TimeOut, Unlock
  <2>2. CASE Check(t) \/ CheckAgain(t)
    BY <1>t, <2>2 DEF Check, CheckAgain, Killed, TryMsg, TakeMsg, Nap, NotYet
  <2>3. CASE Signal(t)
    BY <1>t, <2>3 DEF Signal, BroadcastComplete
  <2>4. CASE PutsUp(t)
    BY <1>t, <2>4 DEF PutsUp, Put, Woken
  <2>5. CASE Broadcasts(t) \/ DeleteMsg(t)
    BY <1>t, <2>5 DEF Broadcasts, PutBroadcast, VPutBroadcast, BroadcastMsg, ResetCount, DeleteMsg
  <2>6. CASE Alert(t)
    BY <1>t, <2>6 DEF Alert, SchedLock, AnyToTell, LockBroadcast, Tell, Woken, Drain, Done
  <2>7. QED
    BY <1>6, <2>1, <2>2, <2>3, <2>4, <2>5, <2>6, WorkCases
<1>7. QED
  BY <1>1, <1>2, <1>3, <1>4, <1>5, <1>6 DEF Next

\* The messages change when one is put, fetched or in front of them for all.
LEMMA MsgsSame ==
    ASSUME QInv, [Next]_vars
    PROVE  \/ msgs' = msgs
           \/ \E t \in Task : Fetch(t) \/ PutsUp(t) \/ Broadcasts(t) \/ (op[t] = "delete" /\ DeleteMsg(t))
<1> USE DEF queue, locks, call
<1>1. CASE UNCHANGED vars
  BY <1>1 DEF vars
<1>2. ASSUME NEW t \in Task, Expire(t) \/ \E o \in use.ops[t] : Lookup(t, o) PROVE msgs' = msgs
  BY <1>2 DEF Expire, Lookup
<1>3. ASSUME NEW t \in Task, Work(t)
      PROVE  \/ msgs' = msgs
             \/ Fetch(t) \/ PutsUp(t) \/ Broadcasts(t) \/ (op[t] = "delete" /\ DeleteMsg(t))
  <2>1. CASE \/ Hold(t) \/ LinkSelf(t) \/ Relock(t) \/ TimeOut(t) \/ UnlinkSelf(t) \/ Unlock(t)
             \/ Check(t) \/ CheckAgain(t) \/ Signal(t)
    BY <2>1 DEF Hold, LinkSelf, Relock, TimeOut, UnlinkSelf, Unlock, Check, CheckAgain, Signal
  <2>2. CASE Alert(t)
    BY <2>2 DEF Alert, SchedLock, AnyToTell, LockBroadcast, Tell, Drain, Done
  <2>3. QED
    BY <1>3, <2>1, <2>2, WorkCases
<1>4. QED
  BY <1>1, <1>2, <1>3 DEF Next

\* A queue of size 0 has one message at most, and somebody to get it.
StoredInv ==
    use.limit = 0 /\ Patient /\ Never("delete") /\ Never("urgent") =>
        Len(msgs) <= 1 /\ (msgs # <<>> => Pending # {})

\* A queue of size 0 holds a message only as long as somebody is to take it.
LEMMA StepStored == ASSUME QInv, PatientInv, StoredInv, [Next]_vars PROVE StoredInv'
<1>0. /\ use' = use /\ (Patient' <=> Patient) /\ (Never("delete")' <=> Never("delete"))
      /\ (Never("urgent")' <=> Never("urgent"))
  BY UseIsFrozen DEF Patient, Never
<1> SUFFICES ASSUME use.limit = 0, Patient, Never("delete"), Never("urgent")
             PROVE  Len(msgs') <= 1 /\ (msgs' # <<>> => Pending' # {})
  BY <1>0 DEF StoredInv
<1> USE DEF Goto, queue, locks, call
<1>t. /\ Len(msgs) \in Nat /\ Len(msgs) <= 1 /\ (msgs # <<>> => Pending # {}) /\ msgs \in Seq(Nat)
      /\ sent + 1 \in Nat /\ ~Is("queue") /\ send_type # "KILLD" /\ (msgs = <<>> <=> Len(msgs) = 0)
  <2>1. ~Is("queue")
    BY UsesAssumption DEF Is, QInv, QueueTyped
  <2>2. QED
    BY <2>1 DEF StoredInv, QInv, QueueTyped, PatientInv
<1>1. ASSUME NEW t \in Task, Fetch(t) PROVE Len(msgs') <= 1 /\ (msgs' # <<>> => Pending' # {})
  <2>1. msgs # <<>>
    BY <1>1 DEF Fetch, QInv, MsgThere
  <2>2. CASE LastFetch
    <3>1. msgs' = Tail(msgs)
      BY <1>1, <2>2 DEF Fetch
    <3>2. Len(msgs) = 1
      <4>1. Len(msgs) \in Nat /\ Len(msgs) <= 1 /\ Len(msgs) # 0
        BY <1>t, <2>1
      <4>2. \A n \in Nat : n <= 1 /\ n # 0 => n = 1
        OBVIOUS
      <4>3. QED
        BY <4>1, <4>2, Zenon
    <3>3. msgs' = <<>> /\ Len(msgs') = 0
      BY <1>t, <3>1, <3>2
    <3>4. QED
      BY <3>3
  <2>3. CASE ~LastFetch
    <3>1. msgs' = msgs /\ Waiting # {} /\ t \notin Waiting
      BY <1>1, <2>3 DEF Fetch, LastFetch, QInv, ListIsRight, Listed
    <3>2. Waiting \subseteq Pending'
      BY <1>1, <3>1 DEF Fetch, Pending, QInv, ListIsRight, QueueTyped
    <3>3. QED
      BY <1>t, <3>1, <3>2
  <2>4. QED
    BY <2>2, <2>3
<1>2. ASSUME msgs = <<>>, msgs' = Append(msgs, sent + 1) \/ msgs' = <<sent + 1>> \o msgs
      PROVE  Len(msgs') <= 1
  <2>1. Len(<<sent + 1>> \o msgs) = Len(msgs) + 1 /\ Len(Append(msgs, sent + 1)) = Len(msgs) + 1
    BY <1>t, PutMsg
  <2>2. Len(msgs) = 0
    BY <1>2, <1>t
  <2>3. Len(msgs') = 1
    BY <1>2, <2>1, <2>2
  <2>4. QED
    BY <2>3
<1>3. ASSUME NEW t \in Task, PutsUp(t), Pending' = Pending
      PROVE  Len(msgs') <= 1 /\ (msgs' # <<>> => Pending' # {})
  <2>1. op[t] # "urgent"
    BY DEF QInv, QueueTyped, Never
  <2>2. Put(t, VHasRoom, Append(msgs, sent + 1))
    BY <1>3, <1>t, <2>1 DEF PutsUp
  <2>3. CASE msgs' = msgs
    BY <1>3, <1>t, <2>3
  <2>4. CASE VHasRoom /\ msgs' = Append(msgs, sent + 1)
    <3>1. msgs = <<>> /\ Waiting # {}
      BY <1>t, <2>4 DEF VHasRoom
    <3>2. QED
      BY <1>2, <1>3, <2>4, <3>1, PendingFinite
  <2>5. QED
    BY <2>2, <2>3, <2>4 DEF Put
<1>4. ASSUME NEW t \in Task, Broadcasts(t), Pending' = Pending
      PROVE  Len(msgs') <= 1 /\ (msgs' # <<>> => Pending' # {})
  <2>1. CASE msgs' = msgs
    BY <1>4, <1>t, <2>1
  <2>2. CASE Told /\ msgs' = <<sent + 1>> \o msgs
    <3>1. msgs = <<>> /\ Waiting # {}
      BY <1>t, <2>2 DEF Told, UrgentHasRoom
    <3>2. QED
      BY <1>2, <1>4, <2>2, <3>1, PendingFinite
  <2>3. QED
    BY <1>4, <2>1, <2>2 DEF Broadcasts, PutBroadcast, VPutBroadcast, BroadcastMsg, ResetCount
<1>5. \A t \in Task : op[t] # "delete"
  BY DEF QInv, QueueTyped, Never
<1>6. CASE msgs' = msgs /\ Pending \subseteq Pending'
  BY <1>t, <1>6
<1>7. ASSUME NEW t \in Task, Fetch(t) \/ PutsUp(t) \/ Broadcasts(t)
      PROVE Fetch(t) \/ Pending' = Pending
  <2>1. DOMAIN pc = Task
    BY DEF QInv, QueueTyped
  <2>2. QED
    BY <1>7, <2>1 DEF PutsUp, Put, Woken, Broadcasts, PutBroadcast, VPutBroadcast, BroadcastMsg, ResetCount,
     Pending, Listed
<1>8. QED
  BY <1>1, <1>3, <1>4, <1>5, <1>6, <1>7, MsgsSame, PendingSame

\* A queue of size 0 holds a message only for tasks that wait for it or fetch it, whatever is
\* sent and broadcast, if no receive has a time limit, no message is urgent and the queue is
\* not deleted (vqueue.c:1014-1030).
THEOREM SizeZeroStoresNothing == Spec => []NothingStored
<1>1. Init => QInv /\ PatientInv /\ StoredInv
  <2>1. Init => PatientInv /\ StoredInv
    BY DEF Init, PatientInv, StoredInv
  <2>2. QED
    BY <2>1, InitQInv
<1>2. QInv /\ PatientInv /\ StoredInv /\ [Next]_vars => QInv' /\ PatientInv' /\ StoredInv'
  BY StepQInv, StepPatient, StepStored
<1>3. QInv /\ StoredInv => NothingStored
  <2> SUFFICES ASSUME QInv, StoredInv, use.limit = 0, Patient, Never("delete"), Never("urgent")
               PROVE  Len(msgs) <= Cardinality(Waiting) + Cardinality({t \in Task : pc[t] = "fetch"})
    BY DEF NothingStored, Patient, Never
  <2> DEFINE fetching == {t \in Task : pc[t] = "fetch"}
  <2>1. IsFiniteSet(Waiting) /\ IsFiniteSet(fetching)
    <3>1. Waiting \subseteq Pending /\ fetching \subseteq Pending
      BY PendingFinite DEF Pending
    <3>2. QED
      BY <3>1, PendingFinite, FS_Subset
  <2>2. Cardinality(Waiting) \in Nat /\ Cardinality(fetching) \in Nat
    BY <2>1, FS_CardinalityType
  <2>3. Waiting # {} => Cardinality(Waiting) # 0
    BY <2>1, FS_EmptySet
  <2>4. fetching # {} => Cardinality(fetching) # 0
    BY <2>1, FS_EmptySet
  <2>5. Pending # {} => Waiting # {} \/ fetching # {}
    BY DEF Pending, QInv, ListIsRight
  <2>6. Len(msgs) \in Nat /\ Len(msgs) <= 1 /\ (msgs = <<>> <=> Len(msgs) = 0)
        /\ (msgs # <<>> => Pending # {})
    BY DEF StoredInv, QInv, QueueTyped
  <2> HIDE DEF fetching
  <2>7. Len(msgs) <= Cardinality(Waiting) + Cardinality(fetching)
    BY <2>2, <2>3, <2>4, <2>5, <2>6
  <2>8. QED
    BY <2>7 DEF fetching
<1>4. QED
  BY <1>1, <1>2, <1>3, PTL DEF Spec

------------------------------------------------------------------------------
(* A broadcast message reaches all it is for: where no task broadcasts, and *)
(* where no receive has a time limit and the message stays in front until   *)
(* the last task has it, which an urgent message and the delete message     *)
(* prevent unless no other call is under way.                               *)

Kept == \/ Never("bcast")
        \/ Patient /\ (use.quiet \/ (Never("delete") /\ Never("urgent")))

\* The message is in front while somebody has yet to get it.
LeftInv ==
    /\ bcast.left \subseteq Pending
    /\ Never("bcast") => bcast.left = {}
    /\ bcast.left # {} => /\ send_type = "BCAST" /\ msgs # <<>> /\ Head(msgs) = bcast.no
                          /\ \A t \in Task : pc[t] # "signal"

\* The places of q_broadcast after it has put its message.
Alerting == {"reset", "lock", "locked", "tell", "telling", "drain", "asleep", "drained", "done"}
Telling(t) == op[t] = "bcast" /\ pc[t] \in Alerting

\* Called when no other call is under way, q_broadcast and q_delete are alone but for
\* receives, and q_broadcast returns when nobody on the list has yet to get its message.
AloneInv ==
    use.quiet =>
      /\ \A t, u \in Task : t # u /\ pc[t] # "idle" /\ Alone(op[t]) =>
             pc[u] \in Listed \cup Inside \cup {"idle", "hold"}
      /\ (\A t \in Task : ~Telling(t)) => bcast.left \cap Waiting = {}
      /\ \A t \in Task : Telling(t) /\ (pc[t] = "done" \/ result[t] = "full") =>
             bcast.left \cap Waiting = {}

KeptInv == Kept => LeftInv /\ AloneInv

\* What changes a broadcast and what a call returns.
LEMMA BcastSame ==
    ASSUME QInv, [Next]_vars
    PROVE  \/ UNCHANGED <<bcast, result>>
           \/ \E t \in Task : LinkSelf(t) \/ UnlinkSelf(t) \/ Fetch(t) \/ Broadcasts(t)
<1> USE DEF queue, locks, call
<1>1. CASE UNCHANGED vars
  BY <1>1 DEF vars
<1>2. ASSUME NEW t \in Task, Expire(t) \/ \E o \in use.ops[t] : Lookup(t, o)
      PROVE  UNCHANGED <<bcast, result>>
  BY <1>2 DEF Expire, Lookup
<1>3. ASSUME NEW t \in Task, Work(t), ~(LinkSelf(t) \/ UnlinkSelf(t) \/ Fetch(t) \/ Broadcasts(t))
      PROVE  UNCHANGED <<bcast, result>>
  <2>1. CASE Hold(t) \/ Relock(t) \/ TimeOut(t) \/ Unlock(t) \/ Check(t) \/ CheckAgain(t) \/ Signal(t)
    BY <2>1 DEF Hold, Relock, TimeOut, Unlock, Check, CheckAgain, Signal
  <2>2. CASE PutsUp(t) \/ DeleteMsg(t) \/ Alert(t)
    BY <2>2 DEF PutsUp, Put, DeleteMsg, Alert, SchedLock, AnyToTell, LockBroadcast, Tell, Drain, Done
  <2>3. QED
    BY <1>3, <2>1, <2>2, WorkCases
<1>4. QED
  BY <1>1, <1>2, <1>3 DEF Next

\* When a message is put while queue_lock is free and no broadcast is under way, nobody has
\* yet to get one.
LEMMA NobodyLeft ==
    ASSUME QInv, LeftInv, AloneInv, use.quiet, queue_lock = NoTask, \A t \in Task : ~Telling(t)
    PROVE  bcast.left = {}
<1>1. Pending = Waiting
  BY PendingFinite
<1>2. bcast.left \cap Waiting = {} /\ bcast.left \subseteq Pending
  BY DEF AloneInv, LeftInv
<1>3. QED
  BY <1>1, <1>2

\* Neither an urgent message nor the delete message comes before one that has yet to be got.
LEMMA NothingBefore ==
    ASSUME QInv, LeftInv, AloneInv, Kept, NEW t \in Task, queue_lock = NoTask,
           \/ op[t] = "urgent" /\ pc[t] = "locked"
           \/ op[t] = "delete" /\ pc[t] = "found"
    PROVE  bcast.left = {}
<1>1. CASE Never("bcast")
  BY <1>1 DEF LeftInv
<1>2. CASE Never("delete") /\ Never("urgent")
  BY <1>2 DEF QInv, QueueTyped, Never
<1>3. CASE use.quiet
  <2>1. \A u \in Task : ~Telling(u)
    BY <1>3 DEF AloneInv, Telling, Alerting, Alone, Listed, Inside
  <2>2. QED
    BY <1>3, <2>1, NobodyLeft
<1>4. QED
  BY <1>1, <1>2, <1>3 DEF Kept

\* The message that somebody has yet to get stays where it is.
LEMMA StepLeft ==
    ASSUME QInv, CountInv, PatientInv, LeftInv, AloneInv, Kept, [Next]_vars
    PROVE  LeftInv'
<1>0. use' = use /\ (Never("bcast")' <=> Never("bcast")) /\ DOMAIN pc = Task /\ sent + 1 \in Nat
  BY UseIsFrozen DEF Never, QInv, QueueTyped
<1>one. /\ \A t, u \in Task : pc[t] \in Inside /\ pc[u] \in Inside => t = u
        /\ queue_lock = NoTask => \A t \in Task : pc[t] \notin Inside
  BY DEF QInv, InsideHolds
<1>put. /\ Head(<<sent + 1>> \o msgs) = sent + 1 /\ <<sent + 1>> \o msgs # <<>>
        /\ Append(msgs, sent + 1) # <<>>
        /\ msgs # <<>> => Head(Append(msgs, sent + 1)) = Head(msgs)
  BY <1>0, PutMsg DEF QInv, QueueTyped
<1> USE DEF Goto, queue, locks, call
\* A step without effect on the message.
<1>frame. ASSUME bcast' = bcast, Pending \subseteq Pending',
                 bcast.left # {} => /\ send_type' = send_type /\ msgs' # <<>>
                                    /\ Head(msgs') = Head(msgs)
                                    /\ \A t \in Task : pc'[t] = "signal" => pc[t] = "signal"
          PROVE  LeftInv'
  BY <1>0, <1>frame DEF LeftInv
<1>nobody. ASSUME bcast' = bcast, bcast.left = {} PROVE LeftInv'
  BY <1>0, <1>nobody DEF LeftInv
<1>1. CASE UNCHANGED vars
  BY <1>1, <1>frame DEF vars, Pending, LeftInv
<1>2. ASSUME NEW t \in Task, NEW o \in use.ops[t], Lookup(t, o) PROVE LeftInv'
  BY <1>0, <1>2, <1>frame DEF Lookup, Pending, LeftInv, Listed
<1>3. ASSUME NEW t \in Task, Expire(t) PROVE LeftInv'
  BY <1>3, <1>frame DEF Expire, Pending, LeftInv
<1>4. ASSUME NEW t \in Task, Fetch(t) PROVE LeftInv'
  <2>1. /\ bcast' = [bcast EXCEPT !.left = bcast.left \ {t}] /\ send_type' = send_type
        /\ Pending' = Pending \ {t}
    BY <1>0, <1>4 DEF Fetch, Pending, Listed
  <2>2. bcast'.no = bcast.no /\ bcast'.left = bcast.left \ {t}
    BY <2>1
  <2>3. CASE bcast'.left = {}
    BY <1>0, <2>3 DEF LeftInv
  <2>4. CASE bcast'.left # {}
    <3>1. PICK u \in bcast.left : u # t
      BY <2>2, <2>4
    <3>2. u \in Waiting
      BY <1>4, <3>1, PendingFinite DEF LeftInv, Fetch
    <3>3. ~LastFetch
      BY <3>1, <3>2 DEF LastFetch, LeftInv
    <3>4. msgs' = msgs /\ \A v \in Task : pc'[v] = "signal" => pc[v] = "signal"
      BY <1>0, <1>4, <3>3 DEF Fetch
    <3>5. QED
      BY <1>0, <2>1, <2>2, <3>1, <3>4 DEF LeftInv
  <2>5. QED
    BY <2>3, <2>4
<1>5. ASSUME NEW t \in Task, LinkSelf(t) PROVE LeftInv'
  BY <1>5, <1>nobody DEF LinkSelf, MayJoin, LeftInv
<1>6. ASSUME NEW t \in Task, UnlinkSelf(t) PROVE LeftInv'
  <2>1. CASE Never("bcast")
    BY <1>6, <2>1, <1>nobody DEF UnlinkSelf, LeftInv
  <2>2. CASE Patient
    <3>1. Pending' = Pending
      BY <1>0, <1>6, <2>2 DEF UnlinkSelf, TimedOut, PatientInv, Pending, Listed
    <3>2. UNCHANGED <<bcast, msgs, send_type>> /\ \A v \in Task : pc'[v] = "signal" => pc[v] = "signal"
      BY <1>0, <1>6 DEF UnlinkSelf
    <3>3. QED
      BY <3>1, <3>2, <1>frame DEF LeftInv
  <2>3. QED
    BY <2>1, <2>2 DEF Kept
<1>7. ASSUME NEW t \in Task, Signal(t) PROVE LeftInv'
  BY <1>7, <1>nobody DEF Signal, LeftInv
<1>8. ASSUME NEW t \in Task, PutsUp(t) PROVE LeftInv'
  <2>1. /\ UNCHANGED <<bcast, send_type>> /\ Pending' = Pending
        /\ \A v \in Task : pc'[v] = "signal" => pc[v] = "signal"
        /\ pc[t] = "locked" /\ queue_lock = NoTask
    BY <1>0, <1>8 DEF PutsUp, Put, Woken, Pending, Listed
  <2>2. CASE op[t] = "urgent"
    BY <2>1, <2>2, NothingBefore, <1>nobody
  <2>3. CASE op[t] # "urgent"
    <3>1. msgs' = msgs \/ msgs' = Append(msgs, sent + 1)
      BY <1>8, <2>3 DEF PutsUp, Put
    <3>2. QED
      BY <1>put, <2>1, <3>1, <1>frame DEF LeftInv
  <2>4. QED
    BY <2>2, <2>3
<1>9. ASSUME NEW t \in Task, op[t] = "delete", DeleteMsg(t) PROVE LeftInv'
  BY <1>9, NothingBefore, <1>nobody DEF DeleteMsg
<1>10. ASSUME NEW t \in Task, Broadcasts(t) PROVE LeftInv'
  <2>1. CASE ResetCount(t)
    BY <1>0, <2>1, <1>frame DEF ResetCount, Pending, Listed, LeftInv
  <2>2. CASE ~ResetCount(t)
    <3>1. /\ queue_lock = NoTask /\ Pending' = Pending
          /\ bcast' = IF Told THEN [no |-> sent + 1, by |-> t, all |-> Cardinality(Waiting), left |-> Waiting]
                      ELSE [bcast EXCEPT !.by = IF bcast.by = t THEN NoTask ELSE bcast.by]
          /\ \A v \in Task : pc'[v] = "signal" => pc[v] = "signal"
          /\ Told => msgs' = <<sent + 1>> \o msgs /\ send_type' = "BCAST"
      BY <1>0, <1>10, <2>2 DEF Broadcasts, PutBroadcast, VPutBroadcast, BroadcastMsg, Pending, Listed
    <3>2. ~Never("bcast")
      BY <1>10 DEF Broadcasts, Never, QInv, QueueTyped
    <3>3. CASE Told
      <4>1. bcast' = [no |-> sent + 1, by |-> t, all |-> Cardinality(Waiting), left |-> Waiting]
        BY <3>1, <3>3
      <4>2. bcast'.no = sent + 1 /\ bcast'.left = Waiting
        BY <4>1
      <4>3. QED
        BY <1>0, <1>one, <1>put, <3>1, <3>2, <3>3, <4>2, PendingFinite DEF LeftInv, Inside
    <3>4. CASE ~Told
      <4>1. bcast'.no = bcast.no /\ bcast'.left = bcast.left
        BY <3>1, <3>4 DEF CountInv
      <4>2. UNCHANGED <<msgs, send_type>>
        BY <1>10, <2>2, <3>4 DEF Broadcasts, PutBroadcast, VPutBroadcast, BroadcastMsg
      <4>3. QED
        BY <1>0, <3>1, <4>1, <4>2 DEF LeftInv
    <3>5. QED
      BY <3>3, <3>4
  <2>3. QED
    BY <2>1, <2>2
<1>11. ASSUME NEW t \in Task, \/ Hold(t) \/ Relock(t) \/ TimeOut(t) \/ Unlock(t) \/ Check(t)
                              \/ CheckAgain(t) \/ Alert(t)
       PROVE  LeftInv'
  <2>1. UNCHANGED <<bcast, msgs, send_type>>
    BY <1>11 DEF Hold, Relock, TimeOut, Unlock, Check, CheckAgain, Alert, SchedLock, AnyToTell,
       LockBroadcast, Tell, Drain, Done
  <2>2. Pending' = Pending /\ \A v \in Task : pc'[v] = "signal" => pc[v] = "signal"
    BY <1>0, <1>11 DEF Hold, Relock, TimeOut, Unlock, Check, CheckAgain, Killed, TryMsg, TakeMsg, Nap, NotYet,
       Alert, SchedLock, AnyToTell, LockBroadcast, Tell, Woken, Drain, Done, Pending, Listed
  <2>3. QED
    BY <2>1, <2>2, <1>frame DEF LeftInv
<1>12. QED
  BY <1>1, <1>2, <1>3, <1>4, <1>5, <1>6, <1>7, <1>8, <1>9, <1>10, <1>11, WorkCases DEF Next

\* Nobody on the list has yet to get the message.
Gone == bcast.left \cap Waiting = {}

\* Once this is so it is so until the next broadcast: a task that links itself waits for other
\* messages.
LEMMA StepGone ==
    ASSUME QInv, LeftInv, CountInv, [Next]_vars, Gone
    PROVE  Gone' \/ \E t \in Task : Broadcasts(t)
<1> USE DEF Goto, queue, locks, call
<1>1. QInv'
  BY StepQInv
<1>2. CASE \E t \in Task : LinkSelf(t)
  BY <1>2 DEF LinkSelf, MayJoin, LeftInv, Gone
<1>3. ASSUME NEW t \in Task, UnlinkSelf(t) PROVE Gone'
  BY <1>3, UnlinkRemoves DEF UnlinkSelf, Gone, Waiting, QInv, ListIsRight
<1>4. ASSUME NEW t \in Task, Fetch(t) PROVE Gone'
  <2>1. bcast' = [bcast EXCEPT !.left = bcast.left \ {t}] /\ Waiting' = Waiting
    BY <1>4 DEF Fetch, Waiting
  <2>2. bcast'.left \subseteq bcast.left
    BY <2>1 DEF CountInv
  <2>3. QED
    BY <2>1, <2>2 DEF Gone
<1>5. ASSUME UNCHANGED bcast, \A t \in Task : ~LinkSelf(t) /\ ~UnlinkSelf(t) PROVE Gone'
  <2>1. UNCHANGED first_susp
    <3>1. CASE UNCHANGED vars
      BY <3>1 DEF vars
    <3>2. ASSUME NEW t \in Task, Expire(t) \/ \E o \in use.ops[t] : Lookup(t, o) PROVE UNCHANGED first_susp
      BY <3>2 DEF Expire, Lookup
    <3>3. ASSUME NEW t \in Task, Work(t) PROVE UNCHANGED first_susp
      <4>1. CASE Hold(t) \/ Relock(t) \/ TimeOut(t) \/ Unlock(t) \/ Check(t) \/ CheckAgain(t) \/ Signal(t) \/ Fetch(t)
        BY <4>1 DEF Hold, Relock, TimeOut, Unlock, Check, CheckAgain, Signal, Fetch
      <4>2. CASE PutsUp(t) \/ DeleteMsg(t) \/ Alert(t)
        BY <4>2 DEF PutsUp, Put, DeleteMsg, Alert, SchedLock, AnyToTell, LockBroadcast, Tell, Drain, Done
      <4>3. CASE Broadcasts(t)
        BY <4>3 DEF Broadcasts, PutBroadcast, VPutBroadcast, BroadcastMsg, ResetCount
      <4>4. QED
        BY <1>5, <3>3, <4>1, <4>2, <4>3, WorkCases
    <3>4. QED
      BY <3>1, <3>2, <3>3 DEF Next
  <2>2. QED
    BY <1>5, <2>1 DEF Gone, Waiting
<1>6. QED
  BY <1>2, <1>3, <1>4, <1>5, BcastSame

\* The places of q_receive after it has looked the queue up.
Receiving == Listed \cup Inside \cup {"idle", "hold"}

\* A step that begins no call and puts no broadcast message.
LEMMA AloneKept ==
    ASSUME AloneInv, UNCHANGED <<use, op>>, Gone => Gone',
           \A t \in Task : /\ pc'[t] # "idle" => pc[t] # "idle"
                           /\ pc[t] \in Receiving => pc'[t] \in Receiving
                           /\ Telling(t) /\ ~Telling(t)' => pc[t] = "done"
                           /\ Telling(t)' /\ (pc'[t] = "done" \/ result'[t] = "full") =>
                                  \/ Gone'
                                  \/ Telling(t) /\ (pc[t] = "done" \/ result[t] = "full")
    PROVE  AloneInv'
<1> SUFFICES ASSUME use.quiet PROVE AloneInv'
  BY DEF AloneInv
<1>1. ASSUME NEW t \in Task, NEW u \in Task, t # u, pc'[t] # "idle", Alone(op[t])
      PROVE  pc'[u] \in Receiving
  BY <1>1 DEF AloneInv, Receiving
<1>2. (\A t \in Task : ~Telling(t)') => Gone'
  BY DEF AloneInv, Gone
<1>3. \A t \in Task : Telling(t)' /\ (pc'[t] = "done" \/ result'[t] = "full") => Gone'
  BY DEF AloneInv, Gone
<1>4. QED
  BY <1>1, <1>2, <1>3 DEF AloneInv, Gone, Receiving, Alone

\* A quiet broadcast or deletion stays alone.
LEMMA StepAlone ==
    ASSUME QInv, CountInv, LeftInv, AloneInv, [Next]_vars
    PROVE  AloneInv'
<1>0. use' = use /\ DOMAIN pc = Task /\ DOMAIN op = Task /\ DOMAIN result = Task
  BY UseIsFrozen DEF QInv, QueueTyped
<1>gone. Gone => Gone' \/ \E t \in Task : Broadcasts(t)
  BY StepGone
<1> SUFFICES ASSUME use.quiet PROVE AloneInv'
  BY <1>0 DEF AloneInv
<1> USE DEF Goto, queue, locks, call, Alerting, Telling
<1>1. ASSUME NEW t \in Task, NEW o \in use.ops[t], Lookup(t, o) PROVE AloneInv'
  <2>1. /\ \A u \in Task \ {t} : pc'[u] = pc[u] /\ op'[u] = op[u]
        /\ pc[t] = "idle" /\ pc'[t] = "found" /\ op'[t] = o /\ UNCHANGED <<bcast, first_susp, result>>
        /\ \A u \in Task \ {t} : pc[u] # "idle" => ~Alone(op[u])
        /\ Alone(o) => \A u \in Task \ {t} : pc[u] \in Blocked \cup {"idle"}
    BY <1>0, <1>1 DEF Lookup
  <2>2. \A v, u \in Task : v # u /\ pc'[v] # "idle" /\ Alone(op'[v]) =>
             pc'[u] \in Listed \cup Inside \cup {"idle", "hold"}
    BY <2>1 DEF AloneInv, Blocked, Listed, Inside, Alone
  <2>3. \A u \in Task : /\ Telling(u)' <=> Telling(u)
                        /\ Telling(u) => pc'[u] = pc[u]
    BY <2>1
  <2>4. bcast'.left = bcast.left /\ Waiting' = Waiting
    BY <2>1 DEF Waiting
  <2>5. QED
    BY <1>0, <2>1, <2>2, <2>3, <2>4 DEF AloneInv, Alone
<1>2. ASSUME NEW t \in Task, Broadcasts(t) PROVE AloneInv'
  <2>1. CASE ResetCount(t)
    BY <1>0, <2>1, AloneKept DEF ResetCount, Gone, Waiting, Receiving, Listed, Inside
  <2>2. CASE ~ResetCount(t)
    <3>1. /\ op[t] = "bcast" /\ pc[t] = "found" /\ pc'[t] \in {"reset", "lock"} /\ op' = op
          /\ \A u \in Task \ {t} : pc'[u] = pc[u] /\ result'[u] = result[u]
          /\ UNCHANGED first_susp
          /\ result'[t] = "full" =>
                 bcast' = [bcast EXCEPT !.by = IF bcast.by = t THEN NoTask ELSE bcast.by]
      BY <1>0, <1>2, <2>2 DEF Broadcasts, PutBroadcast, VPutBroadcast, BroadcastMsg
    <3>2. \A u \in Task \ {t} : ~Telling(u)
      BY <3>1 DEF AloneInv, Alone, Listed, Inside
    <3>3. result'[t] = "full" => bcast'.left \cap Waiting' = {}
      <4>1. bcast.left \cap Waiting = {}
        BY <3>1, <3>2 DEF AloneInv
      <4>2. result'[t] = "full" => UNCHANGED first_susp /\ bcast'.left = bcast.left
        BY <3>1 DEF CountInv
      <4>3. QED
        BY <4>1, <4>2 DEF Waiting
    <3>4. \A v, u \in Task : v # u /\ pc'[v] # "idle" /\ Alone(op[v]) =>
               pc'[u] \in Listed \cup Inside \cup {"idle", "hold"}
      BY <3>1 DEF AloneInv, Alone, Listed, Inside
    <3>5. Telling(t)' /\ \A u \in Task \ {t} : ~Telling(u)'
      BY <3>1, <3>2
    <3>6. QED
      BY <3>1, <3>3, <3>4, <3>5 DEF AloneInv, Alone
  <2>3. QED
    BY <2>1, <2>2
<1>3. ASSUME \A t \in Task : ~Broadcasts(t) PROVE Gone => Gone'
  BY <1>3, <1>gone
<1> HIDE DEF Telling, Alerting
<1>4. CASE UNCHANGED vars
  <2>1. Gone' = Gone
    BY <1>4 DEF vars, Gone, Waiting
  <2>2. QED
    BY <1>4, <2>1, AloneKept DEF vars, Telling
<1>5. ASSUME NEW t \in Task, Expire(t) \/ Work(t), ~Broadcasts(t), Gone => Gone'
      PROVE AloneInv'
  <2> USE DEF Telling, Alerting, Receiving, Listed, Inside
  <2>1. CASE Expire(t)
    BY <1>0, <1>5, <2>1, AloneKept DEF Expire
  <2>2. CASE Hold(t) \/ LinkSelf(t) \/ Relock(t) \/ TimeOut(t) \/ UnlinkSelf(t) \/ Unlock(t)
    BY <1>0, <1>5, <2>2, AloneKept DEF Hold, LinkSelf, Relock, TimeOut, UnlinkSelf, Unlock
  <2>3. CASE Check(t) \/ CheckAgain(t)
    BY <1>0, <1>5, <2>3, AloneKept DEF Check, CheckAgain, Killed, TryMsg, TakeMsg, Nap, NotYet
  <2>4. CASE Fetch(t)
    BY <1>0, <1>5, <2>4, AloneKept DEF Fetch
  <2>5. CASE Signal(t)
    BY <1>0, <1>5, <2>5, AloneKept DEF Signal, BroadcastComplete
  <2>6. CASE PutsUp(t)
    BY <1>0, <1>5, <2>6, AloneKept DEF PutsUp, Put, Woken
  <2>7. CASE op[t] = "delete" /\ DeleteMsg(t)
    BY <1>0, <1>5, <2>7, AloneKept DEF DeleteMsg
  <2>8. CASE AnyToTell(t) \/ Drain(t)
    <3>1. NoneLeft(t) => Gone'
      <4>1. Waiting' = Waiting
        BY <2>8 DEF AnyToTell, Drain, Waiting
      <4>2. QED
        BY <4>1 DEF NoneLeft, Gone
    <3>2. QED
      BY <1>0, <1>5, <2>8, <3>1, AloneKept DEF AnyToTell, Drain
  <2>9. CASE SchedLock(t)
    BY <1>0, <1>5, <2>9, AloneKept DEF SchedLock, Alone
  <2>10. CASE LockBroadcast(t) \/ Done(t)
    BY <1>0, <1>5, <2>10, AloneKept DEF LockBroadcast, Done
  <2>11. CASE Tell(t)
    BY <1>0, <1>5, <2>11, AloneKept DEF Tell, Woken
  <2>12. QED
    BY <1>5, <2>1, <2>2, <2>3, <2>4, <2>5, <2>6, <2>7, <2>8, <2>9, <2>10, <2>11, WorkCases DEF Alert
<1>6. QED
  <2>1. CASE \E t \in Task : Broadcasts(t)
    BY <2>1, <1>2
  <2>2. CASE ~\E t \in Task : Broadcasts(t)
    BY <2>2, <1>1, <1>3, <1>4, <1>5 DEF Next
  <2>3. QED
    BY <2>1, <2>2

\* Every task that was waiting when q_broadcast put its message gets that message and nothing
\* else, whatever is sent, received and broadcast meanwhile: where no receive has a time limit
\* and neither urgent messages nor the deletion come in between; or, with these, where
\* q_broadcast and q_delete are called when no other call is under way
\* (queue.c:1291-1455, 1616-1656, 1815-1863).
THEOREM BroadcastReachesAll == Spec /\ Kept => BroadcastReaches
<1>1. Kept /\ Init => QInv /\ CountInv /\ PatientInv /\ LeftInv /\ AloneInv
  <2>1. Init => CountInv /\ PatientInv
    BY DEF Init, CountInv, PatientInv, NoMsg
  <2>2. Init => LeftInv /\ AloneInv
    BY DEF Init, LeftInv, AloneInv, Telling, Alerting, Alone
  <2>3. QED
    BY <2>1, <2>2, InitQInv
<1>2. /\ Kept /\ QInv /\ CountInv /\ PatientInv /\ LeftInv /\ AloneInv /\ [Next]_vars
      => Kept' /\ QInv' /\ CountInv' /\ PatientInv' /\ LeftInv' /\ AloneInv'
  <2>1. [Next]_vars => (Kept => Kept')
    BY UseIsFrozen DEF Kept, Never, Patient
  <2>2. QED
    BY <2>1, StepQInv, StepCount, StepPatient, StepLeft, StepAlone
<1>3. ASSUME Kept, QInv, CountInv, PatientInv, LeftInv, AloneInv, [Next]_vars,
             NEW t \in bcast.left, result'[t] # result[t]
      PROVE  msg'[t] = bcast.no
  <2>1. t \in Task /\ t \in Pending /\ DOMAIN result = Task /\ DOMAIN msg = Task
    BY <1>3 DEF LeftInv, Pending, QInv, QueueTyped
  <2>2. Patient
    BY <1>3 DEF Kept, LeftInv
  <2>3. ASSUME NEW u \in Task, LinkSelf(u) \/ Broadcasts(u) PROVE FALSE
    <3>1. u = t
      BY <1>3, <2>1, <2>3 DEF LinkSelf, Broadcasts, PutBroadcast, VPutBroadcast, BroadcastMsg, ResetCount, call
    <3>2. QED
      BY <1>3, <2>1, <2>3, <3>1 DEF LinkSelf, Broadcasts, PutBroadcast, VPutBroadcast, BroadcastMsg, ResetCount,
         Goto, Pending, Listed, call
  <2>4. ASSUME NEW u \in Task, UnlinkSelf(u) PROVE FALSE
    BY <1>3, <2>1, <2>2, <2>4 DEF UnlinkSelf, TimedOut, PatientInv
  <2>5. ASSUME NEW u \in Task, Fetch(u) PROVE msg'[t] = bcast.no
    <3>1. u = t
      BY <1>3, <2>1, <2>5 DEF Fetch
    <3>2. QED
      BY <1>3, <2>1, <2>5, <3>1 DEF Fetch, LeftInv
  <2>6. QED
    BY <1>3, <2>3, <2>4, <2>5, BcastSame
<1>4. QED
  <2>1. ASSUME Kept, QInv, CountInv, PatientInv, LeftInv, AloneInv, [Next]_vars
        PROVE  [\A t \in bcast.left : result'[t] # result[t] => msg'[t] = bcast.no]_vars
    BY <1>3, <2>1
  <2>2. QED
    BY <1>1, <1>2, <2>1, PTL DEF Spec, BroadcastReaches

------------------------------------------------------------------------------
(* Where tasks only send and receive, the queue implements the mailbox.     *)

MailInv == MailOnly => send_type = "SEND"

\* Without broadcasts and the deletion, messages are always for one task.
LEMMA StepMail == ASSUME QInv, MailInv, [Next]_vars PROVE MailInv'
<1>0. use' = use /\ (MailOnly' <=> MailOnly)
  BY UseIsFrozen DEF MailOnly
<1> SUFFICES ASSUME MailOnly PROVE send_type' = "SEND"
  BY <1>0 DEF MailInv
<1> USE DEF queue, locks, call, MailInv
<1>1. CASE UNCHANGED vars
  BY <1>1 DEF vars
<1>2. ASSUME NEW t \in Task, Expire(t) \/ \E o \in use.ops[t] : Lookup(t, o) PROVE send_type' = "SEND"
  BY <1>2 DEF Expire, Lookup
<1>3. ASSUME NEW t \in Task, Work(t) PROVE send_type' = "SEND"
  <2>1. CASE Hold(t) \/ LinkSelf(t) \/ Relock(t) \/ TimeOut(t) \/ UnlinkSelf(t) \/ Unlock(t)
    BY <2>1 DEF Hold, LinkSelf, Relock, TimeOut, UnlinkSelf, Unlock
  <2>2. CASE Check(t) \/ CheckAgain(t) \/ Fetch(t) \/ Signal(t)
    BY <2>2 DEF Check, CheckAgain, Fetch, Signal
  <2>3. CASE PutsUp(t) \/ Alert(t)
    BY <2>3 DEF PutsUp, Put, Alert, SchedLock, AnyToTell, LockBroadcast, Tell, Drain, Done
  <2>4. op[t] \notin {"bcast", "delete"}
    BY DEF QInv, QueueTyped, MailOnly, Alone
  <2>5. QED
    BY <1>3, <2>1, <2>2, <2>3, <2>4, WorkCases DEF Broadcasts
<1>4. QED
  BY <1>1, <1>2, <1>3 DEF Next

\* The task that has taken its message is on the queue no more, and the message in it.
MailIsSeen ==
    /\ Delivered = {} => TookMsg = {} /\ StillQueued = first_susp /\ StillThere = msgs
    /\ \A t \in Task :
         /\ pc[t] = "took" => /\ Delivered = {t} /\ StillQueued = Without(first_susp, t)
                              /\ StillThere = Tail(msgs)
         /\ pc[t] = "fetch" => /\ Delivered = {t} /\ StillQueued = first_susp
                               /\ StillThere = Tail(msgs)
         /\ pc[t] \in Inside \ {"took", "fetch"} => Delivered = {}
    /\ queue_lock = NoTask => Delivered = {}

\* In a state of the invariant the mapping shows a mailbox.
LEMMA MailSeen == QInv => MailIsSeen
<1> SUFFICES ASSUME QInv PROVE MailIsSeen
  OBVIOUS
<1>1. \A t, u \in Task : pc[t] \in Inside /\ pc[u] \in Inside => t = u
  BY DEF QInv, InsideHolds
<1>2. TookMsg \subseteq Delivered
  BY DEF TookMsg, Delivered
<1>3. ASSUME NEW t \in Task, pc[t] \in {"took", "fetch"} PROVE Delivered = {t}
  BY <1>1, <1>3 DEF Delivered, Inside
<1>4. ASSUME NEW t \in Task, pc[t] = "took" PROVE TookMsg = {t}
  BY <1>1, <1>4 DEF TookMsg, Inside
<1>5. ASSUME NEW t \in Task, pc[t] = "took" PROVE StillQueued = Without(first_susp, t)
  BY <1>4, <1>5 DEF StillQueued
<1>6. ASSUME NEW t \in Task, pc[t] = "fetch" PROVE TookMsg = {}
  BY <1>1, <1>6 DEF TookMsg, Inside
<1>7. \A t \in Task : pc[t] \in Inside \ {"took", "fetch"} => Delivered = {}
  BY <1>1 DEF Delivered, Inside
<1>8. queue_lock = NoTask => Delivered = {}
  BY DEF Delivered, QInv, InsideHolds, Inside
<1>9. QED
  BY <1>2, <1>3, <1>5, <1>6, <1>7, <1>8 DEF StillQueued, StillThere, MailIsSeen

\* Both modules mean the same lists.
LEMMA SameList ==
    ASSUME NEW list, NEW t
    PROVE  MailView!Without(list, t) = Without(list, t) /\ MailView!Members(list) = Members(list)
BY DEF MailView!Without, Without, MailView!Members, Members

\* A step of which the mailbox sees nothing.
LEMMA MailStutter ==
    ASSUME UNCHANGED <<msgs, first_susp, result, msg, use>>,
           \A t \in Task : /\ pc'[t] = "took" <=> pc[t] = "took"
                           /\ pc'[t] = "fetch" <=> pc[t] = "fetch"
    PROVE  UNCHANGED <<StillThere, StillQueued, Outcome, Letter>>
<1>1. TookMsg' = TookMsg /\ Delivered' = Delivered
  BY DEF TookMsg, Delivered
<1>2. QED
  BY <1>1 DEF StillThere, StillQueued, Outcome, Letter

\* Every step is one of the mailbox, or nothing to it.
LEMMA MailStep == ASSUME QInv, MailInv, Next PROVE [MailView!MBNext]_(MailView!mbVars)
<1>0. QInv' /\ use' = use /\ (MailOnly' <=> MailOnly)
  BY StepQInv, UseIsFrozen DEF MailOnly
<1>1. CASE ~MailOnly
  BY <1>0, <1>1 DEF MailView!mbVars, Seen
<1>2. CASE MailOnly
  <2> USE DEF Goto, queue, locks, call
  <2>1. MailIsSeen /\ MailIsSeen'
    <3>1. QInv' => MailIsSeen'
      BY MailSeen, PTL
    <3>2. QED
      BY <1>0, <3>1, MailSeen
  <2>2. DOMAIN pc = Task /\ DOMAIN result = Task /\ DOMAIN msg = Task /\ send_type = "SEND"
    BY <1>2 DEF QInv, QueueTyped, MailInv
  <2>seen. \A x, e : Seen(x, e) = x
    BY <1>2 DEF Seen
  <2>then. MailOnly'
    BY <1>0, <1>2
  <2>stutter. ASSUME UNCHANGED <<StillThere, StillQueued, Outcome, Letter>>
              PROVE  UNCHANGED MailView!mbVars
    BY <1>0, <2>stutter DEF MailView!mbVars, Seen
  <2>3. ASSUME NEW t \in Task, NEW o \in use.ops[t], Lookup(t, o) PROVE UNCHANGED MailView!mbVars
    BY <1>0, <2>2, <2>3, <2>stutter, MailStutter DEF Lookup
  <2>4. ASSUME NEW t \in Task, Expire(t) PROVE UNCHANGED MailView!mbVars
    BY <1>0, <2>4, <2>stutter, MailStutter DEF Expire
  <2>5. ASSUME NEW t \in Task, LinkSelf(t) PROVE MailView!MBNext
    <3>1. Delivered = {} /\ Delivered' = {}
      BY <2>1, <2>2, <2>5 DEF LinkSelf, MailIsSeen, Inside
    <3>2. StillQueued = first_susp /\ StillQueued' = Append(first_susp, t) /\ StillThere' = StillThere
      BY <2>1, <2>5, <3>1 DEF LinkSelf, MailIsSeen
    <3>3. t \notin Members(StillQueued)
      BY <2>5, <3>2 DEF LinkSelf, QInv, ListIsRight, Waiting, Listed
    <3>4. Outcome' = [Outcome EXCEPT ![t] = "none"] /\ Letter' = Letter
      BY <2>2, <2>5, <3>1 DEF LinkSelf, Outcome, Letter
    <3>5. MailView!Arrive(t)
      BY <1>2, <2>then, <3>2, <3>3, <3>4, SameList DEF MailView!Arrive, MailView!Queued, Seen
    <3>6. QED
      BY <1>0, <3>5 DEF MailView!MBNext
  <2>6. ASSUME NEW t \in Task, TakeMsg(t), pc[t] \in {"check", "again"},
               UNCHANGED <<msgs, first_susp, result, msg>>
        PROVE  MailView!MBNext
    <3>1. /\ Delivered = {} /\ StillQueued = first_susp /\ StillThere = msgs
          /\ Delivered' = {t} /\ StillQueued' = Without(first_susp, t) /\ StillThere' = Tail(msgs)
      <4>1. pc[t] \in Inside \ {"took", "fetch"} /\ pc'[t] = "took"
        BY <2>2, <2>6 DEF TakeMsg, Inside
      <4>2. QED
        BY <2>1, <2>6, <4>1 DEF MailIsSeen
    <3>2. t \in Waiting /\ Signalled(first_susp, use.prior) = t /\ msgs # <<>>
      BY <2>2, <2>6 DEF TakeMsg, MyTurn, QInv, ListIsRight, Listed
    <3>3. first_susp # <<>>
      BY <3>2, NobodyWaits DEF Waiting
    <3>4. Outcome' = [Outcome EXCEPT ![t] = "message"]
      BY <2>6, <3>1 DEF Outcome
    <3>5. Letter' = [Letter EXCEPT ![t] = Head(msgs)]
      BY <2>6, <3>1 DEF Letter
    <3>6. MailView!Deliver
      BY <1>2, <2>then, <3>1, <3>2, <3>3, <3>4, <3>5, SameList DEF MailView!Deliver, Seen
    <3>7. QED
      BY <1>0, <3>6 DEF MailView!MBNext
  <2>7. ASSUME NEW t \in Task, Check(t) \/ CheckAgain(t)
        PROVE  [MailView!MBNext]_(MailView!mbVars)
    <3>1. pc[t] \in {"check", "again"} /\ UNCHANGED <<msgs, first_susp, result, msg>>
      BY <2>7 DEF Check, CheckAgain
    <3>2. CASE TakeMsg(t)
      BY <2>6, <3>1, <3>2
    <3>3. CASE Killed(t) \/ Nap(t) \/ NotYet(t)
      BY <1>0, <2>2, <3>1, <3>3, <2>stutter, MailStutter DEF Killed, Nap, NotYet
    <3>4. QED
      BY <2>7, <3>2, <3>3 DEF Check, CheckAgain, TryMsg
  <2>8. ASSUME NEW t \in Task, UnlinkSelf(t) PROVE [MailView!MBNext]_(MailView!mbVars)
    <3>1. /\ first_susp' = Without(first_susp, t) /\ UNCHANGED <<msgs, msg>>
          /\ pc[t] \in {"took", "leave"}
          /\ pc'[t] = IF TimedOut(t) THEN "unlock" ELSE "fetch"
          /\ result' = [result EXCEPT ![t] = IF TimedOut(t) THEN "timeout" ELSE result[t]]
      BY <2>2, <2>8 DEF UnlinkSelf
    <3>2. CASE pc[t] = "took"
      <4>1. ~TimedOut(t)
        BY <3>2 DEF TimedOut, QInv, MsgThere
      <4>2. /\ Delivered = {t} /\ StillQueued = Without(first_susp, t) /\ StillThere = Tail(msgs)
            /\ Delivered' = {t} /\ StillQueued' = first_susp' /\ StillThere' = Tail(msgs)
        BY <2>1, <3>1, <3>2, <4>1 DEF MailIsSeen
      <4>3. \A u \in Task : result'[u] = result[u]
        BY <2>2, <3>1, <4>1
      <4>4. Outcome' = Outcome /\ Letter' = Letter
        BY <3>1, <4>2, <4>3 DEF Outcome, Letter
      <4>5. QED
        BY <2>stutter, <3>1, <4>2, <4>4
    <3>3. CASE pc[t] = "leave"
      <4>1. TimedOut(t)
        BY <2>2, <3>3 DEF TimedOut, QInv, MsgThere
      <4>2. Delivered = {} /\ Delivered' = {}
        BY <2>1, <3>1, <3>3, <4>1 DEF MailIsSeen, Inside
      <4>3. /\ StillQueued = first_susp /\ StillThere = msgs
            /\ StillQueued' = Without(first_susp, t) /\ StillThere' = msgs
        BY <2>1, <3>1, <4>2 DEF MailIsSeen
      <4>4. t \in Members(StillQueued)
        BY <3>3, <4>3 DEF QInv, ListIsRight, Waiting, Listed
      <4>5. Outcome' = [Outcome EXCEPT ![t] = "timeout"] /\ Letter' = Letter
        BY <2>2, <3>1, <4>1, <4>2 DEF Outcome, Letter
      <4>6. MailView!GiveUp(t)
        BY <1>2, <2>then, <4>3, <4>4, <4>5, SameList DEF MailView!GiveUp, MailView!Queued, Seen
      <4>7. QED
        BY <1>0, <4>6 DEF MailView!MBNext
    <3>4. QED
      BY <3>1, <3>2, <3>3
  <2>9. ASSUME NEW t \in Task, Fetch(t) PROVE UNCHANGED MailView!mbVars
    <3>1. /\ UNCHANGED first_susp /\ msgs' = Tail(msgs) /\ pc[t] = "fetch" /\ pc'[t] = "unlock"
          /\ msg' = [msg EXCEPT ![t] = Head(msgs)] /\ result' = [result EXCEPT ![t] = "message"]
      BY <2>2, <2>9 DEF Fetch, LastFetch
    <3>2. Delivered = {t} /\ Delivered' = {}
      BY <2>1, <3>1 DEF MailIsSeen, Inside
    <3>3. UNCHANGED <<StillThere, StillQueued>>
      BY <2>1, <3>1, <3>2 DEF MailIsSeen
    <3>4. Outcome' = Outcome /\ Letter' = Letter
      BY <2>2, <3>1, <3>2 DEF Outcome, Letter
    <3>5. QED
      BY <2>stutter, <3>3, <3>4
  <2>10. ASSUME NEW t \in Task, PutsUp(t) PROVE [MailView!MBNext]_(MailView!mbVars)
    <3>1. /\ UNCHANGED <<first_susp, result, msg>> /\ queue_lock = NoTask /\ queue_lock' = NoTask
          /\ \A u \in Task : /\ pc'[u] = "took" <=> pc[u] = "took"
                             /\ pc'[u] = "fetch" <=> pc[u] = "fetch"
      BY <2>2, <2>10 DEF PutsUp, Put, Woken
    <3>2. CASE msgs' = msgs
      BY <1>0, <2>stutter, <3>1, <3>2, MailStutter
    <3>3. CASE msgs' = Append(msgs, sent + 1) \/ msgs' = <<sent + 1>> \o msgs
      <4>1. Delivered = {} /\ Delivered' = {}
        BY <2>1, <3>1 DEF MailIsSeen
      <4>2. StillThere = msgs /\ StillThere' = msgs' /\ UNCHANGED StillQueued
        BY <2>1, <3>1, <4>1 DEF MailIsSeen
      <4>3. Outcome' = Outcome /\ Letter' = Letter
        BY <3>1, <4>1 DEF Outcome, Letter
      <4>4. msgs \in Seq(Nat) /\ sent + 1 \in Nat
        BY DEF QInv, QueueTyped
      <4>5. msgs' # <<>> /\ msgs \in {Tail(msgs'), SubSeq(msgs', 1, Len(msgs') - 1)}
        <5>1. <<sent + 1>> \o msgs # <<>> /\ Append(msgs, sent + 1) # <<>>
          BY <4>4, PutMsg
        <5>2. /\ Tail(<<sent + 1>> \o msgs) = msgs
              /\ SubSeq(Append(msgs, sent + 1), 1, Len(Append(msgs, sent + 1)) - 1) = msgs
          BY <4>4, FrontMsg
        <5>3. CASE msgs' = Append(msgs, sent + 1)
          BY <5>1, <5>2, <5>3, Zenon
        <5>4. CASE msgs' = <<sent + 1>> \o msgs
          BY <5>1, <5>2, <5>4, Zenon
        <5>5. QED
          BY <3>3, <5>3, <5>4
      <4>6. MailView!Put
        BY <1>2, <2>then, <4>2, <4>3, <4>5 DEF MailView!Put, Seen
      <4>7. QED
        BY <1>0, <4>6 DEF MailView!MBNext
    <3>4. QED
      BY <2>10, <3>2, <3>3 DEF PutsUp, Put
  <2>11. ASSUME NEW t \in Task, \/ Hold(t) \/ Relock(t) \/ TimeOut(t) \/ Unlock(t) \/ Signal(t)
                                \/ Alert(t)
         PROVE  UNCHANGED MailView!mbVars
    <3>1. /\ UNCHANGED <<msgs, first_susp, result, msg>>
          /\ \A u \in Task : /\ pc'[u] = "took" <=> pc[u] = "took"
                             /\ pc'[u] = "fetch" <=> pc[u] = "fetch"
      BY <2>2, <2>11 DEF Hold, Relock, TimeOut, Unlock, Signal, BroadcastComplete, Alert, SchedLock,
         AnyToTell, LockBroadcast, Tell, Woken, Drain, Done
    <3>2. QED
      BY <1>0, <2>stutter, <3>1, MailStutter
  <2>12. ASSUME NEW t \in Task PROVE op[t] \notin {"bcast", "delete"}
    BY <1>2 DEF QInv, QueueTyped, MailOnly, Alone
  <2>13. QED
    BY <2>3, <2>4, <2>5, <2>7, <2>8, <2>9, <2>10, <2>11, <2>12, WorkCases DEF Next, Broadcasts
<1>3. QED
  BY <1>1, <1>2

\* Every step of q_receive, q_send and q_urgent is one of the mailbox, where no task broadcasts
\* or deletes the queue: messages go out in the order of the queue, each to the one task whose
\* turn it is, who takes a message gets that one and is told so, whether its deadline has passed
\* or not, and a task that gives up has taken none (queue.c:1616-1656, 1815-1863).
THEOREM QueueImplementsMailbox == Spec => ImplementsMailbox
<1>1. Init => QInv /\ MailInv /\ MailView!MBInit
  <2>1. Init => QInv
    BY InitQInv
  <2>2. Init => Delivered = {} /\ TookMsg = {}
    BY DEF Init, Delivered, TookMsg
  <2>3. Init => use.prior \in BOOLEAN
    BY UsesAssumption DEF Init, Use
  <2>4. QED
    BY <2>1, <2>2, <2>3 DEF Init, MailInv, MailView!MBInit, Seen, StillThere, StillQueued, Outcome
<1>2. QInv /\ MailInv /\ [Next]_vars => QInv' /\ MailInv' /\ [MailView!MBNext]_(MailView!mbVars)
  <2> SUFFICES ASSUME QInv, MailInv, [Next]_vars
               PROVE  QInv' /\ MailInv' /\ [MailView!MBNext]_(MailView!mbVars)
    OBVIOUS
  <2>1. CASE UNCHANGED vars
    <3>1. UNCHANGED <<StillThere, StillQueued, Outcome, Letter>>
      BY <2>1, MailStutter DEF vars
    <3>2. UNCHANGED MailView!mbVars
      BY <2>1, <3>1 DEF MailView!mbVars, Seen, MailOnly, vars
    <3>3. QED
      BY <3>2, StepQInv, StepMail
  <2>2. QED
    BY <2>1, StepQInv, StepMail, MailStep
<1>3. QED
  BY <1>1, <1>2, PTL DEF Spec, ImplementsMailbox, MailView!MBSpec
==============================================================================
