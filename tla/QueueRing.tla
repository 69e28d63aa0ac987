----------------------------- MODULE QueueRing -------------------------------
(***************************************************************************)
(* The message ring of a queue of queue.c: extents, queue_head, queue_tail *)
(* and the way q_send and q_urgent add extents; and the ring of vqueue.c,  *)
(* which has one extent and starts at its first slot.  Every operation     *)
(* runs under queue_lock and is one step; who waits for the messages is    *)
(* the subject of module Queue.                                            *)
(*                                                                         *)
(* A slot is numbered by its place in the list of extents: the first       *)
(* extent has slots 0..qsize, every further one the next qsize slots.      *)
(***************************************************************************)
EXTENDS Naturals, Sequences

CONSTANTS
    Files,          \* the files: queue.c, vqueue.c or both
    Sizes,          \* the sizes given to q_create or q_vcreate
    LimitChoices,   \* with Q_LIMIT, without, or both
    MaxExtents,     \* bound: memory for so many extents
    MaxMsgs,        \* bound: messages sent
    GrowsAtEnd      \* does the queue grow only while its last message is in
                    \* the last slot? (at other times the program sends no
                    \* more than fits, or memory is short)

ASSUME FilesAssumption == Files \subseteq {"queue", "vqueue"}
ASSUME SizesAssumption == Sizes \subseteq Nat
ASSUME LimitAssumption == LimitChoices \subseteq BOOLEAN
ASSUME MaxExtentsAssumption == MaxExtents \in Nat \ {0}
ASSUME MaxMsgsAssumption == MaxMsgs \in Nat

VARIABLES
    kind, msgs_per_extent, Q_LIMIT, total_extents,
    msgs,                       \* the slots; 0 is a message of NULLs
    queue_head, queue_tail, msg_count,
    fetched,                    \* the message fetch_msg_from returned last
    sent                        \* the number of messages sent

cfg   == <<kind, msgs_per_extent, Q_LIMIT>>
ring  == <<total_extents, msgs, queue_head, queue_tail, msg_count>>
ringVars == <<kind, msgs_per_extent, Q_LIMIT, total_extents, msgs, queue_head, queue_tail,
              msg_count, fetched, sent>>

Null == 0

\* Over all extents: the first one has a slot more for an urgent message.
Slots(extents) == extents * msgs_per_extent + 1

\* A queue of size 0 that may grow has no room for messages in its extents.
NewQueue ==
    /\ kind = "queue" /\ Q_LIMIT \in LimitChoices
    /\ msgs_per_extent = 0 => Q_LIMIT
    /\ queue_head = IF msgs_per_extent > 0 THEN 1 ELSE 0

\* A queue of vqueue.c is as large as it will be.
NewVQueue == kind = "vqueue" /\ Q_LIMIT = TRUE /\ queue_head = 0

\* The first extent, which is all there is in vqueue.c, is cleared.
FirstExtent == [s \in 0..(Slots(1) - 1) |-> Null]

RingInit ==
    /\ kind \in Files /\ msgs_per_extent \in Sizes
    /\ NewQueue \/ NewVQueue
    /\ total_extents = 1
    /\ msgs = FirstExtent
    /\ queue_tail = queue_head
    /\ msg_count = 0 /\ fetched = Null /\ sent = 0

Capacity == total_extents * msgs_per_extent

Behind(s, extents) == IF s = Slots(extents) - 1 THEN 0 ELSE s + 1

\* Mutant: a head that underflows the first extent wraps to its last slot.
Before_FirstExtent(s, extents) == IF s = 0 THEN msgs_per_extent ELSE s - 1
Before(s, extents) == IF s = 0 THEN Slots(extents) - 1 ELSE s - 1

------------------------------------------------------------------------------
(* new_extent_for, send_msg_to, urgent_msg_to, fetch_msg_from              *)

\* The tail moves to the first slot of the new extent, wherever the head is.
TailAfterGrowth == Slots(total_extents)

Grown == [s \in 0..(Slots(total_extents + 1) - 1) |->
             IF s \in DOMAIN msgs THEN msgs[s] ELSE Null]

SendTo(m, tail, slots, extents) ==
    /\ msgs' = [slots EXCEPT ![tail] = m]
    /\ queue_tail' = Behind(tail, extents)
    /\ total_extents' = extents
    /\ msg_count' = msg_count + 1
    /\ UNCHANGED queue_head

UrgentTo(m, tail, slots, extents) ==
    /\ queue_head' = Before(queue_head, extents)
    /\ msgs' = [slots EXCEPT ![queue_head'] = m]
    /\ queue_tail' = tail
    /\ total_extents' = extents
    /\ msg_count' = msg_count + 1

EndsAtEnd == queue_head + msg_count = Slots(total_extents)

\* Without Q_LIMIT, and as long as there is memory, a full queue grows.
MayGrow == ~Q_LIMIT /\ total_extents < MaxExtents /\ (GrowsAtEnd => EndsAtEnd)

------------------------------------------------------------------------------
(* q_send, q_urgent, and the fetch of q_receive.                           *)

\* A queue of size 0 has room for a task that is waiting.
HasRoom == msg_count < Capacity

UrgentHasRoom == msg_count <= Capacity

NextMsg == sent + 1
Sending(file) == /\ kind = file /\ sent < MaxMsgs
                 /\ sent' = sent + 1
                 /\ UNCHANGED <<cfg, fetched>>

send_msg_to(m)   == SendTo(m, queue_tail, msgs, total_extents)
urgent_msg_to(m) == UrgentTo(m, queue_tail, msgs, total_extents)

q_send ==
    /\ Sending("queue")
    /\ \/ HasRoom /\ send_msg_to(NextMsg)
       \/ ~HasRoom /\ MayGrow /\ SendTo(NextMsg, TailAfterGrowth, Grown, total_extents + 1)
       \/ ~HasRoom /\ UNCHANGED ring                               \* ERR_QFULL
       \/ Q_LIMIT /\ msgs_per_extent = 0 /\ msg_count = Capacity /\ send_msg_to(NextMsg)

q_urgent ==
    /\ Sending("queue")
    /\ \/ UrgentHasRoom /\ urgent_msg_to(NextMsg)
       \/ ~UrgentHasRoom /\ MayGrow
          /\ UrgentTo(NextMsg, TailAfterGrowth, Grown, total_extents + 1)
       \/ ~UrgentHasRoom /\ UNCHANGED ring                         \* ERR_QFULL

Fetch ==
    /\ msg_count > 0
    /\ fetched' = msgs[queue_head]
    /\ msgs' = [msgs EXCEPT ![queue_head] = Null]
    /\ queue_head' = Behind(queue_head, total_extents)
    /\ msg_count' = msg_count - 1
    /\ UNCHANGED <<cfg, total_extents, queue_tail, sent>>

fetch_msg_from == kind = "queue" /\ Fetch

q_vsend ==
    /\ Sending("vqueue")
    /\ \/ HasRoom /\ send_msg_to(NextMsg)
       \/ msg_count = Capacity /\ msgs_per_extent = 0 /\ send_msg_to(NextMsg)
       \/ ~HasRoom /\ UNCHANGED ring

q_vurgent ==
    /\ Sending("vqueue")
    /\ \/ UrgentHasRoom /\ urgent_msg_to(NextMsg)
       \/ ~UrgentHasRoom /\ UNCHANGED ring

fetch_vmsg_from == kind = "vqueue" /\ Fetch

RingNext ==
    \/ q_send \/ q_urgent \/ fetch_msg_from
    \/ q_vsend \/ q_vurgent \/ fetch_vmsg_from

RingSpec == RingInit /\ [][RingNext]_ringVars

------------------------------------------------------------------------------
\* Senders and receivers see a queue: "a single large logical circular buffer"
\* with room for an urgent message "even when the queue is full"
\* (queue.c:68-72).
Contents == [i \in 1..msg_count |-> msgs[(queue_head + i - 1) % Slots(total_extents)]]
QueueView == INSTANCE MsgQueue WITH
    Letter <- 1..MaxMsgs, limited <- Q_LIMIT, limit <- msgs_per_extent,
    contents <- Contents, received <- fetched
ImplementsQueue == QueueView!MQSpec
==============================================================================
