------------------------------- MODULE Mailbox -------------------------------
(***************************************************************************)
(* What a message queue promises the tasks that wait at it: messages go    *)
(* out in order, each to the one task whose turn it is.                    *)
(***************************************************************************)
EXTENDS Naturals, Sequences, SuspendList

CONSTANTS
    Client,         \* the tasks
    Turn(_, _)      \* the task of a nonempty queue whose turn it is

VARIABLES
    contents,       \* the messages
    queue,          \* the waiting tasks
    prior,          \* is the turn by priority?
    outcome,        \* of a task's last call: "none" while it is waiting
    letter          \* the last message each task got

mbVars == <<contents, queue, prior, outcome, letter>>

Queued == Members(queue)

MBInit ==
    /\ contents = <<>> /\ queue = <<>> /\ prior \in BOOLEAN
    /\ outcome = [t \in Client |-> "none"]

\* A message comes, at the end or urgently in front.
Put ==
    /\ contents' # <<>>
    /\ contents \in {Tail(contents'), SubSeq(contents', 1, Len(contents') - 1)}
    /\ UNCHANGED <<queue, outcome, letter>>

Arrive(t) ==
    /\ t \notin Queued
    /\ queue' = Append(queue, t)
    /\ outcome' = [outcome EXCEPT ![t] = "none"]
    /\ UNCHANGED <<contents, letter>>

Deliver ==
    /\ contents # <<>> /\ queue # <<>>
    /\ contents' = Tail(contents)
    /\ queue' = Without(queue, Turn(queue, prior))
    /\ outcome' = [outcome EXCEPT ![Turn(queue, prior)] = "message"]
    /\ letter' = [letter EXCEPT ![Turn(queue, prior)] = Head(contents)]

GiveUp(t) ==
    /\ t \in Queued
    /\ queue' = Without(queue, t)
    /\ outcome' = [outcome EXCEPT ![t] = "timeout"]
    /\ UNCHANGED <<contents, letter>>

MBNext ==
    /\ \/ Deliver
       \/ Put
       \/ \E t \in Client : Arrive(t) \/ GiveUp(t)
    /\ UNCHANGED prior

MBSpec == MBInit /\ [][MBNext]_mbVars
==============================================================================
