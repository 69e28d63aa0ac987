------------------------------ MODULE MsgQueue -------------------------------
(***************************************************************************)
(* What a pSOS+ message queue promises its senders and receivers: messages *)
(* come out in the order in which they went in, urgent ones first, and a   *)
(* message is refused only when the queue is full or memory is short.      *)
(***************************************************************************)
EXTENDS Naturals, Sequences

CONSTANT Letter     \* the messages

VARIABLES
    limited,        \* was the queue made with Q_LIMIT?
    limit,          \* its size
    contents,       \* the messages in it
    received        \* the last message that was received

mqVars == <<limited, limit, contents, received>>

MQInit == contents = <<>>

\* A queue of size 0 takes one message, for a task that is waiting.
Enter(m) ==
    /\ limited => Len(contents) < limit \/ (limit = 0 /\ contents = <<>>)
    /\ contents' = Append(contents, m)

\* One urgent message fits even into a full queue.
EnterFront(m) ==
    /\ limited => Len(contents) <= limit
    /\ contents' = <<m>> \o contents

Refuse ==
    /\ limited => Len(contents) >= limit
    /\ UNCHANGED contents

Leave ==
    /\ contents # <<>>
    /\ received' = Head(contents)
    /\ contents' = Tail(contents)

MQNext ==
    /\ UNCHANGED <<limited, limit>>
    /\ \/ Leave
       \/ /\ UNCHANGED received
          /\ Refuse \/ \E m \in Letter : Enter(m) \/ EnterFront(m)

MQSpec == MQInit /\ [][MQNext]_mqVars
==============================================================================
