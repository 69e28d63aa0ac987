-------------------------------- MODULE Event --------------------------------
(***************************************************************************)
(* The event flags of one task (event.c): ev_send, called by other tasks,  *)
(* and ev_receive, called by the task itself.  Both work under event_lock, *)
(* which ev_receive gives up only to sleep on event_change, so that a step *)
(* is a stretch of code under the lock.  Sets of flags are masks of bits.  *)
(***************************************************************************)
CONSTANTS
    Flag,               \* the event flags
    Sender, NoSender    \* the tasks that send

ASSUME NoSenderAssumption == NoSender \notin Sender

VARIABLES
    events_pending, events_captured, event_mask,    \* the task's control block
    EV_ALL,             \* opt of the ev_receive in progress: all, or any?
    max_wait,           \* its deadline: none, later, or now (EV_NOWAIT)
    pc, expired, retcode,
    captured, error,    \* what the last ev_receive returned
    sched,              \* the owner of the scheduler lock
    spc, new_events     \* of each ev_send

flags    == <<events_pending, events_captured>>
receiver == <<event_mask, EV_ALL, max_wait, pc, expired, retcode, captured, error>>
senders  == <<sched, spc, new_events>>
vars     == <<events_pending, events_captured, event_mask, EV_ALL, max_wait, pc, expired,
              retcode, captured, error, sched, spc, new_events>>

Waits == {"none", "later", "now"}

TypeOK ==
    /\ events_pending \subseteq Flag /\ events_captured \subseteq Flag
    /\ event_mask \subseteq Flag
    /\ EV_ALL \in BOOLEAN /\ max_wait \in Waits
    /\ pc \in {"idle", "entered", "wait", "woken"}
    /\ expired \in BOOLEAN
    /\ retcode \in {"0", "ETIMEDOUT"}
    /\ captured \subseteq Flag
    /\ error \in {"ERR_NO_ERROR", "ERR_TIMEOUT", "ERR_NOEVS"}
    /\ sched \in Sender \cup {NoSender}
    /\ spc \in [Sender -> {"idle", "found", "locked"}]
    /\ new_events \in [Sender -> SUBSET Flag]

Init ==
    /\ events_pending = {} /\ events_captured = {} /\ event_mask = {}
    /\ EV_ALL = FALSE /\ max_wait = "none"
    /\ pc = "idle" /\ expired = FALSE /\ retcode = "0"
    /\ captured = {} /\ error = "ERR_NO_ERROR"
    /\ sched = NoSender
    /\ spc = [s \in Sender |-> "idle"] /\ new_events = [s \in Sender |-> {}]

------------------------------------------------------------------------------
(* ev_send                                                                 *)

\* tcb_for finds the task.
Find(s, events) ==
    /\ spc[s] = "idle"
    /\ spc' = [spc EXCEPT ![s] = "found"]
    /\ new_events' = [new_events EXCEPT ![s] = events]
    /\ UNCHANGED <<flags, receiver, sched>>

SchedLock(s) ==
    /\ spc[s] = "found" /\ sched = NoSender
    /\ spc' = [spc EXCEPT ![s] = "locked"]
    /\ sched' = s
    /\ UNCHANGED <<flags, receiver, new_events>>

NewFlags(events) == events_pending \cap events # events

\* Mutant: the task is not awakened.
Awakened_Not == pc
Awakened == IF pc = "wait" THEN "woken" ELSE pc

\* Under both locks; it leaves them both.
Post(s) ==
    /\ spc[s] = "locked"
    /\ \/ /\ NewFlags(new_events[s])
          /\ events_pending' = events_pending \cup new_events[s]
          /\ pc' = Awakened
       \/ ~NewFlags(new_events[s]) /\ UNCHANGED <<events_pending, pc>>
    /\ spc' = [spc EXCEPT ![s] = "idle"]
    /\ new_events' = [new_events EXCEPT ![s] = {}]
    /\ sched' = NoSender
    /\ UNCHANGED <<events_captured, event_mask, EV_ALL, max_wait, expired, retcode, captured,
                   error>>

------------------------------------------------------------------------------
(* ev_receive                                                              *)

\* The mask is stored before event_lock is locked.  EV_NOWAIT waits with a
\* deadline that is now.
Enter(mask, all, wait) ==
    /\ pc = "idle" /\ pc' = "entered"
    /\ event_mask' = mask /\ EV_ALL' = all /\ max_wait' = wait
    /\ expired' = (wait = "now")
    /\ UNCHANGED <<flags, retcode, captured, error, senders>>

\* events_match_mask: an event that was captured before and has occurred again
\* is left pending.
Captured == events_captured \cup (events_pending \cap event_mask)
LeftPending == events_pending \cap ((Flag \ event_mask) \cup events_captured)

Match(events) ==
    IF EV_ALL THEN events \cap event_mask = event_mask ELSE events \cap event_mask # {}

\* The next look at the events, which moves those it wants.
Look ==
    /\ pc \in {"entered", "woken"}
    /\ events_pending' = LeftPending
    /\ UNCHANGED <<event_mask, EV_ALL, senders>>

\* pthread_cond_wait, or pthread_cond_timedwait, unlocks event_lock.
Sleep ==
    /\ Look
    /\ ~Match(Captured) /\ retcode = "0"
    /\ events_captured' = Captured
    /\ pc' = "wait"
    /\ UNCHANGED <<max_wait, expired, retcode, captured, error>>

\* Mutant: a timeout clears the captured events, too.
StillCaptured_None == {}
\* What has been captured is for the caller, except after a timeout.
StillCaptured == IF retcode = "0" THEN {} ELSE Captured

Outcome ==
    IF retcode = "0" THEN "ERR_NO_ERROR"
    ELSE IF max_wait = "now" THEN "ERR_NOEVS" ELSE "ERR_TIMEOUT"

Return ==
    /\ Look
    /\ Match(Captured) \/ retcode = "ETIMEDOUT"
    /\ captured' = Captured
    /\ events_captured' = StillCaptured
    /\ error' = Outcome
    /\ pc' = "idle" /\ max_wait' = "none" /\ expired' = FALSE /\ retcode' = "0"

\* The deadline passes.
Expire ==
    /\ max_wait = "later" /\ ~expired /\ pc # "idle"
    /\ expired' = TRUE
    /\ UNCHANGED <<flags, event_mask, EV_ALL, max_wait, pc, retcode, captured, error, senders>>

TimeOut ==
    /\ pc = "wait" /\ expired
    /\ pc' = "woken" /\ retcode' = "ETIMEDOUT"
    /\ UNCHANGED <<flags, event_mask, EV_ALL, max_wait, expired, captured, error, senders>>

------------------------------------------------------------------------------
Receive == Sleep \/ Return \/ TimeOut

Next ==
    \/ \E mask \in SUBSET Flag, all \in BOOLEAN, wait \in Waits : Enter(mask, all, wait)
    \/ Receive \/ Expire
    \/ \E s \in Sender : SchedLock(s) \/ Post(s)
                         \/ \E events \in SUBSET Flag : Find(s, events)

Spec == Init /\ [][Next]_vars

\* The threads inside a call keep running, and deadlines pass.
FairSpec ==
    /\ Spec /\ WF_vars(Receive) /\ WF_vars(Expire)
    /\ \A s \in Sender : SF_vars(SchedLock(s)) /\ WF_vars(Post(s))

------------------------------------------------------------------------------
\* A task sleeps in ev_receive only as long as what has been sent is not what
\* it waits for: no event is missed between the test and the sleep, none hides
\* behind one that was pending (event.c:84-101, 142-157).
NothingMissed == pc = "wait" => ~Match(Captured)

\* ev_send and ev_receive keep every event until it is received, also over
\* timeouts, and ev_receive returns what was asked for (event.c:131-199,
\* 331-343).
BoxView == INSTANCE EventBox WITH
    Source  <- Sender,
    sending <- new_events,
    posted  <- events_pending \cup events_captured,
    asking  <- pc # "idle",
    want    <- event_mask, all <- EV_ALL,
    got     <- captured, late <- error # "ERR_NO_ERROR"
ImplementsBox == BoxView!EBSpec

\* A task that waits returns once somebody sends what it waits for, and at its
\* deadline (event.c:98, 310-315).
ReceiveReturns ==
    /\ (pc # "idle" /\ Match(Captured)) ~> pc = "idle"
    /\ (pc # "idle" /\ max_wait # "none") ~> pc = "idle"
==============================================================================
