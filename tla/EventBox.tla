------------------------------ MODULE EventBox -------------------------------
(***************************************************************************)
(* What the event flags of a pSOS+ task promise: an event that is sent is  *)
(* there until the task receives it, and the task receives what it asks    *)
(* for, all or any of the events it wants.                                 *)
(***************************************************************************)
CONSTANTS Flag, Source      \* the events, the tasks that send them

VARIABLES
    sending,        \* what each task is about to send
    posted,         \* the events sent and not received
    asking,         \* is the task in ev_receive?
    want, all,      \* the events it wants; all of them, or any?
    got, late       \* the events of the last ev_receive; did it time out?

ebVars == <<sending, posted, asking, want, all, got, late>>

Enough(events) == IF all THEN want \subseteq events ELSE want \cap events # {}

EBInit ==
    /\ sending = [s \in Source |-> {}] /\ posted = {}
    /\ asking = FALSE

\* A call of ev_send starts.
Offer(s) ==
    /\ sending[s] = {}
    /\ \E events \in SUBSET Flag : sending' = [sending EXCEPT ![s] = events]
    /\ UNCHANGED <<posted, asking, want, all, got, late>>

Send(s) ==
    /\ posted' = posted \cup sending[s]
    /\ sending' = [sending EXCEPT ![s] = {}]
    /\ UNCHANGED <<asking, want, all, got, late>>

Ask ==
    /\ ~asking /\ asking' = TRUE
    /\ want' \in SUBSET Flag /\ all' \in BOOLEAN
    /\ UNCHANGED <<sending, posted, got, late>>

\* An event that has been sent twice may stay.
Receive ==
    /\ asking /\ asking' = FALSE
    /\ got' \subseteq posted /\ Enough(got')
    /\ posted \ got' \subseteq posted' /\ posted' \subseteq posted
    /\ late' = FALSE
    /\ UNCHANGED <<sending, want, all>>

\* Nothing is taken, whatever the call tells of what is there.
GiveUp ==
    /\ asking /\ asking' = FALSE
    /\ got' \subseteq posted
    /\ late' = TRUE
    /\ UNCHANGED <<sending, posted, want, all>>

EBNext == Ask \/ Receive \/ GiveUp \/ \E s \in Source : Offer(s) \/ Send(s)

EBSpec == EBInit /\ [][EBNext]_ebVars
==============================================================================
