----------------------------- MODULE TokenQueue ------------------------------
(***************************************************************************)
(* What a pSOS+ counting semaphore promises: a stock of tokens and a queue *)
(* of tasks.  Whenever there is a token the task whose turn it is gets it; *)
(* a task leaves without one only by giving up or by being deleted.        *)
(***************************************************************************)
EXTENDS Naturals, Sequences, SuspendList

CONSTANTS
    Client,         \* the tasks
    Turn(_, _)      \* the task of a nonempty queue whose turn it is

VARIABLES
    tokens, queue,
    prior,          \* is the turn by priority?
    outcome         \* of a task's last call: "none" while it is waiting

tqVars == <<tokens, queue, prior, outcome>>

Queued == Members(queue)

TQInit ==
    /\ tokens \in Nat /\ prior \in BOOLEAN
    /\ queue = <<>>
    /\ outcome = [t \in Client |-> "none"]

Put ==
    /\ tokens' = tokens + 1
    /\ UNCHANGED <<queue, outcome>>

Arrive(t) ==
    /\ t \notin Queued
    /\ queue' = Append(queue, t)
    /\ outcome' = [outcome EXCEPT ![t] = "none"]
    /\ UNCHANGED tokens

Grant ==
    /\ tokens > 0 /\ queue # <<>>
    /\ tokens' = tokens - 1
    /\ queue' = Without(queue, Turn(queue, prior))
    /\ outcome' = [outcome EXCEPT ![Turn(queue, prior)] = "token"]

\* A timeout, or the end of the semaphore.
GiveUp(t) ==
    /\ t \in Queued
    /\ queue' = Without(queue, t)
    /\ \E o \in {"timeout", "killed"} : outcome' = [outcome EXCEPT ![t] = o]
    /\ UNCHANGED tokens

Vanish(t) ==
    /\ t \in Queued
    /\ queue' = Without(queue, t)
    /\ UNCHANGED <<tokens, outcome>>

TQNext ==
    /\ Put \/ Grant \/ \E t \in Client : Arrive(t) \/ GiveUp(t) \/ Vanish(t)
    /\ UNCHANGED prior

TQSpec == TQInit /\ [][TQNext]_tqVars
==============================================================================
