----------------------------- MODULE MCSchedLock -----------------------------
(* Small instances of SchedLock: which operations each task calls.         *)
EXTENDS SchedLock, TLC

CONSTANTS t1, t2, t3, v1

ModeOps == {"plain", "nopreempt", "preempt"}
Quiet == [t \in Task |-> {}]
Of(who, deleted, n) == [ops |-> who @@ Quiet, victims |-> deleted, calls |-> n]

\* Tasks that lock, one of which nests, and two of which delete v1, which never
\* locks the scheduler.
Locking == Of((t1 :> ModeOps \cup {"delother"}) @@ (t2 :> {"plain", "delother"})
              @@ (t3 :> {"plain"}), {v1}, 3)

\* Tasks that delete themselves and each other.
Deleting == Of([t \in {t1, t2, t3} |-> ModeOps \cup {"delself", "delother"}], {t1, t2, t3}, 2)

LockingUses == {Locking, Deleting}

\* Tasks that return.
LeakUses == {Of([t \in {t1, t2} |-> {"plain", "return"}], {}, 1)}

\* One task deletes itself while another wants the lock.
AsleepUses == {Of((t1 :> {"plain"}) @@ (t2 :> {"delself"}), {}, 1)}
==============================================================================
