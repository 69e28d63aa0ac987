------------------------------- MODULE MCSema4 -------------------------------
(* A small instance of Sema4.  a, b, c wait; d posts, deletes or kills.    *)
EXTENDS Sema4, TLC

CONSTANTS a, b, c, d

\* b and c keep their order among the tasks of priority 2.
TwoPriorities == (a :> 1) @@ (b :> 2) @@ (c :> 2) @@ (d :> 1)

\* Tasks wait for good, with a timeout and without waiting, in order of arrival.
Fifo == [count |-> 1, prior |-> FALSE, calls |-> 2, victims |-> {}, quiet |-> FALSE,
         ops |-> (a :> {"wait"}) @@ (b :> {"timed"}) @@ (c :> {"nowait"}) @@ (d :> {"post"})]
\* By priority, each waiting task once.
Prior == [count |-> 0, prior |-> TRUE, calls |-> 1, victims |-> {}, quiet |-> FALSE,
          ops |-> (a :> {"wait", "post"}) @@ (b :> {"timed"}) @@ (c :> {"wait"}) @@ (d :> {"post"})]
\* The waiting task of the highest priority, which never naps, is deleted.
Killing == [count |-> 0, prior |-> TRUE, calls |-> 2, victims |-> {b}, quiet |-> FALSE,
           ops |-> (a :> {"wait", "timed"}) @@ (b :> {"wait"}) @@ (c :> {}) @@ (d :> {"post", "kill"})]
\* The semaphore is deleted.
Deleted == [count |-> 0, prior |-> FALSE, calls |-> 2, victims |-> {}, quiet |-> TRUE,
            ops |-> (a :> {"wait"}) @@ (b :> {"wait"}) @@ (c :> {"timed"}) @@ (d :> {"delete"})]
MCUses == {Fifo, Prior, Killing, Deleted}

\* A task that may be in its nap is deleted.
Napping == [count |-> 0, prior |-> TRUE, calls |-> 2, victims |-> {a}, quiet |-> FALSE,
            ops |-> (a :> {"wait"}) @@ (b :> {"wait"}) @@ (c :> {"wait"})
                    @@ (d :> {"post", "kill"})]
NapUses == {Napping}

\* A semaphore at which a task may be in its nap is deleted.
Untold == [count |-> 0, prior |-> FALSE, calls |-> 2, victims |-> {}, quiet |-> TRUE,
           ops |-> (a :> {"wait"}) @@ (b :> {"wait"}) @@ (c :> {}) @@ (d :> {"post", "delete"})]
UntoldUses == {Untold}
==============================================================================
