------------------------------- MODULE MCTasks --------------------------------
(* Small instances of Tasks.                                               *)
EXTENDS Tasks, TLC

CONSTANTS a, v, x, y

On(ops, k) == ops \X {k}

\* Root and a start v, a suspends, resumes and deletes v, which waits at objects and calls.
Control == (Root :> On({"create", "start", "getreg"}, v) \cup On({"create", "start"}, a))
           @@ (a :> On({"start", "suspend", "resume", "delete"}, v))
           @@ (v :> On({"wait"}, v) \cup On({"getreg"}, a))
\* a suspends itself, with and without the scheduler locked; Root resumes it and works on it.
Self == (Root :> On({"create", "start", "resume", "setreg"}, a) \cup On({"create", "start"}, v))
        @@ (a :> On({"suspend0", "suspend", "nopreempt", "preempt"}, a))
        @@ (v :> On({"getreg"}, a))
\* a deletes itself, with and without the scheduler locked, while v works on it.
Ending == (Root :> On({"create", "start"}, a) \cup On({"create", "start"}, v))
        @@ (a :> On({"nopreempt", "preempt", "exit", "delete", "wait"}, a))
        @@ (v :> On({"setreg"}, a))
\* Root and a both control v.
Both == (Root :> On({"create", "start", "suspend", "resume"}, v) \cup On({"create", "start"}, a))
        @@ (a :> On({"suspend", "resume", "getreg"}, v))
        @@ (v :> On({"wait"}, v))
\* a is started with T_NOPREEMPT and changes its mode.
Mode == (Root :> On({"create", "startnp", "setreg"}, a)) @@ (v :> {})
        @@ (a :> On({"nopreempt", "preempt", "suspend0"}, a))
\* a sets its priority and starts v, with and without the scheduler locked.
Priority == (Root :> On({"create", "start"}, a)) @@ (v :> On({"getreg", "setpri"}, v))
            @@ (a :> On({"nopreempt", "preempt", "setpri", "tslice"}, a)
                     \cup On({"create", "start"}, v))
\* Root starts a, which starts v.
Starting == (Root :> On({"create", "start"}, a)) @@ (a :> On({"create", "start"}, v))
            @@ (v :> {})
\* Root sets a's priority; a locks the scheduler and asks for time-slicing.
Slicing == (Root :> On({"create", "start", "setpri"}, a)) @@ (v :> {})
           @@ (a :> On({"nopreempt", "preempt", "tslice"}, a))
\* Uses of the library that the two disagreements in the README are about.
StartUses == {Starting}
SliceUses == {Slicing}

TaskUses == {Control, Self, Ending, Both, Mode, Priority, Slicing}
==============================================================================
