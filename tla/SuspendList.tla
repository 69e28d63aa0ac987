----------------------------- MODULE SuspendList ------------------------------
(***************************************************************************)
(* The list of the tasks that wait at an object (link_susp_tcb,            *)
(* unlink_susp_tcb of task.c): a sequence, the first one to wait in front. *)
(* A task waits at one object at a time, and is on its list once.          *)
(***************************************************************************)
EXTENDS Naturals, Sequences

Members(list) == {list[i] : i \in DOMAIN list}

\* Who stays keeps its order.
Without(list, t) ==
    IF t \notin Members(list) THEN list
    ELSE LET at == CHOOSE i \in DOMAIN list : list[i] = t
         IN  [i \in 1..(Len(list) - 1) |-> list[IF i < at THEN i ELSE i + 1]]
==============================================================================
