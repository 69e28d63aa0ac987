----------------------------- MODULE MCStructures -----------------------------
(* Small instances of the data structures and of the arithmetic of times,  *)
(* each without the others: in every behaviour one of them moves.          *)
(* m makes objects, d deletes them, u uses them.                           *)
EXTENDS ObjectLists, QueueRing, Timer, TLC

CONSTANTS m, d, u

Ops(mine) == (m :> {"create"}) @@ (d :> mine) @@ (u :> {"use", "ident"})

\* Two threads make objects, and nobody works while one is deleted.
Orderly(k) == [kind |-> k, creations |-> 4, serial |-> TRUE, apart |-> TRUE,
               ops |-> Ops({"create", "delete"})]
\* Objects are deleted at any time.
Careless(k) == [kind |-> k, creations |-> 3, serial |-> TRUE, apart |-> FALSE,
                ops |-> Ops({"delete"})]
ListUses == {Orderly(k) : k \in Kinds} \cup {Careless(k) : k \in Kinds \ {"task"}}

\* Memory and names are alike.
Alike == Permutations(Block) \cup Permutations(Name)

VARIABLE part       \* what moves

ListIdle == ListInit /\ use = Orderly("queue")
RingIdle == RingInit /\ kind = "vqueue" /\ msgs_per_extent = 1
TimeIdle == TimeInit /\ clock = 0 /\ caller = "sm_p" /\ wait = 1

Init ==
    \/ part = "lists" /\ ListInit /\ RingIdle /\ TimeIdle
    \/ part = "ring" /\ ListIdle /\ RingInit /\ TimeIdle
    \/ part = "times" /\ ListIdle /\ RingIdle /\ TimeInit

Next ==
    /\ UNCHANGED part
    /\ \/ part = "lists" /\ ListNext /\ UNCHANGED <<ringVars, timeVars>>
       \/ part = "ring" /\ RingNext /\ UNCHANGED <<listVars, timeVars>>
       \/ part = "times" /\ TimeNext /\ UNCHANGED <<listVars, ringVars>>

Spec == Init /\ [][Next]_<<part, listVars, ringVars, timeVars>>
==============================================================================
