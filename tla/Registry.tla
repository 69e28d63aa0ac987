------------------------------- MODULE Registry -------------------------------
(***************************************************************************)
(* What the lists of control blocks promise: a set of objects, each with   *)
(* an identifier of its own.                                               *)
(***************************************************************************)
CONSTANT Object

VARIABLES
    objects,        \* the objects there are
    ident           \* their identifiers

RegistryInit == objects = {} /\ ident = [o \in {} |-> 0]

\* Who stays keeps its identifier.
Keep == DOMAIN ident' = objects' /\ \A o \in objects \cap objects' : ident'[o] = ident[o]

\* A new object gets an identifier that is free.
Add(o) ==
    /\ o \notin objects
    /\ objects' = objects \cup {o} /\ Keep
    /\ \A p \in objects : ident'[o] # ident[p]

Remove(o) ==
    /\ o \in objects
    /\ objects' = objects \ {o} /\ Keep

RegistryNext == \E o \in Object : Add(o) \/ Remove(o)

RegistrySpec == RegistryInit /\ [][RegistryNext]_<<objects, ident>>
==============================================================================
