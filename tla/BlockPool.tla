------------------------------ MODULE BlockPool ------------------------------
(***************************************************************************)
(* What a pSOS+ partition promises: a pool of blocks, each free or out,    *)
(* handed out in the order in which they came back.                        *)
(***************************************************************************)
EXTENDS Sequences

CONSTANT Pool       \* the blocks

VARIABLES
    free,           \* the free blocks, the next one to hand out first
    out             \* the blocks the callers have

poolVars == <<free, out>>

PoolInit ==
    /\ out = {}
    /\ {free[i] : i \in DOMAIN free} = Pool

Take ==
    /\ free # <<>>
    /\ out' = out \cup {Head(free)}
    /\ free' = Tail(free)

Give(b) ==
    /\ b \in out
    /\ out' = out \ {b}
    /\ free' = Append(free, b)

PoolNext == Take \/ \E b \in Pool : Give(b)

PoolSpec == PoolInit /\ [][PoolNext]_poolVars
==============================================================================
