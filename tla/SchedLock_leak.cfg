CONSTANTS
    NoTask = NoTask
    t1 = t1
    t2 = t2
    t3 = t3
    v1 = v1
    Task = {t1, t2}
    Uses <- LeakUses
SPECIFICATION Spec
INVARIANT OwnerIsAlive
\* Tasks stop when they have made their calls or are dead.
CHECK_DEADLOCK FALSE
