CONSTANTS
    NoTask = NoTask
    t1 = t1
    t2 = t2
    t3 = t3
    v1 = v1
    Task = {t1, t2, t3, v1}
    Uses <- LockingUses
SPECIFICATION FairSpec
INVARIANT OneHolder
INVARIANT OnlyHolderIsRaised
INVARIANT SleepersHaveWaker
INVARIANT OwnerIsAlive
INVARIANT FreedTaskIsGone
PROPERTY ImplementsLock
PROPERTY CallsComplete
\* Tasks stop when they have made their calls or are dead.
CHECK_DEADLOCK FALSE
