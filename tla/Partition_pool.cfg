CONSTANTS
    t1 = t1
    t2 = t2
    Task = {t1, t2}
    NumBlocks = 4
    Uses <- PoolUses
SPECIFICATION FairSpec
INVARIANT ExclusiveBlocks
INVARIANT DeletedUnused
PROPERTY DataIntact
PROPERTY ImplementsPool
PROPERTY CallsReturn
\* Tasks that wait for the mutex of a deleted partition wait for good.
CHECK_DEADLOCK FALSE
