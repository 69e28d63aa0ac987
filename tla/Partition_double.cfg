CONSTANTS
    t1 = t1
    t2 = t2
    Task = {t1, t2}
    NumBlocks = 2
    Uses <- DoubleUses
SPECIFICATION Spec
INVARIANT ExclusiveBlocks
