CONSTANTS
    a = a
    b = b
    c = c
    d = d
    Task = {a, b, c, d}
    NoTask = NoTask
    Prio <- BFirst
    Uses <- LateUses
SPECIFICATION FairSpec
PROPERTY BroadcastReturns
\* Tasks may wait for a message for good, and the bounded calls end.
CHECK_DEADLOCK FALSE
