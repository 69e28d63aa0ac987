CONSTANTS
    a = a
    b = b
    c = c
    d = d
    Task = {a, b, c, d}
    NoTask = NoTask
    Prio <- TwoPriorities
    Uses <- MCUses
SPECIFICATION FairSpec
INVARIANT LockHeldOnce
INVARIANT FreedUnwaited
PROPERTY ImplementsQueue
PROPERTY TokenIsTaken
PROPERTY TimedCallsReturn
PROPERTY DeleteReturns
\* Tasks may wait for a token for good, and the bounded calls end.
CHECK_DEADLOCK FALSE
