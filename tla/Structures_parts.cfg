CONSTANTS
    m = m
    d = d
    u = u
    Thread = {m, d, u}
    Block = {b1, b2, b3}
    Nil = Nil
    Name = {n1, n2}
    NoName = NoName
    Uses <- ListUses
    Files = {"queue", "vqueue"}
    Sizes = {0, 1, 2, 3}
    LimitChoices = {TRUE, FALSE}
    MaxExtents = 3
    MaxMsgs = 9
    GrowsAtEnd = TRUE
    Second = 6
    Tick = 2
    Word = 64
    Waits = {0, 1, 2, 3, 5, 8, 13, 33}
    Clocks = {0, 3, 4, 5, 6}
    End = 36
SPECIFICATION Spec
SYMMETRY Alike
INVARIANT LookupFinds
INVARIANT DeadlineIsDue
INVARIANT NotEarly
PROPERTY ImplementsRegistry
PROPERTY ImplementsQueue
PROPERTY SleepsToDue
\* All objects deleted, all messages sent, or the call returned.
CHECK_DEADLOCK FALSE
