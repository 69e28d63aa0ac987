CONSTANTS
    a = a
    v = v
    x = x
    y = y
    Task = {a, v}
    Root = Root
    NoOne = NoOne
    Object = {x, y}
    RootPriority = 0
    Uses <- TaskUses
SPECIFICATION FairSpec
INVARIANT FoundIsThere
INVARIANT FreedOnNoList
INVARIANT StoppedIsSuspended
INVARIANT StoppedIsFree
INVARIANT PriorityInEffect
PROPERTY CallsReturn
\* When a task ends with the scheduler locked, the callers that sleep for it are
\* not woken.
CHECK_DEADLOCK FALSE
