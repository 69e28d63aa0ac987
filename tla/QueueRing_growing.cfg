CONSTANTS
    Files = {"queue"}
    Sizes = {2}
    LimitChoices = {FALSE}
    MaxExtents = 2
    MaxMsgs = 5
    GrowsAtEnd = FALSE
SPECIFICATION RingSpec
PROPERTY ImplementsQueue
\* The bounded number of messages ends.
CHECK_DEADLOCK FALSE
