CONSTANTS
    Flag = {e1, e2}
    Sender = {s1, s2}
    NoSender = NoSender
SPECIFICATION FairSpec
INVARIANT NothingMissed
PROPERTY ImplementsBox
PROPERTY ReceiveReturns
