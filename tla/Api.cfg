SPECIFICATION FairSpec
CONSTANTS
    c1 = c1
    c2 = c2
    Threads = {c1, c2}
    Owner = c1
    Setters = {c1}
    MsgqMax = 2
    TimeoutConnect = 1
    CheckInterval = 1
INVARIANTS
    TypeOK
    Answerable
    ModesAgree
PROPERTIES
    Contract
    QueuedCallsReturn
    CloseReturns
CHECK_DEADLOCK FALSE
