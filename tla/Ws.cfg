SPECIFICATION FairSpec
CONSTANTS
    TimeoutConnect = 2
    CheckInterval = 1
    MsgOutMax = 1
    WriteRetryMax = 1
    RetryWidth = 4
    MaxSessions = 2
INVARIANTS
    TypeOK
    TimerMatchesState
    EndedOnce
    TerminateDisconnects
    Usable
    QueueBounded
PROPERTIES
    ReasonOfThisSession
    Contract
    OpeningResolves
