SPECIFICATION Spec
CONSTANTS
    MsgOutMax = 2
    MaxSessions = 3
INVARIANTS
    TypeOK
    EndedOnce
    TerminateDisconnects
    PipeOwned
    Rests
PROPERTIES
    ReasonOfThisSession
    Contract
