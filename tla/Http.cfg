SPECIFICATION FairSpec
CONSTANTS
  c1 = c1
  c2 = c2
  Conns = {c1, c2}
  OutOfMemory = {c1}
  MaxSessions = 2
INVARIANTS TypeOK TimerMatchesState CurlTimerOwned EndedOnce TerminateDisconnects StreamWasStarted
PROPERTIES Contract AnswerAwaited
