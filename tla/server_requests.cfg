SPECIFICATION HandlerSpec
CONSTANTS
  None = None
  c1 = c1
  c2 = c2
  c3 = c3
  Call = {c1, c2, c3}
  Target <- TwoAndOne
  QueueCap = 1
  SendTime = 1
  WaitTime <- EvenWait
  DrainTime = 1
INVARIANT TypeOK
INVARIANT EveryWaitHasACause
INVARIANT ReplyNeverDropped
INVARIANT WorkersEndBeforeDB
PROPERTY PromiseSpec
PROPERTY EveryCallIsAnswered
PROPERTY ShutdownCompletes
CHECK_DEADLOCK FALSE
