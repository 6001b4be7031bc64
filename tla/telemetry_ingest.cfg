SPECIFICATION FairSpec
CONSTANTS
  None = None
  Zero = Zero
  b1 = b1
  b2 = b2
  m1 = m1
  Sampled = {b1}
  Manual = {m1}
  ManualBatch <- SomeManual
  Size = 2
  Speeds = {10, 100}
  Limit = 2
  MaxBatch = 2
  AlarmCap = 2
  BatchCap = 1
  MaxNow = 1
INVARIANT TypeOK
INVARIANT OkMeansOffered
INVARIANT NoStoredFuture
PROPERTY PromiseSpec
PROPERTY EveryUploadIsAnswered
CHECK_DEADLOCK FALSE
