SPECIFICATION Spec
CONSTANTS
  None = None
  Zero = Zero
  b1 = b1
  b2 = b2
  m1 = m1
  Sampled = {b1}
  Manual = {}
  ManualBatch = {}
  Size = 1
  Speeds = {100}
  Limit = 5
  MaxBatch = 256
  AlarmCap = 1
  BatchCap = 1
  MaxNow = 1
INVARIANT SamplerIsHeard
CHECK_DEADLOCK FALSE
