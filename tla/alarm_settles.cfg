SPECIFICATION FairSpec
CONSTANTS
  None = None
  s1 = s1
  s2 = s2
  t1 = t1
  t2 = t2
  Sensor = {s1}
  Value = {2}
  Tag = {t1, t2}
  Warning <- OneWarning
  Danger <- OneDanger
  QueueCap = 1
  Cooldown = 1
  Backoff = 1
  MaxRetries = 1
  MaxReadings = 2
  MaxBoots = 1
PROPERTY EveryReadingSettles
PROPERTY StopReturns
CHECK_DEADLOCK FALSE
