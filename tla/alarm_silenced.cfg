SPECIFICATION Spec
CONSTANTS
  None = None
  s1 = s1
  s2 = s2
  t1 = t1
  t2 = t2
  Sensor = {s1}
  Value = {0, 2}
  Tag = {t1}
  Warning <- OneWarning
  Danger <- OneDanger
  QueueCap = 1
  Cooldown = 2
  Backoff = 1
  MaxRetries = 1
  MaxReadings = 2
  MaxBoots = 1
PROPERTY SuppressedOnlyAfterAlarm
CHECK_DEADLOCK FALSE
