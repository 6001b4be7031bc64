SPECIFICATION Spec
CONSTANTS
  None = None
  s1 = s1
  s2 = s2
  t1 = t1
  t2 = t2
  Sensor = {s1, s2}
  Value = {0, 2}
  Tag = {t1, t2}
  Warning <- TwoWarning
  Danger <- TwoDanger
  QueueCap = 1
  Cooldown = 2
  Backoff = 1
  MaxRetries = 1
  MaxReadings = 2
  MaxBoots = 2
INVARIANT TypeOK
INVARIANT PendingIsHeld
INVARIANT FlagMatchesConfirmation
INVARIANT EveryRetryIsMade
PROPERTY PublishedWhilePending
PROPERTY CooldownSpacing
PROPERTY OutboxSpec
SYMMETRY TagSymmetry
CHECK_DEADLOCK FALSE
