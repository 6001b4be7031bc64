SPECIFICATION FairSpec
CONSTANTS
  None = None
  p1 = p1
  p2 = p2
  t1 = t1
  s1 = s1
  Req = {p1, p2, t1, s1}
  Kind <- AllKinds
  Bodies <- SomeBodies
  StartConfigs <- AllSet
  Sensors <- FourSensors
INVARIANT TypeOK
INVARIANT SensorsFollowSettings
INVARIANT LatestIsNewest
INVARIANT BatchIsSnapshot
INVARIANT NobodyWaitsInACircle
PROPERTY EveryRequestIsAnswered
PROPERTY SamplingGoesOn
CHECK_DEADLOCK FALSE
