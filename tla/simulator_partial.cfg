SPECIFICATION Spec
CONSTANTS
  None = None
  p1 = p1
  p2 = p2
  t1 = t1
  s1 = s1
  Req = {p1}
  Kind <- OnePost
  Bodies <- PermOnly
  StartConfigs <- UpSet
  Sensors <- TwoSensors
PROPERTY PostChangesOnlyWhatItNames
CHECK_DEADLOCK FALSE
