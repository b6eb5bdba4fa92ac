SPECIFICATION AllSpec
CONSTANTS
  Symbols = {s1, s2}
  MaxConcurrent = 1
  MaxNewPerTick = 2
  DeadmanMaxErrors = 2
  MaxExposure = 0
  MayFail = FALSE
  SlowFills = FALSE
  Rejections = FALSE
  Losses = TRUE
  UserCalls = {}
  MaxLots = 3
  MaxErrors = 2
  s1 = s1
  s2 = s2
  x1 = x1
  x2 = x2
  g1 = g1
  g2 = g2
  p1 = p1
  None = None
INVARIANT
  EntriesGuarded
PROPERTIES
  StopsOut
  RegimeSteady
  ScansRight
  
CHECK_DEADLOCK FALSE
