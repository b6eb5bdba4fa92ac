SPECIFICATION Spec
CONSTANTS
  Symbols = {s1}
  s1 = s1
  MaxConcurrent = 1
  MaxNewPerTick = 1
  DeadmanMaxErrors = 2
  MaxExposure = 0
  MayFail = FALSE
  SlowFills = FALSE
  Rejections = FALSE
  Losses = FALSE
  UserCalls = {"exit", "all", "stop"}
  MaxLots = 3
  MaxErrors = 2
PROPERTY StopSquaresOff
