SPECIFICATION Spec
CONSTANTS
  Callers = {x1, x2}
  x1 = x1
  x2 = x2
  Kinds = {"buy", "sell", "view", "start"}
  Symbols = {s1}
  s1 = s1
  Qtys = {1}
  Values = {1}
  InitialCapital = 1
  LastId = 1
  MaxTurnover = 2
  MayFail = FALSE
  Unread = Unread
INVARIANT NeverOversold
