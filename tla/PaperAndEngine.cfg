SPECIFICATION AllSpec
CONSTANTS
  Callers = {x1, x2}
  x1 = x1
  x2 = x2
  Kinds = {"buy", "sell", "reset", "start"}
  Symbols = {s1}
  s1 = s1
  Qtys = {1}
  Values = {1}
  InitialCapital = 1
  LastId = 2
  MaxTurnover = 1
  MayFail = TRUE
  Unread = Unread
  j1 = j1
  j2 = j2
  a1 = a1
  a2 = a2
SYMMETRY Symmetry
INVARIANT TypeOK NeverOverspent LedgerBalances OneByOneAgrees DeadManHolds
PROPERTIES  JobsRight AlertsRight
CHECK_DEADLOCK FALSE
