SPECIFICATION Spec
CONSTANTS
  Callers = {c1}
  Symbols = {s1, s2}
  Values = {2}
  FillValues = {2}
  Losses = {0, 1}
  InitialCapital = 10
  MinTradeValue = 1
  TradeShare = 3
  LossShare = 3
  MaxOpen = 2
  MaxFills = 3
  MaxDay = 1
INVARIANT ExitsAlwaysExecute
