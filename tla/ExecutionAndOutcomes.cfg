SPECIFICATION AllSpec
CONSTANTS
  Callers = {c1, c2}
  Symbols = {s1, s2, s3, s4}
  Values = {1}
  FillValues = {1, 3}
  Losses = {0, 1}
  InitialCapital = 5
  MinTradeValue = 1
  TradeShare = 2
  LossShare = 3
  MaxOpen = 2
  MaxFills = 4
  MaxDay = 1
  g1 = g1
  g2 = g2
  p1 = p1
  None = None
SYMMETRY Symmetry
INVARIANTS
  TypeOK
  NeverOverdrawn
  AtMostMaxOpen
PROPERTIES
  OneEntryAtATime
  ExitClosesItsPosition
  
CHECK_DEADLOCK FALSE
