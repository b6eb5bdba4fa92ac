SPECIFICATION AllSpec
CONSTANTS
  Callers = {c1}
  Cancellers = {x1}
  Keys = {k1}
  BrokerIds = {b1, b2}
  RowIds = {r1, r2}
  MaxOrdersPerDay = 1
  MayFail = FALSE
  None = None
  Sockets = {u1, u2, u3}
  MaxCalls = 2
  MaxReconnects = 2
  MaxBreaks = 3
  MaxRequests = 3
  Quoted = {s1}
  PriceCalls = {p1, p2}
  ApiKeys = {"twelvedata"}
  Threshold = 1
  Cooldown = 3
  MaxBackoff = 1
INVARIANTS
  TypeOK
  HardStop
PROPERTIES
  TerminalMoves
  Converges
  FeedsTruthful
  FeedsReturn
  
CHECK_DEADLOCK FALSE
