SPECIFICATION AllSpec
CONSTANTS
  Callers = {c1}
  Cancellers = {}
  Keys = {k1}
  BrokerIds = {b1, b2}
  RowIds = {r1, r2}
  MaxOrdersPerDay = 0
  MayFail = TRUE
  None = None
  s1 = s1
  s2 = s2
  s3 = s3
  u1 = u1
  u2 = u2
  t1 = t1
  t2 = t2
  p1 = p1
SYMMETRY Symmetry
INVARIANTS
  Tracked
  TruthfulRows
PROPERTIES
  RecordsFollowLifecycle
  
  DecisionsRight
CHECK_DEADLOCK FALSE
