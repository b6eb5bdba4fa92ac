SPECIFICATION AllSpec
CONSTANTS
  Totals <- MCTotals
  Tenths = {1, 5, 7}
  Wanted = {1, 3}
  Purge = 2
  Embargo = 1
  MinIS = 6
  MinOOS = 3
  Grid = {1, 2}
  Need <- MCNeed
  Scores = {0, 1}
  NoScore = 9
  t1 = t1
  t2 = t2
  s1 = s1
  k1 = k1
  k2 = k2
  k3 = k3
  bonus1 = bonus1
  bonus2 = bonus2
  None = None
INVARIANT
  WindowsRight
PROPERTIES
  SubscriptionsServed
  
  SignInRight
  DeskRight
CHECK_DEADLOCK FALSE
