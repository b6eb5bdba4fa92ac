SPECIFICATION Spec
CONSTANTS
  Callers = {c1, c2}
  Cancellers = {}
  Keys = {k1}
  BrokerIds = {b1, b2}
  RowIds = {r1, r2}
  MaxOrdersPerDay = 0
  MayFail = FALSE
  None = None
SYMMETRY Symmetry
INVARIANTS
  NoDoubleOrder
