CONSTANTS
  c1 = c1
  u1 = u1
  u2 = u2
  Nobody = Nobody
  Callers = {c1}
  Users = {u1, u2}
  LastLink = 2
  MaxDeletes = 1
  MayMeet = FALSE
  MayFail = TRUE
SPECIFICATION FairSpec
INVARIANTS TypeOK RestartRestores OwnerIsLinker
PROPERTY DeadTokenDropped
