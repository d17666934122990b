SPECIFICATION FairSpec
CONSTANTS
  s1 = s1
  s2 = s2
  u1 = u1
  u2 = u2
  v1 = v1
  v2 = v2
  Servers = {s1, s2}
  Users = {u1, u2}
  Vouchers = {v1, v2}
  InitStock <- OneShort
  Begin = 1
  End = 2
  MaxTime = 3
  Prompt = TRUE
  Faults = TRUE
  None = None
INVARIANTS TypeOK NoOversell OneOrderPerUser
PROPERTIES SaleImplemented LockoutEnds
CHECK_DEADLOCK FALSE
