SPECIFICATION SSpec
CONSTANTS
  s1 = s1
  s2 = s2
  p1 = p1
  p2 = p2
  c1 = c1
  c2 = c2
  t1 = t1
  t2 = t2
  Servers = {s1, s2}
  Phones = {p1, p2}
  Codes = {c1, c2}
  Tokens = {t1, t2}
  MaxVouchers = 2
  Faults = TRUE
  None = None
SYMMETRY Symmetry
INVARIANTS STypeOK TokenOwner AnsweredExpires PublishedInOrder
CHECK_DEADLOCK FALSE
