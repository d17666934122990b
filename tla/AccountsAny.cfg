SPECIFICATION Spec
CONSTANTS
  s1 = s1
  s2 = s2
  c1 = c1
  a1 = a1
  a2 = a2
  p1 = p1
  p2 = p2
  w1 = w1
  Servers = {s1, s2}
  Clients = {c1}
  Names = {a1, a2}
  Planets = {p1, p2}
  Passwords = {w1}
  MaxId = 4
  Faults = TRUE
  None = None
SYMMETRY Symmetry
INVARIANTS TypeOK AcceptedPlanetUnique AccountUniqueUnlessOverlapped SessionUser
CHECK_DEADLOCK FALSE
