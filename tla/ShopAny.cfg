SPECIFICATION Spec
CONSTANTS
  s1 = s1
  s2 = s2
  i1 = i1
  Servers = {s1, s2}
  Shops = {i1}
  Modes = {"default", "passThrough", "mutex", "logical"}
  MaxVersion = 3
  Prompt = TRUE
  Faults = TRUE
  None = None
SYMMETRY Symmetry
INVARIANTS TypeOK CoherentUnlessRaced OneRebuild
CHECK_DEADLOCK FALSE
