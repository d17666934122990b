SPECIFICATION FairSpec
CONSTANTS
  s1 = s1
  s2 = s2
  i1 = i1
  Servers = {s1, s2}
  Shops = {i1}
  Modes = {"passThrough", "mutex"}
  MaxVersion = 3
  Prompt = FALSE
  Faults = FALSE
  None = None
PROPERTY StaleEnds
CHECK_DEADLOCK FALSE
