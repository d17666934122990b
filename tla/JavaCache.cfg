SPECIFICATION FairSpec
CONSTANTS
  t1 = t1
  t2 = t2
  i1 = i1
  t3 = t3
  Threads = {t1, t2, t3}
  Shops = {i1}
  MaxVersion = 2
  MaxFrames = 2
  None = None
INVARIANTS TypeOK CoherentUnlessRaced
PROPERTY StaleEnds
CHECK_DEADLOCK FALSE
