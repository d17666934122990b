SPECIFICATION WSpec
CONSTANTS
  w1 = w1
  w2 = w2
  Workers = {w1, w2}
  NMap = 2
  MaxScheds = 1
  None = None
  Receiving = Receiving
  Absent = Absent
  Full = Full
  NReduce = 1
  Reliable = {w1, w2}
  Prompt = FALSE
  IOFaults = FALSE
INVARIANT OutputsComplete
CHECK_DEADLOCK FALSE
