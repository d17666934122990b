SPECIFICATION Spec
CONSTANTS
  w1 = w1
  w2 = w2
  Workers = {w1, w2}
  Reliable = {}
  Prompt = FALSE
  IOFaults = TRUE
  NMap = 2
  NReduce = 2
  MaxScheds = 1
  None = None
  Receiving = Receiving
SYMMETRY Symmetry
INVARIANTS TypeOK NoTaskLost ScanSound
PROPERTY JobImplemented
CHECK_DEADLOCK FALSE
