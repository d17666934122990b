SPECIFICATION WSpec
CONSTANTS
  w1 = w1
  w2 = w2
  Workers = {w1, w2}
  MaxScheds = 1
  None = None
  Receiving = Receiving
  Absent = Absent
  Full = Full
  NMap = 2
  NReduce = 1
  Reliable = {w1, w2}
  Prompt = FALSE
  IOFaults = TRUE
SYMMETRY Symmetry
INVARIANTS FilesOK ReduceInputsExist
CHECK_DEADLOCK FALSE
