SPECIFICATION WSpec
CONSTANTS
  w1 = w1
  w2 = w2
  w3 = w3
  Workers = {w1, w2, w3}
  NMap = 2
  MaxScheds = 1
  None = None
  Receiving = Receiving
  Absent = Absent
  Full = Full
  NReduce = 2
  Reliable = {w1}
  Prompt = TRUE
  IOFaults = FALSE
SYMMETRY Symmetry
INVARIANTS MapOutputsIntact OutputsComplete SingleHolder NoPhasePanic SendNeverBlocks
PROPERTY FinishStable
CHECK_DEADLOCK FALSE
