\* No worker is slow (Prompt) and no file operation fails (IOFaults): the run is
\* about threads of the master, dead handlers, crashes and the end of the master.
SPECIFICATION FairSpec
CONSTANTS
  w1 = w1
  w2 = w2
  Workers = {w1, w2}
  NMap = 2
  NReduce = 1
  MaxScheds = 1
  None = None
  Receiving = Receiving
  Reliable = {w1}
  Prompt = TRUE
  IOFaults = FALSE
PROPERTIES EventuallyDone WorkersLeave
CHECK_DEADLOCK FALSE
