SPECIFICATION FairSpec
CONSTANTS
  NumGroups = 1
  NumFds = 2
  Loops = 2
  Infinite = FALSE
  DataSize = 2
  PipeCap = 1
  Fifo = FALSE
  Faults = {}
  Signals = {}
INVARIANTS
  FiniteDelivery
PROPERTIES
  RunCompletes
CHECK_DEADLOCK FALSE
