SPECIFICATION FairSpec
CONSTANTS
  NumGroups = 2
  NumFds = 1
  Loops = 1
  Infinite = TRUE
  DataSize = 1
  PipeCap = 1
  Fifo = FALSE
  Faults = {"fork"}
  Signals = {"INT"}
PROPERTIES
  SignalEnds
CHECK_DEADLOCK FALSE
