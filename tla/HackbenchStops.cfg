SPECIFICATION FairSpec
CONSTANTS
  NumGroups = 2
  NumFds = 1
  Loops = 1
  Infinite = TRUE
  DataSize = 1
  PipeCap = 1
  Fifo = TRUE
  Faults = {"setup", "malloc", "fork", "pipe", "fifo", "io", "worker"}
  Signals = {"TERM"}
PROPERTIES
  StopsAsPromised
CHECK_DEADLOCK FALSE
