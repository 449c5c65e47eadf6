SPECIFICATION FairSpec
CONSTANTS
  NumGroups = 2
  NumFds = 1
  Loops = 3
  Cap = 1
  UIntBits = 2
  Faults = {"setup", "malloc", "pair", "create", "fifo", "io", "worker"}
  Signals = {"TERM", "INT"}
INVARIANTS
  StartTogether
  JoinsOwnThreads
  Stoppable
  FiniteDelivery
PROPERTIES
  HangsOnlyAtBarrier
CHECK_DEADLOCK FALSE
