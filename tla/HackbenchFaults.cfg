SPECIFICATION Spec
CONSTANTS
  NumGroups = 2
  NumFds = 1
  Loops = 1
  Infinite = TRUE
  DataSize = 1
  PipeCap = 1
  Fifo = TRUE
  Faults = {"setup", "malloc", "fork", "pipe", "fifo", "io", "worker"}
  Signals = {"TERM", "INT"}
INVARIANTS
  TypeOK
  StartTogether
  TimeIsMeasured
  NoBroadcastKill
  SurvivorsConfined
  CleanStop
PROPERTIES
  IsLoadGenerator
CHECK_DEADLOCK FALSE
