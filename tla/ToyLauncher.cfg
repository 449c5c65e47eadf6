SPECIFICATION FairSpec
CONSTANTS
  MinPairs = 1
  MaxPairs = 2
  PairsStep = 1
  MinFib = 3
  MaxFib = 5
  FibStep = 2
  NumReps = 2
  Faults = {"fork", "exec", "hackbench", "slow"}
  MaxFaults = 1
  MaxPids = 34
INVARIANTS
  KillsOwnChild
  MeasuredUnderLoad
  CompleteLog
PROPERTIES
  HangsOnlyWithoutFib
CHECK_DEADLOCK FALSE
