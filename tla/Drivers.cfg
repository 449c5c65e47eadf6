SPECIFICATION FairSpec
CONSTANTS
  Lower = 1
  Upper = 3
  Step = 2
  Reps = 2
  Faults = {"hackbench", "hb_fork", "test_fork"}
  LastFault = 2
INVARIANTS
  OwnChildren
  TimedUnderLoad
  CompleteLog
  LogInOrder
PROPERTIES
  FreshOutput
  HangsOnlyWithoutTest
CHECK_DEADLOCK FALSE
