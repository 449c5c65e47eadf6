SPECIFICATION Spec
CONSTANTS
  Pids = 2
  Hackbench = {1, 2}
  Expected = 2
  Period = 1
  MaxDuration = 3
  MaxClock = 4
INVARIANTS
  SameProcess
  CompletePoints
  OnSchedule
PROPERTIES
  SeesSteady
CHECK_DEADLOCK FALSE
