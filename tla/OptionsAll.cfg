SPECIFICATION Spec
CONSTANTS
  Programs = {"hackbench", "toy_hackbench", "launcher", "http_client", "tracker"}
  Options = {"datasize", "loops", "groups", "fds", "fifo", "pin", "infinite", "reps", "file", "ip", "num", "core", "time", "pipe", "threads", "processes", "help", "unknown"}
  Arguments <- SmallArguments
  MaxLength = 2
  IntBits = 4
INVARIANTS
  AcceptedAsGiven
  BadRejected
CHECK_DEADLOCK FALSE
