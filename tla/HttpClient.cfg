SPECIFICATION FairSpec
CONSTANTS
  NumRequests = 3
  RequestLen = 3
  ReplyLen = 4
  Cap = 3
  Faults = {"setup", "fork", "sched", "kill", "log", "server"}
INVARIANTS
  ReceiverFirst
  TimesAllReplies
  CleanEnd
  OkWithoutTime
PROPERTIES
  Completes
  BothEnd
CHECK_DEADLOCK FALSE
