CONSTANTS
  Callbacks = {"mailbox", "stub"}
  MaxRuns = 2
  MaxTimeouts = 2
  MaxFaults = 3
SPECIFICATION FairSpec
INVARIANTS
  TypeOK
  RepliesAnswerRequests
  MutualWaitNeedsTimeout
PROPERTIES
  SessionsFinish
CHECK_DEADLOCK FALSE
