CONSTANTS
  none = none
  short = short
  long = long
  long2 = long2
  ClientId = ClientId
  ServerId = ServerId
  IdLen <- MCIdLen
  Byte = 3
  WindowLen = 3
  KidLen = 1
  IdContexts = {long}
  ClientIdContext = long
  ServerIdContext = long
  MaxCalls = 1
SPECIFICATION Spec
INVARIANTS
  NoReplayAccepted
CHECK_DEADLOCK FALSE
