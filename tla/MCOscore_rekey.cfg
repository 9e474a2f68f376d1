CONSTANTS
  none = none
  short = short
  long = long
  long2 = long2
  ClientId = ClientId
  ServerId = ServerId
  IdLen <- MCIdLen
  Byte = 3
  WindowLen = 2
  KidLen = 1
  IdContexts = {long, long2, short}
  ClientIdContext = long
  ServerIdContext = long
  MaxCalls = 3
SPECIFICATION Spec
INVARIANTS
  NonceInv
  ResponseBinding
  KeysMatchIdContext
CHECK_DEADLOCK FALSE
