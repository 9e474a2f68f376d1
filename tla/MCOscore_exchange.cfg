CONSTANTS
  none = none
  short = short
  long = long
  long2 = long2
  ClientId = ClientId
  ServerId = ServerId
  IdLen <- MCIdLen
  Byte = 3
  WindowLen = 3
  KidLen = 1
  IdContexts = {long}
  ClientIdContext = long
  ServerIdContext = long
  MaxCalls = 4
SPECIFICATION FairSpec
INVARIANTS
  TypeOK
  RequestNonceUnique
  ResponseNonceBinding
  RefusedOnlyForMarker
  SendsExactlyOneBytePivs
PROPERTIES
  AnsweredOrSuperseded
CHECK_DEADLOCK FALSE
