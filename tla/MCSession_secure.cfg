CONSTANTS
  R = R
  i1 = i1
  none = none
  Devices = {i1}
  KnownI = {i1}
  KnownR = {R}
  SuitesR = {0, 3}
  Msg4I = TRUE
  Msg4R = TRUE
  FreshKeys = {}
  Duplicating = FALSE
  MaxRunsI = 2
  MaxRunsR = 2
  MaxCrashes = 1
  MaxDamaged = 0
  IdOf <- MCIdOf
  Configs <- MCConfigs
  Ead2 <- MCNoEad
  Ead4 <- MCNoEad
  Byte = 3
  WindowLen = 2
  ClientId = ClientId
  ServerId = ServerId
  KidLen = 1
  IdContexts = {none}
  IdLen <- MCIdLen
  IdContext = none
  Kinds = {"linux", "zephyr", "edhoc"}
  Client = i1
  MaxTokens = 7
  MaxFaults = 1
SPECIFICATION SessionFairSpec
INVARIANTS
  AnswersBelong
  NoncesFresh
  ContextsPaired
PROPERTIES
  SessionEstablished
  RequestAnswered
CHECK_DEADLOCK FALSE
