CONSTANTS
  R = R
  i1 = i1
  i2 = i2
  Devices = {i1, i2}
  KnownI = {i1}
  KnownR = {R}
  SuitesR = {0, 3}
  Msg4I = TRUE
  Msg4R = TRUE
  FreshKeys = {R, i1, i2}
  Duplicating = TRUE
  MaxRunsI = 2
  MaxRunsR = 2
  MaxCrashes = 1
  MaxDamaged = 1
  IdOf <- MCIdOf
  Configs <- MCConfigs
  Ead2 <- NoEad
  Ead4 <- SomeEad
SPECIFICATION Spec
INVARIANTS
  TypeOK
  InitiatorAgreement
  FailedRunLeavesNoKey
PROPERTIES
  KeyAgreementSpec
CHECK_DEADLOCK FALSE
