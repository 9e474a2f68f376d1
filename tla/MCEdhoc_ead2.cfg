CONSTANTS
  R = R
  i1 = i1
  i2 = i2
  Devices = {i1}
  KnownI = {i1}
  KnownR = {R}
  SuitesR = {0, 3}
  Msg4I = TRUE
  Msg4R = TRUE
  FreshKeys = {R, i1}
  Duplicating = FALSE
  MaxRunsI = 1
  MaxRunsR = 2
  MaxCrashes = 0
  MaxDamaged = 0
  IdOf <- MCIdOf
  Configs <- MCConfigs
  Ead2 <- SomeEad
  Ead4 <- SomeEad
SPECIFICATION Spec
INVARIANTS
  Ead2Provided
CHECK_DEADLOCK FALSE
