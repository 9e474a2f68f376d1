CONSTANTS
  R = R
  i1 = i1
  i2 = i2
  Devices = {i1}
  KnownI = {i1}
  KnownR = {R}
  SuitesR = {0, 3}
  Msg4I = TRUE
  Msg4R = TRUE
  FreshKeys = {R, i1}
  Duplicating = FALSE
  MaxRunsI = 2
  MaxRunsR = 2
  MaxCrashes = 0
  MaxDamaged = 0
  IdOf <- MCIdOf
  Configs <- MCAllConfigs
  Ead2 <- NoEad
  Ead4 <- SomeEad
SPECIFICATION FairSpec
PROPERTIES
  RunsComplete
CHECK_DEADLOCK FALSE
