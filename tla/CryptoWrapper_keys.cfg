CONSTANTS
  Threads = {t1, t2}
  Slots = 2
  Builds = {"MBEDTLS", "TINYCRYPT"}
  HashLen = 2
  MaxIterations = 2
  MaxOutLen = 5
  Order = 5
  PrivateKeys = {1, 3}
SPECIFICATION FairSpec
INVARIANTS
  TypeOK
  KeysApart
  NoKeyLeft
  SlotsSuffice
  ExpandedAsSpecified
  SecretsAgree
PROPERTIES
  CallsReturn
CHECK_DEADLOCK FALSE
