CONSTANTS
  MBEDTLS = TRUE
  Contexts <- MCContexts
  ResponderContexts <- MCResponderContexts
  AD_DEFAULT_SIZE = 4
SPECIFICATION Spec
INVARIANTS
  Message1AsSent
  OnlySenderAuthenticated
  CertificateNeedsCa
  FailureHasReason
PROPERTIES
  BuffersNeverGrow
CHECK_DEADLOCK FALSE
