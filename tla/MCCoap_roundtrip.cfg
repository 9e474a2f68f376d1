CONSTANTS
  MAX_PLAINTEXT_LEN = 128
  MAX_COAP_OPTIONS_LEN = 128
  MAX_E_OPTIONS = 30
  MAX_OPTION_COUNT = 20
  Strays = {0, 35}
  OptionNumbers = {1, 3, 6, 7, 11, 12}
  ValueLens = {0, 6}
  MaxOptions = 3
  PayloadLens = {1}
  TokenLens = {2, 9}
  Headers <- Headers4
  Messages <- MCRoundTrip
  OscoreValue <- MCOscoreValue
SPECIFICATION Spec
INVARIANTS
  TypeOK
  MessageRestored
  OnlyClassUOnTheWire
  FittingMessagesSent
  OptionsFitArrays
