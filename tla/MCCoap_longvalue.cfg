CONSTANTS
  MAX_PLAINTEXT_LEN = 128
  MAX_COAP_OPTIONS_LEN = 128
  MAX_E_OPTIONS = 30
  MAX_OPTION_COUNT = 20
  Strays = {0, 35}
  OptionNumbers = {11}
  ValueLens = {1, 14}
  MaxOptions = 1
  PayloadLens = {1}
  TokenLens = {0}
  Headers <- GetOnly
  Messages <- MCMessages
  OscoreValue <- MCOscoreValue
SPECIFICATION Spec
INVARIANTS
  MessageRestored
