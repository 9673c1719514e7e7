SPECIFICATION Spec
CONSTANTS
  Pins <- MCPins
  Puks <- MCPuks
  Secrets <- MCSecrets
  PinLen = 1
  PukLen = 2
  SecretLen = 1
  Retries = {0, 1}
  DefaultLimit = 2
  None = None
INVARIANTS
  TypeOK
  PinIsKnown
  TriesAreTheCards
  InitAsAsked
