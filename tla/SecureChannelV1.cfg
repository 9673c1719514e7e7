SPECIFICATION Spec
CONSTANTS
  None = None
  MaxClients = 3
  MaxKeys = 2
  MaxPairings = 2
  MaxIVs = 9
INVARIANTS
  TypeOK
  InStep
  OpenIsAuthenticated
PROPERTIES
  UnpairsTheOthers
  CallsReturn
