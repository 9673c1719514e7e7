SPECIFICATION Spec
CONSTANTS
  Cards = {c1, c2}
  None = None
  NonceModulus = 3
  MaxKeys = 3
  MaxCmds = 4
SYMMETRY CardSymmetry
INVARIANTS
  TypeOK
  NonceNeverReused
  NonceDecryptedOnce
  InStep
PROPERTIES
  OpensWithItsCard
  KeepsSession
