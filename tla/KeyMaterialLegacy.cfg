SPECIFICATION MaterialSpec
CONSTANTS
  Components = {a, b}
  MaxComponents = 1
  MaxDepth = 3
  None = None
  Other = Other
  Seeds = {s1}
  Issuers = {c1, c2}
  Indexes = {1, 256}
  IntegerSizes = {31, 32}
INVARIANTS
  LegacySignaturesParse
