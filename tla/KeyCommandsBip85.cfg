SPECIFICATION Spec
CONSTANTS
  Components = {a, b}
  MaxComponents = 2
  MaxDepth = 2
  None = None
INVARIANT
  Bip85AtGivenPath
