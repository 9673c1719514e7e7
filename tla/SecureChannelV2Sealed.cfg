\* A sealed body handed over as the answer (expected to be violated).
SPECIFICATION Spec
CONSTANTS
  Cards = {c1}
  None = None
  NonceModulus = 3
  MaxKeys = 2
  MaxCmds = 3
INVARIANT
  NeverReturnsSealedBody
