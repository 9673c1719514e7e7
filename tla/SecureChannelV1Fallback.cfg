\* Plaintext after protected traffic (expected to be violated).
SPECIFICATION Spec
CONSTANTS
  None = None
  MaxClients = 2
  MaxKeys = 2
  MaxPairings = 2
  MaxIVs = 7
INVARIANT
  RefusesAfterTraffic
