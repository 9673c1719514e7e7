SPECIFICATION Spec
CONSTANTS
  Base = 12
  Half = 6
  Version1 = 3
  MaxName = 2
  MaxRange = 5
  MaxTotal = 5
  Ids <- MCIds
  Names <- MCNames
  Blobs <- MCBlobs
INVARIANTS
  TypeOK
  RoundTrip
  OnlyWideOnesAreLost
  Bounded
