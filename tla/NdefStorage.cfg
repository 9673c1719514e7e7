SPECIFICATION Spec
CONSTANTS
  Base = 7
  ChunkSize = 4
  Unit = 2
  Block = 1
  Header = 1
  Tag = 1
  Capacity = 13
  Contents = {1, 2}
  Lengths = {0, 2, 5, 6, 11, 12}
INVARIANTS
  TypeOK
  StoredWhole
  TornInOrder
  ChunksAreFramed
PROPERTY
  Returns
