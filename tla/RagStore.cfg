SPECIFICATION Spec
CONSTANTS
  Requests = {r1, r2, r3}
  None = None
  Texts <- SomeTexts
  Chunkings <- SomeChunkings
  Ks = {1, 2}
  Distances = {0, 1}
  BatchSize = 2
  MaxChunks = 4
  MaxTrouble = 2
SYMMETRY Symmetry
INVARIANTS
  TypeOK
  UploadsAreAtomic
  SearchesAreExact
  VisibleTextIsStored
  LegacyIsRefused
PROPERTY StoreIsAtomic
CHECK_DEADLOCK FALSE
