CONSTANTS
  Lanes = 2
  SimdChunk = 4
  SimdTailPad = 2
  WordBits = 4
  UseSIMD = TRUE
  G = 50
  Sub = 2
  NList = 3
  Iters = 2
  KMeansSample = 4
  MaxProbe = 2
  Procs = 3
  ParallelMin = 4
  Datasets <- MCDatasets
SPECIFICATION BuildSpec
INVARIANTS
  BuildTypeOK
  ChunksCoverTheRest
  RowsLieInTheirCell
  RowsPlacedOnceInOrder
  LayoutHoldsRows
PROPERTIES
  BuildCompletes
CHECK_DEADLOCK FALSE
