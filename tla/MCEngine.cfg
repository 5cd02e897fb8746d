CONSTANTS
  Lanes = 2
  SimdChunk = 4
  SimdTailPad = 2
  WordBits = 4
  UseSIMD = TRUE
  G = 50
  Sub = 2
  Inf = 2147483647
  K = 5
  Deny = 3
  CandK = 6
  MaxProbe = 3
  NList = 5
  Iters = 2
  KMeansSample = 4
  Procs = 2
  ParallelMin = 4
  Datasets <- AllDatasets
  Knobs <- AllKnobs
  Queries <- MCQueries
SPECIFICATION Spec
INVARIANTS
  SearchTypeOK
  NoRowOfferedTwice
  CollectsNearest
  ExactOverTheProbed
  CapOvershootsByLessThanACell
CHECK_DEADLOCK FALSE
