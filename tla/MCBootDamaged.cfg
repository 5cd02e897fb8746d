CONSTANTS
  Records = {"r1", "r2"}
  Dims = 1
  Buckets = 1
  SimdTailPad = 1
  WordBits = 2
  Lengths = {0, 2}
  Huge = 99
  Nil = Nil
  NLists = {1}
  MaxBuilds = 1
  MaxNoise = 1
  BuilderFiles <- MCBuilderFiles
  ApiFiles <- MCApiFiles
SPECIFICATION Spec
INVARIANT NoCrash
CHECK_DEADLOCK FALSE
