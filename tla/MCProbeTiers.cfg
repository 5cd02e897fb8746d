CONSTANTS
  NList = 5
  MaxProbe = 4
  NProbe = 2
  NProbeHigh = 4
  Inf = 9
  CentroidDists <- MCDists
SPECIFICATION TiersSpec
INVARIANTS
  PrefixStable
  NoCellScannedTwice
  RanksFilled
PROPERTIES
  EscalationIsFreshScan
CHECK_DEADLOCK FALSE
