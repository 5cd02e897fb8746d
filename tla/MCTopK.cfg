CONSTANTS
  Cap = 3
  Inf = 9
  MaxOffers = 6
  Dists <- MCDists
SPECIFICATION Spec
INVARIANTS
  TypeOK
  NothingNearerLost
PROPERTIES
  WorstNeverGrows
  KeepsTheKSmallest
CHECK_DEADLOCK FALSE
