CONSTANTS
  NumBackends = 2
  Wrap = 4
  MaxConns = 4
  MaxOutages = 2
SPECIFICATION Spec
INVARIANTS
  BalancerTypeOK
  DropsOnlyIfBothMissed
PROPERTIES
  EveryClientSettles
CHECK_DEADLOCK FALSE
