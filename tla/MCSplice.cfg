CONSTANTS
  MaxBytes = 3
  Window = 2
SPECIFICATION SpliceSpec
INVARIANTS
  SpliceTypeOK
PROPERTIES
  KeepsDuplex
  EveryByteArrives
  HalfClosePassesOn
  ProxyEnds
CHECK_DEADLOCK FALSE
