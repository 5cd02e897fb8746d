CONSTANTS
  Requests <- MCRequests
SPECIFICATION Spec
INVARIANT EveryOtherValueClamped
CHECK_DEADLOCK FALSE
