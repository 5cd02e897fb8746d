CONSTANTS
  Requests <- MCRequests
SPECIFICATION Spec
INVARIANTS
  NeverMisread
  RefusesOnlyTheIncomplete
  OnlyZeroOverZeroEscapesTheClamp
CHECK_DEADLOCK FALSE
