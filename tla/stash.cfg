CONSTANTS
  MaxCalls = 1
  MaxLevels = 1
  Ties = FALSE
  MaxBase = 1
SPECIFICATION Spec
INVARIANTS NoStashAnswered
CHECK_DEADLOCK FALSE
