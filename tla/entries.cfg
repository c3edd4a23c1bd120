CONSTANTS
  MaxCalls = 4
  MaxLevels = 2
  Ties = TRUE
  MaxBase = 1
SPECIFICATION Spec
CONSTRAINT Small
INVARIANTS TypeOK OwnAnswer Balanced
PROPERTIES BelowKept
CHECK_DEADLOCK FALSE
