CONSTANTS
  MaxTimers = 2
  Deaths = FALSE
  Resets = TRUE
  FirstHeaps = 1
  MaxHeaps = 2
  MaxId = 2
  MaxDepth = 2
SPECIFICATION Spec
INVARIANTS ListDense
CHECK_DEADLOCK FALSE
