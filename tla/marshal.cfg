CONSTANTS
  Objects = 2
  MaxSlots = 2
  MaxCalls = 2
  MaxDepth = 4
  Getters = TRUE
  Croaks = TRUE
SPECIFICATION MCFairSpec
INVARIANTS TypeOK Whole CallsApart SharedOnce CyclesEnd
PROPERTIES Returns
CHECK_DEADLOCK FALSE
