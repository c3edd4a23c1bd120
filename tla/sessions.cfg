CONSTANTS
  MaxTimers = 2
  Deaths = TRUE
  Resets = TRUE
  FirstHeaps = 1
  MaxHeaps = 2
  MaxId = 3
  MaxDepth = 3
SPECIFICATION Spec
INVARIANTS TypeOK OwnCallbacks OneTimerPerId
PROPERTIES ClearedIsSilent OneShotOnce
CHECK_DEADLOCK FALSE
