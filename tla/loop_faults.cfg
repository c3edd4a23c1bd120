CONSTANTS
  MaxTimers = 2
  MaxExpiries = 2
  Ms = 2
  MinDelay = 2
  MinWait = 2
  MaxWait = 4
  Delays <- MCDelaysNaN
  Faults <- AllFaults
  MaxId = 3
  Horizon = 1
  MaxClock = 5
SPECIFICATION Spec
INVARIANTS TypeOK ListSorted OneTimerPerId
PROPERTIES ClearedIsSilent OneShotOnce
