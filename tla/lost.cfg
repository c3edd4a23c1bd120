CONSTANTS
  MaxTimers = 2
  MaxExpiries = 2
  Ms = 2
  MinDelay = 2
  MinWait = 2
  MaxWait = 4
  Delays <- MCDelays
  Faults = {"throwError"}
  MaxId = 2
  Horizon = 2
  MaxClock = 9
SPECIFICATION Spec
INVARIANTS NothingLost
