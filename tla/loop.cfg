CONSTANTS
  MaxTimers = 2
  MaxExpiries = 1
  Ms = 2
  MinDelay = 2
  MinWait = 2
  MaxWait = 4
  Delays <- MCDelays
  Faults = {"die"}
  MaxId = 3
  Horizon = 2
  MaxClock = 7
SPECIFICATION FairSpec
INVARIANTS CallbackStored CallbackDeleted NothingLost SleepFits
PROPERTIES KeepsPromise AllDispatched TrueMeansFound
