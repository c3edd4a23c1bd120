CONSTANTS
  Timers <- MCTimers
  MaxTimers = 4
SPECIFICATION Spec
INVARIANTS TypeOK SortedAtRest
PROPERTY BubbleComputed
