CONSTANTS
  Objects = 2
  MaxSlots = 2
  MaxCalls = 1
  MaxDepth = 4
  Getters = TRUE
  Croaks = FALSE
  Temps <- MCTemps
  MaxLives = 2
SPECIFICATION SpecTemps
PROPERTIES NotConfused
CHECK_DEADLOCK FALSE
