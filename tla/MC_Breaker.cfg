SPECIFICATION BreakerSpec
CHECK_DEADLOCK FALSE
CONSTANTS
  Calls = {c1, c2, c3}
  Impatient = {c2, c3}
  Threshold = 3
  MaxOpen = 5
  MaxFails = 7
INVARIANTS OpenIffThreshold StuckOnlyUnheard
