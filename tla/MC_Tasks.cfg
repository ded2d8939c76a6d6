SPECIFICATION Spec
CHECK_DEADLOCK FALSE
CONSTANTS
  Series = {s1, s2}
  Recurring = {s1}
  Period = 1
  MaxTime = 2
  MaxOcc = 3
  MaxFails = 1
  MaxCrashes = 1
INVARIANTS NoLostWakeup NoFork RecurrenceGoesOn 
