SPECIFICATION FairSpec
CONSTANTS
  Plans = {p1, p2}
  Pursuits = {p1, p2}
  Routines = {r1}
  Tasks = {t1}
  Cap = 1
  MaxSteps = 2
  MaxReplan = 2
  MaxItems = 2
  MaxFails = 1
  MaxCrashes = 1
INVARIANTS RunningOwned KilledStops 
 
