SPECIFICATION Spec
CONSTANTS
  Captures = {1, 2}
  AutoTasks = {a1}
  Manuals = {m1}
  Cadence = 1
  Threshold = 2
  MaxCrashes = 0
  MaxToggles = 1
  MaxFaults = 0
  MaxObstacles = 0
INVARIANTS
  AutoFindsCaptures
CHECK_DEADLOCK FALSE
