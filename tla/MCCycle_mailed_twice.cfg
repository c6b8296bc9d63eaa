SPECIFICATION Spec
CONSTANTS
  Captures = {1}
  AutoTasks = {a1}
  Manuals = {m1}
  Cadence = 1
  Threshold = 1
  MaxCrashes = 0
  MaxToggles = 1
  MaxFaults = 0
  MaxObstacles = 0
INVARIANTS
  MailedOnce
CHECK_DEADLOCK FALSE
