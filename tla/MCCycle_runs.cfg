SPECIFICATION FairSpec
CONSTANTS
  Captures = {1, 2}
  AutoTasks = {a1, a2}
  Manuals = {m1}
  Cadence = 1
  Threshold = 1
  MaxCrashes = 1
  MaxToggles = 1
  MaxFaults = 1
  MaxObstacles = 1
INVARIANTS
  FlagGuardsTask
  SettledNotLive
  MailedIsSaved
  TwiceOnlyIfShared
PROPERTIES
  FlagReleased
  DueCycleCompletes
CHECK_DEADLOCK FALSE
