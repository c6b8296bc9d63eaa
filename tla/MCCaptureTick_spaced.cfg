SPECIFICATION SpacedSpec
CONSTANTS
  Ticks = {t1, t2, t3}
  None = None
  MaxSecond = 2
  MaxChanges = 1
  MaxCrashes = 1
INVARIANTS
  EvidenceKept
  BarredShotsExplained
PROPERTIES
  KeepsLedger
CHECK_DEADLOCK FALSE
SYMMETRY TickSymmetry
