SPECIFICATION Spec
CONSTANTS
  Cadences = {3, 5}
  DefaultCadence = 5
  HandCadences = {0}
  Hands <- MCHands
  DefaultHand <- ByDay
  Addresses = {e1}
  None = None
  Missing = Missing
  Torn = Torn
  MaxUsers = 1
  Days = {0, 1}
  LastMinute = 2
  Titles <- MCTitles
  MaxFaults = 1
  MaxEdits = 1
  MaxCommands = 2
INVARIANTS
  TypeOK
  RecordedIsApplied
  LaunchesClean
  MemoryIsFile
  BlockedAsWritten
PROPERTIES
  HoursEndAtEnd
CHECK_DEADLOCK FALSE
