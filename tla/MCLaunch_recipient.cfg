SPECIFICATION Spec
CONSTANTS
  Cadences = {3, 5}
  DefaultCadence = 5
  HandCadences = {0}
  Hands <- MCHands
  DefaultHand <- ByDay
  Addresses = {e1}
  None = None
  Missing = Missing
  Torn = Torn
  MaxUsers = 1
  Days = {0}
  LastMinute = 1
  Titles <- MCTitles
  MaxFaults = 0
  MaxEdits = 0
  MaxCommands = 2
INVARIANTS
  RecipientKept
CHECK_DEADLOCK FALSE
