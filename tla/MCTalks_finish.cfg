SPECIFICATION Spec
CONSTANTS
  Calls = {c1, c2}
  None = None
  MaxTalks = 3
  MaxReplies = 1
  MaxFaults = 1
  MaxReloads = 1
INVARIANTS
  TypeOK
  AnsweredAsAsked
  FinishedIsGone
  FinishesWhatWasShown
PROPERTIES
  CommandReturns
CHECK_DEADLOCK FALSE
