SPECIFICATION Spec
CONSTANTS
  Recs = {r1}
  Actions = {implemented, maybe_later}
  Calls = {c1, c2}
  Ports = {p1, p2}
  Lifetime = 1
  Slack = 1
  Loses = {"action", "exp"}
  None = None
  Start = 3
  MaxClock = 5
  MaxBoots = 1
  MaxMints = 1
INVARIANTS
  TypeOK
  AnswerTellsCause
  OnlyGoodLinksReachTheRow
PROPERTIES
  ImplementsBoard
CHECK_DEADLOCK FALSE
