SPECIFICATION Spec
CONSTANTS
  Flows = {f1, f2}
  Callbacks = {k1, k2}
  Refreshes = {r1}
  Clears = {s1}
  None = None
  MaxWrites = 2
  MaxCrashes = 1
  MaxFaults = 1
INVARIANTS
  VerifierInOnePlace
  StoredTokenLive
  PairKept
  FlowsAreTold
PROPERTIES
  ConnectedHasToken
CHECK_DEADLOCK FALSE
