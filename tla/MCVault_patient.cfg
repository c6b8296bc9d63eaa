SPECIFICATION PatientSpec
CONSTANTS
  Dek = Dek
  Link = Link
  UserAccounts = {Api}
  Boot = Boot
  Users = {u1}
  Captures = {c0, c1}
  OldCaptures = {c0}
  None = None
  Torn = Torn
  MaxIds = 7
  MaxLapses = 2
  MaxCrashes = 2
INVARIANTS
  SecretsStable
  CapturesReadable
  SavedReadable
  FilesDecrypt
  NeverStale
CHECK_DEADLOCK FALSE
