CONSTANTS
  User = {u1, u2}
  SYSTEM_ADMIN = SYSTEM_ADMIN
  Role = {SYSTEM_ADMIN}
  TTL = 1
  Pause = 1
  Request = {r1, r2}
  Ops = {"visit", "revoke", "deactivate", "delete"}
  MayFail = TRUE
SPECIFICATION Spec
SYMMETRY RequestsAndAccounts
INVARIANTS
  CacheCatchesUp
  NoLateAdministration
  HistoryKeepsItsAuthors
