CONSTANTS
  User = {u1, u2}
  SYSTEM_ADMIN = SYSTEM_ADMIN
  Role = {SYSTEM_ADMIN}
  TTL = 1
  Pause = 1
  Request = {r1, r2}
  Ops = {"visit", "assign", "revoke", "activate", "deactivate", "delete"}
  MayFail = FALSE
SPECIFICATION Spec
SYMMETRY RequestsAndAccounts
INVARIANTS
  AnActiveAdmin
