CONSTANTS
  Email = {e1}
  SYSTEM_ADMIN = SYSTEM_ADMIN
  Role = {SYSTEM_ADMIN, TEACHER}
  Request = {r1, r2}
  Ops = {"login", "prepare"}
  MaxPreloads = 1
  MaxFaults = 0
SPECIFICATION Spec
PROPERTIES
  InitialAdminArrives
