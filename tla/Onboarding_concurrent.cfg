CONSTANTS
  Email = {e1, e2}
  SYSTEM_ADMIN = SYSTEM_ADMIN
  Role = {SYSTEM_ADMIN, TEACHER}
  Request = {r1, r2, r3}
  Ops = {"login", "preload", "cancel", "prepare", "administer"}
  MaxPreloads = 2
  MaxFaults = 1
SPECIFICATION Spec
SYMMETRY RequestsAndEmails
INVARIANTS
  TypeOK
  SpentOnce
  OneInitialPreload
PROPERTIES
  BornWithItsPreload
