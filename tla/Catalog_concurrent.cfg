CONSTANTS
  Semester = {s1, s2, s3}
  Nrc = {n1, n2}
  Course = {c1, c2}
  Teacher = {t1}
  Student = {u1, u2}
  Slot = {w1}
  Request = {r1, r2}
  MaxSteps = 5
SPECIFICATION Spec
SYMMETRY Symmetry
CHECK_DEADLOCK FALSE
INVARIANTS
  CatalogTypeOK
  EnrolledTogether
  HeldExist
PROPERTIES
  FormsKeepNrcsUnambiguous
  RenamesSeparateNobody
  PastSemestersFrozen
  TwoActiveOnlyByCreation
