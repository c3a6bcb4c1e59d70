CONSTANTS
  Semester = {s1}
  Nrc = {n1}
  Course = {c1, c2}
  Teacher = {t1}
  Student = {u1}
  Slot = {w1}
  Request = {r1}
  MaxSteps = 3
SPECIFICATION Spec
CHECK_DEADLOCK FALSE
INVARIANTS
  OneCoursePerNrc
