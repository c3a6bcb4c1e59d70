CONSTANTS
  User = {x1, x2, x3}
  SYSTEM_ADMIN = SYSTEM_ADMIN
  Role = {SYSTEM_ADMIN, SECRETARY}
  TTL = 1
  Pause = 0
  Request = {r1}
  Ops = {"assign", "activate", "revoke", "deactivate", "delete"}
  MayFail = FALSE
  LastDay <- TwoMonths
  PayDay = {1, 28, 31}
  Rate = {z1, z2}
  Key = {k1, k2}
  Contract = {y1, y2}
  Value = {7, 31}
  Id = {y1, y2}
  Assistant = {as1}
  Assignment = {"a1", "a2"}
  CourseOfAssignment <- TwoCourses
  Today = {1, 2, 3, 4}
  SemesterDays = {2, 3}
  WeeklySlot <- ThreeSlots
  Project = {p1}
  Research = {q1}
  Output = {o1}
  Person = {a1}
  Editor = {z1, z2}
  NoProject = NoProject
  NoResearch = NoResearch
  MaxVersion = 2
  Spelled = {"x", "X"}
  Fold <- Lower
  Code = {"x", "X"}
  Title = {"x", "X"}
  Unit = {y1, y2}
  Doi = {"x", "X"}
  OutputTitle = {"x"}
  Line = {6, 7}
  Sheet = {1, 2}
  NoRut = NoRut
  Rut = {y1}
  Email = {z1, z2}
  Nrc = {m1}
  Course = {w1, w2}
  Section = {l1, l2}
  NoCode = NoCode
  NoDoi = NoDoi
  Blank = Blank
SPECIFICATION ServicesSpec
SYMMETRY Symmetry
CHECK_DEADLOCK FALSE
INVARIANTS
  ServicesTypeOK
  ServedAlone
  PaymentsAddUp
  NobodyIsInTwoPlaces
  LinksResolve
  ImportedOnceHere
PROPERTIES
  KeptRateKeepsItsValue
  OverwritesWhatItShowed
