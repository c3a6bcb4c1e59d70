------------------------------ MODULE Catalog ------------------------------
(***************************************************************************)
(* The academic load of a semester.  A semester is a set of offerings,     *)
(* each known by its NRC, but no table holds them: an offering exists      *)
(* while a schedule, a teaching assignment or an enrollment names its NRC, *)
(* and all of them must name the same course.                              *)
(*                                                                         *)
(* The forms (courses, teachers, students, assistantships) are             *)
(* serializable transactions: each is one step here.  The CSV imports of   *)
(* the teaching load and the activation of a semester are read committed,  *)
(* and the workbook of hourly contracts is read before its transaction     *)
(* begins: they read in one step and commit in another, and anything       *)
(* happens between.  A file has one row, the names and codes of courses    *)
(* are the choice of a course, and a teaching assignment has at most one   *)
(* assistantship and one bundle of hourly contracts here.                  *)
(***************************************************************************)
EXTENDS Naturals, FiniteSets

CONSTANTS
  Semester, Nrc, Course, Teacher, Student,
  Slot,          \* a day and a block of the week
  Request,       \* the read-committed operations in course at a time
  MaxSteps       \* bound: operations begun in a behaviour

ASSUME CatalogAssumption == MaxSteps \in Nat

VARIABLES
  known, active,    \* the semesters, and those with isActive
  schedules,        \* CourseSchedule: <<semester, nrc, slot, course>>
  assignments,      \* TeachingAssignment: <<semester, nrc, course, teacher>>
  enrollments,      \* StudentEnrollment: <<semester, nrc, course, student>>
  contracts,        \* the assignments with hourly contracts
  assistantships,   \* the assignments with an assistantship
  call,             \* per request: what it read and will write, or Idle
  steps

semesterVars == <<known, active>>
heldVars == <<contracts, assistantships>>
loadVars == <<schedules, assignments, enrollments, heldVars>>
vars == <<semesterVars, loadVars, call, steps>>

\* swept: the semesters the updateMany of an activation found; knew (observed):
\* the semesters there were then.
Idle == [op |-> "idle"]
Call == [op : {"activate"}, sem : Semester, swept : SUBSET Semester, knew : SUBSET Semester]
   \cup [op : {"teacherLoad"}, sem : Semester, nrc : Nrc, course : Course, teacher : Teacher]
   \cup [op : {"scheduleLoad"}, sem : Semester, nrc : Nrc, course : Course, slot : Slot]
   \cup [op : {"hourly"}, sem : Semester, nrc : Nrc, teacher : Teacher]

CatalogTypeOK ==
  /\ known \subseteq Semester /\ active \subseteq known
  /\ schedules \subseteq Semester \X Nrc \X Slot \X Course
  /\ assignments \subseteq Semester \X Nrc \X Course \X Teacher
  /\ enrollments \subseteq Semester \X Nrc \X Course \X Student
  /\ \A x, y \in schedules : <<x[1], x[2], x[3]>> = <<y[1], y[2], y[3]>> => x = y
  /\ \A x, y \in enrollments : <<x[1], x[2], x[4]>> = <<y[1], y[2], y[4]>> => x = y
  /\ call \in [Request -> {Idle} \cup Call]
  /\ steps \in 0..MaxSteps

Init ==
  /\ known \in SUBSET Semester
  /\ active \in {A \in SUBSET known : Cardinality(A) = (IF known = {} THEN 0 ELSE 1)}
  /\ schedules = {} /\ assignments = {} /\ enrollments = {}
  /\ contracts = {} /\ assistantships = {}
  /\ call = [r \in Request |-> Idle]
  /\ steps = 0

-----------------------------------------------------------------------------
(* What the code reads.                                                    *)
AssignedCourses(s, n) == {a[3] : a \in {x \in assignments : x[1] = s /\ x[2] = n}}
ScheduledCourses(s, n) == {b[4] : b \in {x \in schedules : x[1] = s /\ x[2] = n}}
EnrolledCourses(s, n) == {e[3] : e \in {x \in enrollments : x[1] = s /\ x[2] = n}}

CoursesOf_Mut(s, n) == AssignedCourses(s, n) \cup ScheduledCourses(s, n)   \* students do not keep an offering alive
CoursesOf(s, n) == AssignedCourses(s, n) \cup ScheduledCourses(s, n) \cup EnrolledCourses(s, n)

Ambiguous(s, n) == \E c, d \in CoursesOf(s, n) : c # d
Offered(s) == {n \in Nrc : CoursesOf(s, n) # {}}
CourseOf(s, n) == CHOOSE c \in CoursesOf(s, n) : TRUE

Free_Mut(s, n) == ScheduledCourses(s, n) = {}   \* only the schedules are looked at
Free(s, n) == n \notin Offered(s)

\* A form names the semester it was loaded in.
Current_Mut(s) == active # {}   \* the semester of the form is taken as it comes
Current(s) == s \in active

\* loadCurrentCourses refuses the whole semester if one NRC of it has two courses.
CatalogOf(s) == Current(s) /\ \A n \in Nrc : ~Ambiguous(s, n)

\* resolveImportedCourse.  A coded row names its course; an uncoded one
\* follows the assignments of the NRC, or its schedules, or else names it too.
CourseOfRow(s, n, c, coded) ==
  IF coded THEN {c}
  ELSE IF AssignedCourses(s, n) # {} THEN AssignedCourses(s, n)
  ELSE IF ScheduledCourses(s, n) # {} THEN ScheduledCourses(s, n)
  ELSE {c}

-----------------------------------------------------------------------------
(* Forms on courses and teachers.                                          *)
Step == steps < MaxSteps /\ steps' = steps + 1
Form == Step /\ UNCHANGED <<semesterVars, call>>

Slots == SUBSET Slot \ {{}}

CreateCourse(s, n, c, ts) ==
  /\ Form
  /\ CatalogOf(s) /\ Free(s, n)
  /\ schedules' = schedules \cup {<<s, n, t, c>> : t \in ts}
  /\ UNCHANGED <<assignments, enrollments, heldVars>>

\* updateMany gives the rows of the offering their new NRC.
Renamed(rows, s, n, m) ==
  {IF x[1] = s /\ x[2] = n THEN <<s, m, x[3], x[4]>> ELSE x : x \in rows}

RenamedStudents_Mut(s, n, m) == enrollments   \* the enrollments keep the old NRC
RenamedStudents(s, n, m) == Renamed(enrollments, s, n, m)

\* The form of a course names no semester: whichever is active now.
UpdateCourse(s, n, m, ts) ==
  /\ Form
  /\ Current(s)
  /\ n \in Offered(s) /\ ~Ambiguous(s, n)
  /\ m # n => Free(s, m)
  /\ schedules' = {x \in schedules : x[1] # s \/ x[2] # n}
                    \cup {<<s, m, t, CourseOf(s, n)>> : t \in ts}
  /\ assignments' = Renamed(assignments, s, n, m)
  /\ enrollments' = RenamedStudents(s, n, m)
  /\ contracts' = Renamed(contracts, s, n, m)          \* they hang from the assignment
  /\ assistantships' = Renamed(assistantships, s, n, m)

\* removeAssignments, after the contracts the form omits are gone.
Removable_Mut(gone, held) == gone \cap held = {}   \* assistantships are not counted
Removable(gone, held) == gone \cap (held \cup assistantships) = {}

SetCourseTeachers(s, n, T) ==
  LET c == CourseOf(s, n)
      listed == {<<s, n, c, t>> : t \in T}
      gone == {a \in assignments : a[1] = s /\ a[2] = n /\ a[3] = c} \ listed
  IN /\ Form
     /\ CatalogOf(s) /\ n \in Offered(s)
     /\ Removable(gone, contracts)
     /\ assignments' = (assignments \ gone) \cup listed
     /\ UNCHANGED <<schedules, enrollments, heldVars>>

\* createTeacher and updateTeacher with the NRCs of the teacher (none is a list
\* too) and, if the form carries them (lines), the NRCs with a contract, which
\* replace the ones before.  A form that leaves the NRCs and the semester out
\* returns before it looks at the catalog and writes none of these tables: it
\* is no step here.  One that leaves out only one of the two is refused.
SaveTeacher(s, t, N, lines, H) ==
  LET own == {a \in assignments : a[1] = s /\ a[4] = t}
      listed == {<<s, n, CourseOf(s, n), t>> : n \in N}
      kept == IF lines THEN contracts \ own ELSE contracts
  IN /\ Form
     /\ CatalogOf(s) /\ N \subseteq Offered(s)
     /\ Removable(own \ listed, kept)
     /\ assignments' = (assignments \ own) \cup listed
     /\ contracts' = kept \cup (IF lines THEN {a \in listed : a[2] \in H} ELSE {})
     /\ UNCHANGED <<schedules, enrollments, assistantships>>

\* AssistantshipsService.save: any assignment will do, of any semester; an
\* update (from # {}) may move the assistantship to another one.
SaveAssistantship(from, a) ==
  /\ Form
  /\ a \in assignments \ (assistantships \ from)
  /\ assistantships' = (assistantships \ from) \cup {a}
  /\ UNCHANGED <<schedules, assignments, enrollments, contracts>>

-----------------------------------------------------------------------------
(* Students.                                                               *)
Enrolled(s, st) == {e[2] : e \in {x \in enrollments : x[1] = s /\ x[4] = st}}
NewEnrollments(s, st, N) == {<<s, n, CourseOf(s, n), st>> : n \in N \ Enrolled(s, st)}

SaveStudent(s, st, N) ==
  /\ Form
  /\ CatalogOf(s) /\ N \subseteq Offered(s)
  /\ enrollments' = {x \in enrollments : ~(x[1] = s /\ x[4] = st /\ x[2] \notin N)}
                      \cup NewEnrollments(s, st, N)
  /\ UNCHANGED <<schedules, assignments, heldVars>>

\* parseStudentCsv: a student has one row, with some NRC.
Rosters == UNION {[S -> SUBSET Nrc \ {{}}] : S \in SUBSET Student \ {{}}}

\* A roster adds, and never removes.
ImportStudents(s, roster) ==
  /\ Form
  /\ CatalogOf(s)
  /\ \A st \in DOMAIN roster : roster[st] \subseteq Offered(s)
  /\ enrollments' = enrollments \cup UNION {NewEnrollments(s, st, roster[st]) : st \in DOMAIN roster}
  /\ UNCHANGED <<schedules, assignments, heldVars>>

-----------------------------------------------------------------------------
(* Imports.                                                                *)
Begin(r, c) ==
  /\ Step
  /\ call[r] = Idle /\ call' = [call EXCEPT ![r] = c]
  /\ UNCHANGED <<semesterVars, loadVars>>

\* The complete rows of the three files: a row that lacks a field refuses its file.
TeacherLoadRow == Nrc \X Course \X Teacher    \* in a file of the active semester
TeacherRosterRow == Nrc \X Teacher            \* no column names the course
ScheduleRow == Nrc \X Course \X Slot

ReadTeacherLoad(r, s, row) ==
  /\ s \in active
  /\ \E coded \in BOOLEAN : \E c \in CourseOfRow(s, row[1], row[2], coded) :
       Begin(r, [op |-> "teacherLoad", sem |-> s, nrc |-> row[1], course |-> c, teacher |-> row[3]])

\* importTeacherRoster: the NRC must have a course.
ReadTeacherRoster(r, s, row) ==
  /\ s \in active
  /\ AssignedCourses(s, row[1]) \cup ScheduledCourses(s, row[1]) # {}
  /\ \E c \in Course : \E d \in CourseOfRow(s, row[1], c, FALSE) :
       Begin(r, [op |-> "teacherLoad", sem |-> s, nrc |-> row[1], course |-> d, teacher |-> row[2]])

ReadSchedules(r, s, row) ==
  /\ s \in active
  /\ \E c \in CourseOfRow(s, row[1], row[2], FALSE) :
       Begin(r, [op |-> "scheduleLoad", sem |-> s, nrc |-> row[1], course |-> c, slot |-> row[3]])

End(r) == call' = [call EXCEPT ![r] = Idle] /\ UNCHANGED steps

CommitTeacherLoad(r) ==
  LET c == call[r] IN
  /\ c.op = "teacherLoad" /\ End(r)
  /\ assignments' = assignments \cup {<<c.sem, c.nrc, c.course, c.teacher>>}
  /\ UNCHANGED <<semesterVars, schedules, enrollments, heldVars>>

\* The upsert of a slot replaces its course.
OtherSlots_Mut(c) == schedules   \* the row is inserted beside the one there
OtherSlots(c) == {x \in schedules : <<x[1], x[2], x[3]>> # <<c.sem, c.nrc, c.slot>>}

CommitSchedules(r) ==
  LET c == call[r] IN
  /\ c.op = "scheduleLoad" /\ End(r)
  /\ schedules' = OtherSlots(c) \cup {<<c.sem, c.nrc, c.slot, c.course>>}
  /\ UNCHANGED <<semesterVars, assignments, enrollments, heldVars>>

\* parseHourly and importHourly: the semester and the NRC are those of the
\* preview; the course is looked up again, students included, at the commit.
ReadHourly(r, s, n, t) ==
  /\ s \in active /\ n \in Offered(s)
  /\ Begin(r, [op |-> "hourly", sem |-> s, nrc |-> n, teacher |-> t])

CourseOfContract(s, n) ==
  IF ScheduledCourses(s, n) # {} THEN ScheduledCourses(s, n)
  ELSE IF AssignedCourses(s, n) # {} THEN AssignedCourses(s, n)
  ELSE EnrolledCourses(s, n)

CommitHourly(r) ==
  LET c == call[r] IN
  /\ c.op = "hourly" /\ End(r)
  /\ \E course \in CourseOfContract(c.sem, c.nrc) :
       LET a == <<c.sem, c.nrc, course, c.teacher>> IN
       assignments' = assignments \cup {a} /\ contracts' = contracts \cup {a}
  /\ UNCHANGED <<semesterVars, schedules, enrollments, assistantships>>

-----------------------------------------------------------------------------
(* Activation.                                                             *)
Activating == {r \in Request : call[r].op = "activate"}

\* The rows the updateMany of an activation sees when it starts.
Others_Mut(s) == active \ {s}   \* only the semester active now is switched off
Others(s) == known \ {s}

\* The upsert holds the semester's row, or its name if it is new, until the commit.
Upsert(r, s) ==
  /\ \A q \in Activating : call[q].sem # s
  /\ Begin(r, [op |-> "activate", sem |-> s, swept |-> Others(s), knew |-> known])

\* updateMany waits for the rows other activations hold; a semester that was
\* not committed when it started is not among its rows.
CommitActivation(r) ==
  LET c == call[r] IN
  /\ c.op = "activate"
  /\ \A q \in Activating : call[q].sem \notin c.swept
  /\ known' = known \cup {c.sem}
  /\ active' = (active \ c.swept) \cup {c.sem}
  /\ End(r) /\ UNCHANGED loadVars

\* A deadlock, a failed row or a lost connection rolls the request back.
RollBack(r) == call[r] # Idle /\ End(r) /\ UNCHANGED <<semesterVars, loadVars>>

-----------------------------------------------------------------------------
CourseForm(s) == \E n \in Nrc :
  \/ \E ts \in Slots : \/ \E c \in Course : CreateCourse(s, n, c, ts)
                       \/ \E m \in Nrc : UpdateCourse(s, n, m, ts)
  \/ \E T \in SUBSET Teacher : SetCourseTeachers(s, n, T)
TeacherForm(s) == \E t \in Teacher, N \in SUBSET Nrc, lines \in BOOLEAN :
  \E H \in SUBSET N : SaveTeacher(s, t, N, lines, H)
AssistantshipForm == \E a \in assignments, from \in {{}} \cup {{b} : b \in assistantships} :
  SaveAssistantship(from, a)
StudentForm(s) ==
  \/ \E st \in Student, N \in SUBSET Nrc : SaveStudent(s, st, N)
  \/ \E roster \in Rosters : ImportStudents(s, roster)
Import(r) ==
  \/ \E s \in Semester :
       \/ \E row \in TeacherLoadRow : ReadTeacherLoad(r, s, row)
       \/ \E row \in TeacherRosterRow : ReadTeacherRoster(r, s, row)
       \/ \E row \in ScheduleRow : ReadSchedules(r, s, row)
  \/ \E s \in Semester, n \in Nrc, t \in Teacher : ReadHourly(r, s, n, t)
  \/ CommitTeacherLoad(r) \/ CommitSchedules(r) \/ CommitHourly(r)
Activation(r) == (\E s \in Semester : Upsert(r, s)) \/ CommitActivation(r)

Next ==
  \/ \E s \in Semester : CourseForm(s) \/ TeacherForm(s) \/ StudentForm(s)
  \/ AssistantshipForm
  \/ \E r \in Request : Import(r) \/ Activation(r) \/ RollBack(r)

Spec == Init /\ [][Next]_vars

-----------------------------------------------------------------------------
(* The students of an NRC are in one course, whatever is imported over it: *)
(* an enrollment keeps the offering alive, so nobody takes the NRC for     *)
(* another course while students are in it (current-courses.ts).           *)
EnrolledTogether ==
  \A x, y \in enrollments : x[1] = y[1] /\ x[2] = y[2] => x[3] = y[3]

(* Contracts and assistantships hang from an assignment that exists: no    *)
(* form removes it under them, and a new NRC takes them along.             *)
HeldExist == contracts \cup assistantships \subseteq assignments

(* What the CSV imports break, nothing else can: only the commit of one of *)
(* them gives an NRC a second course.                                      *)
ByImport == \E r \in Request : call[r].op \in {"teacherLoad", "scheduleLoad"} /\ call'[r] = Idle
FormsKeepNrcsUnambiguous ==
  [][\A s \in Semester, n \in Nrc : ~Ambiguous(s, n) /\ Ambiguous(s, n)' => ByImport]_vars

(* Giving an offering another NRC separates nobody: each teacher of it has *)
(* the same students after as before, in every semester.                   *)
Classes ==
  {x \in Semester \X Course \X Teacher \X Student : \E n \in Nrc, c \in Course :
     <<x[1], n, x[2], x[3]>> \in assignments /\ <<x[1], n, c, x[4]>> \in enrollments}
RenamesSeparateNobody ==
  [][\A s \in Semester, n, m \in Nrc, ts \in Slots : UpdateCourse(s, n, m, ts) => Classes' = Classes]_vars

(* The load of a semester that is no longer active is history: only an     *)
(* import that read it while it was active still writes to it.             *)
RowsOf(rows, s) == {x \in rows : x[1] = s}
PastSemestersFrozen ==
  [][\A s \in Semester \ active :
       \/ \E r \in Request : call[r] # Idle /\ call[r].sem = s /\ call'[r] = Idle
       \/ /\ RowsOf(schedules, s)' = RowsOf(schedules, s)
          /\ RowsOf(assignments, s)' = RowsOf(assignments, s)
          /\ RowsOf(enrollments, s)' = RowsOf(enrollments, s)]_vars

(* Two activations at once leave one semester active, except when one of   *)
(* them creates its semester: only an activation during which a semester   *)
(* was created leaves one active beside its own.                           *)
TwoActiveOnlyByCreation ==
  [][(\E x, y \in active' : x # y) /\ active' # active =>
       \E r \in Activating : call'[r] = Idle /\ known' \ call[r].knew \notin {{}, {call[r].sem}}]_vars

(* What the code says of an offering: it is identified by its NRC          *)
(* (academic-management.service.ts).  It is not: a coded row of the        *)
(* teaching load, or two imports at once, give an NRC two courses.         *)
OneCoursePerNrc == \A s \in Semester, n \in Nrc : ~Ambiguous(s, n)
=============================================================================
