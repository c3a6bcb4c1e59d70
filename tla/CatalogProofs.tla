---------------------------- MODULE CatalogProofs ---------------------------
(***************************************************************************)
(* Proofs about Catalog, for every set of semesters, NRCs, courses, people *)
(* and slots, and any number of requests at once.                          *)
(***************************************************************************)
EXTENDS Catalog, TLAPS

\* CatalogTypeOK, part by part.
RowsOK ==
  /\ schedules \subseteq Semester \X Nrc \X Slot \X Course
  /\ assignments \subseteq Semester \X Nrc \X Course \X Teacher
  /\ enrollments \subseteq Semester \X Nrc \X Course \X Student
SlotsOnce == \A x, y \in schedules : <<x[1], x[2], x[3]>> = <<y[1], y[2], y[3]>> => x = y
EnrolledOnce == \A x, y \in enrollments : <<x[1], x[2], x[4]>> = <<y[1], y[2], y[4]>> => x = y
ControlOK ==
  /\ known \subseteq Semester /\ active \subseteq known
  /\ call \in [Request -> {Idle} \cup Call]
  /\ steps \in 0..MaxSteps

LEMMA TypeParts == CatalogTypeOK <=> RowsOK /\ SlotsOnce /\ EnrolledOnce /\ ControlOK
BY DEF CatalogTypeOK, RowsOK, SlotsOnce, EnrolledOnce, ControlOK

-----------------------------------------------------------------------------
(* The operators.                                                          *)

LEMMA FourColumns ==
  ASSUME NEW A, NEW B, NEW C, NEW D, NEW x \in A \X B \X C \X D
  PROVE  /\ x = <<x[1], x[2], x[3], x[4]>>
         /\ x[1] \in A /\ x[2] \in B /\ x[3] \in C /\ x[4] \in D
OBVIOUS

\* The courses of an NRC are those its rows name.
LEMMA CoursesNamed ==
  ASSUME NEW s, NEW n, NEW c
  PROVE  c \in CoursesOf(s, n) <=>
           \/ \E a \in assignments : a[1] = s /\ a[2] = n /\ a[3] = c
           \/ \E b \in schedules : b[1] = s /\ b[2] = n /\ b[4] = c
           \/ \E e \in enrollments : e[1] = s /\ e[2] = n /\ e[3] = c
BY DEF CoursesOf, AssignedCourses, ScheduledCourses, EnrolledCourses

LEMMA CoursesTyped == ASSUME RowsOK, NEW s, NEW n PROVE CoursesOf(s, n) \subseteq Course
<1> SUFFICES ASSUME NEW c \in CoursesOf(s, n) PROVE c \in Course
  OBVIOUS
<1>1. CASE \E a \in assignments : a[1] = s /\ a[2] = n /\ a[3] = c
  BY <1>1, FourColumns DEF RowsOK
<1>2. CASE \E b \in schedules : b[1] = s /\ b[2] = n /\ b[4] = c
  BY <1>2, FourColumns DEF RowsOK
<1>3. CASE \E e \in enrollments : e[1] = s /\ e[2] = n /\ e[3] = c
  BY <1>3, FourColumns DEF RowsOK
<1>4. QED BY <1>1, <1>2, <1>3, CoursesNamed

LEMMA CourseOffered ==
  ASSUME RowsOK, NEW s, NEW n, n \in Offered(s)
  PROVE  n \in Nrc /\ CourseOf(s, n) \in CoursesOf(s, n) /\ CourseOf(s, n) \in Course
<1>1. n \in Nrc /\ \E c \in CoursesOf(s, n) : TRUE BY DEF Offered
<1>2. CourseOf(s, n) \in CoursesOf(s, n) BY <1>1 DEF CourseOf
<1>3. QED BY <1>1, <1>2, CoursesTyped

\* An NRC that is free has no row.
LEMMA FreeHasNoRow ==
  ASSUME NEW s, NEW n \in Nrc, Free(s, n)
  PROVE  /\ \A a \in assignments : ~(a[1] = s /\ a[2] = n)
         /\ \A b \in schedules : ~(b[1] = s /\ b[2] = n)
         /\ \A e \in enrollments : ~(e[1] = s /\ e[2] = n)
<1>1. \A c : c \notin CoursesOf(s, n) BY DEF Free, Offered
<1>2. \A a \in assignments : a[1] = s /\ a[2] = n => a[3] \in CoursesOf(s, n)
  BY CoursesNamed
<1>3. \A b \in schedules : b[1] = s /\ b[2] = n => b[4] \in CoursesOf(s, n)
  BY CoursesNamed
<1>4. \A e \in enrollments : e[1] = s /\ e[2] = n => e[3] \in CoursesOf(s, n)
  BY CoursesNamed
<1>5. QED BY <1>1, <1>2, <1>3, <1>4

LEMMA RenamedRows ==
  ASSUME NEW rows, NEW s, NEW n, NEW m, NEW y
  PROVE  y \in Renamed(rows, s, n, m) <=>
           \/ \E x \in rows : x[1] = s /\ x[2] = n /\ y = <<s, m, x[3], x[4]>>
           \/ y \in rows /\ ~(y[1] = s /\ y[2] = n)
BY DEF Renamed

LEMMA RenamedTyped ==
  ASSUME NEW C, NEW D, NEW s \in Semester, NEW n, NEW m \in Nrc,
         NEW rows \in SUBSET (Semester \X Nrc \X C \X D)
  PROVE  Renamed(rows, s, n, m) \subseteq Semester \X Nrc \X C \X D
<1> SUFFICES ASSUME NEW y \in Renamed(rows, s, n, m) PROVE y \in Semester \X Nrc \X C \X D
  OBVIOUS
<1>1. CASE \E x \in rows : x[1] = s /\ x[2] = n /\ y = <<s, m, x[3], x[4]>>
  <2>1. PICK x \in rows : x[1] = s /\ x[2] = n /\ y = <<s, m, x[3], x[4]>> BY <1>1
  <2>2. x \in Semester \X Nrc \X C \X D OBVIOUS
  <2>3. x[3] \in C /\ x[4] \in D BY <2>2, FourColumns
  <2>4. QED BY <2>1, <2>3
<1>2. CASE y \in rows BY <1>2
<1>3. QED BY <1>1, <1>2, RenamedRows

-----------------------------------------------------------------------------
(* What the steps do to the enrollments: nothing, the renaming of an       *)
(* offering, or rows of students for offerings they were not in, in a      *)
(* semester whose NRCs all have one course.                                *)
Enrolling(s) ==
  /\ CatalogOf(s)
  /\ \A e \in enrollments' : e \in enrollments \/
       /\ e = <<s, e[2], CourseOf(s, e[2]), e[4]>>
       /\ e[2] \in Offered(s) /\ e[4] \in Student /\ e[2] \notin Enrolled(s, e[4])

EnrollmentsMove ==
  \/ UNCHANGED enrollments
  \/ \E s \in Semester, n, m \in Nrc :
       /\ enrollments' = Renamed(enrollments, s, n, m)
       /\ m # n => Free(s, m)
  \/ \E s \in Semester : Enrolling(s)

LEMMA NewRows ==
  ASSUME NEW s, NEW st, NEW N, NEW e \in NewEnrollments(s, st, N)
  PROVE  e = <<s, e[2], CourseOf(s, e[2]), st>> /\ e[2] \in N /\ e[2] \notin Enrolled(s, st)
BY DEF NewEnrollments

LEMMA SaveEnrolls ==
  ASSUME NEW s, NEW st \in Student, NEW N, SaveStudent(s, st, N) PROVE Enrolling(s)
<1>1. CatalogOf(s) /\ N \subseteq Offered(s) BY DEF SaveStudent
<1>2. \A e \in enrollments' : e \in enrollments \/ e \in NewEnrollments(s, st, N)
  BY DEF SaveStudent
<1>3. ASSUME NEW e \in NewEnrollments(s, st, N)
      PROVE  /\ e = <<s, e[2], CourseOf(s, e[2]), e[4]>>
             /\ e[2] \in Offered(s) /\ e[4] \in Student /\ e[2] \notin Enrolled(s, e[4])
  <2>1. e = <<s, e[2], CourseOf(s, e[2]), st>> /\ e[2] \in N /\ e[2] \notin Enrolled(s, st)
    BY <1>3, NewRows
  <2>2. e[4] = st BY <2>1
  <2>3. QED BY <1>1, <2>1, <2>2
<1>4. QED BY <1>1, <1>2, <1>3 DEF Enrolling

LEMMA RosterEnrolls ==
  ASSUME NEW s, NEW roster \in Rosters, ImportStudents(s, roster) PROVE Enrolling(s)
<1>1. CatalogOf(s) /\ \A st \in DOMAIN roster : roster[st] \subseteq Offered(s)
  BY DEF ImportStudents
<1>2. \A e \in enrollments' : e \in enrollments \/
        \E st \in DOMAIN roster : e \in NewEnrollments(s, st, roster[st])
  BY DEF ImportStudents
<1>3. DOMAIN roster \subseteq Student BY DEF Rosters
<1>4. ASSUME NEW st \in DOMAIN roster, NEW e \in NewEnrollments(s, st, roster[st])
      PROVE  /\ e = <<s, e[2], CourseOf(s, e[2]), e[4]>>
             /\ e[2] \in Offered(s) /\ e[4] \in Student /\ e[2] \notin Enrolled(s, e[4])
  <2>1. /\ e = <<s, e[2], CourseOf(s, e[2]), st>>
        /\ e[2] \in roster[st] /\ e[2] \notin Enrolled(s, st)
    BY <1>4, NewRows
  <2>2. e[4] = st BY <2>1
  <2>3. QED BY <1>1, <1>3, <2>1, <2>2
<1>5. QED BY <1>1, <1>2, <1>4 DEF Enrolling

LEMMA EnrollmentsStep == ASSUME [Next]_vars PROVE EnrollmentsMove
<1>1. CASE UNCHANGED vars BY <1>1 DEF vars, loadVars, EnrollmentsMove
<1>2. ASSUME NEW s \in Semester, CourseForm(s) PROVE EnrollmentsMove
  <2>1. ASSUME NEW n \in Nrc, NEW m \in Nrc, NEW ts, UpdateCourse(s, n, m, ts)
        PROVE  EnrollmentsMove
    BY <2>1 DEF UpdateCourse, RenamedStudents, EnrollmentsMove
  <2>2. QED BY <1>2, <2>1 DEF CourseForm, CreateCourse, SetCourseTeachers, EnrollmentsMove
<1>3. ASSUME NEW s \in Semester, StudentForm(s) PROVE EnrollmentsMove
  BY <1>3, SaveEnrolls, RosterEnrolls DEF StudentForm, EnrollmentsMove
<1>4. ASSUME NEW s \in Semester, TeacherForm(s) PROVE UNCHANGED enrollments
  BY <1>4 DEF TeacherForm, SaveTeacher
<1>5. AssistantshipForm => UNCHANGED enrollments
  BY DEF AssistantshipForm, SaveAssistantship
<1>6. ASSUME NEW r \in Request, Import(r) \/ Activation(r) \/ RollBack(r)
      PROVE  UNCHANGED enrollments
  BY <1>6 DEF Import, Activation, RollBack, ReadTeacherLoad, ReadTeacherRoster, ReadSchedules,
     ReadHourly, Begin, CommitTeacherLoad, CommitSchedules, CommitHourly, Upsert,
     CommitActivation, loadVars
<1>7. QED BY <1>1, <1>2, <1>3, <1>4, <1>5, <1>6 DEF Next, EnrollmentsMove

\* Two rows of one NRC after a renaming were two rows of one NRC before.
LEMMA RenamedPair ==
  ASSUME NEW s, NEW n, NEW m, NEW rows,
         \A e \in rows : e = <<e[1], e[2], e[3], e[4]>>,
         m # n => \A e \in rows : ~(e[1] = s /\ e[2] = m),
         NEW x \in Renamed(rows, s, n, m), NEW y \in Renamed(rows, s, n, m),
         x[1] = y[1], x[2] = y[2]
  PROVE  /\ x = <<x[1], x[2], x[3], x[4]>> /\ y = <<y[1], y[2], y[3], y[4]>>
         /\ \E p, q \in rows : /\ p[1] = q[1] /\ p[2] = q[2]
                              /\ p[3] = x[3] /\ p[4] = x[4]
                              /\ q[3] = y[3] /\ q[4] = y[4]
<1>x. \/ \E p \in rows : p[1] = s /\ p[2] = n /\ x = <<s, m, p[3], p[4]>>
      \/ x \in rows /\ ~(x[1] = s /\ x[2] = n)
  BY RenamedRows
<1>y. \/ \E q \in rows : q[1] = s /\ q[2] = n /\ y = <<s, m, q[3], q[4]>>
      \/ y \in rows /\ ~(y[1] = s /\ y[2] = n)
  BY RenamedRows
<1>2. x = <<x[1], x[2], x[3], x[4]>> /\ y = <<y[1], y[2], y[3], y[4]>>
  BY <1>x, <1>y
<1>3. ASSUME NEW p \in rows, p[1] = s, p[2] = n, x = <<s, m, p[3], p[4]>>,
             y \in rows, ~(y[1] = s /\ y[2] = n)
      PROVE  FALSE
  <2>1. y[1] = s /\ y[2] = m BY <1>3
  <2>2. QED BY <1>3, <2>1
<1>4. ASSUME NEW q \in rows, q[1] = s, q[2] = n, y = <<s, m, q[3], q[4]>>,
             x \in rows, ~(x[1] = s /\ x[2] = n)
      PROVE  FALSE
  <2>1. x[1] = s /\ x[2] = m BY <1>4
  <2>2. QED BY <1>4, <2>1
<1>5. QED BY <1>x, <1>y, <1>2, <1>3, <1>4

\* EnrolledOnce and EnrolledTogether need no more than that.
LEMMA EnrolledOnceKept ==
  ASSUME RowsOK, EnrolledOnce, EnrollmentsMove PROVE EnrolledOnce'
<1>1. CASE UNCHANGED enrollments BY <1>1 DEF EnrolledOnce
<1>2. CASE \E s \in Semester, n, m \in Nrc :
             enrollments' = Renamed(enrollments, s, n, m) /\ (m # n => Free(s, m))
  <2>1. PICK s \in Semester, n \in Nrc, m \in Nrc :
          enrollments' = Renamed(enrollments, s, n, m) /\ (m # n => Free(s, m))
    BY <1>2
  <2>2. m # n => \A e \in enrollments : ~(e[1] = s /\ e[2] = m)
    BY <2>1, FreeHasNoRow
  <2>3. ASSUME NEW x \in enrollments', NEW y \in enrollments', x[1] = y[1], x[2] = y[2], x[4] = y[4]
        PROVE  x = y
    <3>0. /\ \A e \in enrollments : e = <<e[1], e[2], e[3], e[4]>>
          /\ x \in Renamed(enrollments, s, n, m) /\ y \in Renamed(enrollments, s, n, m)
      BY <2>1, <2>3, FourColumns DEF RowsOK
    <3>1. /\ x = <<x[1], x[2], x[3], x[4]>> /\ y = <<y[1], y[2], y[3], y[4]>>
          /\ \E p, q \in enrollments : /\ p[1] = q[1] /\ p[2] = q[2]
                                      /\ p[3] = x[3] /\ p[4] = x[4]
                                      /\ q[3] = y[3] /\ q[4] = y[4]
      BY ONLY <2>2, <2>3, <3>0, RenamedPair
    <3>2. QED BY <2>3, <3>1 DEF EnrolledOnce
  <2>4. QED BY <2>3 DEF EnrolledOnce
<1>3. CASE \E s \in Semester : Enrolling(s)
  <2>1. PICK s \in Semester : Enrolling(s) BY <1>3
  <2>2. ASSUME NEW x \in enrollments', NEW y \in enrollments',
               x[1] = y[1], x[2] = y[2], x[4] = y[4], x \notin enrollments
        PROVE  x = y
    <3>1. /\ x = <<s, x[2], CourseOf(s, x[2]), x[4]>> /\ x[2] \notin Enrolled(s, x[4])
      BY <2>1, <2>2 DEF Enrolling
    <3>2. y \notin enrollments BY <2>2, <3>1 DEF Enrolled
    <3>3. y = <<s, y[2], CourseOf(s, y[2]), y[4]>> BY <2>1, <2>2, <3>2 DEF Enrolling
    <3>4. QED BY <2>2, <3>1, <3>3
  <2>3. ASSUME NEW x \in enrollments', NEW y \in enrollments',
               x[1] = y[1], x[2] = y[2], x[4] = y[4]
        PROVE  x = y
    <3>1. CASE x \notin enrollments BY <2>2, <2>3, <3>1
    <3>2. CASE y \notin enrollments BY <2>2, <2>3, <3>2
    <3>3. CASE x \in enrollments /\ y \in enrollments BY <2>3, <3>3 DEF EnrolledOnce
    <3>4. QED BY <3>1, <3>2, <3>3
  <2>4. QED BY <2>3 DEF EnrolledOnce
<1>4. QED BY <1>1, <1>2, <1>3 DEF EnrollmentsMove

LEMMA EnrolledTogetherKept ==
  ASSUME RowsOK, EnrolledTogether, EnrollmentsMove PROVE EnrolledTogether'
<1>1. CASE UNCHANGED enrollments BY <1>1 DEF EnrolledTogether
<1>2. CASE \E s \in Semester, n, m \in Nrc :
             enrollments' = Renamed(enrollments, s, n, m) /\ (m # n => Free(s, m))
  <2>1. PICK s \in Semester, n \in Nrc, m \in Nrc :
          enrollments' = Renamed(enrollments, s, n, m) /\ (m # n => Free(s, m))
    BY <1>2
  <2>2. m # n => \A e \in enrollments : ~(e[1] = s /\ e[2] = m)
    BY <2>1, FreeHasNoRow
  <2>3. ASSUME NEW x \in enrollments', NEW y \in enrollments', x[1] = y[1], x[2] = y[2]
        PROVE  x[3] = y[3]
    <3>0. /\ \A e \in enrollments : e = <<e[1], e[2], e[3], e[4]>>
          /\ x \in Renamed(enrollments, s, n, m) /\ y \in Renamed(enrollments, s, n, m)
      BY <2>1, <2>3, FourColumns DEF RowsOK
    <3>1. /\ x = <<x[1], x[2], x[3], x[4]>> /\ y = <<y[1], y[2], y[3], y[4]>>
          /\ \E p, q \in enrollments : /\ p[1] = q[1] /\ p[2] = q[2]
                                      /\ p[3] = x[3] /\ p[4] = x[4]
                                      /\ q[3] = y[3] /\ q[4] = y[4]
      BY ONLY <2>2, <2>3, <3>0, RenamedPair
    <3>2. QED BY <2>3, <3>1 DEF EnrolledTogether
  <2>4. QED BY <2>3 DEF EnrolledTogether
<1>3. CASE \E s \in Semester : Enrolling(s)
  <2>1. PICK s \in Semester : Enrolling(s) BY <1>3
  <2>2. ASSUME NEW x \in enrollments', NEW y \in enrollments',
               x[1] = y[1], x[2] = y[2], x \notin enrollments
        PROVE  x[3] = y[3]
    <3>1. x = <<s, x[2], CourseOf(s, x[2]), x[4]>> /\ x[2] \in Offered(s)
      BY <2>1, <2>2 DEF Enrolling
    <3>2. x[2] \in Nrc /\ CourseOf(s, x[2]) \in CoursesOf(s, x[2]) BY <3>1, CourseOffered
    <3>3. ASSUME y \in enrollments PROVE x[3] = y[3]
      <4>1. y[3] \in CoursesOf(s, x[2]) BY <2>2, <3>1, <3>3, CoursesNamed
      <4>2. y[3] = CourseOf(s, x[2])
        BY <2>1, <3>2, <4>1 DEF Enrolling, CatalogOf, Ambiguous
      <4>3. QED BY <3>1, <4>2
    <3>4. ASSUME y \notin enrollments PROVE x[3] = y[3]
      <4>1. y = <<s, y[2], CourseOf(s, y[2]), y[4]>> BY <2>1, <2>2, <3>4 DEF Enrolling
      <4>2. QED BY <2>2, <3>1, <4>1
    <3>5. QED BY <3>3, <3>4
  <2>3. ASSUME NEW x \in enrollments', NEW y \in enrollments', x[1] = y[1], x[2] = y[2]
        PROVE  x[3] = y[3]
    <3>1. CASE x \notin enrollments BY <2>2, <2>3, <3>1
    <3>2. CASE y \notin enrollments BY <2>2, <2>3, <3>2
    <3>3. CASE x \in enrollments /\ y \in enrollments BY <2>3, <3>3 DEF EnrolledTogether
    <3>4. QED BY <3>1, <3>2, <3>3
  <2>4. QED BY <2>3 DEF EnrolledTogether
<1>4. QED BY <1>1, <1>2, <1>3 DEF EnrollmentsMove

-----------------------------------------------------------------------------
(* What the requests carry, and what the steps do to the timetable, to the *)
(* assignments and to what hangs from them.                                *)
LEMMA CallKinds ==
  ASSUME ControlOK, NEW r \in Request
  PROVE  /\ call[r].op = "activate" =>
              call[r] \in [op : {"activate"}, sem : Semester, swept : SUBSET Semester, knew : SUBSET Semester]
         /\ call[r].op = "teacherLoad" =>
              call[r] \in [op : {"teacherLoad"}, sem : Semester, nrc : Nrc, course : Course, teacher : Teacher]
         /\ call[r].op = "scheduleLoad" =>
              call[r] \in [op : {"scheduleLoad"}, sem : Semester, nrc : Nrc, course : Course, slot : Slot]
         /\ call[r].op = "hourly" =>
              call[r] \in [op : {"hourly"}, sem : Semester, nrc : Nrc, teacher : Teacher]
<1>1. call[r] \in {Idle} \cup Call BY DEF ControlOK
<1>2. QED BY <1>1 DEF Idle, Call

Timetable(s, n, m, c, ts) ==
  /\ m # n => Free(s, m)
  /\ schedules' = {x \in schedules : x[1] # s \/ x[2] # n} \cup {<<s, m, t, c>> : t \in ts}

SchedulesMove ==
  \/ UNCHANGED schedules
  \/ \E s \in Semester, n, m \in Nrc, c \in Course, ts \in Slots : Timetable(s, n, m, c, ts)
  \/ \E r \in Request : CommitSchedules(r)

LEMMA SchedulesStep == ASSUME RowsOK, [Next]_vars PROVE SchedulesMove
<1>1. CASE UNCHANGED vars BY <1>1 DEF vars, loadVars, SchedulesMove
<1>2. ASSUME NEW s \in Semester, CourseForm(s) PROVE SchedulesMove
  <2>1. ASSUME NEW n \in Nrc, NEW ts \in Slots, NEW c \in Course, CreateCourse(s, n, c, ts)
        PROVE  Timetable(s, n, n, c, ts)
    <3>1. \A b \in schedules : ~(b[1] = s /\ b[2] = n) BY <2>1, FreeHasNoRow DEF CreateCourse
    <3>2. schedules = {x \in schedules : x[1] # s \/ x[2] # n} BY <3>1
    <3>3. QED BY <2>1, <3>2 DEF CreateCourse, Timetable
  <2>2. ASSUME NEW n \in Nrc, NEW m \in Nrc, NEW ts \in Slots, UpdateCourse(s, n, m, ts)
        PROVE  \E c \in Course : Timetable(s, n, m, c, ts)
    <3>1. CourseOf(s, n) \in Course BY <2>2, CourseOffered DEF UpdateCourse
    <3>2. Timetable(s, n, m, CourseOf(s, n), ts) BY <2>2 DEF UpdateCourse, Timetable
    <3>3. QED BY <3>1, <3>2
  <2>3. ASSUME NEW n, NEW T, SetCourseTeachers(s, n, T) PROVE UNCHANGED schedules
    BY <2>3 DEF SetCourseTeachers
  <2>4. QED BY <1>2, <2>1, <2>2, <2>3 DEF CourseForm, SchedulesMove
<1>3. ASSUME NEW s \in Semester, StudentForm(s) \/ TeacherForm(s) PROVE UNCHANGED schedules
  BY <1>3 DEF StudentForm, SaveStudent, ImportStudents, TeacherForm, SaveTeacher
<1>4. AssistantshipForm => UNCHANGED schedules
  BY DEF AssistantshipForm, SaveAssistantship
<1>5. ASSUME NEW r \in Request, Import(r) \/ Activation(r) \/ RollBack(r)
      PROVE  UNCHANGED schedules \/ CommitSchedules(r)
  BY <1>5 DEF Import, Activation, RollBack, ReadTeacherLoad, ReadTeacherRoster, ReadSchedules,
     ReadHourly, Begin, CommitTeacherLoad, CommitHourly, Upsert, CommitActivation, loadVars
<1>6. QED BY <1>1, <1>2, <1>3, <1>4, <1>5 DEF Next, SchedulesMove

\* The assignments are renamed, or lose none that something hangs from and
\* gain rows for offerings, each with its course, or rows of an import.
Named(s, a) ==
  /\ a = <<s, a[2], CourseOf(s, a[2]), a[4]>> /\ a[2] \in Offered(s) /\ a[4] \in Teacher

Relisting(s) ==
  /\ CatalogOf(s)
  /\ \A a \in assignments' : a \in assignments \/ Named(s, a)
  /\ \A a \in assignments \ assignments' : a[1] = s
  /\ \A a \in assignments : a \in contracts' \cup assistantships => a \in assignments'
  /\ \A a \in contracts' : a \in contracts \/ a \in assignments'
  /\ UNCHANGED assistantships

AssignmentsMove ==
  \/ UNCHANGED <<assignments, contracts>> /\ (UNCHANGED assistantships \/ AssistantshipForm)
  \/ \E s \in Semester, n, m \in Nrc, ts \in Slots : UpdateCourse(s, n, m, ts)
  \/ \E s \in Semester : Relisting(s)
  \/ \E r \in Request : CommitTeacherLoad(r) \/ CommitHourly(r)

LEMMA SetTeachersRelists ==
  ASSUME NEW s, NEW n, NEW T \in SUBSET Teacher, SetCourseTeachers(s, n, T) PROVE Relisting(s)
<1> DEFINE listed == {<<s, n, CourseOf(s, n), t>> : t \in T}
           gone == {a \in assignments : a[1] = s /\ a[2] = n /\ a[3] = CourseOf(s, n)} \ listed
<1>1. /\ CatalogOf(s) /\ n \in Offered(s) /\ gone \cap (contracts \cup assistantships) = {}
      /\ assignments' = (assignments \ gone) \cup listed
      /\ UNCHANGED <<contracts, assistantships>>
  BY DEF SetCourseTeachers, Removable, heldVars
<1>2. ASSUME NEW a \in listed PROVE Named(s, a)
  <2>1. PICK t \in T : a = <<s, n, CourseOf(s, n), t>> OBVIOUS
  <2>2. a[2] = n /\ a[4] = t BY <2>1
  <2>3. QED BY <1>1, <2>1, <2>2 DEF Named
<1>3. \A a \in gone : a[1] = s OBVIOUS
<1> HIDE DEF listed, gone
<1>4. QED BY <1>1, <1>2, <1>3 DEF Relisting

LEMMA SaveTeacherRelists ==
  ASSUME RowsOK, NEW s, NEW t \in Teacher, NEW N, NEW lines, NEW H, SaveTeacher(s, t, N, lines, H)
  PROVE  Relisting(s)
<1> DEFINE own == {a \in assignments : a[1] = s /\ a[4] = t}
           listed == {<<s, n, CourseOf(s, n), t>> : n \in N}
           kept == IF lines THEN contracts \ own ELSE contracts
<1>1. /\ CatalogOf(s) /\ N \subseteq Offered(s)
      /\ (own \ listed) \cap (kept \cup assistantships) = {}
      /\ assignments' = (assignments \ own) \cup listed
      /\ contracts' = kept \cup (IF lines THEN {a \in listed : a[2] \in H} ELSE {})
      /\ UNCHANGED assistantships
  BY DEF SaveTeacher, Removable
<1>2. ASSUME NEW a \in listed PROVE Named(s, a)
  <2>1. PICK n \in N : a = <<s, n, CourseOf(s, n), t>> OBVIOUS
  <2>2. a[2] = n /\ a[4] = t BY <2>1
  <2>3. QED BY <1>1, <2>1, <2>2 DEF Named
<1>3. \A a \in own : a[1] = s OBVIOUS
<1>4. /\ kept \subseteq contracts
      /\ contracts' \subseteq kept \cup listed
  BY <1>1
<1> HIDE DEF listed, own, kept
<1>5. QED BY <1>1, <1>2, <1>3, <1>4 DEF Relisting

LEMMA AssignmentsStep == ASSUME RowsOK, [Next]_vars PROVE AssignmentsMove
<1>1. CASE UNCHANGED vars BY <1>1 DEF vars, loadVars, heldVars, AssignmentsMove
<1>2. ASSUME NEW s \in Semester, CourseForm(s) PROVE AssignmentsMove
  <2>1. ASSUME NEW n, NEW c, NEW ts, CreateCourse(s, n, c, ts)
        PROVE  UNCHANGED <<assignments, contracts, assistantships>>
    BY <2>1 DEF CreateCourse, heldVars
  <2>2. QED BY <1>2, <2>1, SetTeachersRelists DEF CourseForm, AssignmentsMove
<1>3. ASSUME NEW s \in Semester, TeacherForm(s) PROVE Relisting(s)
  BY <1>3, SaveTeacherRelists DEF TeacherForm
<1>4. ASSUME NEW s \in Semester, StudentForm(s)
      PROVE  UNCHANGED <<assignments, contracts, assistantships>>
  BY <1>4 DEF StudentForm, SaveStudent, ImportStudents, heldVars
<1>5. AssistantshipForm => UNCHANGED <<assignments, contracts>>
  BY DEF AssistantshipForm, SaveAssistantship
<1>6. ASSUME NEW r \in Request, Import(r) \/ Activation(r) \/ RollBack(r)
      PROVE  \/ UNCHANGED <<assignments, contracts, assistantships>>
             \/ CommitTeacherLoad(r) \/ CommitHourly(r)
  BY <1>6 DEF Import, Activation, RollBack, ReadTeacherLoad, ReadTeacherRoster, ReadSchedules,
     ReadHourly, Begin, CommitSchedules, Upsert, CommitActivation, loadVars, heldVars
<1>7. QED BY <1>1, <1>2, <1>3, <1>4, <1>5, <1>6 DEF Next, AssignmentsMove

\* The course of a contract is one its NRC already has.
LEMMA ContractCourse ==
  ASSUME RowsOK, NEW s, NEW n, NEW c \in CourseOfContract(s, n)
  PROVE  c \in CoursesOf(s, n) /\ c \in Course
<1>1. c \in CoursesOf(s, n) BY DEF CourseOfContract, CoursesOf
<1>2. QED BY <1>1, CoursesTyped

-----------------------------------------------------------------------------
(* Types.                                                                  *)
LEMMA ScheduleTypes ==
  ASSUME RowsOK, ControlOK, SchedulesMove
  PROVE  schedules' \subseteq Semester \X Nrc \X Slot \X Course
<1>1. CASE UNCHANGED schedules BY <1>1 DEF RowsOK
<1>2. ASSUME NEW s \in Semester, NEW n \in Nrc, NEW m \in Nrc, NEW c \in Course,
             NEW ts \in Slots, Timetable(s, n, m, c, ts)
      PROVE  schedules' \subseteq Semester \X Nrc \X Slot \X Course
  <2>1. ts \subseteq Slot BY DEF Slots
  <2>2. QED BY <1>2, <2>1 DEF RowsOK, Timetable
<1>3. ASSUME NEW r \in Request, CommitSchedules(r)
      PROVE  schedules' \subseteq Semester \X Nrc \X Slot \X Course
  BY <1>3, CallKinds DEF RowsOK, CommitSchedules, OtherSlots
<1>4. QED BY <1>1, <1>2, <1>3 DEF SchedulesMove

LEMMA AssignmentTypes ==
  ASSUME RowsOK, ControlOK, AssignmentsMove
  PROVE  assignments' \subseteq Semester \X Nrc \X Course \X Teacher
<1>1. CASE UNCHANGED assignments BY <1>1 DEF RowsOK
<1>2. ASSUME NEW s \in Semester, NEW n \in Nrc, NEW m \in Nrc, NEW ts, UpdateCourse(s, n, m, ts)
      PROVE  assignments' \subseteq Semester \X Nrc \X Course \X Teacher
  BY <1>2, RenamedTyped DEF RowsOK, UpdateCourse
<1>3. ASSUME NEW s \in Semester, Relisting(s)
      PROVE  assignments' \subseteq Semester \X Nrc \X Course \X Teacher
  <2>1. ASSUME NEW a, Named(s, a) PROVE a \in Semester \X Nrc \X Course \X Teacher
    BY <2>1, CourseOffered DEF Named
  <2>2. QED BY <1>3, <2>1 DEF RowsOK, Relisting
<1>4. ASSUME NEW r \in Request, CommitTeacherLoad(r)
      PROVE  assignments' \subseteq Semester \X Nrc \X Course \X Teacher
  BY <1>4, CallKinds DEF RowsOK, CommitTeacherLoad
<1>5. ASSUME NEW r \in Request, CommitHourly(r)
      PROVE  assignments' \subseteq Semester \X Nrc \X Course \X Teacher
  BY <1>5, CallKinds, ContractCourse DEF RowsOK, CommitHourly
<1>6. QED BY <1>1, <1>2, <1>3, <1>4, <1>5 DEF AssignmentsMove

LEMMA EnrollmentTypes ==
  ASSUME RowsOK, EnrollmentsMove
  PROVE  enrollments' \subseteq Semester \X Nrc \X Course \X Student
<1>1. CASE UNCHANGED enrollments BY <1>1 DEF RowsOK
<1>2. ASSUME NEW s \in Semester, NEW n \in Nrc, NEW m \in Nrc,
             enrollments' = Renamed(enrollments, s, n, m)
      PROVE  enrollments' \subseteq Semester \X Nrc \X Course \X Student
  BY <1>2, RenamedTyped DEF RowsOK
<1>3. ASSUME NEW s \in Semester, Enrolling(s)
      PROVE  enrollments' \subseteq Semester \X Nrc \X Course \X Student
  <2>1. ASSUME NEW e \in enrollments', e \notin enrollments
        PROVE  e \in Semester \X Nrc \X Course \X Student
    <3>1. e = <<s, e[2], CourseOf(s, e[2]), e[4]>> /\ e[2] \in Offered(s) /\ e[4] \in Student
      BY <1>3, <2>1 DEF Enrolling
    <3>2. QED BY <3>1, CourseOffered
  <2>2. QED BY <2>1 DEF RowsOK
<1>4. QED BY <1>1, <1>2, <1>3 DEF EnrollmentsMove

LEMMA SlotsOnceKept == ASSUME RowsOK, SlotsOnce, SchedulesMove PROVE SlotsOnce'
<1>1. CASE UNCHANGED schedules BY <1>1 DEF SlotsOnce
<1>2. ASSUME NEW s \in Semester, NEW n \in Nrc, NEW m \in Nrc, NEW c \in Course,
             NEW ts \in Slots, Timetable(s, n, m, c, ts)
      PROVE  SlotsOnce'
  <2>1. m # n => \A b \in schedules : ~(b[1] = s /\ b[2] = m)
    BY <1>2, FreeHasNoRow DEF Timetable
  <2>2. \A x \in schedules' : \/ x \in schedules /\ ~(x[1] = s /\ x[2] = m)
                              \/ \E t \in ts : x = <<s, m, t, c>>
    BY <1>2, <2>1 DEF Timetable
  <2>3. QED BY <2>2 DEF SlotsOnce
<1>3. ASSUME NEW r \in Request, CommitSchedules(r) PROVE SlotsOnce'
  BY <1>3 DEF CommitSchedules, OtherSlots, SlotsOnce
<1>4. QED BY <1>1, <1>2, <1>3 DEF SchedulesMove

\* A request that takes the place of an idle one.
LEMMA BeginTypes ==
  ASSUME ControlOK, NEW r \in Request, NEW c \in Call, Begin(r, c)
  PROVE  ControlOK'
<1>1. steps < MaxSteps /\ steps' = steps + 1 BY DEF Begin, Step
<1>2. steps \in Nat /\ MaxSteps \in Nat /\ steps \in 0..MaxSteps
  BY CatalogAssumption DEF ControlOK
<1>3. steps' \in 0..MaxSteps BY ONLY <1>1, <1>2
<1>4. QED BY <1>3 DEF Begin, semesterVars, ControlOK

LEMMA RowCourse ==
  ASSUME RowsOK, NEW s, NEW n, NEW c \in Course, NEW coded, NEW d \in CourseOfRow(s, n, c, coded)
  PROVE  d \in Course
<1>1. d = c \/ d \in CoursesOf(s, n) BY DEF CourseOfRow, CoursesOf
<1>2. QED BY <1>1, CoursesTyped

LEMMA ControlKept == ASSUME RowsOK, ControlOK, [Next]_vars PROVE ControlOK'
<1>1. CASE UNCHANGED vars BY <1>1 DEF vars, semesterVars, ControlOK
<1>2. Form => ControlOK'
  <2>1. SUFFICES ASSUME Form PROVE ControlOK'
    OBVIOUS
  <2>2. steps < MaxSteps /\ steps' = steps + 1 BY <2>1 DEF Form, Step
  <2>3. steps \in Nat /\ MaxSteps \in Nat /\ steps \in 0..MaxSteps
    BY CatalogAssumption DEF ControlOK
  <2>4. steps' \in 0..MaxSteps BY ONLY <2>2, <2>3
  <2>5. QED BY <2>1, <2>4 DEF Form, semesterVars, ControlOK
<1>3. ASSUME NEW s \in Semester, CourseForm(s) \/ TeacherForm(s) \/ StudentForm(s) PROVE Form
  BY <1>3 DEF CourseForm, CreateCourse, UpdateCourse, SetCourseTeachers, TeacherForm, SaveTeacher,
     StudentForm, SaveStudent, ImportStudents
<1>4. AssistantshipForm => Form BY DEF AssistantshipForm, SaveAssistantship
<1>5. ASSUME NEW r \in Request, End(r), UNCHANGED semesterVars PROVE ControlOK'
  BY <1>5 DEF End, semesterVars, ControlOK
<1>6. ASSUME NEW r \in Request, Import(r) PROVE ControlOK'
  <2>1. ASSUME NEW s \in Semester, NEW row \in TeacherLoadRow, ReadTeacherLoad(r, s, row)
        PROVE  ControlOK'
    <3>1. row[1] \in Nrc /\ row[2] \in Course /\ row[3] \in Teacher BY DEF TeacherLoadRow
    <3>2. PICK coded \in BOOLEAN : \E c \in CourseOfRow(s, row[1], row[2], coded) :
            Begin(r, [op |-> "teacherLoad", sem |-> s, nrc |-> row[1], course |-> c, teacher |-> row[3]])
      BY <2>1 DEF ReadTeacherLoad
    <3>3. PICK c \in CourseOfRow(s, row[1], row[2], coded) :
            Begin(r, [op |-> "teacherLoad", sem |-> s, nrc |-> row[1], course |-> c, teacher |-> row[3]])
      BY <3>2
    <3>4. c \in Course BY <3>1, <3>3, RowCourse
    <3>5. [op |-> "teacherLoad", sem |-> s, nrc |-> row[1], course |-> c, teacher |-> row[3]] \in Call
      BY <3>1, <3>4 DEF Call
    <3>6. QED BY <3>3, <3>5, BeginTypes
  <2>2. ASSUME NEW s \in Semester, NEW row \in TeacherRosterRow, ReadTeacherRoster(r, s, row)
        PROVE  ControlOK'
    <3>1. row[1] \in Nrc /\ row[2] \in Teacher BY DEF TeacherRosterRow
    <3>2. PICK c \in Course : \E d \in CourseOfRow(s, row[1], c, FALSE) :
            Begin(r, [op |-> "teacherLoad", sem |-> s, nrc |-> row[1], course |-> d, teacher |-> row[2]])
      BY <2>2 DEF ReadTeacherRoster
    <3>3. PICK d \in CourseOfRow(s, row[1], c, FALSE) :
            Begin(r, [op |-> "teacherLoad", sem |-> s, nrc |-> row[1], course |-> d, teacher |-> row[2]])
      BY <3>2
    <3>4. d \in Course BY <3>3, RowCourse
    <3>5. [op |-> "teacherLoad", sem |-> s, nrc |-> row[1], course |-> d, teacher |-> row[2]] \in Call
      BY <3>1, <3>4 DEF Call
    <3>6. QED BY <3>3, <3>5, BeginTypes
  <2>3. ASSUME NEW s \in Semester, NEW row \in ScheduleRow, ReadSchedules(r, s, row)
        PROVE  ControlOK'
    <3>1. row[1] \in Nrc /\ row[2] \in Course /\ row[3] \in Slot BY DEF ScheduleRow
    <3>2. PICK c \in CourseOfRow(s, row[1], row[2], FALSE) :
            Begin(r, [op |-> "scheduleLoad", sem |-> s, nrc |-> row[1], course |-> c, slot |-> row[3]])
      BY <2>3 DEF ReadSchedules
    <3>3. c \in Course BY <3>1, <3>2, RowCourse
    <3>4. [op |-> "scheduleLoad", sem |-> s, nrc |-> row[1], course |-> c, slot |-> row[3]] \in Call
      BY <3>1, <3>3 DEF Call
    <3>5. QED BY <3>2, <3>4, BeginTypes
  <2>4. ASSUME NEW s \in Semester, NEW n \in Nrc, NEW t \in Teacher, ReadHourly(r, s, n, t)
        PROVE  ControlOK'
    <3>1. [op |-> "hourly", sem |-> s, nrc |-> n, teacher |-> t] \in Call BY DEF Call
    <3>2. QED BY <2>4, <3>1, BeginTypes DEF ReadHourly
  <2>5. CommitTeacherLoad(r) \/ CommitSchedules(r) \/ CommitHourly(r) => ControlOK'
    BY <1>5 DEF CommitTeacherLoad, CommitSchedules, CommitHourly
  <2>6. QED BY <1>6, <2>1, <2>2, <2>3, <2>4, <2>5 DEF Import
<1>7. ASSUME NEW r \in Request, NEW s \in Semester, Upsert(r, s) PROVE ControlOK'
  <2>1. [op |-> "activate", sem |-> s, swept |-> Others(s), knew |-> known] \in Call
    BY DEF Call, Others, ControlOK
  <2>2. QED BY <1>7, <2>1, BeginTypes DEF Upsert
<1>8. ASSUME NEW r \in Request, CommitActivation(r) PROVE ControlOK'
  <2>1. call[r].sem \in Semester BY <1>8, CallKinds DEF CommitActivation
  <2>2. QED BY <1>8, <2>1 DEF CommitActivation, End, ControlOK
<1>9. ASSUME NEW r \in Request, RollBack(r) PROVE ControlOK'
  BY <1>5, <1>9 DEF RollBack
<1>10. QED
  BY <1>1, <1>2, <1>3, <1>4, <1>6, <1>7, <1>8, <1>9 DEF Next, Activation

LEMMA TypeInit == Init => CatalogTypeOK
<1> SUFFICES ASSUME Init PROVE CatalogTypeOK
  OBVIOUS
<1>1. RowsOK /\ SlotsOnce /\ EnrolledOnce
  BY DEF Init, RowsOK, SlotsOnce, EnrolledOnce
<1>2. 0 \in 0..MaxSteps BY CatalogAssumption
<1>3. ControlOK BY <1>2 DEF Init, ControlOK
<1>4. QED BY <1>1, <1>3, TypeParts

LEMMA TypeStep == CatalogTypeOK /\ [Next]_vars => CatalogTypeOK'
<1> SUFFICES ASSUME CatalogTypeOK, [Next]_vars PROVE CatalogTypeOK'
  OBVIOUS
<1>1. RowsOK /\ SlotsOnce /\ EnrolledOnce /\ ControlOK BY TypeParts
<1>2. SchedulesMove /\ AssignmentsMove /\ EnrollmentsMove
  BY <1>1, SchedulesStep, AssignmentsStep, EnrollmentsStep
<1>3. RowsOK' BY <1>1, <1>2, ScheduleTypes, AssignmentTypes, EnrollmentTypes DEF RowsOK
<1>4. SlotsOnce' /\ EnrolledOnce' BY <1>1, <1>2, SlotsOnceKept, EnrolledOnceKept
<1>5. ControlOK' BY <1>1, ControlKept
<1>6. QED BY <1>3, <1>4, <1>5 DEF CatalogTypeOK, RowsOK, SlotsOnce, EnrolledOnce, ControlOK

(* Every row is of a semester, an NRC and a course; a slot of an NRC has   *)
(* one course and a student is enrolled in an NRC once.                    *)
THEOREM TypeCorrect == Spec => []CatalogTypeOK
<1>1. CatalogTypeOK /\ [Next]_vars => CatalogTypeOK' BY TypeStep
<1>2. QED BY <1>1, TypeInit, PTL DEF Spec

-----------------------------------------------------------------------------
(* The students of an NRC are in one course, whatever is imported over it. *)
THEOREM StudentsStayTogether == Spec => []EnrolledTogether
<1>1. Init => EnrolledTogether BY DEF Init, EnrolledTogether
<1>2. CatalogTypeOK /\ EnrolledTogether /\ [Next]_vars => EnrolledTogether'
  <2>1. SUFFICES ASSUME CatalogTypeOK, EnrolledTogether, [Next]_vars PROVE EnrolledTogether'
    OBVIOUS
  <2>2. RowsOK BY <2>1, TypeParts
  <2>3. EnrollmentsMove BY <2>1, EnrollmentsStep
  <2>4. QED BY <2>1, <2>2, <2>3, EnrolledTogetherKept
<1>3. QED BY <1>1, <1>2, TypeCorrect, PTL DEF Spec

-----------------------------------------------------------------------------
(* What hangs from assignments.                                            *)
LEMMA HeldStep ==
  ASSUME HeldExist, AssignmentsMove PROVE HeldExist'
<1>1. CASE UNCHANGED <<assignments, contracts>> /\ (UNCHANGED assistantships \/ AssistantshipForm)
  <2>1. ASSUME NEW a, NEW from, SaveAssistantship(from, a) PROVE HeldExist'
    BY <2>1 DEF SaveAssistantship, HeldExist
  <2>2. CASE AssistantshipForm BY <2>1, <2>2 DEF AssistantshipForm
  <2>3. QED BY <1>1, <2>2 DEF HeldExist
<1>2. ASSUME NEW s \in Semester, NEW n \in Nrc, NEW m \in Nrc, NEW ts, UpdateCourse(s, n, m, ts)
      PROVE  HeldExist'
  <2>1. /\ assignments' = Renamed(assignments, s, n, m)
        /\ contracts' = Renamed(contracts, s, n, m)
        /\ assistantships' = Renamed(assistantships, s, n, m)
    BY <1>2 DEF UpdateCourse
  <2>2. contracts \subseteq assignments /\ assistantships \subseteq assignments
    BY DEF HeldExist
  <2>3. contracts' \subseteq assignments' /\ assistantships' \subseteq assignments'
    BY ONLY <2>1, <2>2, RenamedRows
  <2>4. QED BY <2>3 DEF HeldExist
<1>3. ASSUME NEW s \in Semester, Relisting(s) PROVE HeldExist'
  BY <1>3 DEF Relisting, HeldExist
<1>4. ASSUME NEW r \in Request, CommitTeacherLoad(r) \/ CommitHourly(r) PROVE HeldExist'
  BY <1>4 DEF CommitTeacherLoad, CommitHourly, heldVars, HeldExist
<1>5. QED BY <1>1, <1>2, <1>3, <1>4 DEF AssignmentsMove

(* Contracts and assistantships hang from an assignment that exists: no    *)
(* form removes it under them, and a new NRC takes them along.             *)
THEOREM HeldRowsExist == Spec => []HeldExist
<1>1. Init => HeldExist BY DEF Init, HeldExist
<1>2. CatalogTypeOK /\ HeldExist /\ [Next]_vars => HeldExist'
  BY TypeParts, AssignmentsStep, HeldStep
<1>3. QED BY <1>1, <1>2, TypeCorrect, PTL DEF Spec

-----------------------------------------------------------------------------
(* The courses of an NRC.                                                  *)
LEMMA CoursesNamedNext ==
  ASSUME NEW s, NEW n, NEW c
  PROVE  (c \in CoursesOf(s, n))' <=>
           \/ \E a \in assignments' : a[1] = s /\ a[2] = n /\ a[3] = c
           \/ \E b \in schedules' : b[1] = s /\ b[2] = n /\ b[4] = c
           \/ \E e \in enrollments' : e[1] = s /\ e[2] = n /\ e[3] = c
BY DEF CoursesOf, AssignedCourses, ScheduledCourses, EnrolledCourses

\* A step whose new rows name a course their NRC already has.
KeepsCourses ==
  /\ UNCHANGED schedules
  /\ \A a \in assignments' : a \in assignments \/ a[3] \in CoursesOf(a[1], a[2])
  /\ \A e \in enrollments' : e \in enrollments \/ e[3] \in CoursesOf(e[1], e[2])

LEMMA NoNewCourse ==
  ASSUME KeepsCourses, NEW s, NEW n, NEW c, (c \in CoursesOf(s, n))'
  PROVE  c \in CoursesOf(s, n)
<1>1. ASSUME NEW a \in assignments', a[1] = s, a[2] = n, a[3] = c PROVE c \in CoursesOf(s, n)
  BY <1>1, CoursesNamed DEF KeepsCourses
<1>2. ASSUME NEW b \in schedules', b[1] = s, b[2] = n, b[4] = c PROVE c \in CoursesOf(s, n)
  BY <1>2, CoursesNamed DEF KeepsCourses
<1>3. ASSUME NEW e \in enrollments', e[1] = s, e[2] = n, e[3] = c PROVE c \in CoursesOf(s, n)
  BY <1>3, CoursesNamed DEF KeepsCourses
<1>4. QED BY <1>1, <1>2, <1>3, CoursesNamedNext

LEMMA CourseSteps ==
  ASSUME RowsOK, ControlOK, [Next]_vars
  PROVE  \/ KeepsCourses
         \/ \E s \in Semester, n \in Nrc, c \in Course, ts \in Slots : CreateCourse(s, n, c, ts)
         \/ \E s \in Semester, n, m \in Nrc, ts \in Slots : UpdateCourse(s, n, m, ts)
         \/ \E r \in Request : CommitTeacherLoad(r) \/ CommitSchedules(r)
<1>1. UNCHANGED <<schedules, assignments, enrollments>> => KeepsCourses BY DEF KeepsCourses
<1>2. ASSUME NEW s, Relisting(s), UNCHANGED <<schedules, enrollments>> PROVE KeepsCourses
  <2>1. ASSUME NEW a, Named(s, a) PROVE a[3] \in CoursesOf(a[1], a[2])
    <3>1. a[1] = s /\ a[3] = CourseOf(s, a[2]) BY <2>1 DEF Named
    <3>2. CourseOf(s, a[2]) \in CoursesOf(s, a[2]) BY <2>1, CourseOffered DEF Named
    <3>3. QED BY <3>1, <3>2
  <2>2. QED BY <1>2, <2>1 DEF Relisting, KeepsCourses
<1>3. ASSUME NEW s, Enrolling(s), UNCHANGED <<schedules, assignments>> PROVE KeepsCourses
  <2>1. ASSUME NEW e \in enrollments', e \notin enrollments PROVE e[3] \in CoursesOf(e[1], e[2])
    <3>1. e = <<s, e[2], CourseOf(s, e[2]), e[4]>> /\ e[2] \in Offered(s)
      BY <1>3, <2>1 DEF Enrolling
    <3>2. e[1] = s /\ e[3] = CourseOf(s, e[2]) BY <3>1
    <3>3. CourseOf(s, e[2]) \in CoursesOf(s, e[2]) BY <3>1, CourseOffered
    <3>4. QED BY <3>2, <3>3
  <2>2. QED BY <1>3, <2>1 DEF KeepsCourses
<1>4. ASSUME NEW r \in Request, CommitHourly(r) PROVE KeepsCourses
  BY <1>4, ContractCourse DEF CommitHourly, KeepsCourses
<1>5. CASE UNCHANGED vars BY <1>1, <1>5 DEF vars, loadVars
<1>6. ASSUME NEW s \in Semester, NEW n \in Nrc, NEW T \in SUBSET Teacher, SetCourseTeachers(s, n, T)
      PROVE  KeepsCourses
  BY <1>2, <1>6, SetTeachersRelists DEF SetCourseTeachers
<1>7. ASSUME NEW s \in Semester, TeacherForm(s) PROVE KeepsCourses
  <2>1. Relisting(s) /\ UNCHANGED <<schedules, enrollments>>
    BY <1>7, SaveTeacherRelists DEF TeacherForm, SaveTeacher
  <2>2. QED BY <1>2, <2>1
<1>8. ASSUME NEW s \in Semester, StudentForm(s) PROVE KeepsCourses
  <2>1. Enrolling(s) /\ UNCHANGED <<schedules, assignments>>
    BY <1>8, SaveEnrolls, RosterEnrolls DEF StudentForm, SaveStudent, ImportStudents
  <2>2. QED BY <1>3, <2>1
<1>9. CASE AssistantshipForm
  BY <1>1, <1>9 DEF AssistantshipForm, SaveAssistantship
<1>10. ASSUME NEW r \in Request, Import(r) \/ Activation(r) \/ RollBack(r),
              ~(CommitTeacherLoad(r) \/ CommitSchedules(r))
       PROVE  KeepsCourses
  <2>1. UNCHANGED <<schedules, assignments, enrollments>> \/ CommitHourly(r)
    BY <1>10 DEF Import, Activation, RollBack, ReadTeacherLoad, ReadTeacherRoster, ReadSchedules,
       ReadHourly, Begin, Upsert, CommitActivation, loadVars
  <2>2. QED BY <1>1, <1>4, <2>1
<1>11. QED BY <1>5, <1>6, <1>7, <1>8, <1>9, <1>10 DEF Next, CourseForm

LEMMA CreateKeeps ==
  ASSUME NEW z, NEW k \in Nrc, NEW d, NEW ts, CreateCourse(z, k, d, ts),
         NEW s, NEW n \in Nrc, ~Ambiguous(s, n)
  PROVE  ~Ambiguous(s, n)'
<1>1. /\ Free(z, k)
      /\ schedules' = schedules \cup {<<z, k, t, d>> : t \in ts}
      /\ assignments' = assignments /\ enrollments' = enrollments
  BY DEF CreateCourse
<1>2. ASSUME NEW c, (c \in CoursesOf(s, n))'
      PROVE  c \in CoursesOf(s, n) \/ (s = z /\ n = k /\ c = d)
  <2>1. \A b \in schedules' : b \in schedules \/ (b[1] = z /\ b[2] = k /\ b[4] = d)
    BY <1>1
  <2>2. QED BY <1>1, <1>2, <2>1, CoursesNamed, CoursesNamedNext
<1>3. s = z /\ n = k => \A c : c \notin CoursesOf(s, n)
  BY <1>1 DEF Free, Offered
<1>4. \A c, e : (c \in CoursesOf(s, n))' /\ (e \in CoursesOf(s, n))' => c = e
  BY <1>2, <1>3 DEF Ambiguous
<1>5. QED BY <1>4 DEF Ambiguous

LEMMA UpdateKeeps ==
  ASSUME RowsOK, NEW z, NEW k \in Nrc, NEW m \in Nrc, NEW ts, UpdateCourse(z, k, m, ts),
         NEW s, NEW n \in Nrc, ~Ambiguous(s, n)
  PROVE  ~Ambiguous(s, n)'
<1>1. /\ k \in Offered(z) /\ ~Ambiguous(z, k) /\ (m # k => Free(z, m))
      /\ schedules' = {x \in schedules : x[1] # z \/ x[2] # k}
                        \cup {<<z, m, t, CourseOf(z, k)>> : t \in ts}
      /\ assignments' = Renamed(assignments, z, k, m)
      /\ enrollments' = Renamed(enrollments, z, k, m)
  BY DEF UpdateCourse, RenamedStudents
<1>2. CourseOf(z, k) \in CoursesOf(z, k) BY <1>1, CourseOffered
<1>3. ASSUME NEW c, (c \in CoursesOf(s, n))'
      PROVE  \/ c \in CoursesOf(s, n)
             \/ s = z /\ n = m /\ c \in CoursesOf(z, k)
  <2>1. ASSUME NEW a \in assignments', a[1] = s, a[2] = n, a[3] = c
        PROVE  c \in CoursesOf(s, n) \/ (s = z /\ n = m /\ c \in CoursesOf(z, k))
    <3>1. \/ \E x \in assignments : x[1] = z /\ x[2] = k /\ a = <<z, m, x[3], x[4]>>
          \/ a \in assignments
      BY <1>1, <2>1, RenamedRows
    <3>2. QED BY <2>1, <3>1, CoursesNamed
  <2>2. ASSUME NEW b \in schedules', b[1] = s, b[2] = n, b[4] = c
        PROVE  c \in CoursesOf(s, n) \/ (s = z /\ n = m /\ c \in CoursesOf(z, k))
    <3>1. b \in schedules \/ (b[1] = z /\ b[2] = m /\ b[4] = CourseOf(z, k)) BY <1>1
    <3>2. QED BY <1>2, <2>2, <3>1, CoursesNamed
  <2>3. ASSUME NEW e \in enrollments', e[1] = s, e[2] = n, e[3] = c
        PROVE  c \in CoursesOf(s, n) \/ (s = z /\ n = m /\ c \in CoursesOf(z, k))
    <3>1. \/ \E x \in enrollments : x[1] = z /\ x[2] = k /\ e = <<z, m, x[3], x[4]>>
          \/ e \in enrollments
      BY <1>1, <2>3, RenamedRows
    <3>2. QED BY <2>3, <3>1, CoursesNamed
  <2>4. QED BY <1>3, <2>1, <2>2, <2>3, CoursesNamedNext
<1>4. s = z /\ n = m /\ m # k => \A c : c \notin CoursesOf(s, n)
  BY <1>1 DEF Free, Offered
<1>5. \A c, e : (c \in CoursesOf(s, n))' /\ (e \in CoursesOf(s, n))' => c = e
  BY <1>1, <1>3, <1>4 DEF Ambiguous
<1>6. QED BY <1>5 DEF Ambiguous

(* Only the commit of a CSV import of the teaching load or of the          *)
(* timetable gives an NRC of one course another one.                       *)
THEOREM FormsDoNotConfuse == Spec => FormsKeepNrcsUnambiguous
<1>1. CatalogTypeOK /\ [Next]_vars =>
        [\A s \in Semester, n \in Nrc : ~Ambiguous(s, n) /\ Ambiguous(s, n)' => ByImport]_vars
  <2>1. SUFFICES ASSUME CatalogTypeOK, [Next]_vars, NEW s \in Semester, NEW n \in Nrc,
                        ~Ambiguous(s, n), ~ByImport
                 PROVE  ~Ambiguous(s, n)'
    OBVIOUS
  <2>2. RowsOK /\ ControlOK BY <2>1, TypeParts
  <2>3. CASE KeepsCourses
    <3>1. \A c, d : (c \in CoursesOf(s, n))' /\ (d \in CoursesOf(s, n))' => c = d
      BY <2>1, <2>3, NoNewCourse DEF Ambiguous
    <3>2. QED BY <3>1 DEF Ambiguous
  <2>4. ASSUME NEW r \in Request, CommitTeacherLoad(r) \/ CommitSchedules(r) PROVE FALSE
    <3>1. call[r].op \in {"teacherLoad", "scheduleLoad"} /\ call' = [call EXCEPT ![r] = Idle]
      BY <2>4 DEF CommitTeacherLoad, CommitSchedules, End
    <3>2. call'[r] = Idle BY <2>2, <3>1 DEF ControlOK
    <3>3. QED BY <2>1, <3>1, <3>2 DEF ByImport
  <2>5. QED BY <2>1, <2>2, <2>3, <2>4, CourseSteps, CreateKeeps, UpdateKeeps
<1>2. QED BY <1>1, TypeCorrect, PTL DEF Spec, FormsKeepNrcsUnambiguous

-----------------------------------------------------------------------------
(* Giving an offering another NRC separates no teacher from a student.     *)
LEMMA ClassesKept ==
  ASSUME RowsOK, NEW s \in Semester, NEW n \in Nrc, NEW m \in Nrc, NEW ts, UpdateCourse(s, n, m, ts)
  PROVE  Classes' = Classes
<1>1. /\ m # n => Free(s, m)
      /\ assignments' = Renamed(assignments, s, n, m)
      /\ enrollments' = Renamed(enrollments, s, n, m)
  BY DEF UpdateCourse, RenamedStudents
<1>2. m # n => /\ \A a \in assignments : ~(a[1] = s /\ a[2] = m)
               /\ \A e \in enrollments : ~(e[1] = s /\ e[2] = m)
  BY <1>1, FreeHasNoRow
<1>3. ASSUME NEW rows, rows = assignments \/ rows = enrollments,
             NEW z \in Semester, NEW k \in Nrc, NEW c, NEW d
      PROVE  /\ <<z, k, c, d>> \in rows =>
                  <<z, IF z = s /\ k = n THEN m ELSE k, c, d>> \in Renamed(rows, s, n, m)
             /\ <<z, k, c, d>> \in Renamed(rows, s, n, m) =>
                  IF z = s /\ k = m THEN <<z, n, c, d>> \in rows ELSE <<z, k, c, d>> \in rows
  <2>1. ASSUME <<z, k, c, d>> \in rows
        PROVE  <<z, IF z = s /\ k = n THEN m ELSE k, c, d>> \in Renamed(rows, s, n, m)
    BY <2>1, RenamedRows
  <2>2. ASSUME <<z, k, c, d>> \in Renamed(rows, s, n, m)
        PROVE  IF z = s /\ k = m THEN <<z, n, c, d>> \in rows ELSE <<z, k, c, d>> \in rows
    <3>1. CASE \E x \in rows : x[1] = s /\ x[2] = n /\ <<z, k, c, d>> = <<s, m, x[3], x[4]>>
      <4>1. PICK x \in rows : x[1] = s /\ x[2] = n /\ <<z, k, c, d>> = <<s, m, x[3], x[4]>>
        BY <3>1
      <4>2. x = <<x[1], x[2], x[3], x[4]>> BY <1>3, <4>1, FourColumns DEF RowsOK
      <4>3. QED BY <4>1, <4>2
    <3>2. CASE <<z, k, c, d>> \in rows /\ ~(z = s /\ k = n)
      BY <1>2, <1>3, <3>2
    <3>3. QED BY <2>2, <3>1, <3>2, RenamedRows
  <2>3. QED BY <2>1, <2>2
<1>4. ASSUME NEW x \in Classes PROVE x \in Classes'
  <2>1. PICK k \in Nrc, c \in Course :
          <<x[1], k, x[2], x[3]>> \in assignments /\ <<x[1], k, c, x[4]>> \in enrollments
    BY DEF Classes
  <2>2. x \in Semester \X Course \X Teacher \X Student BY DEF Classes
  <2>3. x[1] \in Semester BY <2>2
  <2>4. CASE x[1] = s /\ k = n
    <3>1. <<x[1], m, x[2], x[3]>> \in assignments' /\ <<x[1], m, c, x[4]>> \in enrollments'
      BY <1>1, <1>3, <2>1, <2>3, <2>4
    <3>2. QED BY <2>2, <3>1 DEF Classes
  <2>5. CASE ~(x[1] = s /\ k = n)
    <3>1. <<x[1], k, x[2], x[3]>> \in assignments' /\ <<x[1], k, c, x[4]>> \in enrollments'
      BY <1>1, <1>3, <2>1, <2>3, <2>5
    <3>2. QED BY <2>2, <3>1 DEF Classes
  <2>6. QED BY <2>4, <2>5
<1>5. ASSUME NEW x \in Classes' PROVE x \in Classes
  <2>1. PICK k \in Nrc, c \in Course :
          <<x[1], k, x[2], x[3]>> \in assignments' /\ <<x[1], k, c, x[4]>> \in enrollments'
    BY DEF Classes
  <2>2. x \in Semester \X Course \X Teacher \X Student BY DEF Classes
  <2>3. x[1] \in Semester BY <2>2
  <2>4. CASE x[1] = s /\ k = m
    <3>1. <<x[1], n, x[2], x[3]>> \in assignments /\ <<x[1], n, c, x[4]>> \in enrollments
      BY <1>1, <1>3, <2>1, <2>3, <2>4
    <3>2. QED BY <2>2, <3>1 DEF Classes
  <2>5. CASE ~(x[1] = s /\ k = m)
    <3>1. <<x[1], k, x[2], x[3]>> \in assignments /\ <<x[1], k, c, x[4]>> \in enrollments
      BY <1>1, <1>3, <2>1, <2>3, <2>5
    <3>2. QED BY <2>2, <3>1 DEF Classes
  <2>6. QED BY <2>4, <2>5
<1>6. QED BY <1>4, <1>5

(* Each teacher of a renamed offering has the same students as before, in  *)
(* every semester.                                                         *)
THEOREM RenamesKeepClasses == Spec => RenamesSeparateNobody
<1>1. CatalogTypeOK /\ [Next]_vars =>
        [\A s \in Semester, n, m \in Nrc, ts \in Slots :
            UpdateCourse(s, n, m, ts) => Classes' = Classes]_vars
  BY TypeParts, ClassesKept
<1>2. QED BY <1>1, TypeCorrect, PTL DEF Spec, RenamesSeparateNobody

-----------------------------------------------------------------------------
(* Semesters that are over.                                                *)
ChangesOnly(z) ==
  /\ \A x : x[1] # z => (x \in schedules' <=> x \in schedules)
  /\ \A x : x[1] # z => (x \in assignments' <=> x \in assignments)
  /\ \A x : x[1] # z => (x \in enrollments' <=> x \in enrollments)

LEMMA OtherRows ==
  ASSUME NEW z, ChangesOnly(z), NEW s, s # z
  PROVE  /\ RowsOf(schedules, s)' = RowsOf(schedules, s)
         /\ RowsOf(assignments, s)' = RowsOf(assignments, s)
         /\ RowsOf(enrollments, s)' = RowsOf(enrollments, s)
BY DEF ChangesOnly, RowsOf

LEMMA RenamedElsewhere ==
  ASSUME NEW rows, NEW z, NEW k, NEW m, NEW x, x[1] # z
  PROVE  x \in Renamed(rows, z, k, m) <=> x \in rows
<1>1. ASSUME NEW y, x = <<z, m, y[3], y[4]>> PROVE FALSE BY <1>1
<1>2. QED BY <1>1, RenamedRows

LEMMA CourseFormHere == ASSUME NEW z, CourseForm(z) PROVE z \in active /\ ChangesOnly(z)
<1>1. ASSUME NEW n, NEW c, NEW ts, CreateCourse(z, n, c, ts) PROVE z \in active /\ ChangesOnly(z)
  <2>1. z \in active BY <1>1 DEF CreateCourse, CatalogOf, Current
  <2>2. /\ schedules' = schedules \cup {<<z, n, t, c>> : t \in ts}
        /\ assignments' = assignments /\ enrollments' = enrollments
    BY <1>1 DEF CreateCourse
  <2>3. QED BY <2>1, <2>2 DEF ChangesOnly
<1>2. ASSUME NEW n, NEW m, NEW ts, UpdateCourse(z, n, m, ts) PROVE z \in active /\ ChangesOnly(z)
  <2>1. z \in active BY <1>2 DEF UpdateCourse, Current
  <2>2. /\ schedules' = {x \in schedules : x[1] # z \/ x[2] # n}
                          \cup {<<z, m, t, CourseOf(z, n)>> : t \in ts}
        /\ assignments' = Renamed(assignments, z, n, m)
        /\ enrollments' = Renamed(enrollments, z, n, m)
    BY <1>2 DEF UpdateCourse, RenamedStudents
  <2>3. QED BY <2>1, <2>2, RenamedElsewhere DEF ChangesOnly
<1>3. ASSUME NEW n, NEW T \in SUBSET Teacher, SetCourseTeachers(z, n, T)
      PROVE  z \in active /\ ChangesOnly(z)
  <2>1. z \in active /\ UNCHANGED <<schedules, enrollments>>
    BY <1>3 DEF SetCourseTeachers, CatalogOf, Current
  <2>2. Relisting(z) BY <1>3, SetTeachersRelists
  <2>3. QED BY <2>1, <2>2 DEF Relisting, Named, ChangesOnly
<1>4. QED BY <1>1, <1>2, <1>3 DEF CourseForm

LEMMA TeacherFormHere ==
  ASSUME RowsOK, NEW z, TeacherForm(z) PROVE z \in active /\ ChangesOnly(z)
<1>1. z \in active /\ UNCHANGED <<schedules, enrollments>>
  BY DEF TeacherForm, SaveTeacher, CatalogOf, Current
<1>2. Relisting(z) BY SaveTeacherRelists DEF TeacherForm
<1>3. QED BY <1>1, <1>2 DEF Relisting, Named, ChangesOnly

LEMMA StudentFormHere == ASSUME NEW z, StudentForm(z) PROVE z \in active /\ ChangesOnly(z)
<1>1. z \in active /\ UNCHANGED <<schedules, assignments>>
  BY DEF StudentForm, SaveStudent, ImportStudents, CatalogOf, Current
<1>2. Enrolling(z) BY SaveEnrolls, RosterEnrolls DEF StudentForm
<1>3. ASSUME NEW e \in enrollments', e \notin enrollments PROVE e[1] = z
  <2>1. e = <<z, e[2], CourseOf(z, e[2]), e[4]>> BY <1>2, <1>3 DEF Enrolling
  <2>2. QED BY <2>1
<1>4. \A e \in enrollments : e[1] # z => e \in enrollments'
  BY DEF StudentForm, SaveStudent, ImportStudents
<1>5. QED BY <1>1, <1>3, <1>4 DEF ChangesOnly

LEMMA CommitHere ==
  ASSUME ControlOK, NEW r \in Request,
         CommitTeacherLoad(r) \/ CommitSchedules(r) \/ CommitHourly(r)
  PROVE  call[r] # Idle /\ call'[r] = Idle /\ ChangesOnly(call[r].sem)
<1>1. call[r] # Idle
  BY DEF CommitTeacherLoad, CommitSchedules, CommitHourly, Idle
<1>2. call'[r] = Idle
  BY DEF CommitTeacherLoad, CommitSchedules, CommitHourly, End, ControlOK
<1>3. CommitTeacherLoad(r) => ChangesOnly(call[r].sem) BY DEF CommitTeacherLoad, ChangesOnly
<1>4. CommitSchedules(r) => ChangesOnly(call[r].sem)
  BY DEF CommitSchedules, OtherSlots, ChangesOnly
<1>5. CommitHourly(r) => ChangesOnly(call[r].sem) BY DEF CommitHourly, ChangesOnly
<1>6. QED BY <1>1, <1>2, <1>3, <1>4, <1>5

(* The load of a semester that is not active is history: only an import    *)
(* that read it while it was active still writes to it.                    *)
THEOREM PastIsKept == Spec => PastSemestersFrozen
<1>1. CatalogTypeOK /\ [Next]_vars =>
        [\A s \in Semester \ active :
           \/ \E r \in Request : call[r] # Idle /\ call[r].sem = s /\ call'[r] = Idle
           \/ /\ RowsOf(schedules, s)' = RowsOf(schedules, s)
              /\ RowsOf(assignments, s)' = RowsOf(assignments, s)
              /\ RowsOf(enrollments, s)' = RowsOf(enrollments, s)]_vars
  <2>1. SUFFICES ASSUME CatalogTypeOK, [Next]_vars, NEW s \in Semester \ active,
                        ~\E r \in Request : call[r] # Idle /\ call[r].sem = s /\ call'[r] = Idle
                 PROVE  /\ RowsOf(schedules, s)' = RowsOf(schedules, s)
                        /\ RowsOf(assignments, s)' = RowsOf(assignments, s)
                        /\ RowsOf(enrollments, s)' = RowsOf(enrollments, s)
    OBVIOUS
  <2>2. RowsOK /\ ControlOK BY <2>1, TypeParts
  <2> DEFINE Kept == /\ RowsOf(schedules, s)' = RowsOf(schedules, s)
                     /\ RowsOf(assignments, s)' = RowsOf(assignments, s)
                     /\ RowsOf(enrollments, s)' = RowsOf(enrollments, s)
  <2>3. UNCHANGED <<schedules, assignments, enrollments>> => Kept BY DEF RowsOf
  <2>4. ASSUME NEW z \in active, ChangesOnly(z) PROVE Kept BY <2>1, <2>4, OtherRows
  <2>5. ASSUME NEW r \in Request, CommitTeacherLoad(r) \/ CommitSchedules(r) \/ CommitHourly(r)
        PROVE  Kept
    <3>1. call[r] # Idle /\ call'[r] = Idle /\ ChangesOnly(call[r].sem)
      BY <2>2, <2>5, CommitHere
    <3>2. call[r].sem # s BY <2>1, <3>1
    <3>3. QED BY <3>1, <3>2, OtherRows
  <2>6. ASSUME NEW r \in Request, Import(r) \/ Activation(r) \/ RollBack(r) PROVE Kept
    <3>1. \/ UNCHANGED <<schedules, assignments, enrollments>>
          \/ CommitTeacherLoad(r) \/ CommitSchedules(r) \/ CommitHourly(r)
      BY <2>6 DEF Import, Activation, RollBack, ReadTeacherLoad, ReadTeacherRoster, ReadSchedules,
         ReadHourly, Begin, Upsert, CommitActivation, loadVars
    <3>2. QED BY <2>3, <2>5, <3>1
  <2>7. ASSUME NEW z \in Semester, CourseForm(z) \/ TeacherForm(z) \/ StudentForm(z) PROVE Kept
    BY <2>2, <2>4, <2>7, CourseFormHere, TeacherFormHere, StudentFormHere
  <2>8. AssistantshipForm => UNCHANGED <<schedules, assignments, enrollments>>
    BY DEF AssistantshipForm, SaveAssistantship
  <2>9. UNCHANGED vars => UNCHANGED <<schedules, assignments, enrollments>>
    BY DEF vars, loadVars
  <2> HIDE DEF Kept
  <2>10. Kept BY <2>1, <2>3, <2>6, <2>7, <2>8, <2>9 DEF Next
  <2>11. QED BY <2>10 DEF Kept
<1>2. QED BY <1>1, TypeCorrect, PTL DEF Spec, PastSemestersFrozen

-----------------------------------------------------------------------------
(* The active semester.  An activation switches off every semester there   *)
(* was when its updateMany started, but its own.                           *)
SweepInv == \A r \in Activating : call[r].swept = call[r].knew \ {call[r].sem}

LEMMA SweepStep == ASSUME ControlOK, SweepInv, [Next]_vars PROVE SweepInv'
<1>1. UNCHANGED call => SweepInv' BY DEF SweepInv, Activating
<1>2. ASSUME NEW r \in Request, End(r) PROVE SweepInv'
  <2>1. \A q \in Request : call'[q] = IF q = r THEN Idle ELSE call[q]
    BY <1>2 DEF End, ControlOK
  <2>2. Idle.op # "activate" BY DEF Idle
  <2>3. QED BY <2>1, <2>2 DEF SweepInv, Activating
<1>3. ASSUME NEW r \in Request, NEW c, Begin(r, c),
             c.op = "activate" => c.swept = c.knew \ {c.sem}
      PROVE  SweepInv'
  <2>1. \A q \in Request : call'[q] = IF q = r THEN c ELSE call[q]
    BY <1>3 DEF Begin, ControlOK
  <2>2. QED BY <1>3, <2>1 DEF SweepInv, Activating
<1>4. CASE UNCHANGED vars BY <1>1, <1>4 DEF vars
<1>5. ASSUME NEW s \in Semester, CourseForm(s) \/ TeacherForm(s) \/ StudentForm(s)
      PROVE  UNCHANGED call
  BY <1>5 DEF CourseForm, CreateCourse, UpdateCourse, SetCourseTeachers, TeacherForm, SaveTeacher,
     StudentForm, SaveStudent, ImportStudents, Form
<1>6. AssistantshipForm => UNCHANGED call
  BY DEF AssistantshipForm, SaveAssistantship, Form
<1>7. ASSUME NEW r \in Request, Import(r) PROVE SweepInv'
  <2>1. ASSUME NEW s, NEW row, ReadTeacherLoad(r, s, row) PROVE SweepInv'
    BY <1>3, <2>1 DEF ReadTeacherLoad
  <2>2. ASSUME NEW s, NEW row, ReadTeacherRoster(r, s, row) PROVE SweepInv'
    BY <1>3, <2>2 DEF ReadTeacherRoster
  <2>3. ASSUME NEW s, NEW row, ReadSchedules(r, s, row) PROVE SweepInv'
    BY <1>3, <2>3 DEF ReadSchedules
  <2>4. ASSUME NEW s, NEW n, NEW t, ReadHourly(r, s, n, t) PROVE SweepInv'
    BY <1>3, <2>4 DEF ReadHourly
  <2>5. CommitTeacherLoad(r) \/ CommitSchedules(r) \/ CommitHourly(r) => End(r)
    BY DEF CommitTeacherLoad, CommitSchedules, CommitHourly
  <2>6. QED BY <1>2, <1>7, <2>1, <2>2, <2>3, <2>4, <2>5 DEF Import
<1>8. ASSUME NEW r \in Request, NEW s, Upsert(r, s) PROVE SweepInv'
  BY <1>3, <1>8 DEF Upsert, Others
<1>9. ASSUME NEW r \in Request, CommitActivation(r) \/ RollBack(r) PROVE SweepInv'
  BY <1>2, <1>9 DEF CommitActivation, RollBack
<1>10. QED BY <1>1, <1>4, <1>5, <1>6, <1>7, <1>8, <1>9 DEF Next, Activation

LEMMA SweepInvariant == Spec => []SweepInv
<1>1. Init => SweepInv BY DEF Init, SweepInv, Activating, Idle
<1>2. CatalogTypeOK /\ SweepInv /\ [Next]_vars => SweepInv'
  BY TypeParts, SweepStep
<1>3. QED BY <1>1, <1>2, TypeCorrect, PTL DEF Spec

LEMMA OnlyActivation ==
  ASSUME [Next]_vars, active' # active PROVE \E r \in Request : CommitActivation(r)
<1>1. UNCHANGED vars => UNCHANGED active BY DEF vars, semesterVars
<1>2. ASSUME NEW s \in Semester, CourseForm(s) \/ TeacherForm(s) \/ StudentForm(s)
      PROVE  UNCHANGED active
  BY <1>2 DEF CourseForm, CreateCourse, UpdateCourse, SetCourseTeachers, TeacherForm, SaveTeacher,
     StudentForm, SaveStudent, ImportStudents, Form, semesterVars
<1>3. AssistantshipForm => UNCHANGED active
  BY DEF AssistantshipForm, SaveAssistantship, Form, semesterVars
<1>4. ASSUME NEW r \in Request, Import(r) \/ RollBack(r) \/ \E s \in Semester : Upsert(r, s)
      PROVE  UNCHANGED active
  BY <1>4 DEF Import, RollBack, ReadTeacherLoad, ReadTeacherRoster, ReadSchedules,
     ReadHourly, Begin, Upsert, CommitTeacherLoad, CommitSchedules, CommitHourly, semesterVars
<1>5. QED BY <1>1, <1>2, <1>3, <1>4 DEF Next, Activation

(* An activation leaves one active semester, its own, unless another       *)
(* semester was created while it ran.                                      *)
THEOREM OneActiveSemester == Spec => TwoActiveOnlyByCreation
<1>1. CatalogTypeOK /\ SweepInv /\ [Next]_vars =>
        [(\E x, y \in active' : x # y) /\ active' # active =>
           \E r \in Activating : call'[r] = Idle /\ known' \ call[r].knew \notin {{}, {call[r].sem}}]_vars
  <2>1. SUFFICES ASSUME CatalogTypeOK, SweepInv, [Next]_vars, active' # active,
                        NEW x \in active', NEW y \in active', x # y
                 PROVE  \E r \in Activating :
                          call'[r] = Idle /\ known' \ call[r].knew \notin {{}, {call[r].sem}}
    OBVIOUS
  <2>2. ControlOK BY <2>1, TypeParts
  <2>3. PICK r \in Request : CommitActivation(r) BY <2>1, OnlyActivation
  <2>4. /\ r \in Activating /\ call' = [call EXCEPT ![r] = Idle]
        /\ known' = known \cup {call[r].sem}
        /\ active' = (active \ call[r].swept) \cup {call[r].sem}
    BY <2>3 DEF CommitActivation, Activating, End
  <2>5. call'[r] = Idle BY <2>2, <2>3, <2>4 DEF ControlOK
  <2>6. PICK z \in active : z \notin call[r].swept /\ z # call[r].sem
    BY <2>1, <2>4
  <2>7. z \notin call[r].knew BY <2>1, <2>4, <2>6 DEF SweepInv
  <2>8. z \in known' BY <2>2, <2>4, <2>6 DEF ControlOK
  <2>9. known' \ call[r].knew \notin {{}, {call[r].sem}} BY <2>6, <2>7, <2>8
  <2>10. QED BY <2>4, <2>5, <2>9
<1>2. QED BY <1>1, TypeCorrect, SweepInvariant, PTL DEF Spec, TwoActiveOnlyByCreation
=============================================================================
