----------------------------- MODULE Workbooks ------------------------------
(***************************************************************************)
(* What an Excel import makes of a workbook: which rows are wrong, which   *)
(* repeat an earlier row or a row of the repository, and which are         *)
(* inserted, for the three templates.  The preview of a workbook is the    *)
(* same reading without the insertion.  AcademicImports and ImportQueue    *)
(* have the races between imports; here each import is one step.           *)
(*                                                                         *)
(* Texts that differ in case only have the same Fold.  A title stands for  *)
(* the title with its year, and ok says whether every cell of the row is   *)
(* well formed.  Blank rows leave holes in the numbering.                  *)
(* A contract is of a teaching assignment, that is of a teacher, an NRC    *)
(* and a course, and no table says which course an NRC is of: a workbook   *)
(* names the NRC, and an import finds the course in what it finds first.   *)
(***************************************************************************)
EXTENDS Naturals, Sequences

CONSTANTS
  Spelled,              \* codes, DOIs and titles as written
  Fold,                 \* their lower case
  Code, Title, Unit,    \* of projects
  Doi, OutputTitle,     \* of outputs
  Line,                 \* bound: the rows of a sheet that are not blank
  Sheet,                \* bound: the sheets of research in use, in 1..3
  Rut, Email, NoRut,    \* of teachers; some have no RUT
  Nrc, Course,          \* of the active semester
  Section,              \* a component and a parallel
  NoCode, NoDoi, Blank

ASSUME WorkbooksAssumption ==
  /\ Code \cup Title \cup Doi \cup OutputTitle \subseteq Spelled
  /\ Fold \in [Spelled -> Spelled]
  /\ NoCode \notin Spelled /\ NoDoi \notin Spelled /\ NoRut \notin Rut
  /\ Line \subseteq Nat /\ Sheet \subseteq 1..3

VARIABLES
  projectRows,    \* what the lookup sees of Project
  outputRows,     \* and of ResearchOutput
  scheduleRows, enrollmentRows,   \* CourseSchedule, StudentEnrollment: <<nrc, course>>
  assignmentRows, \* TeachingAssignment: <<rut, nrc, course>>
  contractRows,   \* HourlyTeachingContract: <<rut, nrc, course, section>>
  teacherRows     \* Teacher: <<rut, email>>

offeringVars == <<scheduleRows, enrollmentRows>>
hourlyVars == <<offeringVars, assignmentRows, contractRows, teacherRows>>
workbookVars == <<projectRows, outputRows, hourlyVars>>

ProjectRow == [code : Code \cup {NoCode}, title : Title, unit : Unit]
Kind == <<"ARTICLE", "BOOK", "INTELLECTUAL_PROPERTY">>   \* one sheet each, read in this order
OutputRow == [kind : {Kind[k] : k \in 1..3}, doi : Doi \cup {NoDoi}, title : OutputTitle]

\* The unique columns.
UniqueCodes(P) == \A p, q \in P : p.code = q.code /\ p.code # NoCode => p = q
UniqueDois(O) == \A p, q \in O : p.doi = q.doi /\ p.doi # NoDoi => p = q
UniqueTeachers(T) ==
  \A t, u \in T : (t[1] = u[1] /\ t[1] # NoRut) \/ t[2] = u[2] => t = u

\* Teachers as far as a workbook can tell them apart.  The contracts of those
\* without a RUT are left out: no import looks at them.
Teacher == Rut \cup {NoRut}

WorkbooksTypeOK ==
  /\ projectRows \subseteq ProjectRow /\ UniqueCodes(projectRows)
  /\ outputRows \subseteq OutputRow /\ UniqueDois(outputRows)
  /\ scheduleRows \subseteq Nrc \X Course /\ enrollmentRows \subseteq Nrc \X Course
  /\ assignmentRows \subseteq Teacher \X Nrc \X Course
  /\ contractRows \subseteq Rut \X Nrc \X Course \X Section
  /\ teacherRows \subseteq Teacher \X Email /\ UniqueTeachers(teacherRows)
  /\ \A c \in contractRows : <<c[1], c[2], c[3]>> \in assignmentRows
  /\ \A a \in assignmentRows : \E t \in teacherRows : t[1] = a[1]

WorkbooksInit ==
  /\ projectRows = {} /\ outputRows = {}
  /\ scheduleRows = {} /\ enrollmentRows = {} /\ assignmentRows = {}
  /\ contractRows = {} /\ teacherRows = {}

-----------------------------------------------------------------------------
(* parseProjects, with P the projects there are.  A row counts as read for *)
(* the rows below it even if it is wrong itself.                           *)
ProjectBook == [Line -> [row : ProjectRow, ok : BOOLEAN] \cup {Blank}]
Numbers(w) == {i \in Line : w[i] # Blank}

\* The key within the file has no unit, the one of the repository does.
FileKey(p) == IF p.code # NoCode THEN <<"code", Fold[p.code]>> ELSE <<"title", Fold[p.title]>>
FirstProjects_Mut(w) == {i \in Numbers(w) : w[i].ok}   \* rows of the file are not compared
FirstProjects(w) ==
  {i \in Numbers(w) : /\ w[i].ok
                      /\ \A j \in Numbers(w) : j < i => FileKey(w[j].row) # FileKey(w[i].row)}

\* The query compares as written; what it finds is compared in lower case.
FoundProjects(P, w) ==
  {p \in P : \E i \in FirstProjects(w) :
     \/ p.code # NoCode /\ p.code = w[i].row.code
     \/ p.title = w[i].row.title /\ p.unit = w[i].row.unit}
SameProject(p, q) ==
  \/ p.code # NoCode /\ q.code # NoCode /\ Fold[p.code] = Fold[q.code]
  \/ Fold[p.title] = Fold[q.title] /\ p.unit = q.unit
InsertedProjects(P, w) ==
  {i \in FirstProjects(w) : \A p \in FoundProjects(P, w) : ~SameProject(p, w[i].row)}
WithProjects(P, w) == P \cup {w[i].row : i \in InsertedProjects(P, w)}

-----------------------------------------------------------------------------
(* parseResearch.  Rows are <<sheet, number>>; only publications have DOIs. *)
Cell(k) == [row : {p \in OutputRow : p.kind = Kind[k] /\ (k # 1 => p.doi = NoDoi)}, ok : BOOLEAN]
Position == Sheet \X Line
OutputBook == {w \in [Position -> UNION {Cell(k) : k \in Sheet} \cup {Blank}] :
                 \A x \in Position : w[x] \in Cell(x[1]) \cup {Blank}}
Written(w) == {x \in Position : w[x] # Blank}
Above(x, y) == x[1] < y[1] \/ (x[1] = y[1] /\ x[2] < y[2])

SameDoi(p, q) == p.doi # NoDoi /\ q.doi # NoDoi /\ Fold[p.doi] = Fold[q.doi]
SameOutput(p, q) == p.kind = q.kind /\ Fold[p.title] = Fold[q.title]

\* The DOI of a wrong row counts, its title does not.
Readable(w) ==
  {x \in Written(w) : w[x].ok /\ \A y \in Written(w) : Above(y, x) => ~SameDoi(w[y].row, w[x].row)}
FirstOutputs(w) ==
  {x \in Readable(w) : \A y \in Readable(w) : Above(y, x) => ~SameOutput(w[y].row, w[x].row)}

FoundOutputs(P, w) ==
  {p \in P : \E x \in FirstOutputs(w) :
     \/ p.doi # NoDoi /\ p.doi = w[x].row.doi
     \/ p.kind = w[x].row.kind /\ p.title = w[x].row.title}
RepeatedOutputs(P, w) ==
  {x \in FirstOutputs(w) : \E p \in FoundOutputs(P, w) : SameDoi(p, w[x].row) \/ SameOutput(p, w[x].row)}
\* Repeated rows are taken out by their number, whichever sheet they are of.
InsertedOutputs(P, w) == {x \in FirstOutputs(w) : \A y \in RepeatedOutputs(P, w) : x[2] # y[2]}
WithOutputs(P, w) == P \cup {w[x].row : x \in InsertedOutputs(P, w)}

-----------------------------------------------------------------------------
(* parseHourly, with the emails the request brings for teachers the system *)
(* does not know.  A row that is malformed, or that no rate fits, is an    *)
(* error before it is compared with anything, and counts as Blank here.    *)
(* inside: its dates are within the months of the semester.                *)
ContractRow == [rut : Rut, nrc : Nrc, section : Section, named : BOOLEAN, inside : BOOLEAN]
ContractBook == [Line -> ContractRow \cup {Blank}]
GivenEmails == {e \in UNION {[R -> Email] : R \in SUBSET Rut} :
                  \A r, q \in DOMAIN e : e[r] = e[q] => r = q}

\* The tables an import reads, as they are.
Tables == [schedules |-> scheduleRows, enrollments |-> enrollmentRows,
           assignments |-> assignmentRows, contracts |-> contractRows, teachers |-> teacherRows]

KnownRut(D, r) == \E t \in D.teachers : t[1] = r
FreshEmail(D, e) == \A t \in D.teachers : t[2] # e
Scheduled(D, n) == {c \in Course : <<n, c>> \in D.schedules}
Assigned(D, n) == {c \in Course : \E r \in Teacher : <<r, n, c>> \in D.assignments}
Enrolled(D, n) == {c \in Course : <<n, c>> \in D.enrollments}
CoursesOf(D, n) == Scheduled(D, n) \cup Assigned(D, n) \cup Enrolled(D, n)

\* The rows that reach the test for repetition.
Payable(D, w, emails) ==
  {i \in Numbers(w) : LET c == w[i] IN
     /\ CoursesOf(D, c.nrc) # {}
     /\ KnownRut(D, c.rut) \/ (c.named /\ c.rut \in DOMAIN emails /\ FreshEmail(D, emails[c.rut]))}
ContractKey(c) == <<c.rut, c.nrc, c.section>>
FirstContracts_Mut(D, w, emails) == Payable(D, w, emails)   \* rows of the file are not compared
FirstContracts(D, w, emails) ==
  {i \in Payable(D, w, emails) :
     \A j \in Payable(D, w, emails) : j < i => ContractKey(w[j]) # ContractKey(w[i])}

\* A row is compared with the contracts of one assignment: the first of its
\* teacher and NRC, in whatever order the database returned them.
Staffed(D) == {p \in Rut \X Nrc : \E c \in Course : <<p[1], p[2], c>> \in D.assignments}
Lookups(D) == {f \in [Staffed(D) -> Course] : \A p \in Staffed(D) : <<p[1], p[2], f[p]>> \in D.assignments}
Existing(D, f, c) ==
  /\ <<c.rut, c.nrc>> \in Staffed(D)
  /\ <<c.rut, c.nrc, f[<<c.rut, c.nrc>>], c.section>> \in D.contracts
Inserted(D, w, emails, f) == {i \in FirstContracts(D, w, emails) : ~Existing(D, f, w[i]) /\ w[i].inside}
InsertedContracts(D, w, emails) == {Inserted(D, w, emails, f) : f \in Lookups(D)}

\* importHourly finds the course again, row by row: any one of the schedules,
\* or of the assignments, or of the enrollments.  Of the rows that find only
\* enrollments the first creates the assignment the others find.
Resolved(D, n) ==
  IF Scheduled(D, n) # {} THEN Scheduled(D, n)
  ELSE IF Assigned(D, n) # {} THEN Assigned(D, n) ELSE Enrolled(D, n)
Resolutions(D, w, I) ==
  {g \in [I -> Course] :
     /\ \A i \in I : g[i] \in Resolved(D, w[i].nrc)
     /\ \A i, j \in I : /\ w[i].nrc = w[j].nrc
                        /\ Scheduled(D, w[i].nrc) \cup Assigned(D, w[i].nrc) = {}
                        => g[i] = g[j]}

ContractOf(c, course) == <<c.rut, c.nrc, course, c.section>>
\* The unique columns of the contract refuse the transaction.
Refused(D, w, I, g) ==
  \/ \E i \in I : ContractOf(w[i], g[i]) \in D.contracts
  \/ \E i, j \in I : i # j /\ ContractOf(w[i], g[i]) = ContractOf(w[j], g[j])
NewTeachers(D, w, emails, I) ==
  {<<w[i].rut, emails[w[i].rut]>> : i \in {k \in I : ~KnownRut(D, w[k].rut)}}
Imported(D, w, emails, I, g) ==
  [D EXCEPT !.assignments = @ \cup {<<w[i].rut, w[i].nrc, g[i]>> : i \in I},
            !.contracts = @ \cup {ContractOf(w[i], g[i]) : i \in I},
            !.teachers = @ \cup NewTeachers(D, w, emails, I)]

-----------------------------------------------------------------------------
ImportProjects(w) ==
  /\ InsertedProjects(projectRows, w) # {}
  /\ projectRows' = WithProjects(projectRows, w)
  /\ UNCHANGED <<outputRows, hourlyVars>>

ImportResearch(w) ==
  /\ InsertedOutputs(outputRows, w) # {}
  /\ outputRows' = WithOutputs(outputRows, w)
  /\ UNCHANGED <<projectRows, hourlyVars>>

ImportHourly(w, emails) ==
  /\ \E I \in InsertedContracts(Tables, w, emails) \ {{}} :
     \E g \in Resolutions(Tables, w, I) :
       /\ ~Refused(Tables, w, I, g)
       /\ assignmentRows' = Imported(Tables, w, emails, I, g).assignments
       /\ contractRows' = Imported(Tables, w, emails, I, g).contracts
       /\ teacherRows' = Imported(Tables, w, emails, I, g).teachers
  /\ UNCHANGED <<projectRows, outputRows, offeringVars>>

\* The forms write and delete any row the unique columns allow.
EditProjects ==
  /\ \E p \in ProjectRow : projectRows' \in {projectRows \cup {p}, projectRows \ {p}}
  /\ UniqueCodes(projectRows')
  /\ UNCHANGED <<outputRows, hourlyVars>>
EditOutputs ==
  /\ \E p \in OutputRow : outputRows' \in {outputRows \cup {p}, outputRows \ {p}}
  /\ UniqueDois(outputRows')
  /\ UNCHANGED <<projectRows, hourlyVars>>
\* Schedules, enrollments, assignments, contracts and teachers, of the other
\* imports and forms: an NRC may get a second course (Catalog shows how), and
\* an assignment with contracts stays.
EditOffering ==
  /\ \E x \in Nrc \X Course :
       \/ scheduleRows' \in {scheduleRows \cup {x}, scheduleRows \ {x}} /\ UNCHANGED enrollmentRows
       \/ enrollmentRows' \in {enrollmentRows \cup {x}, enrollmentRows \ {x}} /\ UNCHANGED scheduleRows
  /\ UNCHANGED <<projectRows, outputRows, assignmentRows, contractRows, teacherRows>>
EditTeaching ==
  /\ \/ \E t \in teacherRows, n \in Nrc, c \in Course :
          /\ \/ assignmentRows' = assignmentRows \cup {<<t[1], n, c>>}
             \/ /\ \A s \in Section : <<t[1], n, c, s>> \notin contractRows
                /\ assignmentRows' = assignmentRows \ {<<t[1], n, c>>}
          /\ UNCHANGED <<contractRows, teacherRows>>
     \/ \E a \in assignmentRows, s \in Section : LET k == <<a[1], a[2], a[3], s>> IN
          /\ a[1] # NoRut
          /\ contractRows' \in {contractRows \cup {k}, contractRows \ {k}}
          /\ UNCHANGED <<assignmentRows, teacherRows>>
     \/ \E t \in Teacher \X Email :
          /\ teacherRows' = teacherRows \cup {t} /\ UniqueTeachers(teacherRows')
          /\ UNCHANGED <<assignmentRows, contractRows>>
  /\ UNCHANGED <<projectRows, outputRows, offeringVars>>

ProjectsNext == EditProjects \/ \E w \in ProjectBook : ImportProjects(w)
ResearchNext == EditOutputs \/ \E w \in OutputBook : ImportResearch(w)
HourlyNext ==
  EditOffering \/ EditTeaching \/ \E w \in ContractBook, emails \in GivenEmails : ImportHourly(w, emails)
WorkbooksNext == ProjectsNext \/ ResearchNext \/ HourlyNext

WorkbooksSpec == WorkbooksInit /\ [][WorkbooksNext]_workbookVars

-----------------------------------------------------------------------------
(* For projects and outputs: an import is not refused by a unique column   *)
(* as long as its lookup is true (it would lose all its rows), and         *)
(* importing the same workbook again, as the queue may after a crash, adds *)
(* nothing.                                                                *)
ProjectsOnce ==
  \A w \in ProjectBook : LET P == WithProjects(projectRows, w) IN
    /\ \A i \in InsertedProjects(projectRows, w) : w[i].row.code # NoCode =>
         /\ \A p \in projectRows : p.code # w[i].row.code
         /\ \A j \in InsertedProjects(projectRows, w) : j # i => w[j].row.code # w[i].row.code
    /\ InsertedProjects(P, w) = {}

ResearchOnce ==
  \A w \in OutputBook : LET P == WithOutputs(outputRows, w) IN
    /\ \A x \in InsertedOutputs(outputRows, w) : w[x].row.doi # NoDoi =>
         /\ \A p \in outputRows : p.doi # w[x].row.doi
         /\ \A y \in InsertedOutputs(outputRows, w) : y # x => w[y].row.doi # w[x].row.doi
    /\ InsertedOutputs(P, w) = {}

(* For contracts, as long as each NRC of the workbook is of one course.    *)
(* (With two, a row is compared under one course and inserted under        *)
(* another: the import may be refused, or a contract be doubled.)  Then    *)
(* the import is not refused, importing the workbook again adds only rows  *)
(* that the first import reported, for want of the name of a teacher whom  *)
(* it knew only afterwards, and importing it a third time adds nothing.    *)
OneCourse(D, w) == \A i \in Numbers(w) : \A c, d \in CoursesOf(D, w[i].nrc) : c = d

HourlyOnce ==
  \A w \in ContractBook, emails \in GivenEmails : OneCourse(Tables, w) =>
    \A I \in InsertedContracts(Tables, w, emails) : \A g \in Resolutions(Tables, w, I) :
      LET D == Imported(Tables, w, emails, I, g) IN
      /\ ~Refused(Tables, w, I, g) /\ UniqueTeachers(D.teachers)
      /\ \A J \in InsertedContracts(D, w, emails) :
           /\ \A i \in J : ~w[i].named /\ ~KnownRut(Tables, w[i].rut)
           /\ \A h \in Resolutions(D, w, J) :
                /\ ~Refused(D, w, J, h)
                /\ InsertedContracts(Imported(D, w, emails, J, h), w, emails) = {{}}

ImportedOnce == ProjectsOnce /\ ResearchOnce /\ HourlyOnce

(* Every row of a research workbook is imported or reported: as an error   *)
(* or as a repetition.                                                     *)
EveryRowIsReported ==
  \A w \in OutputBook :
    FirstOutputs(w) = InsertedOutputs(outputRows, w) \cup RepeatedOutputs(outputRows, w)
=============================================================================
