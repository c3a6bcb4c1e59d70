--------------------------- MODULE Assistantships ---------------------------
(***************************************************************************)
(* Assistantships: a student assists in a teaching assignment, during a    *)
(* period and at weekly times, after the approval of the course.  The      *)
(* approval of a student in a course is recorded once and every            *)
(* assistantship of that course refers to it.                              *)
(*                                                                         *)
(* Registering and updating are one serializable transaction each.  Days   *)
(* and minutes are numbers; a slot is <<weekday, start, end>>.  Rows older *)
(* than the required end date have none: NoEnd.                            *)
(***************************************************************************)
EXTENDS Naturals, FiniteSets

CONSTANTS
  Id, Assistant,
  Assignment,          \* teaching assignments
  CourseOfAssignment,  \* the course of each
  Today,               \* the days there are, 1..n
  SemesterDays,        \* those of the semester of the assignments
  WeeklySlot           \* the slots forms choose from

NoEnd == 0

ASSUME AssistantshipsAssumption ==
  /\ Today \subseteq Nat \ {NoEnd} /\ SemesterDays \subseteq Today
  /\ CourseOfAssignment \in [Assignment -> {CourseOfAssignment[a] : a \in Assignment}]
  /\ WeeklySlot \subseteq Nat \X Nat \X Nat

VARIABLES
  assistantship,    \* the row of each id, or NoRow
  approvals,        \* AssistantCourseApproval: <<assistant, course, day>>
  teaching          \* the assignments whose teacher is active

assistantVars == <<assistantship, approvals, teaching>>

NoRow == [assistant |-> "none"]
Rows == [assistant : Assistant, assignment : Assignment, approvedOn : Today,
         startsOn : Today, endsOn : Today \cup {NoEnd}, slots : SUBSET WeeklySlot]
Held == {i \in Id : assistantship[i] # NoRow}

AssistantshipsTypeOK ==
  /\ assistantship \in [Id -> {NoRow} \cup Rows]
  /\ approvals \subseteq Assistant \X {CourseOfAssignment[a] : a \in Assignment} \X Today
  /\ \A x, y \in approvals : x[1] = y[1] /\ x[2] = y[2] => x = y
  /\ teaching \subseteq Assignment
  /\ \A i \in Held : LET r == assistantship[i] IN   \* a foreign key
       <<r.assistant, CourseOfAssignment[r.assignment], r.approvedOn>> \in approvals
  /\ \A i, j \in Held :
       (/\ assistantship[i].assistant = assistantship[j].assistant
        /\ assistantship[i].assignment = assistantship[j].assignment) => i = j

\* An old row without end, or nothing.
AssistantshipsInit ==
  /\ teaching = Assignment
  /\ \/ assistantship = [i \in Id |-> NoRow] /\ approvals = {}
     \/ \E i \in Id, r \in Rows :
          /\ r.endsOn = NoEnd /\ r.approvedOn < r.startsOn /\ Cardinality(r.slots) = 1
          /\ assistantship = [j \in Id |-> IF j = i THEN r ELSE NoRow]
          /\ approvals = {<<r.assistant, CourseOfAssignment[r.assignment], r.approvedOn>>}

-----------------------------------------------------------------------------
Crosses(x, y) == x[1] = y[1] /\ x[2] < y[3] /\ y[2] < x[3]

\* What a form may ask for before anything is read.
Application == {f \in Rows :
  /\ f.endsOn # NoEnd /\ f.approvedOn < f.startsOn /\ f.startsOn <= f.endsOn
  /\ \A x, y \in f.slots : x[2] < x[3] /\ (x # y => ~Crosses(x, y))}

\* The rows of the same assistant whose period meets the form's.
Meets_Mut(r, f) == r.startsOn <= f.endsOn /\ r.endsOn >= f.startsOn   \* a row without end is missed
Meets(r, f) == r.startsOn <= f.endsOn /\ (r.endsOn = NoEnd \/ r.endsOn >= f.startsOn)
Conflict(r, f) ==
  /\ r.assistant = f.assistant /\ Meets(r, f)
  /\ \E x \in r.slots, y \in f.slots : Crosses(y, x)

\* The approval there is must be the form's; if there is none, this is it.
ApprovalAgrees(f, c) == \A x \in approvals : x[1] = f.assistant /\ x[2] = c => x[3] = f.approvedOn

RegistersOnce(i, f) == \A j \in Held \ {i} :   \* unique assignment and assistant
  ~(assistantship[j].assistant = f.assistant /\ assistantship[j].assignment = f.assignment)

Save(i, f) ==
  LET c == CourseOfAssignment[f.assignment] IN
  /\ f.assignment \in teaching
  /\ {f.startsOn, f.endsOn} \subseteq SemesterDays
  /\ ApprovalAgrees(f, c)
  /\ \A j \in Held \ {i} : ~Conflict(assistantship[j], f)
  /\ RegistersOnce(i, f)
  /\ assistantship' = [assistantship EXCEPT ![i] = f]
  /\ approvals' = approvals \cup {<<f.assistant, c, f.approvedOn>>}
  /\ UNCHANGED teaching

Register(i, f) == i \notin Held /\ Save(i, f)
Update(i, f) == i \in Held /\ Save(i, f)

SetTeacherStatus(a) ==
  /\ teaching' = IF a \in teaching THEN teaching \ {a} ELSE teaching \cup {a}
  /\ UNCHANGED <<assistantship, approvals>>

AssistantshipsNext ==
  \/ \E i \in Id, f \in Application : Register(i, f) \/ Update(i, f)
  \/ \E a \in Assignment : SetTeacherStatus(a)

AssistantshipsSpec == AssistantshipsInit /\ [][AssistantshipsNext]_assistantVars

-----------------------------------------------------------------------------
(* Nobody assists in two places in the same minute of the same day, rows   *)
(* without end included.                                                   *)
At(r, day, weekday, minute) ==
  /\ r.startsOn <= day /\ (r.endsOn = NoEnd \/ day <= r.endsOn)
  /\ \E x \in r.slots : x[1] = weekday /\ x[2] <= minute /\ minute < x[3]
NobodyIsInTwoPlaces ==
  \A i, j \in Held : i # j /\ assistantship[i].assistant = assistantship[j].assistant =>
    \A day \in Today, x \in WeeklySlot : \A minute \in x[2]..x[3] :
      ~(At(assistantship[i], day, x[1], minute) /\ At(assistantship[j], day, x[1], minute))
=============================================================================
