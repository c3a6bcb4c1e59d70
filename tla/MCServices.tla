----------------------------- MODULE MCServices -----------------------------
(***************************************************************************)
(* Small instances of five services for TLC, in one run: the contracts of  *)
(* a teacher and what they pay, assistantships, the repository, the three  *)
(* workbooks, and the administration of users one request at a time.  They *)
(* share no state, so a behaviour is a behaviour of one of them, its       *)
(* scene, and the others stay as they start.                               *)
(***************************************************************************)
EXTENDS UserAdmin, HourlyPay, Assistantships, Repository, MCWorkbooks

VARIABLE scene

TwoMonths == <<31, 28>>
TwoCourses == [a \in Assignment |-> IF a = "a1" THEN "c1" ELSE "c2"]
ThreeSlots == {<<1, 0, 2>>, <<1, 1, 3>>, <<1, 2, 3>>}

ServicesInit ==
  /\ scene \in {"users", "pay", "assistantships", "repository", "projects", "research", "hourly"}
  /\ Init /\ PayInit /\ AssistantshipsInit /\ RepositoryInit /\ WorkbooksInit
  \* off scene: one of the initial states is enough
  /\ scene # "users" => roles = [u \in User |-> Role]
  /\ scene # "assistantships" => approvals = {}

UsersScene ==
  /\ scene = "users" /\ Next
  /\ UNCHANGED <<payVars, assistantVars, repositoryVars, workbookVars>>
PayScene ==
  /\ scene = "pay" /\ PayNext
  /\ UNCHANGED <<vars, assistantVars, repositoryVars, workbookVars>>
AssistantshipsScene ==
  /\ scene = "assistantships" /\ AssistantshipsNext
  /\ UNCHANGED <<vars, payVars, repositoryVars, workbookVars>>
RepositoryScene ==
  /\ scene = "repository" /\ RepositoryNext
  /\ UNCHANGED <<vars, payVars, assistantVars, workbookVars>>
WorkbooksScene ==
  /\ \/ scene = "projects" /\ ProjectsNext
     \/ scene = "research" /\ ResearchNext
     \/ scene = "hourly" /\ HourlyNext
  /\ UNCHANGED <<vars, payVars, assistantVars, repositoryVars>>

ServicesNext ==
  /\ UsersScene \/ PayScene \/ AssistantshipsScene \/ RepositoryScene \/ WorkbooksScene
  /\ UNCHANGED scene

ServicesVars == <<vars, payVars, assistantVars, repositoryVars, workbookVars, scene>>
ServicesSpec == ServicesInit /\ [][ServicesNext]_ServicesVars

\* The scenes share their model values, and with them their permutations.
Symmetry == UNION {Permutations(S) : S \in {User, Contract, Rate, Course, Section}}

(* The type invariants of the five modules.                                *)
ServicesTypeOK ==
  TypeOK /\ PayTypeOK /\ AssistantshipsTypeOK /\ RepositoryTypeOK /\ WorkbooksTypeOK

(* ImportedOnce, where the tables of a template change: in its own scene.  *)
ImportedOnceHere ==
  /\ scene = "projects" => ProjectsOnce
  /\ scene = "research" => ResearchOnce
  /\ scene = "hourly" => HourlyOnce
=============================================================================
