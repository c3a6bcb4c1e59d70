----------------------------- MODULE Repository -----------------------------
(***************************************************************************)
(* The academic repository: projects, research and research outputs.  A    *)
(* research belongs to one project or none; an output to one research (or  *)
(* none, if a workbook brought it) and to any number of projects.  Every   *)
(* form carries the version of the row it was opened with, and a save or a *)
(* deletion is one serializable transaction that compares it with the      *)
(* row's.                                                                  *)
(*                                                                         *)
(* The fields of a row are its team (participants or authors) and its      *)
(* links.  A version is a number, not the time of the last update: two     *)
(* updates of a row are taken to be a millisecond apart.                   *)
(***************************************************************************)
EXTENDS Naturals

CONSTANTS
  Project, Research, Output,   \* the ids of each table
  Person,                      \* who may take part
  Editor,                      \* the forms open at a time
  NoProject, NoResearch,
  MaxVersion                   \* bound: how often a row is written

Row == Project \cup Research \cup Output

ASSUME RepositoryAssumption ==
  /\ Project \cap Research = {} /\ Project \cap Output = {} /\ Research \cap Output = {}
  /\ NoProject \notin Row /\ NoResearch \notin Row
  /\ MaxVersion \in Nat

VARIABLES
  live,          \* the rows that exist
  version,       \* updatedAt; 0 before the row is created
  team,          \* the people of a row
  ofProject,     \* the project of a research
  ofResearch,    \* the research of an output
  funding,       \* the projects of an output
  editing        \* per open form: the row, its version and, observed, its fields; or Closed

tableVars == <<live, version, team, ofProject, ofResearch, funding>>
repositoryVars == <<tableVars, editing>>

\* What a form shows of a row.
Fields(x) == [team |-> team[x],
              project |-> IF x \in Research THEN ofProject[x] ELSE NoProject,
              research |-> IF x \in Output THEN ofResearch[x] ELSE NoResearch,
              projects |-> IF x \in Output THEN funding[x] ELSE {}]
AnyFields == [team : SUBSET Person, project : Project \cup {NoProject},
              research : Research \cup {NoResearch}, projects : SUBSET Project]
Closed == [row |-> NoProject]
Opened == [row : Row, version : 1..MaxVersion, fields : AnyFields]

RepositoryTypeOK ==
  /\ live \subseteq Row
  /\ version \in [Row -> 0..MaxVersion]
  /\ \A x \in Row : version[x] = 0 => x \notin live
  /\ team \in [Row -> SUBSET Person]
  /\ ofProject \in [Research -> Project \cup {NoProject}]
  /\ ofResearch \in [Output -> Research \cup {NoResearch}]
  /\ funding \in [Output -> SUBSET Project]
  /\ \A x, y \in Research \cap live : ofProject[x] = ofProject[y] /\ ofProject[x] # NoProject => x = y
  /\ editing \in [Editor -> {Closed} \cup Opened]

RepositoryInit ==
  /\ live = {} /\ version = [x \in Row |-> 0]
  /\ team = [x \in Row |-> {}]
  /\ ofProject = [x \in Research |-> NoProject]
  /\ ofResearch = [x \in Output |-> NoResearch]
  /\ funding = [x \in Output |-> {}]
  /\ editing = [f \in Editor |-> Closed]

-----------------------------------------------------------------------------
\* The unique index on the project of a research.
FreeProject(x, p) == p = NoProject \/ \A y \in (Research \cap live) \ {x} : ofProject[y] # p

\* validateProject and validateOutputRelations: what the form selects exists.
ProjectExists_Mut(p) == p \in Project \cup {NoProject}
ProjectExists(p) == p \in (Project \cap live) \cup {NoProject}
ResearchExists(r) == r \in Research \cap live

\* A row as its form leaves it.  The form of a project has no links.
PutProject(x, who) ==
  /\ team' = [team EXCEPT ![x] = who]
  /\ UNCHANGED <<ofProject, ofResearch, funding>>
PutResearch(x, who, p) ==
  /\ ProjectExists(p) /\ FreeProject(x, p)
  /\ team' = [team EXCEPT ![x] = who]
  /\ ofProject' = [ofProject EXCEPT ![x] = p]
  /\ UNCHANGED <<ofResearch, funding>>
PutOutput(x, who, r, ps) ==
  /\ \A p \in ps : ProjectExists(p)
  /\ team' = [team EXCEPT ![x] = who]
  /\ ofResearch' = [ofResearch EXCEPT ![x] = r]
  /\ funding' = [funding EXCEPT ![x] = ps]
  /\ UNCHANGED ofProject

\* @updatedAt changes with every update of the row.
Bump_Mut(x) == version' = [version EXCEPT ![x] = IF x \in Output THEN @ ELSE @ + 1]
Bump(x) == version' = [version EXCEPT ![x] = @ + 1]

CreateRow(x) ==
  /\ version[x] = 0 /\ MaxVersion > 0
  /\ live' = live \cup {x}
  /\ Bump(x)
  /\ UNCHANGED editing

CreateProject == \E x \in Project, who \in SUBSET Person : CreateRow(x) /\ PutProject(x, who)
CreateResearch == \E x \in Research, who \in SUBSET Person, p \in Project \cup {NoProject} :
  CreateRow(x) /\ PutResearch(x, who, p)
CreateOutput == \E x \in Output, who \in SUBSET Person, r \in Research, ps \in SUBSET Project :
  CreateRow(x) /\ ResearchExists(r) /\ PutOutput(x, who, r, ps)
\* importResearch creates outputs with their authors, of no research or project.
ImportOutput == \E x \in Output, who \in SUBSET Person :
  CreateRow(x) /\ PutOutput(x, who, NoResearch, {})

-----------------------------------------------------------------------------
Open(f, x) ==
  /\ editing[f] = Closed /\ x \in live
  /\ editing' = [editing EXCEPT ![f] = [row |-> x, version |-> version[x], fields |-> Fields(x)]]
  /\ UNCHANGED tableVars

Close(f) == editing' = [editing EXCEPT ![f] = Closed]

\* checkVersion.
IsCurrent(f, x) == editing[f].row = x /\ x \in live /\ version[x] = editing[f].version

\* A form that omits the team, or the projects of an output, keeps them.
SaveRow(f, x) ==
  /\ IsCurrent(f, x) /\ version[x] < MaxVersion
  /\ Bump(x) /\ Close(f) /\ UNCHANGED live

UpdateProject(f) == \E x \in Project, who \in SUBSET Person : SaveRow(f, x) /\ PutProject(x, who)
UpdateResearch(f) == \E x \in Research, who \in SUBSET Person, p \in Project \cup {NoProject} :
  SaveRow(f, x) /\ PutResearch(x, who, p)
UpdateOutput(f) == \E x \in Output, who \in SUBSET Person, r \in Research, ps \in SUBSET Project :
  SaveRow(f, x) /\ ResearchExists(r) /\ PutOutput(x, who, r, ps)

\* Nobody links to a project or a research that is deleted.
Unlinked(x) ==
  /\ \A y \in Research \cap live : ofProject[y] # x
  /\ \A y \in Output \cap live : ofResearch[y] # x /\ x \notin funding[y]

Remove(f, x) ==
  /\ IsCurrent(f, x)
  /\ live' = live \ {x}
  /\ Close(f)
  /\ UNCHANGED <<version, team, ofProject, ofResearch, funding>>

DeleteProject(f) == \E x \in Project : Remove(f, x) /\ Unlinked(x)
DeleteResearch(f) == \E x \in Research : Remove(f, x) /\ Unlinked(x)
DeleteOutput(f) == \E x \in Output : Remove(f, x)

\* The answer is 404 or 409, or the form is left.
Discard(f) == editing[f] # Closed /\ Close(f) /\ UNCHANGED tableVars

RepositoryNext ==
  \/ CreateProject \/ CreateResearch \/ CreateOutput \/ ImportOutput
  \/ \E f \in Editor :
       \/ \E x \in Row : Open(f, x)
       \/ UpdateProject(f) \/ UpdateResearch(f) \/ UpdateOutput(f)
       \/ DeleteProject(f) \/ DeleteResearch(f) \/ DeleteOutput(f)
       \/ Discard(f)

RepositorySpec == RepositoryInit /\ [][RepositoryNext]_repositoryVars

-----------------------------------------------------------------------------
(* A research or an output never refers to a row that was deleted, though  *)
(* linking to a row leaves its version alone, so that a form opened before *)
(* may still delete it.                                                    *)
LinksResolve ==
  /\ \A y \in Research \cap live : ofProject[y] \in live \cup {NoProject}
  /\ \A y \in Output \cap live : ofResearch[y] \in live \cup {NoResearch} /\ funding[y] \subseteq live

(* No lost update: a row that exists is changed or deleted only by a form  *)
(* that showed it as it is, people and links included.                     *)
Changed(x) == x \in live /\ (x \notin live' \/ Fields(x)' # Fields(x))
OverwritesWhatItShowed ==
  [][\A x \in Row : Changed(x) =>
       \E f \in Editor : editing[f].row = x /\ editing'[f] = Closed /\ editing[f].fields = Fields(x)]_repositoryVars
=============================================================================
