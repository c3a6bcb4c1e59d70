-------------------------- MODULE RepositoryProofs --------------------------
(***************************************************************************)
(* Proofs about Repository, for any number of rows, people and forms, and  *)
(* about the Workbooks that are imported into its tables and into those of *)
(* the contracts, for workbooks of any size and tables of any contents:    *)
(* the tables stay well formed, and AlwaysImportedOnce says when an import *)
(* is refused by no unique column and what importing a workbook again adds.*)
(***************************************************************************)
EXTENDS Repository, Workbooks, TLAPS

\* A form never knows a later version than the row has, and as long as the
\* row exists in the version the form knows, the form shows the row.
FormsShow ==
  \A f \in Editor, y \in Row : editing[f].row = y =>
    /\ editing[f].version <= version[y]
    /\ y \in live /\ editing[f].version = version[y] => editing[f].fields = Fields(y)

RInv == RepositoryTypeOK /\ LinksResolve /\ FormsShow

\* What every write of a row has in common.
Put(x) ==
  \/ x \in Project /\ \E who \in SUBSET Person : PutProject(x, who)
  \/ x \in Research /\ \E who \in SUBSET Person, p \in Project \cup {NoProject} : PutResearch(x, who, p)
  \/ x \in Output /\ \E who \in SUBSET Person, r \in (Research \cap live) \cup {NoResearch},
                        ps \in SUBSET Project : PutOutput(x, who, r, ps)

Others(x) == \A y \in Row : y # x => Fields(y)' = Fields(y)

LEMMA Steps ==
  ASSUME RepositoryNext
  PROVE  \/ \E x \in Row : CreateRow(x) /\ Put(x)
         \/ \E f \in Editor, x \in Row :
              \/ Open(f, x)
              \/ SaveRow(f, x) /\ Put(x)
              \/ Remove(f, x) /\ (Unlinked(x) \/ x \in Output)
         \/ \E f \in Editor : Discard(f)
<1>1. CASE CreateProject BY <1>1 DEF CreateProject, Put, Row
<1>2. CASE CreateResearch BY <1>2 DEF CreateResearch, Put, Row
<1>3. CASE CreateOutput BY <1>3 DEF CreateOutput, ResearchExists, Put, Row
<1>4. CASE ImportOutput
  <2>1. PICK x \in Output, who \in SUBSET Person :
          CreateRow(x) /\ PutOutput(x, who, NoResearch, {})
    BY <1>4 DEF ImportOutput
  <2>2. {} \in SUBSET Project /\ NoResearch \in (Research \cap live) \cup {NoResearch}
    OBVIOUS
  <2>3. Put(x) BY <2>1, <2>2 DEF Put
  <2>4. QED BY <2>1, <2>3 DEF Row
<1>5. ASSUME NEW f \in Editor, UpdateProject(f) \/ UpdateResearch(f) \/ UpdateOutput(f)
      PROVE  \E x \in Row : SaveRow(f, x) /\ Put(x)
  <2>1. CASE UpdateProject(f) BY <2>1 DEF UpdateProject, Put, Row
  <2>2. CASE UpdateResearch(f) BY <2>2 DEF UpdateResearch, Put, Row
  <2>3. CASE UpdateOutput(f) BY <2>3 DEF UpdateOutput, ResearchExists, Put, Row
  <2>4. QED BY <1>5, <2>1, <2>2, <2>3
<1>6. ASSUME NEW f \in Editor, DeleteProject(f) \/ DeleteResearch(f) \/ DeleteOutput(f)
      PROVE  \E x \in Row : Remove(f, x) /\ (Unlinked(x) \/ x \in Output)
  BY <1>6 DEF DeleteProject, DeleteResearch, DeleteOutput, Row
<1>7. QED BY <1>1, <1>2, <1>3, <1>4, <1>5, <1>6 DEF RepositoryNext

LEMMA FieldsType == ASSUME RepositoryTypeOK, NEW x \in Row PROVE Fields(x) \in AnyFields
BY DEF RepositoryTypeOK, Fields, AnyFields, Row

LEMMA FieldsKept ==
  ASSUME RepositoryTypeOK, UNCHANGED <<team, ofProject, ofResearch, funding>>, NEW x \in Row
  PROVE  Fields(x)' = Fields(x)
BY DEF Fields

LEMMA IsOpened ==
  ASSUME RepositoryTypeOK, NEW f \in Editor, NEW y \in Row, editing[f].row = y
  PROVE  editing[f] \in Opened
BY RepositoryAssumption DEF RepositoryTypeOK, Closed

LEMMA ClosedForms ==
  ASSUME RepositoryTypeOK, NEW g \in Editor, editing' = [editing EXCEPT ![g] = Closed],
         NEW f \in Editor, NEW y \in Row, editing'[f].row = y
  PROVE  f # g /\ editing'[f] = editing[f]
BY RepositoryAssumption DEF RepositoryTypeOK, Closed

\* A write of x gives the tables of links what they may hold, and touches no
\* other row.
LEMMA PutTypes ==
  ASSUME RepositoryTypeOK, NEW x \in Row, Put(x)
  PROVE  /\ team' \in [Row -> SUBSET Person]
         /\ ofProject' \in [Research -> Project \cup {NoProject}]
         /\ ofResearch' \in [Output -> Research \cup {NoResearch}]
         /\ funding' \in [Output -> SUBSET Project]
<1> USE DEF RepositoryTypeOK
<1>1. CASE x \in Project /\ \E who \in SUBSET Person : PutProject(x, who)
  BY <1>1 DEF PutProject
<1>2. CASE x \in Research /\ \E who \in SUBSET Person, p \in Project \cup {NoProject} : PutResearch(x, who, p)
  BY <1>2 DEF PutResearch
<1>3. CASE x \in Output /\ \E who \in SUBSET Person, r \in (Research \cap live) \cup {NoResearch},
                              ps \in SUBSET Project : PutOutput(x, who, r, ps)
  BY <1>3 DEF PutOutput
<1>4. QED BY <1>1, <1>2, <1>3 DEF Put

LEMMA PutOthers == ASSUME RepositoryTypeOK, NEW x \in Row, Put(x) PROVE Others(x)
<1> SUFFICES ASSUME NEW y \in Row, y # x PROVE Fields(y)' = Fields(y) BY DEF Others
<1> USE DEF RepositoryTypeOK
<1>1. team'[y] = team[y]
  BY DEF Put, PutProject, PutResearch, PutOutput
<1>2. y \in Research => ofProject'[y] = ofProject[y]
  BY DEF Put, PutProject, PutResearch, PutOutput
<1>3. y \in Output => ofResearch'[y] = ofResearch[y] /\ funding'[y] = funding[y]
  BY DEF Put, PutProject, PutResearch, PutOutput
<1>4. QED BY <1>1, <1>2, <1>3 DEF Fields

Unique == \A x, y \in Research \cap live :
  ofProject[x] = ofProject[y] /\ ofProject[x] # NoProject => x = y

LEMMA PutLinks ==
  ASSUME RepositoryTypeOK, LinksResolve, NEW x \in Row, Put(x), live' = live \cup {x}
  PROVE  Unique' /\ LinksResolve'
<1> USE RepositoryAssumption
<1>1. CASE x \in Project /\ \E who \in SUBSET Person : PutProject(x, who)
  <2>1. UNCHANGED <<ofProject, ofResearch, funding>> BY <1>1 DEF PutProject
  <2>2. Research \cap live' = Research \cap live /\ Output \cap live' = Output \cap live
    BY <1>1
  <2>3. QED BY <2>1, <2>2 DEF RepositoryTypeOK, Unique, LinksResolve
<1>2. CASE x \in Research /\ \E who \in SUBSET Person, p \in Project \cup {NoProject} : PutResearch(x, who, p)
  <2>1. PICK p \in Project \cup {NoProject} :
          /\ ProjectExists(p) /\ FreeProject(x, p)
          /\ ofProject' = [ofProject EXCEPT ![x] = p]
          /\ UNCHANGED <<ofResearch, funding>>
    BY <1>2 DEF PutResearch
  <2>2. ofProject'[x] = p /\ \A y \in Research : y # x => ofProject'[y] = ofProject[y]
    BY <1>2, <2>1 DEF RepositoryTypeOK
  <2>3. Output \cap live' = Output \cap live BY <1>2
  <2>4. Unique' BY <2>1, <2>2 DEF RepositoryTypeOK, Unique, FreeProject
  <2>5. LinksResolve' BY <2>1, <2>2, <2>3 DEF LinksResolve, ProjectExists
  <2>6. QED BY <2>4, <2>5
<1>3. CASE x \in Output /\ \E who \in SUBSET Person, r \in (Research \cap live) \cup {NoResearch},
                              ps \in SUBSET Project : PutOutput(x, who, r, ps)
  <2>1. PICK r \in (Research \cap live) \cup {NoResearch}, ps \in SUBSET Project :
          /\ \A p \in ps : ProjectExists(p)
          /\ ofResearch' = [ofResearch EXCEPT ![x] = r]
          /\ funding' = [funding EXCEPT ![x] = ps]
          /\ UNCHANGED ofProject
    BY <1>3 DEF PutOutput
  <2>2. /\ ofResearch'[x] = r /\ \A y \in Output : y # x => ofResearch'[y] = ofResearch[y]
        /\ funding'[x] = ps /\ \A y \in Output : y # x => funding'[y] = funding[y]
    BY <1>3, <2>1 DEF RepositoryTypeOK
  <2>3. Research \cap live' = Research \cap live BY <1>3
  <2>4. ps \subseteq live
    BY <2>1, NoProject \notin Project DEF ProjectExists, Row
  <2>5. Unique' BY <2>1, <2>3 DEF RepositoryTypeOK, Unique
  <2>6. LinksResolve' BY <2>1, <2>2, <2>3, <2>4 DEF LinksResolve
  <2>7. QED BY <2>5, <2>6
<1>4. QED BY <1>1, <1>2, <1>3 DEF Put

-----------------------------------------------------------------------------
LEMMA RInit == RepositoryInit => RInv
<1> SUFFICES ASSUME RepositoryInit PROVE RInv OBVIOUS
<1>1. RepositoryTypeOK BY RepositoryAssumption DEF RepositoryInit, RepositoryTypeOK
<1>2. LinksResolve BY DEF RepositoryInit, LinksResolve
<1>3. FormsShow BY RepositoryAssumption DEF RepositoryInit, FormsShow, Closed
<1>4. QED BY <1>1, <1>2, <1>3 DEF RInv

\* A new row: no form can show it yet.
LEMMA CreateStep ==
  ASSUME RInv, NEW x \in Row, CreateRow(x), Put(x) PROVE RInv'
<1> USE RepositoryAssumption DEF RInv
<1>1. /\ version[x] = 0 /\ live' = live \cup {x} /\ UNCHANGED editing
      /\ version' = [version EXCEPT ![x] = version[x] + 1] /\ MaxVersion > 0
  BY DEF CreateRow, Bump
<1>2. version'[x] = 1 /\ \A y \in Row : y # x => version'[y] = version[y]
  BY <1>1 DEF RepositoryTypeOK
<1>3. version' \in [Row -> 0..MaxVersion] BY <1>1 DEF RepositoryTypeOK
<1>4. RepositoryTypeOK'
  BY <1>1, <1>2, <1>3, PutTypes, PutLinks DEF RepositoryTypeOK, Unique
<1>5. LinksResolve' BY <1>1, PutLinks
<1>6. FormsShow'
  <2> SUFFICES ASSUME NEW f \in Editor, NEW y \in Row, editing'[f].row = y
               PROVE  /\ editing'[f].version <= version'[y]
                      /\ y \in live' /\ editing'[f].version = version'[y]
                           => editing'[f].fields = Fields(y)'
    BY DEF FormsShow
  <2>1. editing[f].row = y BY <1>1
  <2>2. editing[f].version \in 1..MaxVersion BY <2>1, IsOpened DEF Opened
  <2>3. editing[f].version <= version[y] BY <2>1 DEF FormsShow
  <2>4. y # x BY <1>1, <2>2, <2>3
  <2>5. Fields(y)' = Fields(y) BY <2>4, PutOthers DEF Others
  <2>6. QED BY <1>1, <1>2, <2>1, <2>3, <2>4, <2>5 DEF FormsShow
<1>7. QED BY <1>4, <1>5, <1>6

\* A saved row: the forms that showed it fall behind.
LEMMA SaveStep ==
  ASSUME RInv, NEW g \in Editor, NEW x \in Row, SaveRow(g, x), Put(x) PROVE RInv'
<1> USE RepositoryAssumption DEF RInv
<1>1. /\ x \in live /\ UNCHANGED live /\ version[x] < MaxVersion
      /\ version' = [version EXCEPT ![x] = version[x] + 1]
      /\ editing' = [editing EXCEPT ![g] = Closed]
  BY DEF SaveRow, IsCurrent, Bump, Close
<1>2. version'[x] = version[x] + 1 /\ \A y \in Row : y # x => version'[y] = version[y]
  BY <1>1 DEF RepositoryTypeOK
<1>3. version' \in [Row -> 0..MaxVersion] BY <1>1 DEF RepositoryTypeOK
<1>4. live' = live \cup {x} BY <1>1
<1>5. editing' \in [Editor -> {Closed} \cup Opened] BY <1>1 DEF RepositoryTypeOK
<1>6. \A y \in Row : version'[y] = 0 => y \notin live'
  BY <1>1, <1>2 DEF RepositoryTypeOK
<1>7. RepositoryTypeOK'
  BY <1>1, <1>3, <1>4, <1>5, <1>6, PutTypes, PutLinks DEF RepositoryTypeOK, Unique
<1>8. LinksResolve' BY <1>4, PutLinks
<1>9. FormsShow'
  <2> SUFFICES ASSUME NEW f \in Editor, NEW y \in Row, editing'[f].row = y
               PROVE  /\ editing'[f].version <= version'[y]
                      /\ y \in live' /\ editing'[f].version = version'[y]
                           => editing'[f].fields = Fields(y)'
    BY DEF FormsShow
  <2>1. f # g /\ editing'[f] = editing[f] BY <1>1, ClosedForms
  <2>2. editing[f].version \in 1..MaxVersion /\ version[y] \in 0..MaxVersion
    BY <2>1, IsOpened DEF Opened, RepositoryTypeOK
  <2>3. editing[f].version <= version[y] BY <2>1 DEF FormsShow
  <2>4. CASE y = x
    <3>1. editing[f].version < version'[y] BY <1>2, <2>2, <2>3, <2>4
    <3>2. version'[y] \in Nat BY <1>3
    <3>3. QED BY <2>1, <2>2, <3>1, <3>2
  <2>5. CASE y # x
    <3>1. Fields(y)' = Fields(y) BY <2>5, PutOthers DEF Others
    <3>2. QED BY <1>1, <1>2, <2>1, <2>3, <2>5, <3>1 DEF FormsShow
  <2>6. QED BY <2>4, <2>5
<1>10. QED BY <1>7, <1>8, <1>9

\* Steps that write no fields: the links of what is left must still resolve.
LEMMA RemoveStep ==
  ASSUME RInv, NEW g \in Editor, NEW x \in Row, Remove(g, x), Unlinked(x) \/ x \in Output
  PROVE  RInv'
<1> USE RepositoryAssumption DEF RInv
<1>1. /\ live' = live \ {x} /\ editing' = [editing EXCEPT ![g] = Closed]
      /\ UNCHANGED <<version, team, ofProject, ofResearch, funding>>
  BY DEF Remove, Close
<1>2. editing' \in [Editor -> {Closed} \cup Opened] BY <1>1 DEF RepositoryTypeOK
<1>3. RepositoryTypeOK' BY <1>1, <1>2 DEF RepositoryTypeOK
<1>4. LinksResolve'
  <2>1. ASSUME NEW y \in Research \cap live PROVE ofProject[y] # x
    BY <2>1 DEF Unlinked, RepositoryTypeOK, Row
  <2>2. ASSUME NEW y \in Output \cap live PROVE ofResearch[y] # x /\ x \notin funding[y]
    BY <2>2 DEF Unlinked, RepositoryTypeOK, Row
  <2>3. QED BY <1>1, <2>1, <2>2 DEF LinksResolve
<1>5. FormsShow'
  <2> SUFFICES ASSUME NEW f \in Editor, NEW y \in Row, editing'[f].row = y
               PROVE  /\ editing'[f].version <= version'[y]
                      /\ y \in live' /\ editing'[f].version = version'[y]
                           => editing'[f].fields = Fields(y)'
    BY DEF FormsShow
  <2>1. editing'[f] = editing[f] BY <1>1, ClosedForms
  <2>2. Fields(y)' = Fields(y) BY <1>1, FieldsKept
  <2>3. QED BY <1>1, <2>1, <2>2 DEF FormsShow
<1>6. QED BY <1>3, <1>4, <1>5

LEMMA OpenStep == ASSUME RInv, NEW g \in Editor, NEW x \in Row, Open(g, x) PROVE RInv'
<1> USE RepositoryAssumption DEF RInv
<1> DEFINE e == [row |-> x, version |-> version[x], fields |-> Fields(x)]
<1>1. /\ x \in live /\ editing' = [editing EXCEPT ![g] = e]
      /\ UNCHANGED <<live, version, team, ofProject, ofResearch, funding>>
  BY DEF Open, tableVars
<1>2. e \in Opened
  <2>1. version[x] \in 1..MaxVersion BY <1>1 DEF RepositoryTypeOK
  <2>2. QED BY <2>1, FieldsType DEF Opened
<1>3. editing' \in [Editor -> {Closed} \cup Opened] BY <1>1, <1>2 DEF RepositoryTypeOK
<1>4. RepositoryTypeOK' BY <1>1, <1>3 DEF RepositoryTypeOK
<1>5. LinksResolve' BY <1>1 DEF LinksResolve
<1>6. FormsShow'
  <2> SUFFICES ASSUME NEW f \in Editor, NEW y \in Row, editing'[f].row = y
               PROVE  /\ editing'[f].version <= version'[y]
                      /\ y \in live' /\ editing'[f].version = version'[y]
                           => editing'[f].fields = Fields(y)'
    BY DEF FormsShow
  <2>1. Fields(y)' = Fields(y) BY <1>1, FieldsKept
  <2>2. CASE f = g
    <3>1. editing'[f] = e BY <1>1, <2>2 DEF RepositoryTypeOK
    <3>2. y = x /\ editing'[f].version = version[y] /\ editing'[f].fields = Fields(y) BY <3>1
    <3>3. version[y] \in Nat BY DEF RepositoryTypeOK
    <3>4. QED BY <1>1, <2>1, <3>2, <3>3
  <2>3. CASE f # g
    <3>1. editing'[f] = editing[f] BY <1>1, <2>3 DEF RepositoryTypeOK
    <3>2. QED BY <1>1, <2>1, <3>1 DEF FormsShow
  <2>4. QED BY <2>2, <2>3
<1>7. QED BY <1>4, <1>5, <1>6

LEMMA DiscardStep == ASSUME RInv, NEW g \in Editor, Discard(g) PROVE RInv'
<1> USE RepositoryAssumption DEF RInv
<1>1. /\ editing' = [editing EXCEPT ![g] = Closed]
      /\ UNCHANGED <<live, version, team, ofProject, ofResearch, funding>>
  BY DEF Discard, Close, tableVars
<1>2. editing' \in [Editor -> {Closed} \cup Opened] BY <1>1 DEF RepositoryTypeOK
<1>3. RepositoryTypeOK' BY <1>1, <1>2 DEF RepositoryTypeOK
<1>4. LinksResolve' BY <1>1 DEF LinksResolve
<1>5. FormsShow'
  <2> SUFFICES ASSUME NEW f \in Editor, NEW y \in Row, editing'[f].row = y
               PROVE  /\ editing'[f].version <= version'[y]
                      /\ y \in live' /\ editing'[f].version = version'[y]
                           => editing'[f].fields = Fields(y)'
    BY DEF FormsShow
  <2>1. editing'[f] = editing[f] BY <1>1, ClosedForms
  <2>2. Fields(y)' = Fields(y) BY <1>1, FieldsKept
  <2>3. QED BY <1>1, <2>1, <2>2 DEF FormsShow
<1>6. QED BY <1>3, <1>4, <1>5

LEMMA RStutter == RInv /\ UNCHANGED repositoryVars => RInv'
<1> SUFFICES ASSUME RInv, UNCHANGED repositoryVars PROVE RInv' OBVIOUS
<1>1. UNCHANGED <<live, version, team, ofProject, ofResearch, funding, editing>>
  BY DEF repositoryVars, tableVars
<1>2. \A y \in Row : Fields(y)' = Fields(y) BY <1>1, FieldsKept DEF RInv
<1>3. RepositoryTypeOK' BY <1>1 DEF RInv, RepositoryTypeOK
<1>4. LinksResolve' BY <1>1 DEF RInv, LinksResolve
<1>5. FormsShow' BY <1>1, <1>2 DEF RInv, FormsShow
<1>6. QED BY <1>3, <1>4, <1>5 DEF RInv

LEMMA RStep == RInv /\ [RepositoryNext]_repositoryVars => RInv'
<1> SUFFICES ASSUME RInv, RepositoryNext PROVE RInv' BY RStutter
<1>1. ASSUME NEW x \in Row, CreateRow(x), Put(x) PROVE RInv' BY <1>1, CreateStep
<1>2. ASSUME NEW f \in Editor, NEW x \in Row, SaveRow(f, x), Put(x) PROVE RInv' BY <1>2, SaveStep
<1>3. ASSUME NEW f \in Editor, NEW x \in Row, Open(f, x) PROVE RInv' BY <1>3, OpenStep
<1>4. ASSUME NEW f \in Editor, NEW x \in Row, Remove(f, x), Unlinked(x) \/ x \in Output
      PROVE  RInv'
  BY <1>4, RemoveStep
<1>5. ASSUME NEW f \in Editor, Discard(f) PROVE RInv' BY <1>5, DiscardStep
<1>6. QED BY <1>1, <1>2, <1>3, <1>4, <1>5, Steps

(* The tables are well typed, and no project has two research rows.        *)
THEOREM RepositoryTypeCorrect == RepositorySpec => []RepositoryTypeOK
<1>1. RInv => RepositoryTypeOK BY DEF RInv
<1>2. QED BY RInit, RStep, <1>1, PTL DEF RepositorySpec

(* No research or output ever refers to a row that was deleted.            *)
THEOREM LinksAlwaysResolve == RepositorySpec => []LinksResolve
<1>1. RInv => LinksResolve BY DEF RInv
<1>2. QED BY RInit, RStep, <1>1, PTL DEF RepositorySpec

-----------------------------------------------------------------------------
\* The body of OverwritesWhatItShowed.
NoLostUpdate ==
  \A x \in Row : Changed(x) =>
    \E f \in Editor : editing[f].row = x /\ editing'[f] = Closed /\ editing[f].fields = Fields(x)

LEMMA CurrentForm ==
  ASSUME RInv, NEW f \in Editor, NEW x \in Row, IsCurrent(f, x)
  PROVE  editing[f].row = x /\ editing[f].fields = Fields(x)
<1>1. editing[f].row = x /\ x \in live /\ version[x] = editing[f].version BY DEF IsCurrent
<1>2. QED BY <1>1 DEF RInv, FormsShow

LEMMA ChangeStep == RInv /\ [RepositoryNext]_repositoryVars => [NoLostUpdate]_repositoryVars
<1> SUFFICES ASSUME RInv, RepositoryNext, NEW y \in Row, Changed(y)
             PROVE  \E f \in Editor : /\ editing[f].row = y /\ editing'[f] = Closed
                                      /\ editing[f].fields = Fields(y)
  BY DEF NoLostUpdate
<1> USE DEF RInv
<1>1. ASSUME NEW x \in Row, CreateRow(x), Put(x) PROVE FALSE
  <2>1. x \notin live /\ live' = live \cup {x} BY <1>1 DEF CreateRow, RepositoryTypeOK
  <2>2. y # x /\ y \in live' BY <2>1 DEF Changed
  <2>3. Fields(y)' = Fields(y) BY <1>1, <2>2, PutOthers DEF Others
  <2>4. QED BY <2>2, <2>3 DEF Changed
<1>2. ASSUME NEW f \in Editor, NEW x \in Row, SaveRow(f, x), Put(x)
      PROVE  /\ editing[f].row = y /\ editing'[f] = Closed
             /\ editing[f].fields = Fields(y)
  <2>1. IsCurrent(f, x) /\ UNCHANGED live /\ editing' = [editing EXCEPT ![f] = Closed]
    BY <1>2 DEF SaveRow, Close
  <2>2. y = x BY <1>2, <2>1, PutOthers DEF Others, Changed
  <2>3. editing'[f] = Closed BY <2>1 DEF RepositoryTypeOK
  <2>4. QED BY <2>1, <2>2, <2>3, CurrentForm
<1>3. ASSUME NEW f \in Editor, NEW x \in Row, Remove(f, x)
      PROVE  /\ editing[f].row = y /\ editing'[f] = Closed
             /\ editing[f].fields = Fields(y)
  <2>1. /\ IsCurrent(f, x) /\ live' = live \ {x} /\ editing' = [editing EXCEPT ![f] = Closed]
        /\ UNCHANGED <<team, ofProject, ofResearch, funding>>
    BY <1>3 DEF Remove, Close
  <2>2. y = x BY <2>1, FieldsKept DEF Changed
  <2>3. editing'[f] = Closed BY <2>1 DEF RepositoryTypeOK
  <2>4. QED BY <2>1, <2>2, <2>3, CurrentForm
<1>4. ASSUME NEW f \in Editor, (\E x \in Row : Open(f, x)) \/ Discard(f) PROVE FALSE
  <2>1. UNCHANGED <<live, team, ofProject, ofResearch, funding>>
    BY <1>4 DEF Open, Discard, tableVars
  <2>2. QED BY <2>1, FieldsKept DEF Changed
<1>5. QED BY <1>1, <1>2, <1>3, <1>4, Steps

(* No lost update: whoever changes or deletes a row was shown it as it is. *)
THEOREM NobodyOverwritesUnseen == RepositorySpec => OverwritesWhatItShowed
<1>1. [NoLostUpdate]_repositoryVars =>
      [\A x \in Row : Changed(x) =>
         \E f \in Editor : editing[f].row = x /\ editing'[f] = Closed
                           /\ editing[f].fields = Fields(x)]_repositoryVars
  BY DEF NoLostUpdate
<1>2. QED BY RInit, RStep, ChangeStep, <1>1, PTL DEF RepositorySpec, OverwritesWhatItShowed

-----------------------------------------------------------------------------
(* Projects.                                                               *)
LEMMA ProjectCells ==
  ASSUME NEW w \in ProjectBook, NEW i \in Numbers(w)
  PROVE  i \in Nat /\ w[i].row \in ProjectRow
BY WorkbooksAssumption DEF ProjectBook, Numbers

LEMMA InsertedCodes ==
  ASSUME NEW P, NEW w \in ProjectBook,
         NEW i \in InsertedProjects(P, w), w[i].row.code # NoCode
  PROVE  /\ \A p \in P : p.code # w[i].row.code
         /\ \A j \in InsertedProjects(P, w) : j # i => w[j].row.code # w[i].row.code
<1>1. i \in FirstProjects(w) /\ i \in Numbers(w) BY DEF InsertedProjects, FirstProjects
<1>2. ASSUME NEW p \in P, p.code = w[i].row.code PROVE FALSE
  <2>1. p \in FoundProjects(P, w) BY <1>1, <1>2 DEF FoundProjects
  <2>2. SameProject(p, w[i].row) BY <1>2 DEF SameProject
  <2>3. QED BY <2>1, <2>2 DEF InsertedProjects
<1>3. ASSUME NEW j \in InsertedProjects(P, w), j # i, w[j].row.code = w[i].row.code PROVE FALSE
  <2>1. j \in FirstProjects(w) /\ j \in Numbers(w) BY DEF InsertedProjects, FirstProjects
  <2>2. FileKey(w[i].row) = FileKey(w[j].row) BY <1>3 DEF FileKey
  <2>3. i < j \/ j < i BY <1>1, <1>3, <2>1, ProjectCells
  <2>4. QED BY <1>1, <2>1, <2>2, <2>3 DEF FirstProjects
<1>4. QED BY <1>2, <1>3

LEMMA FoundInMore ==
  ASSUME NEW P, NEW w, NEW p \in FoundProjects(P, w) PROVE p \in FoundProjects(WithProjects(P, w), w)
BY DEF FoundProjects, WithProjects

LEMMA ProjectsAgain ==
  ASSUME NEW P, NEW w \in ProjectBook PROVE InsertedProjects(WithProjects(P, w), w) = {}
<1> SUFFICES ASSUME NEW i \in InsertedProjects(WithProjects(P, w), w) PROVE FALSE OBVIOUS
<1>1. /\ i \in FirstProjects(w)
      /\ \A p \in FoundProjects(WithProjects(P, w), w) : ~SameProject(p, w[i].row)
  BY DEF InsertedProjects
<1>2. CASE i \in InsertedProjects(P, w)
  <2>1. w[i].row \in WithProjects(P, w) BY <1>2 DEF WithProjects
  <2>2. w[i].row \in FoundProjects(WithProjects(P, w), w) BY <1>1, <2>1 DEF FoundProjects
  <2>3. SameProject(w[i].row, w[i].row) BY DEF SameProject
  <2>4. QED BY <1>1, <2>2, <2>3
<1>3. CASE i \notin InsertedProjects(P, w)
  <2>1. PICK p \in FoundProjects(P, w) : SameProject(p, w[i].row) BY <1>1, <1>3 DEF InsertedProjects
  <2>2. QED BY <1>1, <2>1, FoundInMore
<1>4. QED BY <1>2, <1>3

LEMMA ProjectsHold == ProjectsOnce
BY InsertedCodes, ProjectsAgain DEF ProjectsOnce

LEMMA ProjectsTyped ==
  ASSUME NEW P \in SUBSET ProjectRow, UniqueCodes(P), NEW w \in ProjectBook
  PROVE  WithProjects(P, w) \subseteq ProjectRow /\ UniqueCodes(WithProjects(P, w))
<1>1. \A i \in InsertedProjects(P, w) : w[i].row \in ProjectRow
  BY ProjectCells DEF InsertedProjects, FirstProjects
<1>2. ASSUME NEW p \in WithProjects(P, w), NEW q \in WithProjects(P, w), p.code = q.code, p.code # NoCode
      PROVE  p = q
  <2>1. CASE p \in P /\ q \in P BY <1>2, <2>1 DEF UniqueCodes
  <2>2. CASE p \notin P
    <3>1. PICK i \in InsertedProjects(P, w) : p = w[i].row BY <2>2 DEF WithProjects
    <3>2. q \notin P BY <1>2, <3>1, InsertedCodes
    <3>3. PICK j \in InsertedProjects(P, w) : q = w[j].row BY <3>2 DEF WithProjects
    <3>4. QED BY <1>2, <3>1, <3>3, InsertedCodes
  <2>3. CASE q \notin P
    <3>1. PICK i \in InsertedProjects(P, w) : q = w[i].row BY <2>3 DEF WithProjects
    <3>2. p \notin P BY <1>2, <3>1, InsertedCodes
    <3>3. QED BY <2>2, <3>2
  <2>4. QED BY <2>1, <2>2, <2>3
<1>3. QED BY <1>1, <1>2 DEF WithProjects, UniqueCodes

-----------------------------------------------------------------------------
(* Outputs.                                                                *)
LEMMA OutputCells ==
  ASSUME NEW w \in OutputBook, NEW x \in Written(w)
  PROVE  x \in Sheet \X Line /\ w[x].row \in OutputRow
<1>1. x \in Position /\ w[x] \in Cell(x[1]) BY DEF Written, OutputBook
<1>2. QED BY <1>1 DEF Position, Cell

LEMMA AboveIsTotal ==
  ASSUME NEW x \in Sheet \X Line, NEW y \in Sheet \X Line, x # y PROVE Above(x, y) \/ Above(y, x)
<1>1. x[1] \in Sheet /\ x[2] \in Line /\ y[1] \in Sheet /\ y[2] \in Line OBVIOUS
<1>2. Sheet \subseteq Nat /\ Line \subseteq Nat BY WorkbooksAssumption
<1>3. x[1] \in Nat /\ x[2] \in Nat /\ y[1] \in Nat /\ y[2] \in Nat BY <1>1, <1>2
<1>4. x[1] # y[1] \/ x[2] # y[2] OBVIOUS
<1>5. QED BY <1>3, <1>4 DEF Above

LEMMA InsertedDois ==
  ASSUME NEW P, NEW w \in OutputBook,
         NEW x \in InsertedOutputs(P, w), w[x].row.doi # NoDoi
  PROVE  /\ \A p \in P : p.doi # w[x].row.doi
         /\ \A y \in InsertedOutputs(P, w) : y # x => w[y].row.doi # w[x].row.doi
<1>1. x \in FirstOutputs(w) /\ x \in Readable(w) /\ x \in Written(w)
  BY DEF InsertedOutputs, FirstOutputs, Readable
<1>2. ASSUME NEW p \in P, p.doi = w[x].row.doi PROVE FALSE
  <2>1. p \in FoundOutputs(P, w) BY <1>1, <1>2 DEF FoundOutputs
  <2>2. SameDoi(p, w[x].row) BY <1>2 DEF SameDoi
  <2>3. x \in RepeatedOutputs(P, w) BY <1>1, <2>1, <2>2 DEF RepeatedOutputs
  <2>4. QED BY <2>3 DEF InsertedOutputs
<1>3. ASSUME NEW y \in InsertedOutputs(P, w), y # x, w[y].row.doi = w[x].row.doi PROVE FALSE
  <2>1. y \in Readable(w) /\ y \in Written(w) BY DEF InsertedOutputs, FirstOutputs, Readable
  <2>2. SameDoi(w[x].row, w[y].row) /\ SameDoi(w[y].row, w[x].row) BY <1>3 DEF SameDoi
  <2>3. Above(x, y) \/ Above(y, x) BY <1>1, <1>3, <2>1, OutputCells, AboveIsTotal
  <2>4. QED BY <1>1, <2>1, <2>2, <2>3 DEF Readable
<1>4. QED BY <1>2, <1>3

LEMMA RepeatedInMore ==
  ASSUME NEW P, NEW w, NEW x \in RepeatedOutputs(P, w)
  PROVE  x \in RepeatedOutputs(WithOutputs(P, w), w)
<1>1. FoundOutputs(P, w) \subseteq FoundOutputs(WithOutputs(P, w), w) BY DEF FoundOutputs, WithOutputs
<1>2. QED BY <1>1 DEF RepeatedOutputs

LEMMA OutputsAgain ==
  ASSUME NEW P, NEW w \in OutputBook PROVE InsertedOutputs(WithOutputs(P, w), w) = {}
<1> SUFFICES ASSUME NEW x \in InsertedOutputs(WithOutputs(P, w), w) PROVE FALSE OBVIOUS
<1>1. /\ x \in FirstOutputs(w)
      /\ \A y \in RepeatedOutputs(WithOutputs(P, w), w) : x[2] # y[2]
  BY DEF InsertedOutputs
<1>2. CASE x \in InsertedOutputs(P, w)
  <2>1. w[x].row \in WithOutputs(P, w) BY <1>2 DEF WithOutputs
  <2>2. w[x].row \in FoundOutputs(WithOutputs(P, w), w) BY <1>1, <2>1 DEF FoundOutputs
  <2>3. SameOutput(w[x].row, w[x].row) BY DEF SameOutput
  <2>4. x \in RepeatedOutputs(WithOutputs(P, w), w) BY <1>1, <2>2, <2>3 DEF RepeatedOutputs
  <2>5. QED BY <1>1, <2>4
<1>3. CASE x \notin InsertedOutputs(P, w)
  <2>1. PICK y \in RepeatedOutputs(P, w) : x[2] = y[2] BY <1>1, <1>3 DEF InsertedOutputs
  <2>2. QED BY <1>1, <2>1, RepeatedInMore
<1>4. QED BY <1>2, <1>3

LEMMA OutputsHold == ResearchOnce
BY InsertedDois, OutputsAgain DEF ResearchOnce

LEMMA OutputsTyped ==
  ASSUME NEW P \in SUBSET OutputRow, UniqueDois(P), NEW w \in OutputBook
  PROVE  WithOutputs(P, w) \subseteq OutputRow /\ UniqueDois(WithOutputs(P, w))
<1>1. \A x \in InsertedOutputs(P, w) : w[x].row \in OutputRow
  BY OutputCells DEF InsertedOutputs, FirstOutputs, Readable
<1>2. ASSUME NEW p \in WithOutputs(P, w), NEW q \in WithOutputs(P, w), p.doi = q.doi, p.doi # NoDoi
      PROVE  p = q
  <2>1. CASE p \in P /\ q \in P BY <1>2, <2>1 DEF UniqueDois
  <2>2. CASE p \notin P
    <3>1. PICK x \in InsertedOutputs(P, w) : p = w[x].row BY <2>2 DEF WithOutputs
    <3>2. q \notin P BY <1>2, <3>1, InsertedDois
    <3>3. PICK y \in InsertedOutputs(P, w) : q = w[y].row BY <3>2 DEF WithOutputs
    <3>4. QED BY <1>2, <3>1, <3>3, InsertedDois
  <2>3. CASE q \notin P
    <3>1. PICK x \in InsertedOutputs(P, w) : q = w[x].row BY <2>3 DEF WithOutputs
    <3>2. p \notin P BY <1>2, <3>1, InsertedDois
    <3>3. QED BY <2>2, <3>2
  <2>4. QED BY <2>1, <2>2, <2>3
<1>3. QED BY <1>1, <1>2 DEF WithOutputs, UniqueDois

-----------------------------------------------------------------------------
(* Contracts, the assignments they are of, and the teachers they bring.    *)
ContractTables ==
  [schedules : SUBSET (Nrc \X Course), enrollments : SUBSET (Nrc \X Course),
   assignments : SUBSET (Teacher \X Nrc \X Course),
   contracts : SUBSET (Rut \X Nrc \X Course \X Section), teachers : SUBSET (Teacher \X Email)]
Consistent(D) ==
  /\ D \in ContractTables /\ UniqueTeachers(D.teachers)
  /\ \A k \in D.contracts : <<k[1], k[2], k[3]>> \in D.assignments
  /\ \A a \in D.assignments : \E t \in D.teachers : t[1] = a[1]

LEMMA ContractCells ==
  ASSUME NEW w \in ContractBook, NEW i \in Numbers(w)
  PROVE  /\ i \in Nat /\ w[i] \in ContractRow
         /\ w[i].rut \in Rut /\ w[i].nrc \in Nrc /\ w[i].section \in Section
<1>1. i \in Nat /\ w[i] \in ContractRow BY WorkbooksAssumption DEF ContractBook, Numbers
<1>2. QED BY <1>1 DEF ContractRow

LEMMA DistinctEmails ==
  ASSUME NEW emails \in GivenEmails
  PROVE  /\ \A r \in DOMAIN emails : emails[r] \in Email
         /\ \A r, q \in DOMAIN emails : emails[r] = emails[q] => r = q
BY DEF GivenEmails

\* What is known of a row that is inserted, and of the course it finds.
LEMMA InsertedRows ==
  ASSUME NEW D, NEW w \in ContractBook, NEW emails \in GivenEmails,
         NEW I \in InsertedContracts(D, w, emails), NEW i \in I
  PROVE  /\ i \in FirstContracts(D, w, emails) /\ i \in Payable(D, w, emails) /\ i \in Numbers(w)
         /\ i \in Nat /\ w[i].rut \in Rut /\ w[i].nrc \in Nrc /\ w[i].section \in Section
         /\ \A g \in Resolutions(D, w, I) : g[i] \in Course /\ g[i] \in CoursesOf(D, w[i].nrc)
<1>1. i \in FirstContracts(D, w, emails) BY DEF InsertedContracts, Inserted
<1>2. i \in Payable(D, w, emails) BY <1>1 DEF FirstContracts
<1>3. i \in Numbers(w) BY <1>2 DEF Payable
<1>4. ASSUME NEW g \in Resolutions(D, w, I) PROVE g[i] \in Course /\ g[i] \in CoursesOf(D, w[i].nrc)
  BY DEF Resolutions, Resolved, CoursesOf, Scheduled, Assigned, Enrolled
<1>5. QED BY <1>1, <1>2, <1>3, <1>4, ContractCells

\* The tables after an import.
LEMMA AfterImport ==
  ASSUME NEW D \in ContractTables, NEW w, NEW emails, NEW I, NEW g
  PROVE  /\ Imported(D, w, emails, I, g).schedules = D.schedules
         /\ Imported(D, w, emails, I, g).enrollments = D.enrollments
         /\ Imported(D, w, emails, I, g).assignments =
              D.assignments \cup {<<w[i].rut, w[i].nrc, g[i]>> : i \in I}
         /\ Imported(D, w, emails, I, g).contracts =
              D.contracts \cup {ContractOf(w[i], g[i]) : i \in I}
         /\ Imported(D, w, emails, I, g).teachers = D.teachers \cup NewTeachers(D, w, emails, I)
BY DEF Imported, ContractTables

\* A new teacher comes with a fresh email of the request.
LEMMA FreshTeachers ==
  ASSUME NEW D, NEW w \in ContractBook, NEW emails \in GivenEmails,
         NEW I \in InsertedContracts(D, w, emails), NEW t \in NewTeachers(D, w, emails, I)
  PROVE  \E r \in Rut : /\ t = <<r, emails[r]>> /\ r \in DOMAIN emails
                        /\ ~KnownRut(D, r) /\ FreshEmail(D, emails[r])
<1>1. PICK i \in I : ~KnownRut(D, w[i].rut) /\ t = <<w[i].rut, emails[w[i].rut]>>
  BY DEF NewTeachers
<1>2. i \in Payable(D, w, emails) /\ w[i].rut \in Rut BY InsertedRows
<1>3. w[i].rut \in DOMAIN emails /\ FreshEmail(D, emails[w[i].rut]) BY <1>1, <1>2 DEF Payable
<1>4. QED BY <1>1, <1>2, <1>3

LEMMA TeachersStayUnique ==
  ASSUME NEW D, UniqueTeachers(D.teachers), NEW w \in ContractBook, NEW emails \in GivenEmails,
         NEW I \in InsertedContracts(D, w, emails)
  PROVE  UniqueTeachers(D.teachers \cup NewTeachers(D, w, emails, I))
<1> DEFINE T == D.teachers
           N == NewTeachers(D, w, emails, I)
<1>1. ASSUME NEW a \in N, NEW b \in T, (a[1] = b[1] /\ a[1] # NoRut) \/ a[2] = b[2] PROVE FALSE
  <2>1. PICK r \in Rut : a = <<r, emails[r]>> /\ ~KnownRut(D, r) /\ FreshEmail(D, emails[r])
    BY FreshTeachers
  <2>2. QED BY <1>1, <2>1 DEF KnownRut, FreshEmail
<1>2. ASSUME NEW a \in N, NEW b \in N, (a[1] = b[1] /\ a[1] # NoRut) \/ a[2] = b[2] PROVE a = b
  <2>1. PICK r \in Rut : a = <<r, emails[r]>> /\ r \in DOMAIN emails BY FreshTeachers
  <2>2. PICK q \in Rut : b = <<q, emails[q]>> /\ q \in DOMAIN emails BY FreshTeachers
  <2>3. r = q BY <1>2, <2>1, <2>2, DistinctEmails
  <2>4. QED BY <2>1, <2>2, <2>3
<1>3. QED BY <1>1, <1>2 DEF UniqueTeachers

LEMMA TablesStay ==
  ASSUME NEW D, Consistent(D), NEW w \in ContractBook, NEW emails \in GivenEmails,
         NEW I \in InsertedContracts(D, w, emails), NEW g \in Resolutions(D, w, I)
  PROVE  Consistent(Imported(D, w, emails, I, g))
<1>1. D \in ContractTables /\ UniqueTeachers(D.teachers) BY DEF Consistent
<1>2. PICK E : E = Imported(D, w, emails, I, g) OBVIOUS
<1>3. /\ E.schedules = D.schedules /\ E.enrollments = D.enrollments
      /\ E.assignments = D.assignments \cup {<<w[i].rut, w[i].nrc, g[i]>> : i \in I}
      /\ E.contracts = D.contracts \cup {ContractOf(w[i], g[i]) : i \in I}
      /\ E.teachers = D.teachers \cup NewTeachers(D, w, emails, I)
  BY <1>1, <1>2, AfterImport
<1>4. \A i \in I : w[i].rut \in Rut /\ w[i].nrc \in Nrc /\ w[i].section \in Section /\ g[i] \in Course
  BY InsertedRows
<1>5. NewTeachers(D, w, emails, I) \subseteq Teacher \X Email
  BY FreshTeachers, DistinctEmails DEF Teacher
<1>6. E.assignments \subseteq Teacher \X Nrc \X Course
  <2>1. D.assignments \subseteq Teacher \X Nrc \X Course BY <1>1 DEF ContractTables
  <2>2. QED BY <1>3, <1>4, <2>1 DEF Teacher
<1>7. E.contracts \subseteq Rut \X Nrc \X Course \X Section
  <2>1. D.contracts \subseteq Rut \X Nrc \X Course \X Section BY <1>1 DEF ContractTables
  <2>2. QED BY <1>3, <1>4, <2>1 DEF ContractOf
<1>8. E \in ContractTables
  <2>1. E.teachers \subseteq Teacher \X Email BY <1>1, <1>3, <1>5 DEF ContractTables
  <2>2. E = [D EXCEPT !.assignments = E.assignments, !.contracts = E.contracts, !.teachers = E.teachers]
    BY <1>1, <1>2 DEF Imported, ContractTables
  <2>3. QED BY <1>1, <1>6, <1>7, <2>1, <2>2 DEF ContractTables
<1>9. ASSUME NEW k \in E.contracts PROVE <<k[1], k[2], k[3]>> \in E.assignments
  <2>1. CASE k \in D.contracts BY <1>3, <2>1 DEF Consistent
  <2>2. CASE k \notin D.contracts
    <3>1. PICK i \in I : k = ContractOf(w[i], g[i]) BY <1>3, <2>2
    <3>2. QED BY <1>3, <3>1 DEF ContractOf
  <2>3. QED BY <2>1, <2>2
<1>10. ASSUME NEW a \in E.assignments PROVE \E t \in E.teachers : t[1] = a[1]
  <2>1. CASE a \in D.assignments BY <1>3, <2>1 DEF Consistent
  <2>2. CASE a \notin D.assignments
    <3>1. PICK i \in I : a = <<w[i].rut, w[i].nrc, g[i]>> BY <1>3, <2>2
    <3>2. CASE KnownRut(D, w[i].rut) BY <1>3, <3>1, <3>2 DEF KnownRut
    <3>3. CASE ~KnownRut(D, w[i].rut)
      <4>1. <<w[i].rut, emails[w[i].rut]>> \in E.teachers BY <1>3, <3>3 DEF NewTeachers
      <4>2. QED BY <3>1, <4>1
    <3>4. QED BY <3>2, <3>3
  <2>3. QED BY <2>1, <2>2
<1>11. UniqueTeachers(E.teachers) BY <1>1, <1>3, TeachersStayUnique
<1>12. QED BY <1>2, <1>8, <1>9, <1>10, <1>11 DEF Consistent

\* No import gives an NRC another course.
LEMMA SameCourses ==
  ASSUME NEW D \in ContractTables, NEW w \in ContractBook, NEW emails \in GivenEmails,
         NEW I \in InsertedContracts(D, w, emails), NEW g \in Resolutions(D, w, I), NEW n
  PROVE  CoursesOf(Imported(D, w, emails, I, g), n) = CoursesOf(D, n)
<1>1. PICK E : E = Imported(D, w, emails, I, g) OBVIOUS
<1>2. /\ E.schedules = D.schedules /\ E.enrollments = D.enrollments
      /\ E.assignments = D.assignments \cup {<<w[i].rut, w[i].nrc, g[i]>> : i \in I}
  BY <1>1, AfterImport
<1>3. Scheduled(E, n) = Scheduled(D, n) /\ Enrolled(E, n) = Enrolled(D, n)
  BY <1>2 DEF Scheduled, Enrolled
<1>4. Assigned(D, n) \subseteq Assigned(E, n) BY <1>2 DEF Assigned
<1>5. ASSUME NEW c \in Assigned(E, n) PROVE c \in CoursesOf(D, n)
  <2>1. PICK r \in Teacher : <<r, n, c>> \in E.assignments /\ c \in Course BY DEF Assigned
  <2>2. CASE <<r, n, c>> \in D.assignments BY <2>1, <2>2 DEF Assigned, CoursesOf
  <2>3. CASE <<r, n, c>> \notin D.assignments
    <3>1. PICK i \in I : <<r, n, c>> = <<w[i].rut, w[i].nrc, g[i]>> BY <1>2, <2>1, <2>3
    <3>2. QED BY <3>1, InsertedRows
  <2>4. QED BY <2>2, <2>3
<1>6. QED BY <1>1, <1>3, <1>4, <1>5 DEF CoursesOf

\* With one course for the NRC, the lookup finds any contract there is.
LEMMA LookupFinds ==
  ASSUME NEW D, Consistent(D), NEW w \in ContractBook, OneCourse(D, w), NEW i \in Numbers(w),
         NEW c, ContractOf(w[i], c) \in D.contracts, NEW f \in Lookups(D)
  PROVE  Existing(D, f, w[i])
<1> DEFINE p == <<w[i].rut, w[i].nrc>>
<1>1. <<w[i].rut, w[i].nrc, c>> \in D.assignments BY DEF Consistent, ContractOf
<1>2. w[i].rut \in Teacher /\ w[i].rut \in Rut /\ w[i].nrc \in Nrc /\ c \in Course
  <2>1. D.assignments \subseteq Teacher \X Nrc \X Course BY DEF Consistent, ContractTables
  <2>2. QED BY <1>1, <2>1, ContractCells
<1>3. p \in Staffed(D) BY <1>1, <1>2 DEF Staffed
<1>4. f[p] \in Course /\ <<w[i].rut, w[i].nrc, f[p]>> \in D.assignments BY <1>3 DEF Lookups
<1>5. c \in CoursesOf(D, w[i].nrc) /\ f[p] \in CoursesOf(D, w[i].nrc)
  BY <1>1, <1>2, <1>4 DEF CoursesOf, Assigned
<1>6. f[p] = c BY <1>5 DEF OneCourse
<1>7. QED BY <1>3, <1>6 DEF Existing, ContractOf

LEMMA NotRefused ==
  ASSUME NEW D, Consistent(D), NEW w \in ContractBook, OneCourse(D, w), NEW emails \in GivenEmails,
         NEW I \in InsertedContracts(D, w, emails), NEW g \in Resolutions(D, w, I)
  PROVE  ~Refused(D, w, I, g)
<1>1. ASSUME NEW i \in I, ContractOf(w[i], g[i]) \in D.contracts PROVE FALSE
  <2>1. PICK f \in Lookups(D) : I = Inserted(D, w, emails, f) BY DEF InsertedContracts
  <2>2. ~Existing(D, f, w[i]) BY <2>1 DEF Inserted
  <2>3. i \in Numbers(w) BY InsertedRows
  <2>4. QED BY <1>1, <2>2, <2>3, LookupFinds
<1>2. ASSUME NEW i \in I, NEW j \in I, i # j, ContractOf(w[i], g[i]) = ContractOf(w[j], g[j])
      PROVE  FALSE
  <2>1. ContractKey(w[i]) = ContractKey(w[j]) BY <1>2 DEF ContractOf, ContractKey
  <2>2. /\ i \in Nat /\ i \in FirstContracts(D, w, emails) /\ i \in Payable(D, w, emails)
        /\ j \in Nat /\ j \in FirstContracts(D, w, emails) /\ j \in Payable(D, w, emails)
    BY InsertedRows
  <2>3. i < j \/ j < i BY ONLY <1>2, <2>2
  <2>4. QED BY <2>1, <2>2, <2>3 DEF FirstContracts
<1>3. QED BY <1>1, <1>2 DEF Refused

\* A row that could be paid still can.
LEMMA StillPayable ==
  ASSUME NEW D \in ContractTables, NEW w \in ContractBook, NEW emails \in GivenEmails,
         NEW I \in InsertedContracts(D, w, emails), NEW g \in Resolutions(D, w, I),
         NEW j \in Payable(D, w, emails)
  PROVE  j \in Payable(Imported(D, w, emails, I, g), w, emails)
<1> DEFINE r == w[j].rut
<1>1. PICK E : E = Imported(D, w, emails, I, g) OBVIOUS
<1>2. E.teachers = D.teachers \cup NewTeachers(D, w, emails, I) BY <1>1, AfterImport
<1>3. j \in Numbers(w) /\ CoursesOf(E, w[j].nrc) # {} BY <1>1, SameCourses DEF Payable
<1>4. KnownRut(D, r) \/ (w[j].named /\ r \in DOMAIN emails /\ FreshEmail(D, emails[r]))
  BY DEF Payable
<1>5. CASE KnownRut(D, r)
  <2>1. KnownRut(E, r) BY <1>2, <1>5 DEF KnownRut
  <2>2. QED BY <1>1, <1>3, <2>1 DEF Payable
<1>6. CASE ~KnownRut(D, r)
  <2>1. ASSUME NEW t \in E.teachers, t[2] = emails[r] PROVE t[1] = r
    <3>1. t \in NewTeachers(D, w, emails, I) BY <1>2, <1>4, <1>6, <2>1 DEF FreshEmail
    <3>2. PICK q \in Rut : t = <<q, emails[q]>> /\ q \in DOMAIN emails BY <3>1, FreshTeachers
    <3>3. QED BY <1>4, <1>6, <2>1, <3>2, DistinctEmails
  <2>2. KnownRut(E, r) \/ FreshEmail(E, emails[r]) BY <2>1 DEF KnownRut, FreshEmail
  <2>3. QED BY <1>1, <1>3, <1>4, <1>6, <2>2 DEF Payable
<1>7. QED BY <1>5, <1>6

\* And a row that can be paid could be before, unless it has no name and its
\* teacher is new.
LEMMA WasPayable ==
  ASSUME NEW D \in ContractTables, NEW w \in ContractBook, NEW emails \in GivenEmails,
         NEW I \in InsertedContracts(D, w, emails), NEW g \in Resolutions(D, w, I),
         NEW i \in Payable(Imported(D, w, emails, I, g), w, emails),
         w[i].named \/ KnownRut(D, w[i].rut)
  PROVE  i \in Payable(D, w, emails)
<1> DEFINE r == w[i].rut
<1>1. PICK E : E = Imported(D, w, emails, I, g) OBVIOUS
<1>2. E.teachers = D.teachers \cup NewTeachers(D, w, emails, I) BY <1>1, AfterImport
<1>3. i \in Payable(E, w, emails) BY <1>1
<1>4. i \in Numbers(w) /\ CoursesOf(D, w[i].nrc) # {} BY <1>1, <1>3, SameCourses DEF Payable
<1>5. KnownRut(E, r) \/ (r \in DOMAIN emails /\ FreshEmail(E, emails[r])) BY <1>3 DEF Payable
<1>6. CASE KnownRut(D, r) BY <1>4, <1>6 DEF Payable
<1>7. CASE KnownRut(E, r) /\ ~KnownRut(D, r)
  <2>1. PICK t \in E.teachers : t[1] = r BY <1>7 DEF KnownRut
  <2>2. t \in NewTeachers(D, w, emails, I) BY <1>2, <1>7, <2>1 DEF KnownRut
  <2>3. r \in DOMAIN emails /\ FreshEmail(D, emails[r]) BY <2>1, <2>2, FreshTeachers
  <2>4. QED BY <1>4, <1>7, <2>3 DEF Payable
<1>8. CASE r \in DOMAIN emails /\ FreshEmail(E, emails[r]) /\ ~KnownRut(D, r)
  <2>1. FreshEmail(D, emails[r]) BY <1>2, <1>8 DEF FreshEmail
  <2>2. QED BY <1>4, <1>8, <2>1 DEF Payable
<1>9. QED BY <1>5, <1>6, <1>7, <1>8

\* What the second import inserts, the first did not compare.
LEMMA NotTwice ==
  ASSUME NEW D, Consistent(D), NEW w \in ContractBook, OneCourse(D, w), NEW emails \in GivenEmails,
         NEW I \in InsertedContracts(D, w, emails), NEW g \in Resolutions(D, w, I),
         NEW J \in InsertedContracts(Imported(D, w, emails, I, g), w, emails), NEW i \in J
  PROVE  i \notin FirstContracts(D, w, emails)
<1> SUFFICES ASSUME i \in FirstContracts(D, w, emails) PROVE FALSE OBVIOUS
<1>1. PICK E : E = Imported(D, w, emails, I, g) OBVIOUS
<1>2. D \in ContractTables BY DEF Consistent
<1>3. Consistent(E) BY <1>1, TablesStay
<1>4. OneCourse(E, w) BY <1>1, <1>2, SameCourses DEF OneCourse
<1>5. E.contracts = D.contracts \cup {ContractOf(w[k], g[k]) : k \in I} BY <1>1, <1>2, AfterImport
<1>6. PICK e \in Lookups(E) : J = Inserted(E, w, emails, e) BY <1>1 DEF InsertedContracts
<1>7. ~Existing(E, e, w[i]) /\ w[i].inside BY <1>6 DEF Inserted
<1>8. i \in Numbers(w) BY DEF FirstContracts, Payable
<1>9. PICK f \in Lookups(D) : I = Inserted(D, w, emails, f) BY DEF InsertedContracts
<1>10. \A c : ContractOf(w[i], c) \notin E.contracts BY <1>3, <1>4, <1>7, <1>8, LookupFinds
<1>11. ~Existing(D, f, w[i])
  <2>1. ContractOf(w[i], f[<<w[i].rut, w[i].nrc>>]) \notin D.contracts BY <1>5, <1>10
  <2>2. QED BY <2>1 DEF Existing, ContractOf
<1>12. i \in I BY <1>7, <1>9, <1>11 DEF Inserted
<1>13. QED BY <1>5, <1>10, <1>12

\* A second import inserts no row with a name, or of a teacher known before.
LEMMA ContractsAgain ==
  ASSUME NEW D, Consistent(D), NEW w \in ContractBook, OneCourse(D, w), NEW emails \in GivenEmails,
         NEW I \in InsertedContracts(D, w, emails), NEW g \in Resolutions(D, w, I),
         NEW J \in InsertedContracts(Imported(D, w, emails, I, g), w, emails), NEW i \in J
  PROVE  ~w[i].named /\ ~KnownRut(D, w[i].rut)
<1> SUFFICES ASSUME w[i].named \/ KnownRut(D, w[i].rut) PROVE FALSE OBVIOUS
<1>1. PICK E : E = Imported(D, w, emails, I, g) OBVIOUS
<1>2. D \in ContractTables BY DEF Consistent
<1>3. i \in FirstContracts(E, w, emails) /\ i \in Payable(E, w, emails) BY <1>1, InsertedRows
<1>4. i \in Payable(D, w, emails) BY <1>1, <1>2, <1>3, WasPayable
<1>5. ASSUME NEW j \in Payable(D, w, emails), j < i, ContractKey(w[j]) = ContractKey(w[i]) PROVE FALSE
  <2>1. j \in Payable(E, w, emails) BY <1>1, <1>2, StillPayable
  <2>2. QED BY <1>3, <1>5, <2>1 DEF FirstContracts
<1>6. i \in FirstContracts(D, w, emails) BY <1>4, <1>5 DEF FirstContracts
<1>7. QED BY <1>6, NotTwice

\* A third inserts nothing: the rows of the second brought no teacher.
LEMMA ThirdIsEmpty ==
  ASSUME NEW D, Consistent(D), NEW w \in ContractBook, OneCourse(D, w), NEW emails \in GivenEmails,
         NEW J \in InsertedContracts(D, w, emails), NEW h \in Resolutions(D, w, J),
         \A i \in J : KnownRut(D, w[i].rut)
  PROVE  InsertedContracts(Imported(D, w, emails, J, h), w, emails) = {{}}
<1>1. PICK E : E = Imported(D, w, emails, J, h) OBVIOUS
<1>2. D \in ContractTables BY DEF Consistent
<1>3. NewTeachers(D, w, emails, J) = {} BY DEF NewTeachers
<1>4. E.teachers = D.teachers
  <2>1. E.teachers = D.teachers \cup NewTeachers(D, w, emails, J) BY <1>1, <1>2, AfterImport
  <2>2. QED BY ONLY <1>3, <2>1
<1>5. /\ \A r : KnownRut(E, r) <=> KnownRut(D, r)
      /\ \A e : FreshEmail(E, e) <=> FreshEmail(D, e)
  BY <1>4 DEF KnownRut, FreshEmail
<1>6. \A n : CoursesOf(E, n) = CoursesOf(D, n) BY <1>1, <1>2, SameCourses
<1>7. Payable(E, w, emails) = Payable(D, w, emails) BY <1>5, <1>6 DEF Payable
<1>8. FirstContracts(E, w, emails) = FirstContracts(D, w, emails) BY <1>7 DEF FirstContracts
<1>9. ASSUME NEW K \in InsertedContracts(E, w, emails), NEW i \in K PROVE FALSE
  <2>1. i \in FirstContracts(E, w, emails) BY InsertedRows
  <2>2. QED BY <1>1, <1>8, <1>9, <2>1, NotTwice
<1>10. \E f : f \in Lookups(E)
  <2>1. \A p \in Staffed(E) : \E c \in Course : <<p[1], p[2], c>> \in E.assignments BY DEF Staffed
  <2>2. [p \in Staffed(E) |-> CHOOSE c \in Course : <<p[1], p[2], c>> \in E.assignments] \in Lookups(E)
    BY <2>1 DEF Lookups
  <2>3. QED BY <2>2
<1>11. \E K : K \in InsertedContracts(E, w, emails) BY <1>10 DEF InsertedContracts
<1>12. QED BY <1>1, <1>9, <1>11

LEMMA ContractsHold ==
  ASSUME Consistent(Tables)
  PROVE  HourlyOnce
<1> SUFFICES ASSUME NEW w \in ContractBook, NEW emails \in GivenEmails, OneCourse(Tables, w),
                    NEW I \in InsertedContracts(Tables, w, emails), NEW g \in Resolutions(Tables, w, I)
             PROVE  LET D == Imported(Tables, w, emails, I, g) IN
                    /\ ~Refused(Tables, w, I, g) /\ UniqueTeachers(D.teachers)
                    /\ \A J \in InsertedContracts(D, w, emails) :
                         /\ \A i \in J : ~w[i].named /\ ~KnownRut(Tables, w[i].rut)
                         /\ \A h \in Resolutions(D, w, J) :
                              /\ ~Refused(D, w, J, h)
                              /\ InsertedContracts(Imported(D, w, emails, J, h), w, emails) = {{}}
  BY DEF HourlyOnce
<1>1. PICK T : T = Tables OBVIOUS
<1>2. PICK D : D = Imported(T, w, emails, I, g) OBVIOUS
<1>3. Consistent(T) /\ T \in ContractTables /\ OneCourse(T, w) BY <1>1 DEF Consistent
<1>4. I \in InsertedContracts(T, w, emails) /\ g \in Resolutions(T, w, I) BY <1>1
<1>5. ~Refused(T, w, I, g) BY <1>3, <1>4, NotRefused
<1>6. Consistent(D) BY <1>2, <1>3, <1>4, TablesStay
<1>7. OneCourse(D, w) BY <1>2, <1>3, <1>4, SameCourses DEF OneCourse
<1>8. ASSUME NEW J \in InsertedContracts(D, w, emails)
      PROVE  /\ \A i \in J : ~w[i].named /\ ~KnownRut(T, w[i].rut)
             /\ \A h \in Resolutions(D, w, J) :
                  /\ ~Refused(D, w, J, h)
                  /\ InsertedContracts(Imported(D, w, emails, J, h), w, emails) = {{}}
  <2>1. \A i \in J : ~w[i].named /\ ~KnownRut(T, w[i].rut) BY <1>2, <1>3, <1>4, <1>8, ContractsAgain
  <2>2. \A i \in J : KnownRut(D, w[i].rut)
    <3>1. \A i \in J : i \in Payable(D, w, emails) BY <1>8, InsertedRows
    <3>2. QED BY <2>1, <3>1 DEF Payable
  <2>3. ASSUME NEW h \in Resolutions(D, w, J)
        PROVE  /\ ~Refused(D, w, J, h)
               /\ InsertedContracts(Imported(D, w, emails, J, h), w, emails) = {{}}
    BY <1>6, <1>7, <2>2, NotRefused, ThirdIsEmpty
  <2>4. QED BY <2>1, <2>3
<1>9. UniqueTeachers(D.teachers) BY <1>6 DEF Consistent
<1>10. QED BY <1>1, <1>2, <1>5, <1>8, <1>9

-----------------------------------------------------------------------------
LEMMA TablesConsistent == WorkbooksTypeOK => Consistent(Tables)
BY DEF WorkbooksTypeOK, Consistent, ContractTables, Tables

LEMMA WorkbooksStart == WorkbooksInit => WorkbooksTypeOK
BY DEF WorkbooksInit, WorkbooksTypeOK, UniqueCodes, UniqueDois, UniqueTeachers

\* The tables of contracts, apart from the other two.
HourlyTypeOK ==
  /\ scheduleRows \subseteq Nrc \X Course /\ enrollmentRows \subseteq Nrc \X Course
  /\ assignmentRows \subseteq Teacher \X Nrc \X Course
  /\ contractRows \subseteq Rut \X Nrc \X Course \X Section
  /\ teacherRows \subseteq Teacher \X Email /\ UniqueTeachers(teacherRows)
  /\ \A c \in contractRows : <<c[1], c[2], c[3]>> \in assignmentRows
  /\ \A a \in assignmentRows : \E t \in teacherRows : t[1] = a[1]

LEMMA HourlyStays == HourlyTypeOK /\ UNCHANGED hourlyVars => HourlyTypeOK'
BY DEF HourlyTypeOK, hourlyVars, offeringVars, UniqueTeachers

LEMMA ImportHourlyTyped ==
  ASSUME HourlyTypeOK, NEW w \in ContractBook, NEW emails \in GivenEmails, ImportHourly(w, emails)
  PROVE  HourlyTypeOK'
<1>1. PICK T : T = Tables OBVIOUS
<1>2. Consistent(T) BY <1>1 DEF HourlyTypeOK, Consistent, ContractTables, Tables
<1>3. PICK I \in InsertedContracts(T, w, emails) : \E g \in Resolutions(T, w, I) :
        /\ assignmentRows' = Imported(T, w, emails, I, g).assignments
        /\ contractRows' = Imported(T, w, emails, I, g).contracts
        /\ teacherRows' = Imported(T, w, emails, I, g).teachers
  BY <1>1 DEF ImportHourly
<1>4. PICK g \in Resolutions(T, w, I) :
        /\ assignmentRows' = Imported(T, w, emails, I, g).assignments
        /\ contractRows' = Imported(T, w, emails, I, g).contracts
        /\ teacherRows' = Imported(T, w, emails, I, g).teachers
  BY <1>3
<1>5. PICK E : E = Imported(T, w, emails, I, g) OBVIOUS
<1>6. Consistent(E) BY <1>2, <1>5, TablesStay
<1>7. scheduleRows' = scheduleRows /\ enrollmentRows' = enrollmentRows
  BY DEF ImportHourly, offeringVars
<1>8. assignmentRows' = E.assignments /\ contractRows' = E.contracts /\ teacherRows' = E.teachers
  BY <1>4, <1>5
<1>9. /\ assignmentRows' \subseteq Teacher \X Nrc \X Course
      /\ contractRows' \subseteq Rut \X Nrc \X Course \X Section
      /\ teacherRows' \subseteq Teacher \X Email
  BY <1>6, <1>8 DEF Consistent, ContractTables
<1>10. QED BY <1>6, <1>7, <1>8, <1>9 DEF HourlyTypeOK, Consistent, UniqueTeachers

LEMMA EditOfferingTyped ==
  ASSUME HourlyTypeOK, EditOffering PROVE HourlyTypeOK'
<1>1. scheduleRows' \subseteq Nrc \X Course /\ enrollmentRows' \subseteq Nrc \X Course
  BY DEF EditOffering, HourlyTypeOK
<1>2. UNCHANGED <<assignmentRows, contractRows, teacherRows>> BY DEF EditOffering
<1>3. QED BY <1>1, <1>2 DEF HourlyTypeOK, UniqueTeachers

LEMMA EditTeachingTyped ==
  ASSUME HourlyTypeOK, EditTeaching PROVE HourlyTypeOK'
<1>1. UNCHANGED <<scheduleRows, enrollmentRows>> BY DEF EditTeaching, offeringVars
<1>2. CASE \E t \in teacherRows, n \in Nrc, c \in Course :
             /\ \/ assignmentRows' = assignmentRows \cup {<<t[1], n, c>>}
                \/ /\ \A s \in Section : <<t[1], n, c, s>> \notin contractRows
                   /\ assignmentRows' = assignmentRows \ {<<t[1], n, c>>}
             /\ UNCHANGED <<contractRows, teacherRows>>
  <2>1. PICK t \in teacherRows, n \in Nrc, c \in Course :
             /\ \/ assignmentRows' = assignmentRows \cup {<<t[1], n, c>>}
                \/ /\ \A s \in Section : <<t[1], n, c, s>> \notin contractRows
                   /\ assignmentRows' = assignmentRows \ {<<t[1], n, c>>}
             /\ UNCHANGED <<contractRows, teacherRows>>
    BY <1>2
  <2>2. t[1] \in Teacher BY DEF HourlyTypeOK
  <2>3. assignmentRows' \subseteq Teacher \X Nrc \X Course BY <2>1, <2>2 DEF HourlyTypeOK
  <2>4. ASSUME NEW k \in contractRows PROVE <<k[1], k[2], k[3]>> \in assignmentRows'
    <3>1. k \in Rut \X Nrc \X Course \X Section /\ <<k[1], k[2], k[3]>> \in assignmentRows
      BY DEF HourlyTypeOK
    <3>2. k = <<k[1], k[2], k[3], k[4]>> /\ k[4] \in Section BY <3>1
    <3>3. QED BY <2>1, <3>1, <3>2
  <2>5. \A a \in assignmentRows' : \E u \in teacherRows : u[1] = a[1] BY <2>1 DEF HourlyTypeOK
  <2>6. QED BY <1>1, <2>1, <2>3, <2>4, <2>5 DEF HourlyTypeOK, UniqueTeachers
<1>3. CASE \E a \in assignmentRows, s \in Section :
             /\ a[1] # NoRut
             /\ contractRows' \in {contractRows \cup {<<a[1], a[2], a[3], s>>},
                                   contractRows \ {<<a[1], a[2], a[3], s>>}}
             /\ UNCHANGED <<assignmentRows, teacherRows>>
  <2>1. PICK a \in assignmentRows, s \in Section :
             /\ a[1] # NoRut
             /\ contractRows' \subseteq contractRows \cup {<<a[1], a[2], a[3], s>>}
             /\ UNCHANGED <<assignmentRows, teacherRows>>
    BY <1>3
  <2>2. a[1] \in Rut /\ a[2] \in Nrc /\ a[3] \in Course /\ a = <<a[1], a[2], a[3]>>
    BY <2>1 DEF HourlyTypeOK, Teacher
  <2>3. contractRows' \subseteq Rut \X Nrc \X Course \X Section BY <2>1, <2>2 DEF HourlyTypeOK
  <2>4. ASSUME NEW k \in contractRows' PROVE <<k[1], k[2], k[3]>> \in assignmentRows
    <3>1. CASE k \in contractRows BY <3>1 DEF HourlyTypeOK
    <3>2. CASE k = <<a[1], a[2], a[3], s>>
      <4>1. <<k[1], k[2], k[3]>> = <<a[1], a[2], a[3]>> BY ONLY <3>2
      <4>2. QED BY <2>1, <2>2, <4>1
    <3>3. QED BY <2>1, <3>1, <3>2
  <2>5. QED BY <1>1, <2>1, <2>3, <2>4 DEF HourlyTypeOK, UniqueTeachers
<1>4. CASE \E t \in Teacher \X Email :
             /\ teacherRows' = teacherRows \cup {t} /\ UniqueTeachers(teacherRows')
             /\ UNCHANGED <<assignmentRows, contractRows>>
  BY <1>1, <1>4 DEF HourlyTypeOK
<1>5. QED BY <1>2, <1>3, <1>4 DEF EditTeaching

LEMMA WorkbooksStep == WorkbooksTypeOK /\ [WorkbooksNext]_workbookVars => WorkbooksTypeOK'
<1> SUFFICES ASSUME WorkbooksTypeOK, [WorkbooksNext]_workbookVars PROVE WorkbooksTypeOK' OBVIOUS
<1>1. /\ projectRows \subseteq ProjectRow /\ UniqueCodes(projectRows)
      /\ outputRows \subseteq OutputRow /\ UniqueDois(outputRows) /\ HourlyTypeOK
  BY DEF WorkbooksTypeOK, HourlyTypeOK
<1>2. SUFFICES /\ projectRows' \subseteq ProjectRow /\ UniqueCodes(projectRows')
               /\ outputRows' \subseteq OutputRow /\ UniqueDois(outputRows') /\ HourlyTypeOK'
  BY DEF WorkbooksTypeOK, HourlyTypeOK
<1>3. ASSUME NEW w \in ProjectBook, ImportProjects(w)
      PROVE  projectRows' \subseteq ProjectRow /\ UniqueCodes(projectRows') /\ UNCHANGED <<outputRows, hourlyVars>>
  BY <1>1, <1>3, ProjectsTyped DEF ImportProjects
<1>4. ASSUME NEW w \in OutputBook, ImportResearch(w)
      PROVE  outputRows' \subseteq OutputRow /\ UniqueDois(outputRows') /\ UNCHANGED <<projectRows, hourlyVars>>
  BY <1>1, <1>4, OutputsTyped DEF ImportResearch
<1>5. ASSUME NEW w \in ContractBook, NEW emails \in GivenEmails, ImportHourly(w, emails)
      PROVE  HourlyTypeOK' /\ UNCHANGED <<projectRows, outputRows>>
  BY <1>1, <1>5, ImportHourlyTyped DEF ImportHourly
<1>6. ASSUME EditProjects
      PROVE  projectRows' \subseteq ProjectRow /\ UniqueCodes(projectRows') /\ UNCHANGED <<outputRows, hourlyVars>>
  BY <1>1, <1>6 DEF EditProjects
<1>7. ASSUME EditOutputs
      PROVE  outputRows' \subseteq OutputRow /\ UniqueDois(outputRows') /\ UNCHANGED <<projectRows, hourlyVars>>
  BY <1>1, <1>7 DEF EditOutputs
<1>8. ASSUME EditOffering \/ EditTeaching PROVE HourlyTypeOK' /\ UNCHANGED <<projectRows, outputRows>>
  BY <1>1, <1>8, EditOfferingTyped, EditTeachingTyped DEF EditOffering, EditTeaching
<1>9. CASE UNCHANGED workbookVars
  BY <1>1, <1>9, HourlyStays DEF workbookVars
<1>10. ASSUME UNCHANGED hourlyVars PROVE HourlyTypeOK' BY <1>1, <1>10, HourlyStays
<1>11. CASE ProjectsNext BY <1>1, <1>3, <1>6, <1>10, <1>11 DEF ProjectsNext
<1>12. CASE ResearchNext BY <1>1, <1>4, <1>7, <1>10, <1>12 DEF ResearchNext
<1>13. CASE HourlyNext BY <1>1, <1>5, <1>8, <1>13 DEF HourlyNext
<1>14. QED BY <1>9, <1>11, <1>12, <1>13 DEF WorkbooksNext

(* The tables stay well formed: no code, DOI, RUT or email twice, no       *)
(* contract without its assignment and no assignment without its teacher.  *)
THEOREM WorkbooksTypeCorrect == WorkbooksSpec => []WorkbooksTypeOK
BY WorkbooksStart, WorkbooksStep, PTL DEF WorkbooksSpec

(* Whatever the tables hold and whatever the workbook: an import of        *)
(* projects or outputs meets no unique column, and importing the workbook  *)
(* again adds nothing.  So it is with contracts as long as each NRC of the *)
(* workbook is of one course, except that the second import may add rows   *)
(* without a name whose teacher the first one brought: the third adds      *)
(* nothing.                                                                *)
THEOREM AlwaysImportedOnce == WorkbooksSpec => []ImportedOnce
<1>1. WorkbooksTypeOK => ImportedOnce
  BY ProjectsHold, OutputsHold, ContractsHold, TablesConsistent DEF ImportedOnce
<1>2. QED BY WorkbooksStart, WorkbooksStep, <1>1, PTL DEF WorkbooksSpec
=============================================================================
