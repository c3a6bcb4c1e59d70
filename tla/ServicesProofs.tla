--------------------------- MODULE ServicesProofs ---------------------------
(***************************************************************************)
(* The five services of MCServices side by side: what is proved of each of *)
(* them alone holds in every scene, so a run of all of them at once checks *)
(* each one as it is.                                                      *)
(***************************************************************************)
EXTENDS MCServices, UserAdminProofs, TeachingProofs, RepositoryProofs

\* Each service sees its own behaviours, whatever the scene.
LEMMA ServicesKeepApart ==
  ServicesSpec => Spec /\ PaySpec /\ AssistantshipsSpec /\ RepositorySpec /\ WorkbooksSpec
<1>1. ServicesInit => Init /\ PayInit /\ AssistantshipsInit /\ RepositoryInit /\ WorkbooksInit
  BY DEF ServicesInit
<1>2. [ServicesNext]_ServicesVars => [Next]_vars
  BY DEF ServicesNext, UsersScene, PayScene, AssistantshipsScene, RepositoryScene, WorkbooksScene,
         ServicesVars
<1>3. [ServicesNext]_ServicesVars => [PayNext]_payVars
  BY DEF ServicesNext, UsersScene, PayScene, AssistantshipsScene, RepositoryScene, WorkbooksScene,
         ServicesVars
<1>4. [ServicesNext]_ServicesVars => [AssistantshipsNext]_assistantVars
  BY DEF ServicesNext, UsersScene, PayScene, AssistantshipsScene, RepositoryScene, WorkbooksScene,
         ServicesVars
<1>5. [ServicesNext]_ServicesVars => [RepositoryNext]_repositoryVars
  BY DEF ServicesNext, UsersScene, PayScene, AssistantshipsScene, RepositoryScene, WorkbooksScene,
         ServicesVars
<1>6. [ServicesNext]_ServicesVars => [WorkbooksNext]_workbookVars
  BY DEF ServicesNext, UsersScene, PayScene, AssistantshipsScene, RepositoryScene, WorkbooksScene,
         ServicesVars, WorkbooksNext
<1>7. QED
  BY <1>1, <1>2, <1>3, <1>4, <1>5, <1>6, PTL
     DEF ServicesSpec, Spec, PaySpec, AssistantshipsSpec, RepositorySpec, WorkbooksSpec

(* The tables of all five services are well typed in every scene.          *)
THEOREM ServicesTypeCorrect == ServicesSpec => []ServicesTypeOK
<1>1. TypeOK /\ PayTypeOK /\ AssistantshipsTypeOK /\ RepositoryTypeOK /\ WorkbooksTypeOK
        => ServicesTypeOK
  BY DEF ServicesTypeOK
<1>2. QED
  BY <1>1, ServicesKeepApart, TypeCorrect, PayTypeCorrect, AssistantshipsTypeCorrect,
     RepositoryTypeCorrect, WorkbooksTypeCorrect, PTL

(* Whatever the tables hold: an import of projects or outputs meets no     *)
(* unique column and importing the workbook again adds nothing; so it is   *)
(* with contracts as long as each NRC of the workbook is of one course,    *)
(* except for the rows without a name whose teacher the first import       *)
(* brought, which the second adds and the third does not.                  *)
THEOREM ServicesImportOnce == ServicesSpec => []ImportedOnceHere
<1>1. ImportedOnce => ImportedOnceHere BY DEF ImportedOnce, ImportedOnceHere
<1>2. QED BY <1>1, ServicesKeepApart, AlwaysImportedOnce, PTL
=============================================================================
