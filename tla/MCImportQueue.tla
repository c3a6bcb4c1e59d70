--------------------------- MODULE MCImportQueue ---------------------------
(* Instances of ImportQueue for TLC. *)
EXTENDS ImportQueue, TLC

CONSTANTS r1, r2   \* rows: r1 has a code, r2 has none

\* The second workbook shares the row without a code with the first.
MixedRows == [j \in Job |-> IF j = 1 THEN {r1, r2} ELSE {r2}]
Replicas == Permutations(Worker)
=============================================================================
