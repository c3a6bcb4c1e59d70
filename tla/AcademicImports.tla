-------------------------- MODULE AcademicImports --------------------------
(***************************************************************************)
(* What AcademicImportsService does to the repository tables, as far as    *)
(* its caller, the import queue, can tell.  An import first parses the     *)
(* workbook and looks up which of its rows the repository already has      *)
(* (plain reads, outside any transaction), and then inserts the remaining  *)
(* rows together in one serializable transaction that only inserts.        *)
(*                                                                         *)
(* A row stands for one valid project, output or contract of a workbook.   *)
(* Rows the database itself keeps unique (a project with a code, an output *)
(* with a DOI, an hourly contract) are Keyed; the others (a project        *)
(* without a code, an output without a DOI) are told apart only by the     *)
(* lookup.  Rows the parser rejects never leave the parser and are left    *)
(* out; a workbook with no valid row is a job whose RowsOf is empty.       *)
(***************************************************************************)
EXTENDS Naturals

CONSTANTS
  MaxJobs,   \* bound: how many workbooks are ever submitted
  Row,       \* the rows workbooks may carry
  Keyed,     \* the rows with a UNIQUE column behind them
  RowsOf     \* the valid rows of each job's workbook

Job == 1..MaxJobs

ASSUME ImportsAssumption ==
  /\ MaxJobs \in Nat
  /\ Keyed \subseteq Row
  /\ RowsOf \in [Job -> SUBSET Row]

VARIABLE copies   \* how many times the repository holds each row

ImportsTypeOK == copies \in [Row -> Nat]

ImportsInit == copies = [r \in Row |-> 0]

Present(r) == copies[r] > 0

(* Variants that end in _Mut are plausible slips, kept to confirm that the *)
(* properties notice them.                                                 *)
MissingRows_NoLookup_Mut(j) == RowsOf[j]
MissingRows_KeyedOnly_Mut(j) == {r \in RowsOf[j] \cap Keyed : ~Present(r)}

\* parseProjects, parseResearch, parseHourly: the rows still to be inserted.
MissingRows(j) == {r \in RowsOf[j] : ~Present(r)}

\* A unique index rejects the transaction, and with it every row (P2002).
KeyClash(rows) == \E r \in rows \cap Keyed : Present(r)

\* The committed transaction: every row of the list, one more time.
InsertRows(rows) ==
  copies' = [r \in Row |-> copies[r] + (IF r \in rows THEN 1 ELSE 0)]
=============================================================================
