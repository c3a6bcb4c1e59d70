---------------------------- MODULE MCWorkbooks -----------------------------
(* Instances of Workbooks for TLC. *)
EXTENDS Workbooks, TLC

Lower == [s \in Spelled |-> IF s = "X" THEN "x" ELSE s]
=============================================================================
