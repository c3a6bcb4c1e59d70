----------------------------- MODULE MCCatalog -----------------------------
(* Instances of Catalog for TLC. *)
EXTENDS Catalog, TLC

Symmetry == UNION {Permutations(S) : S \in {Semester, Nrc, Course, Student, Request}}
=============================================================================
