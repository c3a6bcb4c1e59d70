-------------------------- MODULE MCJustifications --------------------------
(* Instances of Justifications for TLC. *)
EXTENDS Justifications

CONSTANTS v1, v2, e1, e2, c1, c2

\* The second version comes from another email (a corrected submission).
Emails == [v \in Version |-> IF v = v1 THEN e1 ELSE e2]

\* Two rows of staff share an address, which also submits the first version:
\* there it is the student's, two teachers' and an assistant's.
Mailboxes == [c \in Contact |-> e1]
Teachers == [v \in Version |-> IF v = v1 THEN {c1, c2} ELSE {c1}]
Assistants == [v \in Version |-> IF v = v1 THEN {c1} ELSE {}]
=============================================================================
