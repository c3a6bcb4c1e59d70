-------------------------- MODULE JustificationCase --------------------------
(***************************************************************************)
(* What a student's justification goes through, as students, teachers and  *)
(* the coordination see it: the form arrives, somebody opens it, it is     *)
(* decided once, and then people are told that decision.  No requests,     *)
(* transactions or failures.                                               *)
(***************************************************************************)
CONSTANTS
  Cases,
  Addressees   \* who may be told: an address, in a role it has in the case

VARIABLES
  stage,   \* absent, received, PENDING, ACCEPTED or REJECTED
  told     \* told[c]: how often each <<addressee, decision>> was told

Decisions == {"ACCEPTED", "REJECTED"}

caseVars == <<stage, told>>

CaseInit ==
  /\ stage = [c \in Cases |-> "absent"]
  /\ told = [c \in Cases |-> [m \in Addressees \X Decisions |-> 0]]

Advance(c, from, to) ==
  /\ stage[c] = from
  /\ stage' = [stage EXCEPT ![c] = to]
  /\ UNCHANGED told

\* Only the case's own decision is ever told, and to an address once in each
\* role: telling it again would be another state.
Tell(c, a) ==
  /\ stage[c] \in Decisions
  /\ told[c][<<a, stage[c]>>] = 0
  /\ told' = [told EXCEPT ![c][<<a, stage[c]>>] = 1]
  /\ UNCHANGED stage

CaseNext ==
  \E c \in Cases :
    \/ Advance(c, "absent", "received")
    \/ Advance(c, "received", "PENDING")
    \/ Advance(c, "PENDING", "ACCEPTED")
    \/ Advance(c, "PENDING", "REJECTED")
    \/ \E a \in Addressees : Tell(c, a)

CaseSpec == CaseInit /\ [][CaseNext]_caseVars
=============================================================================
