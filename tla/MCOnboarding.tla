---------------------------- MODULE MCOnboarding ----------------------------
(* Instances of Onboarding for TLC. *)
EXTENDS Onboarding, TLC

RequestsAndEmails == Permutations(Request) \cup Permutations(Email)
=============================================================================
