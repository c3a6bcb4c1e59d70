---------------------------- MODULE MCUserAdmin ----------------------------
(* Instances of UserAdmin for TLC. *)
EXTENDS UserAdmin, TLC

Requests == Permutations(Request)
Accounts == Permutations(User)
RequestsAndAccounts == Requests \cup Accounts
=============================================================================
