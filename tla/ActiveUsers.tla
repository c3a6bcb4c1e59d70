---------------------------- MODULE ActiveUsers ----------------------------
(***************************************************************************)
(* Accounts, their roles, and ActiveUserService: the cached answer to "is  *)
(* this account active and which roles does it have", asked at the start   *)
(* of every request.  The answer is read from the database on a miss and   *)
(* stored for TTL; a write to an account deletes its entry afterwards.     *)
(*                                                                         *)
(* Names, emails and the encryption of the entry are left out.             *)
(***************************************************************************)
EXTENDS Naturals

CONSTANTS
  User,
  Role,
  SYSTEM_ADMIN,   \* the role that may administer accounts
  TTL,            \* ticks a cache entry lives (60 s)
  Pause           \* assumption: ticks a request takes at most

ASSUME ActiveUsersAssumption ==
  /\ SYSTEM_ADMIN \in Role
  /\ TTL \in Nat \ {0} /\ Pause \in Nat

VARIABLES
  account, roles,     \* the User and UserRole tables
  cache, entryAge,    \* the entries user:pii:v1:<id> in Redis
  since               \* observation: ticks since the right answer last changed

accountVars == <<account, roles>>
cacheVars == <<cache, entryAge>>

Long == TTL + 2 * Pause   \* bound of since: longer makes no difference

ActiveUsersTypeOK ==
  /\ account \in [User -> {"active", "inactive", "deleted"}]
  /\ roles \in [User -> SUBSET Role]
  /\ cache \in [User -> SUBSET SUBSET Role]
  /\ entryAge \in [User -> 0..(TTL - 1)]
  /\ since \in [User -> 0..Long]

Active(u) == account[u] = "active"
ActiveAdmins == {u \in User : Active(u) /\ SYSTEM_ADMIN \in roles[u]}

\* An answer is the set that holds the roles of an active account, or the
\* empty set.  This is the right one.
NoAnswer == {}
View(u) == IF Active(u) THEN {roles[u]} ELSE NoAnswer

\* Somebody has been made administrator; nobody has signed in yet.
ActiveUsersInit ==
  /\ account = [u \in User |-> "active"]
  /\ roles \in [User -> SUBSET Role] /\ ActiveAdmins # {}
  /\ cache = [u \in User |-> NoAnswer]
  /\ entryAge = [u \in User |-> 0]
  /\ since = [u \in User |-> Long]

\* Every write to the tables: notes whose right answer it changes.
Observe == since' = [u \in User |-> IF View(u)' # View(u) THEN 0 ELSE since[u]]

StoreEntry(u, answer) ==
  /\ cache' = [cache EXCEPT ![u] = answer]
  /\ entryAge' = [entryAge EXCEPT ![u] = 0]

EvictEntry(u) == StoreEntry(u, NoAnswer)

Expires_Mut(u) == entryAge[u] + 1 > TTL   \* an entry lives a tick too long
Expires(u) == entryAge[u] + 1 >= TTL

\* One tick of Redis's clock: entries of age TTL are gone.
AgeEntries ==
  /\ cache' = [u \in User |-> IF Expires(u) THEN NoAnswer ELSE cache[u]]
  /\ entryAge' = [u \in User |->
                    IF cache[u] = NoAnswer \/ Expires(u) THEN 0 ELSE entryAge[u] + 1]

AgeObservation ==
  since' = [u \in User |-> IF since[u] < Long THEN since[u] + 1 ELSE since[u]]
=============================================================================
