----------------------------- MODULE Onboarding -----------------------------
(***************************************************************************)
(* How a person gets an account: an administrator, or the bootstrap that   *)
(* runs before the API starts, leaves a preload with roles for an email,   *)
(* and the first Google login of that email creates the account with those *)
(* roles and consumes the preload.                                         *)
(*                                                                         *)
(* Every operation is a read-committed transaction of several statements:  *)
(* each reads what is committed when it runs, and the writes appear with   *)
(* the commit.  Whitelist, names and Google identities are left out, and   *)
(* emails are already normalized.                                          *)
(***************************************************************************)
EXTENDS Naturals, FiniteSets

CONSTANTS
  Email, Role,
  SYSTEM_ADMIN,
  Request,       \* the operations in course at a time
  Ops,           \* the operations clients ask for, of Operation
  MaxPreloads,   \* bound: preloads ever created
  MaxFaults      \* bound: operations cut off in a behaviour

Operation == {"login", "preload", "cancel", "prepare", "administer"}

ASSUME OnboardingAssumption ==
  /\ SYSTEM_ADMIN \in Role /\ Ops \subseteq Operation
  /\ IsFiniteSet(Request)
  /\ MaxPreloads \in Nat /\ MaxFaults \in Nat

VARIABLES
  account, roles,   \* User and UserRole, by email
  preload,          \* the id of the email's PreloadedUser, or NoPreload
  made,             \* preloads ever created: their ids are 1..made
  preloadRoles,     \* PreloadedUserRole, by id
  initial,          \* observation: the preloads the bootstrap created
  spent,            \* observation: how often a preload gave its roles or was cancelled
  pc, call,         \* per request: where it is, and what it asks for
  seen,             \* the preload it read, or NoPreload, and will act on
  found,            \* whether the bootstrap found an account to give the role to
  faults

accountVars == <<account, roles>>
preloadVars == <<preload, made, preloadRoles, initial, spent>>
requestVars == <<pc, call, seen, found>>
vars == <<accountVars, preloadVars, requestVars, faults>>

NoPreload == 0
Preload == 1..MaxPreloads
Call == [op : Ops, email : Email, roles : SUBSET Role]
NoCall == [op |-> "none", email |-> "none", roles |-> {}]
Place == {"idle", "findUser", "findPreload", "createUser", "checkUser", "checkPreload",
          "createPreload", "lock", "countAdmins", "findInitial", "findAccount", "grant"}

Active(e) == account[e] = "active"
ActiveAdmins == {e \in Email : Active(e) /\ SYSTEM_ADMIN \in roles[e]}

TypeOK ==
  /\ account \in [Email -> {"none", "active", "inactive"}]
  /\ roles \in [Email -> SUBSET Role]
  /\ made \in 0..MaxPreloads
  /\ preload \in [Email -> {NoPreload} \cup 1..made]
  /\ preloadRoles \in [Preload -> SUBSET Role]
  /\ \A id \in 1..made : preloadRoles[id] # {}   \* a preload grants something
  /\ initial \subseteq 1..made
  /\ spent \in [Preload -> Nat]
  /\ pc \in [Request -> Place]
  /\ call \in [Request -> {NoCall} \cup Call]
  /\ seen \in [Request -> {NoPreload} \cup 1..made]
  /\ found \in [Request -> BOOLEAN]
  /\ faults \in 0..MaxFaults

Init ==
  /\ account \in [Email -> {"none", "active"}]
  /\ \E S \in SUBSET Email :
       roles = [e \in Email |-> IF e \in S /\ Active(e) THEN {SYSTEM_ADMIN} ELSE {}]
  /\ preload = [e \in Email |-> NoPreload]
  /\ made = 0
  /\ preloadRoles = [id \in Preload |-> {}]
  /\ initial = {}
  /\ spent = [id \in Preload |-> 0]
  /\ pc = [r \in Request |-> "idle"]
  /\ call = [r \in Request |-> NoCall]
  /\ seen = [r \in Request |-> NoPreload]
  /\ found = [r \in Request |-> FALSE]
  /\ faults = 0

-----------------------------------------------------------------------------
Goto(r, p) == pc' = [pc EXCEPT ![r] = p] /\ UNCHANGED call
See(r, id, b) ==
  /\ seen' = [seen EXCEPT ![r] = id]
  /\ found' = [found EXCEPT ![r] = b]

\* The answer, whatever it says: what the request held and read is gone.
End(r) ==
  /\ pc' = [pc EXCEPT ![r] = "idle"]
  /\ call' = [call EXCEPT ![r] = NoCall]
  /\ See(r, NoPreload, FALSE)

GotoOrEnd(r, ok, p) ==
  \/ ok /\ Goto(r, p) /\ UNCHANGED <<seen, found>>
  \/ ~ok /\ End(r)

RolesAccepted_Mut(rs) == TRUE   \* an empty list of roles is taken
RolesAccepted(rs) == rs # {}

\* For the bound MaxPreloads: the requests that may still create one.
Creators == {r \in Request : call[r].op \in {"preload", "prepare"}}

\* Only administrators preload and cancel; anybody logs in; the bootstrap
\* runs before every start of a replica.
Arrive(r, op, e) ==
  /\ pc[r] = "idle" /\ op \in Ops
  /\ \E rs \in SUBSET Role :
       /\ rs = {} \/ op = "preload"
       /\ op = "preload" => ActiveAdmins # {} /\ RolesAccepted(rs)
       /\ op \in {"preload", "prepare"} => made + Cardinality(Creators) < MaxPreloads
       /\ call' = [call EXCEPT ![r] = [op |-> op, email |-> e, roles |-> rs]]
  /\ pc' = [pc EXCEPT ![r] = CASE op = "login" -> "findUser"
                               [] op = "preload" -> "checkUser"
                               [] op = "prepare" -> "lock"]
  /\ UNCHANGED <<accountVars, preloadVars, seen, found, faults>>

\* The row itself; its roles and its email's unique key go with it.
InsertPreload(r, rs) ==
  LET id == made + 1
  IN  /\ made' = id
      /\ preload' = [preload EXCEPT ![call[r].email] = id]
      /\ preloadRoles' = [preloadRoles EXCEPT ![id] = rs]

DropPreload(e, id) ==
  /\ preload' = [preload EXCEPT ![e] = IF @ = id THEN NoPreload ELSE @]
  /\ spent' = [spent EXCEPT ![id] = @ + 1]

-----------------------------------------------------------------------------
(* validateGoogleUser.                                                     *)

FindUser(r) ==
  /\ pc[r] = "findUser"
  /\ GotoOrEnd(r, account[call[r].email] = "none", "findPreload")
  /\ UNCHANGED <<accountVars, preloadVars, faults>>

FindPreload(r) ==
  /\ pc[r] = "findPreload"
  /\ Goto(r, "createUser") /\ See(r, preload[call[r].email], FALSE)
  /\ UNCHANGED <<accountVars, preloadVars, faults>>

\* The preload is deleted by its id: if it is gone, the login rolls back.
Consumable_Mut(e, id) == TRUE
Consumable(e, id) == id = NoPreload \/ preload[e] = id

\* user.create, preloadedUser.delete and the commit.
CreateUser(r) ==
  LET e == call[r].email
      id == seen[r]
      ok == account[e] = "none" /\ Consumable(e, id)
  IN  /\ pc[r] = "createUser"
      /\ \/ /\ ok
            /\ account' = [account EXCEPT ![e] = "active"]
            /\ roles' = [roles EXCEPT ![e] = IF id = NoPreload THEN {}
                                             ELSE preloadRoles[id]]
            /\ \/ id # NoPreload /\ DropPreload(e, id)
               \/ id = NoPreload /\ UNCHANGED <<preload, spent>>
         \/ ~ok /\ UNCHANGED <<accountVars, preload, spent>>
      /\ End(r)
      /\ UNCHANGED <<made, preloadRoles, initial, faults>>

-----------------------------------------------------------------------------
(* preloadUser and cancelPreload.                                          *)

CheckUser(r) ==
  /\ pc[r] = "checkUser"
  /\ GotoOrEnd(r, account[call[r].email] = "none", "checkPreload")
  /\ UNCHANGED <<accountVars, preloadVars, faults>>

CheckPreload(r) ==
  /\ pc[r] = "checkPreload"
  /\ GotoOrEnd(r, preload[call[r].email] = NoPreload, "createPreload")
  /\ UNCHANGED <<accountVars, preloadVars, faults>>

\* The unique email of PreloadedUser rejects a second one (P2002); nothing
\* relates it to the email of User.
CreatePreload(r) ==
  /\ pc[r] = "createPreload"
  /\ \/ /\ preload[call[r].email] = NoPreload
        /\ InsertPreload(r, call[r].roles)
     \/ /\ preload[call[r].email] # NoPreload
        /\ UNCHANGED <<made, preload, preloadRoles>>
  /\ End(r)
  /\ UNCHANGED <<accountVars, initial, spent, faults>>

CancelPreload(e) ==
  /\ "cancel" \in Ops /\ ActiveAdmins # {}
  /\ preload[e] # NoPreload
  /\ DropPreload(e, preload[e])
  /\ UNCHANGED <<accountVars, made, preloadRoles, initial, requestVars, faults>>

-----------------------------------------------------------------------------
(* InitialAdminService.prepare, under its advisory lock.                   *)

UnderLock == {"countAdmins", "findInitial", "findAccount", "grant"}

LockFree_Mut == TRUE   \* without pg_advisory_xact_lock
LockFree == \A r \in Request : pc[r] \notin UnderLock

Lock(r) ==
  /\ pc[r] = "lock" /\ LockFree
  /\ Goto(r, "countAdmins")
  /\ UNCHANGED <<accountVars, preloadVars, seen, found, faults>>

CountAdmins(r) ==
  /\ pc[r] = "countAdmins"
  /\ GotoOrEnd(r, ActiveAdmins = {}, "findInitial")
  /\ UNCHANGED <<accountVars, preloadVars, faults>>

AdminPreloads ==
  {e \in Email : preload[e] # NoPreload /\ SYSTEM_ADMIN \in preloadRoles[preload[e]]}

\* One for this email is "already prepared", one for another is refused.
FindInitial(r) ==
  /\ pc[r] = "findInitial"
  /\ GotoOrEnd(r, AdminPreloads = {}, "findAccount")
  /\ UNCHANGED <<accountVars, preloadVars, faults>>

HasAccount(e) == account[e] # "none"

FindAccount(r) ==
  LET e == call[r].email
  IN  /\ pc[r] = "findAccount"
      /\ \/ /\ HasAccount(e) => Active(e)
            /\ Goto(r, "grant")
            /\ See(r, NoPreload, HasAccount(e))
         \/ HasAccount(e) /\ ~Active(e) /\ End(r)
      /\ UNCHANGED <<accountVars, preloadVars, faults>>

\* The role for the account that was found, or a preload for the email.
Grant(r) ==
  LET e == call[r].email
      assignable == account[e] # "none" /\ SYSTEM_ADMIN \notin roles[e]
  IN  /\ pc[r] = "grant"
      /\ \/ /\ found[r]
            /\ \/ assignable /\ roles' = [roles EXCEPT ![e] = @ \cup {SYSTEM_ADMIN}]
               \/ ~assignable /\ UNCHANGED roles
            /\ UNCHANGED <<made, preload, preloadRoles, initial>>
         \/ /\ ~found[r]
            /\ \/ /\ preload[e] = NoPreload
                  /\ InsertPreload(r, {SYSTEM_ADMIN})
                  /\ initial' = initial \cup {made'}
               \/ /\ preload[e] # NoPreload
                  /\ UNCHANGED <<made, preload, preloadRoles, initial>>
            /\ UNCHANGED roles
      /\ End(r)
      /\ UNCHANGED <<account, spent, faults>>

-----------------------------------------------------------------------------
(* UsersService on existing accounts, one request at a time (see UserAdmin *)
(* for their interleavings).                                               *)

\* An administrator deactivates, activates or deletes somebody else.
ChangeAccount(e) ==
  /\ "administer" \in Ops /\ account[e] # "none" /\ ActiveAdmins \ {e} # {}
  /\ \E s \in {"none", "active", "inactive"} :
       /\ account' = [account EXCEPT ![e] = s]
       /\ roles' = IF s = "none" THEN [roles EXCEPT ![e] = {}] ELSE roles
  /\ UNCHANGED <<preloadVars, requestVars, faults>>

\* An administrator gives anybody a role, or takes it; the last active
\* administrator keeps that role.
ChangeRoles(e) ==
  /\ "administer" \in Ops /\ account[e] # "none" /\ ActiveAdmins # {}
  /\ \E x \in Role :
       \/ roles' = [roles EXCEPT ![e] = @ \cup {x}]
       \/ /\ x = SYSTEM_ADMIN => ActiveAdmins # {e}
          /\ roles' = [roles EXCEPT ![e] = @ \ {x}]
  /\ UNCHANGED <<account, preloadVars, requestVars, faults>>

\* A database call fails or the process dies: the transaction rolls back.
Abandon(r) ==
  /\ pc[r] # "idle" /\ faults < MaxFaults
  /\ faults' = faults + 1
  /\ End(r)
  /\ UNCHANGED <<accountVars, preloadVars>>

Serve(r) ==
  \/ FindUser(r) \/ FindPreload(r) \/ CreateUser(r)
  \/ CheckUser(r) \/ CheckPreload(r) \/ CreatePreload(r)
  \/ Lock(r) \/ CountAdmins(r) \/ FindInitial(r) \/ FindAccount(r) \/ Grant(r)

ArriveAny(op, e) == \E r \in Request : Arrive(r, op, e)

Next ==
  \/ \E op \in {"login", "preload", "prepare"}, e \in Email : ArriveAny(op, e)
  \/ \E r \in Request : Serve(r) \/ Abandon(r)
  \/ \E e \in Email : CancelPreload(e) \/ ChangeAccount(e) \/ ChangeRoles(e)

\* An operation in course is served to its end, and a person who wants in
\* keeps logging in.
Fairness ==
  /\ \A r \in Request : WF_vars(Serve(r))
  /\ \A e \in Email : SF_vars(ArriveAny("login", e))

Spec == Init /\ [][Next]_vars /\ Fairness

-----------------------------------------------------------------------------
(* Properties.                                                             *)

\* A preload gives its roles to one account or is cancelled, never both and
\* never twice, however a login and a cancellation interleave.
SpentOnce == \A id \in 1..made : spent[id] <= 1

\* A new account has no roles but those of the preload its email has at that
\* moment: a preload that was withdrawn or replaced meanwhile grants nothing.
BornWithItsPreload ==
  [][\A e \in Email :
       account[e] = "none" /\ account'[e] # "none" /\ roles'[e] # {}
         => preload[e] # NoPreload /\ roles'[e] = preloadRoles[preload[e]]]_vars

\* However many replicas bootstrap at once and with whatever emails, at most
\* one initial administrator is waiting to log in.
OneInitialPreload ==
  \A d, e \in Email : preload[d] \in initial /\ preload[e] \in initial => d = e

\* Once the bootstrap has prepared an initial administrator, the application
\* gets an active one.
InitialAdminArrives ==
  \A e \in Email : preload[e] \in initial ~> ActiveAdmins # {}
=============================================================================
