----------------------------- MODULE UserAdmin -----------------------------
(***************************************************************************)
(* UsersService: the account administration of the API.  Every request is  *)
(* first authenticated through ActiveUserService and the roles guard, and  *)
(* an administrative one then runs a chain of separate database calls:     *)
(* reads that check it, one write, and the deletion of the cache entry.    *)
(* No transaction spans them, so requests interleave between any two.      *)
(***************************************************************************)
EXTENDS ActiveUsers

CONSTANTS
  Request,   \* the requests in flight at a time
  Ops,       \* the operations clients ask for, of Operation
  MayFail    \* whether requests may be cut off half way

Operation == {"visit", "assign", "revoke", "activate", "deactivate", "delete"}

ASSUME UserAdminAssumption == Ops \subseteq Operation /\ MayFail \in BOOLEAN

VARIABLES
  traced,   \* accounts that justifications or their history refer to
  pc,       \* per request: where it is
  call,     \* what it asks for, and as whom
  answer,   \* what authentication found, until it is stored
  last,     \* revokeRole: at most one active administrator was counted
  wait      \* ticks since it arrived

requestVars == <<pc, call, answer, last, wait>>
vars == <<accountVars, cacheVars, since, traced, requestVars>>

Call == [actor : User, op : Ops, user : User, role : Role]
NoCall == [actor |-> "none", op |-> "none", user |-> "none", role |-> "none"]

Place == {"idle", "lookup", "load", "store", "act", "read", "count", "target",
          "activity", "write", "evict"}

TypeOK ==
  /\ ActiveUsersTypeOK
  /\ traced \in SUBSET User
  /\ pc \in [Request -> Place]
  /\ call \in [Request -> {NoCall} \cup Call]
  /\ answer \in [Request -> SUBSET SUBSET Role]
  /\ last \in [Request -> BOOLEAN]
  /\ wait \in [Request -> 0..Pause]

Init ==
  /\ ActiveUsersInit
  /\ traced = {}
  /\ pc = [r \in Request |-> "idle"]
  /\ call = [r \in Request |-> NoCall]
  /\ answer = [r \in Request |-> NoAnswer]
  /\ last = [r \in Request |-> FALSE]
  /\ wait = [r \in Request |-> 0]

-----------------------------------------------------------------------------
Actor(r) == call[r].actor
Op(r) == call[r].op
Target(r) == call[r].user

\* The request goes on; nothing but its own place changes.
Goto(r, p) ==
  /\ pc' = [pc EXCEPT ![r] = p]
  /\ UNCHANGED <<call, last, wait>>

\* The response, whatever it says: the request is over.
End(r) ==
  /\ pc' = [pc EXCEPT ![r] = "idle"]
  /\ call' = [call EXCEPT ![r] = NoCall]
  /\ answer' = [answer EXCEPT ![r] = NoAnswer]
  /\ last' = [last EXCEPT ![r] = FALSE]
  /\ wait' = [wait EXCEPT ![r] = 0]

GotoOrEnd(r, ok, p) ==
  \/ ok /\ Goto(r, p) /\ UNCHANGED answer
  \/ ~ok /\ End(r)

Arrive(r) ==
  /\ pc[r] = "idle"
  /\ \E c \in Call :
       \* role only matters to the operations on roles, user not to a visit
       /\ c.op \notin {"assign", "revoke"} => c.role = SYSTEM_ADMIN
       /\ c.op = "visit" => c.user = c.actor
       /\ call' = [call EXCEPT ![r] = c]
  /\ pc' = [pc EXCEPT ![r] = "lookup"]
  /\ UNCHANGED <<accountVars, cacheVars, since, traced, answer, last, wait>>

-----------------------------------------------------------------------------
(* Authentication: findActive, then RolesGuard, then the operation's own   *)
(* check of its arguments.                                                 *)

\* Where an admitted request starts.
Start(r) ==
  CASE Op(r) = "visit" -> "act"
    [] Op(r) = "revoke" -> IF call[r].role = SYSTEM_ADMIN THEN "count" ELSE "write"
    [] OTHER -> "read"

Admit(r, granted) ==
  LET allowed == Op(r) = "visit" \/ SYSTEM_ADMIN \in UNION granted
      onSelf == Op(r) \in {"deactivate", "delete"} /\ Target(r) = Actor(r)
  IN  \/ /\ allowed /\ ~onSelf
         /\ Goto(r, Start(r))
         /\ answer' = [answer EXCEPT ![r] = NoAnswer]
      \/ (~allowed \/ onSelf) /\ End(r)

Lookup(r) ==
  /\ pc[r] = "lookup"
  /\ \/ cache[Actor(r)] # NoAnswer /\ Admit(r, cache[Actor(r)])
     \/ cache[Actor(r)] = NoAnswer /\ Goto(r, "load") /\ UNCHANGED answer
  /\ UNCHANGED <<accountVars, cacheVars, since, traced>>

Accepted_Mut(u) == account[u] # "deleted"   \* forgets isActive
Accepted(u) == Active(u)

Load(r) ==
  /\ pc[r] = "load"
  /\ \/ /\ Accepted(Actor(r))
        /\ Goto(r, "store")
        /\ answer' = [answer EXCEPT ![r] = {roles[Actor(r)]}]
     \/ ~Accepted(Actor(r)) /\ End(r)
  /\ UNCHANGED <<accountVars, cacheVars, since, traced>>

Store(r) ==
  /\ pc[r] = "store"
  /\ StoreEntry(Actor(r), answer[r])
  /\ Admit(r, answer[r])
  /\ UNCHANGED <<accountVars, since, traced>>

-----------------------------------------------------------------------------
\* Any other endpoint: it may write a row that refers to the actor, which
\* the foreign keys allow only while the account exists.
Act(r) ==
  /\ pc[r] = "act"
  /\ \/ account[Actor(r)] # "deleted" /\ traced' = traced \cup {Actor(r)}
     \/ UNCHANGED traced
  /\ End(r)
  /\ UNCHANGED <<accountVars, cacheVars, since>>

(* The reads of an administrative operation. *)

AtMostOne_Mut(S) == S = {}   \* off by one
AtMostOne(S) == \A u, v \in S : u = v

Read(r) ==
  LET u == Target(r)
      next == IF Op(r) \in {"assign", "activate"} THEN "write"
              ELSE IF u \in ActiveAdmins THEN "count"
              ELSE IF Op(r) = "deactivate" THEN "write" ELSE "activity"
  IN  /\ pc[r] = "read"
      /\ GotoOrEnd(r, account[u] # "deleted", next)
      /\ UNCHANGED <<accountVars, cacheVars, since, traced>>

CountAdmins(r) ==
  /\ pc[r] = "count"
  /\ \/ /\ Op(r) = "revoke"
        /\ pc' = [pc EXCEPT ![r] = "target"]
        /\ last' = [last EXCEPT ![r] = AtMostOne(ActiveAdmins)]
        /\ UNCHANGED <<call, answer, wait>>
     \/ Op(r) = "deactivate" /\ GotoOrEnd(r, ~AtMostOne(ActiveAdmins), "write")
     \/ Op(r) = "delete" /\ GotoOrEnd(r, ActiveAdmins \ {Target(r)} # {}, "activity")
  /\ UNCHANGED <<accountVars, cacheVars, since, traced>>

\* revokeRole asks separately whether its target is an active administrator.
CheckTarget(r) ==
  /\ pc[r] = "target"
  /\ GotoOrEnd(r, ~(last[r] /\ Target(r) \in ActiveAdmins), "write")
  /\ UNCHANGED <<accountVars, cacheVars, since, traced>>

CountActivity(r) ==
  /\ pc[r] = "activity"
  /\ GotoOrEnd(r, Target(r) \notin traced, "write")
  /\ UNCHANGED <<accountVars, cacheVars, since, traced>>

-----------------------------------------------------------------------------
(* The write.  It does not repeat what the reads checked: it only fails    *)
(* when the row is gone or a foreign key forbids it.                       *)

SetAccount(u, s) == account' = [account EXCEPT ![u] = s]
SetRoles(u, rs) == roles' = [roles EXCEPT ![u] = rs]

Deletable_Mut(u) == account[u] # "deleted"   \* without the foreign keys
Deletable(u) == account[u] # "deleted" /\ u \notin traced

WriteAccount(r) ==
  LET u == Target(r)
  IN  \/ Op(r) = "assign" /\ account[u] # "deleted"
         /\ SetRoles(u, roles[u] \cup {call[r].role}) /\ UNCHANGED account
      \/ Op(r) = "revoke"
         /\ SetRoles(u, roles[u] \ {call[r].role}) /\ UNCHANGED account
      \/ Op(r) = "activate" /\ account[u] # "deleted"
         /\ SetAccount(u, "active") /\ UNCHANGED roles
      \/ Op(r) = "deactivate" /\ account[u] # "deleted"
         /\ SetAccount(u, "inactive") /\ UNCHANGED roles
      \/ Op(r) = "delete" /\ Deletable(u)
         /\ SetAccount(u, "deleted") /\ SetRoles(u, {})

WriteRejected(r) ==
  \/ account[Target(r)] = "deleted" /\ Op(r) # "revoke"
  \/ Op(r) = "delete" /\ ~Deletable(Target(r))

Write(r) ==
  /\ pc[r] = "write"
  /\ \/ WriteAccount(r) /\ Observe /\ Goto(r, "evict") /\ UNCHANGED answer
     \/ WriteRejected(r) /\ End(r) /\ UNCHANGED <<accountVars, since>>
  /\ UNCHANGED <<cacheVars, traced>>

Evict(r) ==
  /\ pc[r] = "evict"
  /\ EvictEntry(Target(r))
  /\ End(r)
  /\ UNCHANGED <<accountVars, since, traced>>

-----------------------------------------------------------------------------
\* A call to the database or to Redis fails, or the replica dies: what the
\* request wrote stays, and what it had left to do is not done.
Abandon(r) ==
  /\ MayFail /\ pc[r] # "idle"
  /\ End(r)
  /\ UNCHANGED <<accountVars, cacheVars, since, traced>>

\* No request takes longer than Pause.
Tick ==
  /\ \A r \in Request : pc[r] # "idle" => wait[r] < Pause
  /\ AgeEntries /\ AgeObservation
  /\ wait' = [r \in Request |-> IF pc[r] = "idle" THEN 0 ELSE wait[r] + 1]
  /\ UNCHANGED <<accountVars, traced, pc, call, answer, last>>

Serve(r) ==
  \/ Lookup(r) \/ Load(r) \/ Store(r) \/ Act(r)
  \/ Read(r) \/ CountAdmins(r) \/ CheckTarget(r) \/ CountActivity(r)
  \/ Write(r) \/ Evict(r)

Next ==
  \/ \E r \in Request : Arrive(r) \/ Serve(r) \/ Abandon(r)
  \/ Tick

Spec == Init /\ [][Next]_vars

-----------------------------------------------------------------------------
(* Properties.                                                             *)

\* The application can always be administered: some active account has the
\* administrator role.  Three separate checks guard it in UsersService.
AnActiveAdmin == ActiveAdmins # {}

\* No account is deleted once the academic history refers to it, although
\* the history may start to refer to it after it was counted.
HistoryKeepsItsAuthors == \A u \in traced : account[u] # "deleted"

\* A cache entry never contradicts the tables for longer than TTL plus the
\* length of one request, also when a reader stores an old answer after the
\* entry was deleted and when the deletion fails.
CacheCatchesUp ==
  \A u \in User : since[u] >= TTL + Pause => cache[u] \subseteq View(u)

\* Requests served one at a time and to the end keep an active administrator
\* and leave no cache entry behind that contradicts the tables: a change of
\* account or roles shows at once.
ServedAlone ==
  /\ AnActiveAdmin
  /\ (\A r \in Request : pc[r] = "idle") => \A u \in User : cache[u] \subseteq View(u)

\* Somebody who stopped being an administrator can still be carrying out an
\* administrative operation only for TTL plus the length of two requests.
NoLateAdministration ==
  \A r \in Request :
    pc[r] \in {"write", "evict"} =>
      Actor(r) \in ActiveAdmins \/ since[Actor(r)] < Long
=============================================================================
