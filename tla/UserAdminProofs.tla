--------------------------- MODULE UserAdminProofs --------------------------
(***************************************************************************)
(* Proofs about UserAdmin, for every set of accounts, roles and requests,  *)
(* every lifetime of a cache entry and every length of a request.          *)
(***************************************************************************)
EXTENDS UserAdmin, TLAPS

\* A request that is not over asks for something, as some account.
CallInv == \A r \in Request : pc[r] # "idle" => call[r] \in Call

TypeInv == TypeOK /\ CallInv

LEMMA TypeInit == Init => TypeInv
<1> SUFFICES ASSUME Init PROVE TypeInv
  OBVIOUS
<1>1. ActiveUsersTypeOK
  BY ActiveUsersAssumption
     DEF Init, ActiveUsersInit, ActiveUsersTypeOK, NoAnswer, Long
<1>2. QED
  BY <1>1, ActiveUsersAssumption DEF Init, TypeInv, TypeOK, CallInv, NoAnswer, Place

\* The part of TypeInv about requests.
RequestsOK ==
  /\ pc \in [Request -> Place]
  /\ call \in [Request -> {NoCall} \cup Call]
  /\ answer \in [Request -> SUBSET SUBSET Role]
  /\ last \in [Request -> BOOLEAN]
  /\ wait \in [Request -> 0..Pause]
  /\ CallInv

LEMMA RequestsTyped == TypeInv => RequestsOK
BY DEF TypeInv, TypeOK, RequestsOK

LEMMA EndType ==
  ASSUME TypeInv, NEW r \in Request, End(r) PROVE RequestsOK'
<1>1. 0 \in 0..Pause BY ActiveUsersAssumption
<1>2. QED
  BY <1>1, RequestsTyped DEF RequestsOK, CallInv, End, NoAnswer, Place

LEMMA GotoType ==
  ASSUME TypeInv, NEW r \in Request, pc[r] # "idle", NEW p \in Place, Goto(r, p),
         NEW rs \in SUBSET SUBSET Role, answer' = [answer EXCEPT ![r] = rs]
  PROVE  RequestsOK'
BY RequestsTyped DEF RequestsOK, CallInv, Goto

LEMMA GotoOrEndType ==
  ASSUME TypeInv, NEW r \in Request, pc[r] # "idle", NEW p \in Place, NEW ok,
         GotoOrEnd(r, ok, p)
  PROVE  RequestsOK'
<1>1. CASE Goto(r, p) /\ UNCHANGED answer
  <2>1. answer' = [answer EXCEPT ![r] = answer[r]] /\ answer[r] \in SUBSET SUBSET Role
    BY <1>1, RequestsTyped DEF RequestsOK
  <2>2. QED BY <1>1, <2>1, GotoType
<1>2. CASE End(r) BY <1>2, EndType
<1>3. QED BY <1>1, <1>2 DEF GotoOrEnd

LEMMA AdmitType ==
  ASSUME TypeInv, NEW r \in Request, NEW granted, Admit(r, granted), pc[r] # "idle"
  PROVE  RequestsOK'
<1>1. Start(r) \in Place BY DEF Start, Place
<1>2. CASE Goto(r, Start(r)) /\ answer' = [answer EXCEPT ![r] = NoAnswer]
  <2>1. NoAnswer \in SUBSET SUBSET Role BY DEF NoAnswer
  <2>2. QED BY <1>1, <1>2, <2>1, GotoType
<1>3. CASE End(r) BY <1>3, EndType
<1>4. QED BY <1>2, <1>3 DEF Admit

LEMMA EntryType ==
  ASSUME ActiveUsersTypeOK, NEW u, NEW rs \in SUBSET SUBSET Role, StoreEntry(u, rs),
         UNCHANGED <<accountVars, since>>
  PROVE  ActiveUsersTypeOK'
<1>1. 0 \in 0..(TTL - 1) BY ActiveUsersAssumption
<1>2. entryAge' \in [User -> 0..(TTL - 1)]
  BY <1>1 DEF ActiveUsersTypeOK, StoreEntry
<1>3. cache' \in [User -> SUBSET SUBSET Role]
  BY DEF ActiveUsersTypeOK, StoreEntry
<1>4. QED BY <1>2, <1>3 DEF ActiveUsersTypeOK, accountVars

\* A step that leaves the tables and the cache alone.
LEMMA ReadOnlyType ==
  ASSUME TypeInv, RequestsOK', UNCHANGED <<accountVars, cacheVars, since, traced>>
  PROVE  TypeInv'
BY DEF TypeInv, TypeOK, RequestsOK, ActiveUsersTypeOK, accountVars, cacheVars

LEMMA TypeStep == TypeInv /\ [Next]_vars => TypeInv'
<1> SUFFICES ASSUME TypeInv, [Next]_vars PROVE TypeInv'
  OBVIOUS
<1>0. ActiveUsersTypeOK /\ traced \in SUBSET User /\ RequestsOK
  BY RequestsTyped DEF TypeInv, TypeOK
<1>t. ASSUME RequestsOK', ActiveUsersTypeOK', traced' \in SUBSET User PROVE TypeInv'
  BY <1>t DEF TypeInv, TypeOK, RequestsOK
<1>c. ASSUME NEW r \in Request, pc[r] # "idle"
      PROVE  Actor(r) \in User /\ Target(r) \in User /\ call[r].role \in Role
  BY <1>c DEF TypeInv, CallInv, Call, Actor, Target
<1> USE DEF accountVars, cacheVars
<1>1. ASSUME NEW r \in Request, Arrive(r) PROVE TypeInv'
  BY <1>0, <1>1, ReadOnlyType DEF Arrive, RequestsOK, CallInv, Place
<1>2. ASSUME NEW r \in Request, Lookup(r) PROVE TypeInv'
  <2>1. UNCHANGED <<accountVars, cacheVars, since, traced>> /\ pc[r] # "idle"
    BY <1>2 DEF Lookup
  <2>2. CASE Admit(r, cache[Actor(r)]) BY <2>1, <2>2, AdmitType, ReadOnlyType
  <2>3. CASE Goto(r, "load") /\ UNCHANGED answer
    <3>1. GotoOrEnd(r, TRUE, "load") BY <2>3 DEF GotoOrEnd
    <3>2. QED BY <2>1, <3>1, GotoOrEndType, ReadOnlyType DEF Place
  <2>4. QED BY <1>2, <2>2, <2>3 DEF Lookup
<1>3. ASSUME NEW r \in Request, Load(r) PROVE TypeInv'
  <2>1. UNCHANGED <<accountVars, cacheVars, since, traced>> /\ pc[r] # "idle"
    BY <1>3 DEF Load
  <2>2. CASE Goto(r, "store") /\ answer' = [answer EXCEPT ![r] = {roles[Actor(r)]}]
    <3>1. {roles[Actor(r)]} \in SUBSET SUBSET Role
      BY <1>0, <1>c, <2>1 DEF ActiveUsersTypeOK
    <3>2. "store" \in Place BY DEF Place
    <3>3. RequestsOK' BY <2>1, <2>2, <3>1, <3>2, GotoType
    <3>4. QED BY <2>1, <3>3, ReadOnlyType
  <2>3. CASE End(r) BY <2>1, <2>3, EndType, ReadOnlyType
  <2>4. QED BY <1>3, <2>2, <2>3 DEF Load
<1>4. ASSUME NEW r \in Request, Store(r) PROVE TypeInv'
  <2>1. pc[r] # "idle" /\ Admit(r, answer[r]) BY <1>4 DEF Store
  <2>2. answer[r] \in SUBSET SUBSET Role BY <1>0 DEF RequestsOK
  <2>3. ActiveUsersTypeOK' BY <1>0, <1>4, <2>2, EntryType DEF Store
  <2>4. QED BY <1>0, <1>4, <1>t, <2>1, <2>3, AdmitType DEF Store
<1>5. ASSUME NEW r \in Request, Act(r) PROVE TypeInv'
  <2>1. traced' \in SUBSET User BY <1>0, <1>5, <1>c DEF Act
  <2>2. ActiveUsersTypeOK' BY <1>0, <1>5 DEF Act, ActiveUsersTypeOK
  <2>3. QED BY <1>5, <1>t, <2>1, <2>2, EndType DEF Act
<1>6. ASSUME NEW r \in Request,
             Read(r) \/ CountAdmins(r) \/ CheckTarget(r) \/ CountActivity(r)
      PROVE  TypeInv'
  <2>1. UNCHANGED <<accountVars, cacheVars, since, traced>> /\ pc[r] # "idle"
    BY <1>6 DEF Read, CountAdmins, CheckTarget, CountActivity
  <2>2. RequestsOK'
    <3>1. CASE \E p \in Place : \E ok \in BOOLEAN : GotoOrEnd(r, ok, p)
      BY <2>1, <3>1, GotoOrEndType
    <3>2. CASE CountAdmins(r) /\ Op(r) = "revoke"
      BY <1>0, <2>1, <3>2 DEF CountAdmins, RequestsOK, CallInv, Place, AtMostOne
    <3>3. CASE Read(r)
      BY <3>1, <3>3 DEF Read, Place
    <3>4. CASE CheckTarget(r) \/ CountActivity(r)
      BY <3>1, <3>4 DEF CheckTarget, CountActivity, Place
    <3>5. CASE CountAdmins(r) /\ Op(r) # "revoke"
      BY <3>1, <3>5 DEF CountAdmins, Place, AtMostOne
    <3>6. QED BY <1>6, <3>2, <3>3, <3>4, <3>5
  <2>3. QED BY <2>1, <2>2, ReadOnlyType
<1>7. ASSUME NEW r \in Request, Write(r) PROVE TypeInv'
  <2>1. CASE WriteRejected(r) /\ End(r) /\ UNCHANGED <<accountVars, since>>
    BY <1>7, <2>1, EndType, ReadOnlyType DEF Write
  <2>2. CASE WriteAccount(r) /\ Observe /\ Goto(r, "evict") /\ UNCHANGED answer
    <3>1. call[r].role \in Role BY <1>7, <1>c DEF Write
    <3>2. account' \in [User -> {"active", "inactive", "deleted"}]
      BY <1>0, <2>2 DEF WriteAccount, SetAccount, ActiveUsersTypeOK
    <3>3. roles' \in [User -> SUBSET Role]
      BY <1>0, <2>2, <3>1 DEF WriteAccount, SetRoles, ActiveUsersTypeOK
    <3>4. since' \in [User -> 0..Long]
      BY <1>0, <2>2, ActiveUsersAssumption DEF Observe, Long, ActiveUsersTypeOK
    <3>5. ActiveUsersTypeOK'
      BY <1>0, <1>7, <3>2, <3>3, <3>4 DEF Write, ActiveUsersTypeOK
    <3>6. GotoOrEnd(r, TRUE, "evict") BY <2>2 DEF GotoOrEnd
    <3>7. RequestsOK' BY <1>7, <3>6, GotoOrEndType DEF Write, Place
    <3>8. QED BY <1>0, <1>7, <1>t, <3>5, <3>7 DEF Write
  <2>3. QED BY <1>7, <2>1, <2>2 DEF Write
<1>8. ASSUME NEW r \in Request, Evict(r) PROVE TypeInv'
  <2>1. ActiveUsersTypeOK'
    <3>1. NoAnswer \in SUBSET SUBSET Role BY DEF NoAnswer
    <3>2. QED BY <1>0, <1>8, <3>1, EntryType DEF Evict, EvictEntry
  <2>2. QED BY <1>0, <1>8, <1>t, <2>1, EndType DEF Evict
<1>9. ASSUME NEW r \in Request, Abandon(r) PROVE TypeInv'
  BY <1>9, EndType, ReadOnlyType DEF Abandon
<1>10. CASE Tick
  <2>1. since' \in [User -> 0..Long]
    BY <1>0, <1>10, ActiveUsersAssumption DEF Tick, AgeObservation, Long, ActiveUsersTypeOK
  <2>2. cache' \in [User -> SUBSET SUBSET Role]
    BY <1>0, <1>10 DEF Tick, AgeEntries, NoAnswer, ActiveUsersTypeOK
  <2>3. entryAge' \in [User -> 0..(TTL - 1)]
    BY <1>0, <1>10, ActiveUsersAssumption DEF Tick, AgeEntries, Expires, ActiveUsersTypeOK
  <2>4. wait' \in [Request -> 0..Pause]
    BY <1>0, <1>10, ActiveUsersAssumption DEF Tick, RequestsOK
  <2>5. RequestsOK' BY <1>0, <1>10, <2>4 DEF Tick, RequestsOK, CallInv
  <2>6. ActiveUsersTypeOK' BY <1>0, <1>10, <2>1, <2>2, <2>3 DEF Tick, ActiveUsersTypeOK
  <2>7. QED BY <1>0, <1>10, <1>t, <2>5, <2>6 DEF Tick
<1>11. CASE UNCHANGED vars
  BY <1>0, <1>11, <1>t DEF vars, requestVars, RequestsOK, CallInv, ActiveUsersTypeOK
<1>12. QED
  BY <1>1, <1>2, <1>3, <1>4, <1>5, <1>6, <1>7, <1>8, <1>9, <1>10, <1>11
     DEF Next, Serve

LEMMA TypeInvariant == Spec => []TypeInv
BY TypeInit, TypeStep, PTL DEF Spec

\* Every reachable state is well typed, and a request that is not over asks
\* for a known operation, as one of the accounts.
THEOREM TypeCorrect == Spec => [](TypeOK /\ CallInv)
<1>1. TypeInv => TypeOK /\ CallInv BY DEF TypeInv
<1>2. QED BY <1>1, TypeInvariant, PTL

-----------------------------------------------------------------------------
(* What the steps of a request do to the others and to the tables.         *)

Action(r) == Arrive(r) \/ Serve(r) \/ Abandon(r)

LEMMA NextSplit ==
  [Next]_vars <=> (\E r \in Request : Action(r)) \/ Tick \/ UNCHANGED vars
BY DEF Next, Action

LEMMA OnlyItsOwn ==
  ASSUME TypeInv, NEW r \in Request, Action(r), NEW s \in Request, s # r
  PROVE  /\ pc'[s] = pc[s] /\ call'[s] = call[s] /\ answer'[s] = answer[s]
         /\ last'[s] = last[s] /\ wait'[s] = wait[s]
<1> USE RequestsTyped DEF RequestsOK
<1>1. CASE End(r) BY <1>1 DEF End
<1>2. ASSUME NEW p, Goto(r, p), answer'[s] = answer[s]
      PROVE  /\ pc'[s] = pc[s] /\ call'[s] = call[s] /\ answer'[s] = answer[s]
             /\ last'[s] = last[s] /\ wait'[s] = wait[s]
  BY <1>2 DEF Goto
<1>3. ASSUME NEW ok, NEW p, GotoOrEnd(r, ok, p)
      PROVE  /\ pc'[s] = pc[s] /\ call'[s] = call[s] /\ answer'[s] = answer[s]
             /\ last'[s] = last[s] /\ wait'[s] = wait[s]
  BY <1>1, <1>2, <1>3 DEF GotoOrEnd
<1>4. ASSUME NEW rs, Admit(r, rs)
      PROVE  /\ pc'[s] = pc[s] /\ call'[s] = call[s] /\ answer'[s] = answer[s]
             /\ last'[s] = last[s] /\ wait'[s] = wait[s]
  <2>1. CASE Goto(r, Start(r)) /\ answer' = [answer EXCEPT ![r] = NoAnswer]
    BY <1>2, <2>1
  <2>2. QED BY <1>1, <1>4, <2>1 DEF Admit
<1>5. CASE Arrive(r) BY <1>5 DEF Arrive
<1>6. CASE Lookup(r) BY <1>2, <1>4, <1>6 DEF Lookup
<1>7. CASE Load(r)
  <2>1. CASE Goto(r, "store") /\ answer' = [answer EXCEPT ![r] = {roles[Actor(r)]}]
    BY <1>2, <2>1
  <2>2. QED BY <1>1, <1>7, <2>1 DEF Load
<1>8. CASE Store(r) BY <1>4, <1>8 DEF Store
<1>9. CASE Act(r) \/ Evict(r) \/ Abandon(r) BY <1>1, <1>9 DEF Act, Evict, Abandon
<1>10. CASE Read(r) \/ CheckTarget(r) \/ CountActivity(r)
  BY <1>3, <1>10 DEF Read, CheckTarget, CountActivity
<1>11. CASE CountAdmins(r) BY <1>3, <1>11 DEF CountAdmins
<1>12. CASE Write(r) BY <1>1, <1>2, <1>12 DEF Write
<1>13. QED
  BY <1>5, <1>6, <1>7, <1>8, <1>9, <1>10, <1>11, <1>12 DEF Action, Serve

\* Only Write touches the tables, and it notes whose right answer it changes.
LEMMA TablesChange ==
  ASSUME TypeInv, NEW r \in Request, Action(r)
  PROVE  \/ UNCHANGED <<accountVars, since>>
         \/ Write(r) /\ WriteAccount(r) /\ Observe
BY DEF Action, Serve, Arrive, Lookup, Load, Store, Act, Read, CountAdmins, CheckTarget,
       CountActivity, Write, Evict, Abandon

LEMMA ViewChange ==
  ASSUME TypeInv, NEW r \in Request, Action(r), NEW u \in User
  PROVE  \/ View(u)' = View(u) /\ since'[u] = since[u]
         \/ since'[u] = 0
<1>1. CASE UNCHANGED <<accountVars, since>>
  BY <1>1 DEF accountVars, View, Active
<1>2. CASE Observe BY <1>2 DEF Observe
<1>3. QED BY <1>1, <1>2, TablesChange

\* Being an active administrator can be read off the right answer.
LEMMA AdminView ==
  ASSUME NEW u \in User
  PROVE  u \in ActiveAdmins <=> SYSTEM_ADMIN \in UNION View(u)
BY DEF ActiveAdmins, View, NoAnswer

LEMMA AdminViewNext ==
  ASSUME NEW u \in User, View(u)' = View(u), u \in ActiveAdmins
  PROVE  u \in ActiveAdmins'
<1>1. Active(u) /\ SYSTEM_ADMIN \in roles[u] BY DEF ActiveAdmins
<1>2. View(u) = {roles[u]} BY <1>1 DEF View
<1>3. Active(u)' /\ roles'[u] = roles[u] BY <1>2 DEF View, NoAnswer
<1>4. QED BY <1>1, <1>3 DEF ActiveAdmins

\* Time leaves the tables alone and ages every answer by at most one tick.
LEMMA TickAges ==
  ASSUME TypeInv, Tick, NEW u \in User
  PROVE  /\ View(u)' = View(u) /\ (u \in ActiveAdmins => u \in ActiveAdmins')
         /\ since'[u] <= since[u] + 1
<1>1. View(u)' = View(u) /\ (u \in ActiveAdmins => u \in ActiveAdmins')
  BY DEF Tick, accountVars, View, Active, ActiveAdmins
<1>2. since'[u] <= since[u] + 1
  BY DEF Tick, AgeObservation, TypeInv, TypeOK, ActiveUsersTypeOK
<1>3. QED BY <1>1, <1>2

-----------------------------------------------------------------------------
(* The academic history.                                                   *)

LEMMA HistoryStep ==
  TypeInv /\ HistoryKeepsItsAuthors /\ [Next]_vars => HistoryKeepsItsAuthors'
<1> SUFFICES ASSUME TypeInv, HistoryKeepsItsAuthors, [Next]_vars
             PROVE  HistoryKeepsItsAuthors'
  OBVIOUS
<1>0. account \in [User -> {"active", "inactive", "deleted"}] /\ traced \in SUBSET User
  BY DEF TypeInv, TypeOK, ActiveUsersTypeOK
<1>1. ASSUME NEW r \in Request, Action(r) PROVE HistoryKeepsItsAuthors'
  <2>1. CASE WriteAccount(r) /\ traced' = traced
    BY <1>0, <2>1
       DEF HistoryKeepsItsAuthors, WriteAccount, SetAccount, SetRoles, Deletable
  <2>2. CASE UNCHANGED accountVars /\ traced' = traced
    BY <2>2 DEF HistoryKeepsItsAuthors, accountVars
  <2>3. CASE Act(r)
    BY <2>3 DEF HistoryKeepsItsAuthors, Act, accountVars
  <2>4. traced' = traced \/ Act(r)
    BY <1>1 DEF Action, Serve, Arrive, Lookup, Load, Store, Read, CountAdmins,
                CheckTarget, CountActivity, Write, Evict, Abandon
  <2>5. QED BY <1>1, <2>1, <2>2, <2>3, <2>4, TablesChange
<1>2. CASE Tick BY <1>2 DEF Tick, HistoryKeepsItsAuthors, accountVars
<1>3. CASE UNCHANGED vars BY <1>3 DEF vars, HistoryKeepsItsAuthors, accountVars
<1>4. QED BY <1>1, <1>2, <1>3, NextSplit

\* However requests interleave, no account is deleted while the academic
\* history refers to it: the count of its activity may be stale, the foreign
\* keys are not.
THEOREM AuthorsKept == Spec => []HistoryKeepsItsAuthors
<1>1. Init => HistoryKeepsItsAuthors
  BY DEF Init, HistoryKeepsItsAuthors
<1>2. QED BY <1>1, TypeInvariant, HistoryStep, PTL DEF Spec

-----------------------------------------------------------------------------
(* The cache: how long an answer can be wrong.                             *)

\* An answer on its way to the cache was right when its request arrived, or
\* since; an entry was right Pause ticks before it was stored, or since.
FreshAnswer ==
  \A r \in Request, u \in User : pc[r] = "store" /\ Actor(r) = u =>
    answer[r] = View(u) \/ since[u] <= wait[r]

FreshEntry ==
  \A u \in User : cache[u] \subseteq View(u) \/ since[u] <= entryAge[u] + Pause

CacheInv == FreshAnswer /\ FreshEntry

LEMMA ClocksAreNumbers ==
  ASSUME TypeInv
  PROVE  /\ \A u \in User : since[u] \in Nat /\ entryAge[u] \in Nat /\ entryAge[u] <= TTL - 1
         /\ \A r \in Request : wait[r] \in Nat /\ wait[r] <= Pause
         /\ Pause \in Nat /\ TTL \in Nat /\ TTL > 0
BY ActiveUsersAssumption DEF TypeInv, TypeOK, ActiveUsersTypeOK

\* Only Load sends an answer to the cache, and it has just read it.
LEMMA StoreFromLoad ==
  ASSUME TypeInv, NEW r \in Request, Action(r), pc'[r] = "store"
  PROVE  /\ UNCHANGED <<accountVars, call>> /\ Active(Actor(r))
         /\ answer'[r] = {roles[Actor(r)]}
<1>1. ASSUME NEW p, Goto(r, p) PROVE pc'[r] = p
  BY <1>1 DEF Goto, TypeInv, TypeOK
<1>2. ~End(r) BY DEF End, TypeInv, TypeOK
<1>3. ASSUME NEW ok, NEW p, p # "store" PROVE ~GotoOrEnd(r, ok, p)
  BY <1>1, <1>2, <1>3 DEF GotoOrEnd
<1>4. ~Arrive(r) BY DEF Arrive, TypeInv, TypeOK
<1>5. ~Lookup(r) /\ ~Store(r)
  <2>1. Start(r) # "store" BY DEF Start
  <2>2. QED BY <1>1, <1>2, <2>1 DEF Lookup, Store, Admit
<1>6. ~Act(r) /\ ~Evict(r) /\ ~Abandon(r) BY <1>2 DEF Act, Evict, Abandon
<1>7. ~Read(r) /\ ~CheckTarget(r) /\ ~CountActivity(r)
  BY <1>3 DEF Read, CheckTarget, CountActivity
<1>8. ~CountAdmins(r) BY <1>3 DEF CountAdmins, TypeInv, TypeOK
<1>9. ~Write(r) BY <1>1, <1>2 DEF Write
<1>10. Load(r)
  BY <1>4, <1>5, <1>6, <1>7, <1>8, <1>9 DEF Action, Serve
<1>11. QED BY <1>2, <1>10 DEF Load, Goto, Accepted, TypeInv, TypeOK

LEMMA AnswerStep == TypeInv /\ CacheInv /\ [Next]_vars => FreshAnswer'
<1> SUFFICES ASSUME TypeInv, CacheInv, [Next]_vars,
                    NEW s \in Request, NEW u \in User, pc'[s] = "store", Actor(s)' = u
             PROVE  answer'[s] = View(u)' \/ since'[u] <= wait'[s]
  BY DEF FreshAnswer
<1>0. since[u] \in Nat /\ since'[u] \in Nat /\ wait[s] \in Nat /\ wait'[s] \in Nat
  <2>1. TypeInv' BY TypeStep
  <2>2. QED BY <2>1, ClocksAreNumbers DEF TypeInv, TypeOK, ActiveUsersTypeOK
<1>1. ASSUME NEW r \in Request, Action(r), s # r
      PROVE  answer'[s] = View(u)' \/ since'[u] <= wait'[s]
  <2>1. /\ pc[s] = "store" /\ Actor(s) = u
        /\ answer'[s] = answer[s] /\ wait'[s] = wait[s]
    BY <1>1, OnlyItsOwn DEF Actor
  <2>2. answer[s] = View(u) \/ since[u] <= wait[s]
    BY <2>1 DEF CacheInv, FreshAnswer
  <2>3. CASE View(u)' = View(u) /\ since'[u] = since[u]
    BY <2>1, <2>2, <2>3
  <2>4. CASE since'[u] = 0
    BY <1>0, <2>1, <2>4
  <2>5. QED BY <1>1, <2>3, <2>4, ViewChange
<1>2. ASSUME Action(s)
      PROVE  answer'[s] = View(u)' \/ since'[u] <= wait'[s]
  <2>1. UNCHANGED <<accountVars, call>> /\ Active(Actor(s)) /\ answer'[s] = {roles[Actor(s)]}
    BY <1>2, StoreFromLoad
  <2>2. Actor(s) = u BY <2>1 DEF Actor
  <2>3. QED BY <2>1, <2>2 DEF View, Active, accountVars
<1>3. CASE Tick
  <2>1. pc[s] = "store" /\ answer'[s] = answer[s] /\ Actor(s) = u
    BY <1>3 DEF Tick, Actor
  <2>2. wait'[s] = wait[s] + 1
    BY <1>3, <2>1 DEF Tick
  <2>3. View(u)' = View(u) /\ since'[u] <= since[u] + 1
    BY <1>3, TickAges
  <2>4. answer[s] = View(u) \/ since[u] <= wait[s]
    BY <2>1 DEF CacheInv, FreshAnswer
  <2>5. since[u] <= wait[s] => since'[u] <= wait'[s]
    BY ONLY <1>0, <2>2, <2>3
  <2>6. QED BY <2>1, <2>3, <2>4, <2>5
<1>4. CASE UNCHANGED vars
  BY <1>4 DEF vars, requestVars, accountVars, CacheInv, FreshAnswer, View, Active, Actor
<1>5. QED BY <1>1, <1>2, <1>3, <1>4, NextSplit

LEMMA EntryStep == TypeInv /\ CacheInv /\ [Next]_vars => FreshEntry'
<1> SUFFICES ASSUME TypeInv, CacheInv, [Next]_vars, NEW u \in User
             PROVE  cache'[u] \subseteq View(u)' \/ since'[u] <= entryAge'[u] + Pause
  BY DEF FreshEntry
<1>0. /\ since[u] \in Nat /\ since'[u] \in Nat /\ entryAge[u] \in Nat
      /\ entryAge'[u] \in Nat /\ Pause \in Nat
  <2>1. TypeInv' BY TypeStep
  <2>2. QED BY <2>1, ClocksAreNumbers DEF TypeInv, TypeOK, ActiveUsersTypeOK
<1>e. cache[u] \subseteq View(u) \/ since[u] <= entryAge[u] + Pause
  BY DEF CacheInv, FreshEntry
<1>1. ASSUME NEW r \in Request, Action(r), cache'[u] = cache[u], entryAge'[u] = entryAge[u]
      PROVE  cache'[u] \subseteq View(u)' \/ since'[u] <= entryAge'[u] + Pause
  <2>1. CASE View(u)' = View(u) /\ since'[u] = since[u] BY <1>e, <1>1, <2>1
  <2>2. CASE since'[u] = 0 BY <1>0, <2>2
  <2>3. QED BY <1>1, <2>1, <2>2, ViewChange
<1>2. ASSUME NEW r \in Request, Store(r)
      PROVE  cache'[u] \subseteq View(u)' \/ since'[u] <= entryAge'[u] + Pause
  <2>1. CASE u # Actor(r)
    <3>1. cache'[u] = cache[u] /\ entryAge'[u] = entryAge[u]
      BY <1>2, <2>1 DEF Store, StoreEntry, TypeInv, TypeOK, ActiveUsersTypeOK
    <3>2. QED BY <1>1, <1>2, <3>1 DEF Action, Serve
  <2>2. CASE u = Actor(r)
    <3>1. cache'[u] = answer[r] /\ entryAge'[u] = 0
      BY <1>2, <2>2 DEF Store, StoreEntry, TypeInv, TypeOK, ActiveUsersTypeOK
    <3>2. View(u)' = View(u) /\ since'[u] = since[u]
      BY <1>2 DEF Store, accountVars, View, Active
    <3>3. answer[r] = View(u) \/ since[u] <= wait[r]
      BY <1>2, <2>2 DEF Store, CacheInv, FreshAnswer
    <3>4. wait[r] \in Nat /\ wait[r] <= Pause BY ClocksAreNumbers
    <3>5. CASE answer[r] = View(u) BY <3>1, <3>2, <3>5
    <3>6. CASE since[u] <= wait[r] BY <1>0, <3>1, <3>2, <3>4, <3>6
    <3>7. QED BY <3>3, <3>5, <3>6
  <2>3. QED BY <2>1, <2>2
<1>3. ASSUME NEW r \in Request, Evict(r)
      PROVE  cache'[u] \subseteq View(u)' \/ since'[u] <= entryAge'[u] + Pause
  <2>1. CASE u # Target(r)
    <3>1. cache'[u] = cache[u] /\ entryAge'[u] = entryAge[u]
      BY <1>3, <2>1 DEF Evict, EvictEntry, StoreEntry, TypeInv, TypeOK, ActiveUsersTypeOK
    <3>2. QED BY <1>1, <1>3, <3>1 DEF Action, Serve
  <2>2. CASE u = Target(r)
    <3>1. cache'[u] = {}
      BY <1>3, <2>2
         DEF Evict, EvictEntry, StoreEntry, NoAnswer, TypeInv, TypeOK, ActiveUsersTypeOK
    <3>2. QED BY <3>1
  <2>3. QED BY <2>1, <2>2
<1>4. ASSUME NEW r \in Request, Action(r), ~Store(r), ~Evict(r)
      PROVE  cache'[u] \subseteq View(u)' \/ since'[u] <= entryAge'[u] + Pause
  <2>1. UNCHANGED cacheVars
    BY <1>4 DEF Action, Serve, Arrive, Lookup, Load, Act, Read, CountAdmins,
                CheckTarget, CountActivity, Write, Abandon
  <2>2. QED BY <1>1, <1>4, <2>1 DEF cacheVars
<1>5. CASE Tick
  <2>1. View(u)' = View(u) /\ since'[u] <= since[u] + 1
    BY <1>5, TickAges
  <2>2. CASE cache'[u] = {} BY <2>2
  <2>3. CASE cache'[u] # {}
    <3>1. cache'[u] = cache[u] /\ entryAge'[u] = entryAge[u] + 1
      BY <1>5, <2>3 DEF Tick, AgeEntries, NoAnswer
    <3>2. since[u] <= entryAge[u] + Pause => since'[u] <= entryAge'[u] + Pause
      BY ONLY <1>0, <2>1, <3>1
    <3>3. QED BY <1>e, <2>1, <3>1, <3>2
  <2>4. QED BY <2>2, <2>3
<1>6. CASE UNCHANGED vars
  BY <1>6, <1>e DEF vars, accountVars, cacheVars, View, Active
<1>7. QED BY <1>2, <1>3, <1>4, <1>5, <1>6, NextSplit

LEMMA CacheInvariant == Spec => []CacheInv
<1>1. Init => CacheInv
  BY DEF Init, ActiveUsersInit, NoAnswer, CacheInv, FreshAnswer, FreshEntry
<1>2. TypeInv /\ CacheInv /\ [Next]_vars => CacheInv'
  BY AnswerStep, EntryStep DEF CacheInv
<1>3. QED BY <1>1, <1>2, TypeInvariant, PTL DEF Spec

\* However long TTL and the requests are, and however many of them store an
\* old answer after its entry was deleted, or never delete it: TTL plus one
\* request after an account changed, no cache entry contradicts it.
THEOREM CacheConverges == Spec => []CacheCatchesUp
<1>1. TypeInv /\ CacheInv => CacheCatchesUp
  <2> SUFFICES ASSUME TypeInv, CacheInv, NEW u \in User, since[u] >= TTL + Pause
               PROVE  cache[u] \subseteq View(u)
    BY DEF CacheCatchesUp
  <2>1. ~(since[u] <= entryAge[u] + Pause) BY ClocksAreNumbers
  <2>2. QED BY <2>1 DEF CacheInv, FreshEntry
<1>2. QED BY <1>1, TypeInvariant, CacheInvariant, PTL

-----------------------------------------------------------------------------
(* Administrative requests: how long they outlive the role of their actor. *)

AdminPlace == {"read", "count", "target", "activity", "write", "evict"}

\* Whoever carries out an administrative operation is an administrator, or
\* was one when the entry or answer that admitted the request was read.
FreshAdmin ==
  \A r \in Request, u \in User : pc[r] \in AdminPlace /\ Actor(r) = u =>
    u \in ActiveAdmins \/ since[u] <= (TTL - 1) + Pause + wait[r]

\* A request is admitted to an administrative operation by a cache entry or
\* by an answer with the administrator role, and keeps its call and its clock.
LEMMA Admission ==
  ASSUME TypeInv, NEW r \in Request, Action(r), pc'[r] \in AdminPlace
  PROVE  /\ call'[r] = call[r] /\ wait'[r] = wait[r]
         /\ \/ pc[r] \in AdminPlace
            \/ /\ UNCHANGED <<accountVars, since>>
               /\ \/ SYSTEM_ADMIN \in UNION cache[Actor(r)]
                  \/ pc[r] = "store" /\ SYSTEM_ADMIN \in UNION answer[r]
<1>0. pc \in [Request -> Place] /\ call[r] = call[r]
  BY DEF TypeInv, TypeOK
<1>1. ~End(r) BY <1>0 DEF End, AdminPlace
<1>2. ASSUME NEW p, Goto(r, p) PROVE pc'[r] = p /\ call' = call /\ wait' = wait
  BY <1>0, <1>2 DEF Goto
<1>3. ASSUME NEW rs, Admit(r, rs)
      PROVE  SYSTEM_ADMIN \in UNION rs /\ call' = call /\ wait' = wait
  <2>1. Goto(r, Start(r)) /\ (Op(r) = "visit" \/ SYSTEM_ADMIN \in UNION rs)
    BY <1>1, <1>3 DEF Admit
  <2>2. Op(r) # "visit" BY <1>2, <2>1 DEF Start, AdminPlace
  <2>3. QED BY <1>2, <2>1, <2>2
<1>4. ~Arrive(r) BY <1>0 DEF Arrive, AdminPlace
<1>5. CASE Lookup(r)
  <2>1. ~Goto(r, "load") BY <1>2 DEF AdminPlace
  <2>2. QED BY <1>3, <1>5, <2>1 DEF Lookup
<1>6. ~Load(r)
  <2>1. ~Goto(r, "store") BY <1>2 DEF AdminPlace
  <2>2. QED BY <1>1, <2>1 DEF Load
<1>7. CASE Store(r) BY <1>3, <1>7 DEF Store
<1>8. ~Act(r) /\ ~Evict(r) /\ ~Abandon(r) BY <1>1 DEF Act, Evict, Abandon
<1>9. CASE Read(r) \/ CheckTarget(r) \/ CountActivity(r) \/ CountAdmins(r)
  <2>1. pc[r] \in AdminPlace
    BY <1>9 DEF Read, CheckTarget, CountActivity, CountAdmins, AdminPlace
  <2>2. \A ok, p : GotoOrEnd(r, ok, p) => call' = call /\ wait' = wait
    BY <1>1 DEF GotoOrEnd, Goto
  <2>3. call' = call /\ wait' = wait
    BY <1>9, <2>2 DEF Read, CheckTarget, CountActivity, CountAdmins
  <2>4. QED BY <2>1, <2>3
<1>10. CASE Write(r)
  <2>1. Goto(r, "evict") BY <1>1, <1>10 DEF Write
  <2>2. QED BY <1>2, <1>10, <2>1 DEF Write, AdminPlace
<1>11. QED
  BY <1>4, <1>5, <1>6, <1>7, <1>8, <1>9, <1>10 DEF Action, Serve

LEMMA AdminStep == TypeInv /\ CacheInv /\ FreshAdmin /\ [Next]_vars => FreshAdmin'
<1> SUFFICES ASSUME TypeInv, CacheInv, FreshAdmin, [Next]_vars,
                    NEW s \in Request, NEW u \in User, pc'[s] \in AdminPlace, Actor(s)' = u
             PROVE  u \in ActiveAdmins' \/ since'[u] <= (TTL - 1) + Pause + wait'[s]
  BY DEF FreshAdmin
<1>0. /\ since[u] \in Nat /\ since'[u] \in Nat /\ wait[s] \in Nat /\ wait'[s] \in Nat
      /\ wait[s] <= Pause /\ entryAge[u] \in Nat /\ entryAge[u] <= TTL - 1
      /\ Pause \in Nat /\ TTL \in Nat /\ TTL > 0
  <2>1. TypeInv' BY TypeStep
  <2>2. QED BY <2>1, ClocksAreNumbers DEF TypeInv, TypeOK, ActiveUsersTypeOK
<1>1. ASSUME NEW r \in Request, Action(r), wait'[s] = wait[s],
             u \in ActiveAdmins \/ since[u] <= (TTL - 1) + Pause + wait[s]
      PROVE  u \in ActiveAdmins' \/ since'[u] <= (TTL - 1) + Pause + wait'[s]
  <2>1. CASE since'[u] = 0 BY <1>0, <2>1
  <2>2. CASE View(u)' = View(u) /\ since'[u] = since[u]
    BY <1>1, <2>2, AdminViewNext
  <2>3. QED BY <1>1, <2>1, <2>2, ViewChange
<1>2. ASSUME NEW r \in Request, Action(r), s # r
      PROVE  u \in ActiveAdmins' \/ since'[u] <= (TTL - 1) + Pause + wait'[s]
  <2>1. pc[s] \in AdminPlace /\ Actor(s) = u /\ wait'[s] = wait[s]
    BY <1>2, OnlyItsOwn DEF Actor
  <2>2. QED BY <1>1, <1>2, <2>1 DEF FreshAdmin
<1>3. ASSUME Action(s)
      PROVE  u \in ActiveAdmins' \/ since'[u] <= (TTL - 1) + Pause + wait'[s]
  <2>1. Actor(s) = u /\ wait'[s] = wait[s] BY <1>3, Admission DEF Actor
  <2>2. CASE pc[s] \in AdminPlace BY <1>1, <1>3, <2>1, <2>2 DEF FreshAdmin
  <2>3. CASE SYSTEM_ADMIN \in UNION cache[u]
    <3>1. CASE cache[u] \subseteq View(u)
      <4>1. u \in ActiveAdmins BY <2>3, <3>1, AdminView
      <4>2. QED BY <1>1, <1>3, <2>1, <4>1
    <3>2. CASE since[u] <= entryAge[u] + Pause
      <4>1. since[u] <= (TTL - 1) + Pause + wait[s] BY ONLY <1>0, <3>2
      <4>2. QED BY <1>1, <1>3, <2>1, <4>1
    <3>3. QED BY <3>1, <3>2 DEF CacheInv, FreshEntry
  <2>4. CASE pc[s] = "store" /\ SYSTEM_ADMIN \in UNION answer[s]
    <3>1. CASE answer[s] = View(u)
      <4>1. u \in ActiveAdmins BY <2>4, <3>1, AdminView
      <4>2. QED BY <1>1, <1>3, <2>1, <4>1
    <3>2. CASE since[u] <= wait[s]
      <4>1. since[u] <= (TTL - 1) + Pause + wait[s] BY ONLY <1>0, <3>2
      <4>2. QED BY <1>1, <1>3, <2>1, <4>1
    <3>3. QED BY <2>1, <2>4, <3>1, <3>2 DEF CacheInv, FreshAnswer
  <2>5. QED BY <1>3, <2>1, <2>2, <2>3, <2>4, Admission
<1>4. CASE Tick
  <2>1. pc[s] \in AdminPlace /\ Actor(s) = u BY <1>4 DEF Tick, Actor
  <2>2. wait'[s] = wait[s] + 1 BY <1>4, <2>1 DEF Tick, AdminPlace
  <2>3. /\ u \in ActiveAdmins => u \in ActiveAdmins'
        /\ since'[u] <= since[u] + 1
    BY <1>4, TickAges
  <2>4. since[u] <= (TTL - 1) + Pause + wait[s]
          => since'[u] <= (TTL - 1) + Pause + wait'[s]
    BY ONLY <1>0, <2>2, <2>3
  <2>5. QED BY <2>1, <2>3, <2>4 DEF FreshAdmin
<1>5. CASE UNCHANGED vars
  BY <1>5 DEF vars, requestVars, accountVars, FreshAdmin, ActiveAdmins, Active, Actor
<1>6. QED BY <1>2, <1>3, <1>4, <1>5, NextSplit

\* A former administrator carries out an administrative write at most TTL plus
\* the length of two requests after losing the role or the account.
THEOREM FormerAdminsStop == Spec => []NoLateAdministration
<1>1. Init => FreshAdmin
  BY DEF Init, FreshAdmin, AdminPlace
<1>2. TypeInv /\ FreshAdmin => NoLateAdministration
  <2> SUFFICES ASSUME TypeInv, FreshAdmin, NEW r \in Request, pc[r] \in {"write", "evict"}
               PROVE  Actor(r) \in ActiveAdmins \/ since[Actor(r)] < Long
    BY DEF NoLateAdministration
  <2>1. Actor(r) \in User BY DEF TypeInv, CallInv, Call, Actor
  <2>2. Actor(r) \in ActiveAdmins \/ since[Actor(r)] <= (TTL - 1) + Pause + wait[r]
    BY <2>1 DEF FreshAdmin, AdminPlace
  <2>3. since[Actor(r)] <= (TTL - 1) + Pause + wait[r] => since[Actor(r)] < Long
    <3>1. /\ since[Actor(r)] \in Nat /\ wait[r] \in Nat /\ wait[r] <= Pause
          /\ Pause \in Nat /\ TTL \in Nat
      BY <2>1, ClocksAreNumbers
    <3>2. QED BY ONLY <3>1 DEF Long
  <2>4. QED BY <2>2, <2>3
<1>3. QED
  BY <1>1, <1>2, TypeInvariant, CacheInvariant, AdminStep, PTL DEF Spec

-----------------------------------------------------------------------------
(* Requests served one at a time and to the end.                           *)

\* The request is about to take the administrator role or the account away.
Removing(r) ==
  \/ pc[r] = "activity"
  \/ /\ pc[r] = "write"
     /\ \/ Op(r) \in {"deactivate", "delete"}
        \/ Op(r) = "revoke" /\ call[r].role = SYSTEM_ADMIN

\* What the checks of a request have established when it gets there.
CheckedInv ==
  \A r \in Request :
    /\ pc[r] = "store" => answer[r] = View(Actor(r))
    /\ pc[r] = "read" => Op(r) \notin {"visit", "revoke"}
    /\ pc[r] = "target" => Op(r) = "revoke" /\ last[r] = AtMostOne(ActiveAdmins)
    /\ Removing(r) => ActiveAdmins \ {Target(r)} # {}

\* An entry that contradicts the tables is about to be deleted.
EvictInv ==
  \A u \in User :
    \/ cache[u] \subseteq View(u)
    \/ \E r \in Request : pc[r] = "evict" /\ Target(r) = u

AloneInv == AnActiveAdmin /\ CheckedInv /\ EvictInv

\* Where a request goes from one step to the next.
LEMMA Moves ==
  ASSUME TypeInv, NEW r \in Request, Action(r), pc'[r] # "idle", ~Arrive(r)
  PROVE  call'[r] = call[r]
<1>1. ~End(r) BY DEF End, TypeInv, TypeOK
<1>2. ASSUME NEW p, Goto(r, p) PROVE call'[r] = call[r]
  BY <1>2 DEF Goto
<1>3. \A ok, p : GotoOrEnd(r, ok, p) => call'[r] = call[r]
  BY <1>1, <1>2 DEF GotoOrEnd
<1>4. \A rs : Admit(r, rs) => call'[r] = call[r]
  BY <1>1, <1>2 DEF Admit
<1>5. CASE Lookup(r) BY <1>2, <1>4, <1>5 DEF Lookup
<1>6. CASE Load(r) BY <1>1, <1>2, <1>6 DEF Load
<1>7. CASE Store(r) BY <1>4, <1>7 DEF Store
<1>8. CASE Write(r) BY <1>1, <1>2, <1>8 DEF Write
<1>9. CASE Read(r) \/ CountAdmins(r) \/ CheckTarget(r) \/ CountActivity(r)
  BY <1>3, <1>9 DEF Read, CountAdmins, CheckTarget, CountActivity
<1>10. CASE Act(r) \/ Evict(r) \/ Abandon(r)
  BY <1>1, <1>10 DEF Act, Evict, Abandon
<1>11. QED
  BY <1>5, <1>6, <1>7, <1>8, <1>9, <1>10 DEF Action, Serve

\* The write of a request whose checks hold leaves an active administrator.
LEMMA WriteLeavesAdmin ==
  ASSUME TypeInv, NEW r \in Request, AnActiveAdmin, pc[r] = "write", WriteAccount(r),
         Removing(r) => ActiveAdmins \ {Target(r)} # {}
  PROVE  AnActiveAdmin'
<1>0. /\ account \in [User -> {"active", "inactive", "deleted"}]
      /\ roles \in [User -> SUBSET Role]
  BY DEF TypeInv, TypeOK, ActiveUsersTypeOK
<1>1. \A v \in User : v # Target(r) => account'[v] = account[v] /\ roles'[v] = roles[v]
  BY <1>0 DEF WriteAccount, SetAccount, SetRoles
<1>2. CASE Removing(r)
  <2>1. PICK v \in User : v # Target(r) /\ v \in ActiveAdmins
    BY <1>2 DEF ActiveAdmins
  <2>2. v \in ActiveAdmins' BY <1>1, <2>1 DEF ActiveAdmins, Active
  <2>3. QED BY <2>2 DEF AnActiveAdmin
<1>3. CASE ~Removing(r)
  <2>1. PICK v \in User : Active(v) /\ SYSTEM_ADMIN \in roles[v]
    BY DEF AnActiveAdmin, ActiveAdmins
  <2>2. CASE v # Target(r)
    <3>1. v \in ActiveAdmins' BY <1>1, <2>1, <2>2 DEF ActiveAdmins, Active
    <3>2. QED BY <3>1 DEF AnActiveAdmin
  <2>3. CASE v = Target(r)
    <3>1. Op(r) \notin {"deactivate", "delete"}
          /\ (Op(r) = "revoke" => call[r].role # SYSTEM_ADMIN)
      BY <1>3 DEF Removing
    <3>2. account'[v] = "active"
      BY <1>0, <2>1, <2>3, <3>1 DEF WriteAccount, SetAccount, Active
    <3>3. SYSTEM_ADMIN \in roles'[v]
      BY <1>0, <2>1, <2>3, <3>1 DEF WriteAccount, SetRoles
    <3>4. v \in ActiveAdmins' BY <3>2, <3>3 DEF ActiveAdmins, Active
    <3>5. QED BY <3>4 DEF AnActiveAdmin
  <2>4. QED BY <2>2, <2>3
<1>4. QED BY <1>2, <1>3

\* A request that has the application for itself keeps what it has checked.
LEMMA CheckedStep ==
  ASSUME TypeInv, AloneInv, NEW r \in Request, Arrive(r) \/ Serve(r),
         \A s \in Request : s = r
  PROVE  CheckedInv'
<1>0. /\ pc \in [Request -> Place] /\ last \in [Request -> BOOLEAN]
      /\ call \in [Request -> {NoCall} \cup Call]
  BY DEF TypeInv, TypeOK
<1>a. Action(r) BY DEF Action
<1>i. ASSUME pc'[r] \in {"idle", "lookup", "load", "act", "count", "evict"}
      PROVE  CheckedInv'
  BY <1>i DEF CheckedInv, Removing
<1>g. ASSUME NEW p, Goto(r, p) PROVE pc'[r] = p /\ last' = last
  BY <1>0, <1>g DEF Goto
<1>e. ASSUME End(r) PROVE CheckedInv'
  <2>1. pc'[r] = "idle" BY <1>0, <1>e DEF End
  <2>2. QED BY <1>i, <2>1
<1>o. ASSUME NEW ok, NEW p, GotoOrEnd(r, ok, p), ~End(r)
      PROVE  ok /\ pc'[r] = p /\ last' = last
  BY <1>g, <1>o DEF GotoOrEnd
<1>s. ASSUME ~Write(r), pc'[r] \notin {"idle", "lookup"}
      PROVE  /\ ActiveAdmins' = ActiveAdmins
             /\ Op(r)' = Op(r) /\ Target(r)' = Target(r) /\ call'[r].role = call[r].role
  <2>1. UNCHANGED accountVars BY <1>a, <1>s, TablesChange
  <2>2. ~Arrive(r) BY <1>0, <1>s DEF Arrive
  <2>3. call'[r] = call[r] BY <1>a, <1>s, <2>2, Moves
  <2>4. QED BY <2>1, <2>3 DEF accountVars, ActiveAdmins, Active, Op, Target
<1>n. ActiveAdmins # {} BY DEF AloneInv, AnActiveAdmin
<1>1. CASE Arrive(r)
  <2>1. pc'[r] = "lookup" BY <1>0, <1>1 DEF Arrive
  <2>2. QED BY <1>i, <2>1
<1>2. ASSUME NEW rs, Admit(r, rs), ~Write(r) PROVE CheckedInv'
  <2>1. SUFFICES ASSUME pc'[r] = Start(r), pc'[r] \in {"read", "write"} PROVE CheckedInv'
    BY <1>2, <1>e, <1>g, <1>i DEF Admit, Start
  <2>2. Op(r)' = Op(r) /\ call'[r].role = call[r].role BY <1>2, <1>s, <2>1
  <2>3. CASE pc'[r] = "read"
    <3>1. Op(r) \notin {"visit", "revoke"} BY <2>1, <2>3 DEF Start
    <3>2. QED BY <2>2, <2>3, <3>1 DEF CheckedInv, Removing
  <2>4. CASE pc'[r] = "write"
    <3>1. Op(r) = "revoke" /\ call[r].role # SYSTEM_ADMIN BY <2>1, <2>4 DEF Start
    <3>2. QED BY <2>2, <2>4, <3>1 DEF CheckedInv, Removing
  <2>5. QED BY <2>1, <2>3, <2>4
<1>3. CASE Lookup(r)
  <2>1. ~Write(r) BY <1>3 DEF Lookup, Write
  <2>2. QED BY <1>2, <1>3, <1>g, <1>i, <2>1 DEF Lookup
<1>4. CASE Load(r)
  <2>1. CASE End(r) BY <1>e, <2>1
  <2>2. CASE pc'[r] = "store"
    <3>1. Active(Actor(r)) /\ UNCHANGED <<accountVars, call>> /\ answer'[r] = {roles[Actor(r)]}
      BY <1>a, <2>2, StoreFromLoad
    <3>2. answer'[r] = View(Actor(r))' BY <3>1 DEF View, Active, Actor, accountVars
    <3>3. QED BY <2>2, <3>2 DEF CheckedInv, Removing
  <2>3. QED BY <1>4, <1>g, <2>1, <2>2 DEF Load
<1>5. CASE Store(r)
  <2>1. ~Write(r) BY <1>5 DEF Store, Write
  <2>2. QED BY <1>2, <1>5, <2>1 DEF Store
<1>6. CASE Act(r) \/ Evict(r) BY <1>6, <1>e DEF Act, Evict
<1>7. CASE Read(r)
  <2> SUFFICES ASSUME ~End(r) PROVE CheckedInv'
    BY <1>e
  <2> DEFINE next == IF Op(r) \in {"assign", "activate"} THEN "write"
                     ELSE IF Target(r) \in ActiveAdmins THEN "count"
                     ELSE IF Op(r) = "deactivate" THEN "write" ELSE "activity"
  <2>1. pc'[r] = next
    <3>1. GotoOrEnd(r, account[Target(r)] # "deleted", next) BY <1>7 DEF Read
    <3> HIDE DEF next
    <3>2. QED BY <1>o, <3>1
  <2>2. next \in {"write", "count", "activity"} OBVIOUS
  <2> SUFFICES ASSUME pc'[r] \in {"write", "activity"} PROVE CheckedInv'
    <3> HIDE DEF next
    <3>1. CASE pc'[r] = "count" BY <1>i, <3>1
    <3>2. QED BY <2>1, <2>2, <3>1
  <2>3. ~Write(r) BY <1>7 DEF Read, Write
  <2>4. Op(r) \in {"assign", "activate"} \/ Target(r) \notin ActiveAdmins
    BY <2>1
  <2>5. Op(r) # "revoke" BY <1>7 DEF Read, AloneInv, CheckedInv
  <2>6. Op(r) \in {"assign", "activate"} => pc'[r] = "write" BY <2>1
  <2>7. Target(r) \notin ActiveAdmins => ActiveAdmins \ {Target(r)} # {} BY <1>n
  <2>8. QED BY <1>s, <2>3, <2>4, <2>5, <2>6, <2>7 DEF CheckedInv, Removing
<1>8. CASE CountAdmins(r)
  <2> SUFFICES ASSUME ~End(r) PROVE CheckedInv'
    BY <1>e
  <2>1. ~Write(r) BY <1>8 DEF CountAdmins, Write
  <2>2. CASE Op(r) = "revoke"
    <3>1. pc'[r] = "target" /\ last'[r] = AtMostOne(ActiveAdmins)
      BY <1>0, <1>8, <2>2 DEF CountAdmins
    <3>2. QED BY <1>s, <2>1, <2>2, <3>1 DEF CheckedInv, Removing, AtMostOne
  <2>3. CASE Op(r) # "revoke"
    <3>1. ActiveAdmins \ {Target(r)} # {} /\ pc'[r] \in {"write", "activity"}
      <4>1. CASE GotoOrEnd(r, ~AtMostOne(ActiveAdmins), "write")
        <5>1. ~AtMostOne(ActiveAdmins) /\ pc'[r] = "write" BY <1>o, <4>1
        <5>2. QED BY <5>1 DEF AtMostOne
      <4>2. CASE GotoOrEnd(r, ActiveAdmins \ {Target(r)} # {}, "activity")
        BY <1>o, <4>2
      <4>3. QED BY <1>8, <2>3, <4>1, <4>2 DEF CountAdmins
    <3>2. QED BY <1>s, <2>1, <3>1 DEF CheckedInv, Removing
  <2>4. QED BY <2>2, <2>3
<1>9. CASE CheckTarget(r)
  <2> SUFFICES ASSUME ~End(r) PROVE CheckedInv'
    BY <1>e
  <2>1. ~Write(r) BY <1>9 DEF CheckTarget, Write
  <2>2. pc'[r] = "write" /\ ~(last[r] /\ Target(r) \in ActiveAdmins)
    BY <1>9, <1>o DEF CheckTarget
  <2>3. last[r] = AtMostOne(ActiveAdmins)
    BY <1>9 DEF CheckTarget, AloneInv, CheckedInv
  <2>4. ActiveAdmins \ {Target(r)} # {}
    BY <1>n, <2>2, <2>3 DEF AtMostOne
  <2>5. QED BY <1>s, <2>1, <2>2, <2>4 DEF CheckedInv, Removing
<1>10. CASE CountActivity(r)
  <2> SUFFICES ASSUME ~End(r) PROVE CheckedInv'
    BY <1>e
  <2>1. ~Write(r) BY <1>10 DEF CountActivity, Write
  <2>2. pc'[r] = "write" BY <1>10, <1>o DEF CountActivity
  <2>3. ActiveAdmins \ {Target(r)} # {}
    BY <1>10 DEF CountActivity, AloneInv, CheckedInv, Removing
  <2>4. QED BY <1>s, <2>1, <2>2, <2>3 DEF CheckedInv, Removing
<1>11. CASE Write(r)
  BY <1>11, <1>e, <1>g, <1>i DEF Write
<1>12. QED
  BY <1>1, <1>3, <1>4, <1>5, <1>6, <1>7, <1>8, <1>9, <1>10, <1>11 DEF Serve

LEMMA EvictStep ==
  ASSUME TypeInv, AloneInv, NEW r \in Request, Arrive(r) \/ Serve(r),
         \A s \in Request : s = r
  PROVE  EvictInv'
<1> SUFFICES ASSUME NEW u \in User
             PROVE  cache'[u] \subseteq View(u)'
                    \/ \E s \in Request : pc'[s] = "evict" /\ Target(s)' = u
  BY DEF EvictInv
<1>a. Action(r) BY DEF Action
<1>e. cache[u] \subseteq View(u) \/ (pc[r] = "evict" /\ Target(r) = u)
  BY DEF AloneInv, EvictInv
<1>v. UNCHANGED accountVars => View(u)' = View(u)
  BY DEF accountVars, View, Active
<1>1. CASE Store(r)
  <2>1. UNCHANGED accountVars BY <1>1 DEF Store
  <2>2. pc[r] = "store" /\ answer[r] = View(Actor(r))
    BY <1>1 DEF Store, AloneInv, CheckedInv
  <2>3. cache'[u] = IF u = Actor(r) THEN answer[r] ELSE cache[u]
    BY <1>1 DEF Store, StoreEntry, TypeInv, TypeOK, ActiveUsersTypeOK
  <2>4. cache[u] \subseteq View(u) BY <1>e, <2>2
  <2>5. CASE u = Actor(r) BY <1>v, <2>1, <2>2, <2>3, <2>5
  <2>6. CASE u # Actor(r) BY <1>v, <2>1, <2>3, <2>4, <2>6
  <2>7. QED BY <2>5, <2>6
<1>2. CASE Evict(r)
  <2>1. UNCHANGED accountVars BY <1>2 DEF Evict
  <2>2. cache'[u] = IF u = Target(r) THEN {} ELSE cache[u]
    BY <1>2 DEF Evict, EvictEntry, StoreEntry, NoAnswer, TypeInv, TypeOK, ActiveUsersTypeOK
  <2>3. CASE u = Target(r) BY <2>2, <2>3
  <2>4. CASE u # Target(r) BY <1>v, <1>e, <2>1, <2>2, <2>4
  <2>5. QED BY <2>3, <2>4
<1>3. CASE Write(r)
  <2>1. cache' = cache /\ cache[u] \subseteq View(u)
    BY <1>3, <1>e DEF Write, cacheVars
  <2>2. CASE UNCHANGED accountVars BY <1>v, <2>1, <2>2
  <2>3. CASE WriteAccount(r) /\ Goto(r, "evict")
    <3>1. pc'[r] = "evict" /\ Target(r)' = Target(r)
      BY <2>3 DEF Goto, Target, TypeInv, TypeOK
    <3>2. CASE u # Target(r)
      <4>1. account'[u] = account[u] /\ roles'[u] = roles[u]
        BY <2>3, <3>2
           DEF WriteAccount, SetAccount, SetRoles, TypeInv, TypeOK, ActiveUsersTypeOK
      <4>2. View(u)' = View(u) BY <4>1 DEF View, Active
      <4>3. QED BY <2>1, <4>2
    <3>3. QED BY <3>1, <3>2
  <2>4. QED BY <1>3, <2>2, <2>3 DEF Write
<1>4. CASE ~Store(r) /\ ~Evict(r) /\ ~Write(r)
  <2>1. UNCHANGED <<accountVars, cacheVars>> /\ pc[r] # "evict"
    BY <1>4 DEF Serve, Arrive, Lookup, Load, Act, Read, CountAdmins, CheckTarget,
                CountActivity
  <2>2. QED BY <1>v, <1>e, <2>1 DEF cacheVars
<1>5. QED BY <1>1, <1>2, <1>3, <1>4

LEMMA AloneStep ==
  ASSUME TypeInv, AloneInv, [Next]_vars, ~MayFail, \A r, s \in Request : r = s
  PROVE  AloneInv'
<1>1. ASSUME NEW r \in Request, Arrive(r) \/ Serve(r) PROVE AloneInv'
  <2>1. AnActiveAdmin'
    <3>1. CASE UNCHANGED accountVars
      BY <3>1 DEF accountVars, AloneInv, AnActiveAdmin, ActiveAdmins, Active
    <3>2. CASE Write(r) /\ WriteAccount(r)
      <4>1. Removing(r) => ActiveAdmins \ {Target(r)} # {}
        BY DEF AloneInv, CheckedInv
      <4>2. AnActiveAdmin /\ pc[r] = "write" BY <3>2 DEF Write, AloneInv
      <4>3. QED BY <3>2, <4>1, <4>2, WriteLeavesAdmin
    <3>3. QED BY <1>1, <3>1, <3>2, TablesChange DEF Action
  <2>2. CheckedInv' BY <1>1, CheckedStep
  <2>3. EvictInv' BY <1>1, EvictStep
  <2>4. QED BY <2>1, <2>2, <2>3 DEF AloneInv
<1>2. CASE Tick
  <2>1. /\ ActiveAdmins' = ActiveAdmins
        /\ \A u \in User : View(u)' = View(u) /\ (cache'[u] = cache[u] \/ cache'[u] = {})
    BY <1>2
       DEF Tick, AgeEntries, NoAnswer, accountVars, ActiveAdmins, View, Active
  <2>2. UNCHANGED <<pc, call, answer, last>> BY <1>2 DEF Tick
  <2>3. AnActiveAdmin' BY <2>1 DEF AloneInv, AnActiveAdmin
  <2>4. EvictInv' BY <2>1, <2>2 DEF AloneInv, EvictInv, Target
  <2>5. CheckedInv'
    <3>1. ASSUME NEW r \in Request, pc[r] = "store"
          PROVE  View(Actor(r))' = View(Actor(r))
      BY <1>2, <2>2 DEF Tick, accountVars, View, Active, Actor
    <3>2. QED
      BY <2>1, <2>2, <3>1
         DEF AloneInv, CheckedInv, Removing, AtMostOne, Op, Target
  <2>6. QED BY <2>3, <2>4, <2>5 DEF AloneInv
<1>3. CASE UNCHANGED vars
  <2>a. ActiveAdmins' = ActiveAdmins /\ \A u \in User : View(u)' = View(u)
    BY <1>3 DEF vars, accountVars, ActiveAdmins, View, Active
  <2>1. AnActiveAdmin' /\ EvictInv'
    BY <1>3, <2>a DEF vars, cacheVars, requestVars, AloneInv, AnActiveAdmin, EvictInv, Target
  <2>2. CheckedInv'
    <3>1. \A r \in Request : View(Actor(r))' = View(Actor(r))
      BY <1>3 DEF vars, accountVars, requestVars, View, Active, Actor
    <3>2. QED
      BY <1>3, <2>a, <3>1
         DEF vars, requestVars, AloneInv, CheckedInv, Removing, AtMostOne, Op, Target
  <2>3. QED BY <2>1, <2>2 DEF AloneInv
<1>4. ASSUME NEW r \in Request, Abandon(r) PROVE FALSE
  BY <1>4 DEF Abandon
<1>5. QED BY <1>1, <1>2, <1>3, <1>4 DEF Next

\* Served one at a time and to the end, requests never lock the administrators
\* out and leave no stale cache entry: the three checks of the last
\* administrator and the deletion of the entry are right, as long as nothing
\* runs between a check and its write (UserAdmin_race shows what happens then).
THEOREM AloneIsSafe ==
  ASSUME ~MayFail, \A r, s \in Request : r = s
  PROVE  Spec => []ServedAlone
<1>1. Init => AloneInv
  BY DEF Init, ActiveUsersInit, NoAnswer, AloneInv, AnActiveAdmin, CheckedInv,
         EvictInv, Removing
<1>2. TypeInv /\ AloneInv /\ [Next]_vars => AloneInv'
  BY AloneStep
<1>3. AloneInv => ServedAlone
  BY DEF AloneInv, EvictInv, ServedAlone
<1>4. QED BY <1>1, <1>2, <1>3, TypeInvariant, PTL DEF Spec
=============================================================================
