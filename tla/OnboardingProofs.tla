-------------------------- MODULE OnboardingProofs --------------------------
(***************************************************************************)
(* Proofs about Onboarding, for any number of people and of operations in  *)
(* course.                                                                 *)
(***************************************************************************)
EXTENDS Onboarding, FiniteSetTheorems, TLAPS

\* A request that is on its way asks for something its place belongs to.
CallInv ==
  \A r \in Request :
    /\ pc[r] # "idle" => call[r] \in Call
    /\ pc[r] \in {"checkUser", "checkPreload", "createPreload"} =>
         call[r].op = "preload" /\ call[r].roles # {}
    /\ pc[r] \in {"lock"} \cup UnderLock => call[r].op = "prepare"

\* There is an id left for every request that may create a preload.
SlotInv == made + Cardinality(Creators) <= MaxPreloads

TypeInv == TypeOK /\ CallInv /\ SlotInv

\* A live preload is one email's and is not spent.
SpentInv ==
  /\ SpentOnce
  /\ \A id \in Preload : id > made => spent[id] = 0
  /\ \A e \in Email : preload[e] # NoPreload => spent[preload[e]] = 0
  /\ \A d, e \in Email : preload[d] = preload[e] /\ preload[d] # NoPreload => d = e

\* One bootstrap at a time is under the lock, and once it found no preloaded
\* administrator no initial one is waiting.
LockInv ==
  /\ \A q, r \in Request : pc[q] \in UnderLock /\ pc[r] \in UnderLock => q = r
  /\ \A id \in initial : SYSTEM_ADMIN \in preloadRoles[id]
  /\ \A r \in Request : pc[r] \in {"findAccount", "grant"} =>
       \A e \in Email : preload[e] \notin initial
  /\ OneInitialPreload

-----------------------------------------------------------------------------
(* Types.                                                                  *)

LEMMA CountCreators == IsFiniteSet(Creators) /\ Cardinality(Creators) \in Nat
<1>1. Creators \subseteq Request BY DEF Creators
<1>2. QED BY <1>1, OnboardingAssumption, FS_Subset, FS_CardinalityType

\* A creator that ends frees its slot.
LEMMA EndCreator ==
  ASSUME NEW r \in Request, call \in [Request -> {NoCall} \cup Call], End(r)
  PROVE  /\ Cardinality(Creators') <= Cardinality(Creators)
         /\ Cardinality(Creators') \in Nat
         /\ r \in Creators => Cardinality(Creators') = Cardinality(Creators) - 1
<1>1. Creators' = Creators \ {r}
  BY DEF End, Creators, NoCall
<1>2. IsFiniteSet(Creators) /\ Cardinality(Creators) \in Nat BY CountCreators
<1>3. Cardinality(Creators \ {r}) =
        IF r \in Creators THEN Cardinality(Creators) - 1 ELSE Cardinality(Creators)
  BY <1>2, FS_RemoveElement
<1>4. r \in Creators => Cardinality(Creators) # 0 BY <1>2, FS_EmptySet
<1>5. QED BY <1>1, <1>2, <1>3, <1>4

LEMMA TypeInit == Init => TypeInv
<1> SUFFICES ASSUME Init PROVE TypeInv OBVIOUS
<1>1. TypeOK
  BY OnboardingAssumption DEF Init, TypeOK, NoPreload, Preload, Place
<1>2. CallInv BY DEF Init, CallInv, UnderLock
<1>3. Creators = {} BY DEF Init, Creators, NoCall
<1>4. SlotInv
  <2>1. Cardinality(Creators) = 0 BY <1>3, FS_EmptySet
  <2>2. made = 0 BY DEF Init
  <2>3. QED BY <2>1, <2>2, OnboardingAssumption DEF SlotInv
<1>5. QED BY <1>1, <1>2, <1>4 DEF TypeInv
\* A request goes on to the next place of its operation.
LEMMA GotoCall ==
  ASSUME NEW r \in Request, NEW p \in Place, TypeInv, pc[r] # "idle", Goto(r, p),
         p \in {"checkUser", "checkPreload", "createPreload"} =>
           pc[r] \in {"checkUser", "checkPreload"},
         p \in UnderLock => pc[r] \in {"lock"} \cup UnderLock,
         p # "lock"
  PROVE  /\ pc' \in [Request -> Place] /\ call' \in [Request -> {NoCall} \cup Call]
         /\ CallInv' /\ Creators' = Creators
<1>1. pc' \in [Request -> Place] /\ call' \in [Request -> {NoCall} \cup Call]
  BY DEF TypeInv, TypeOK, Goto
<1>2. CallInv' BY DEF TypeInv, TypeOK, CallInv, Goto, UnderLock
<1>3. Creators' = Creators BY DEF Goto, Creators
<1>4. QED BY <1>1, <1>2, <1>3

LEMMA EndCall ==
  ASSUME NEW r \in Request, TypeInv, End(r)
  PROVE  /\ pc' \in [Request -> Place] /\ call' \in [Request -> {NoCall} \cup Call]
         /\ seen' \in [Request -> {NoPreload} \cup 1..made]
         /\ found' \in [Request -> BOOLEAN]
         /\ CallInv'
<1>1. pc' \in [Request -> Place] /\ call' \in [Request -> {NoCall} \cup Call]
  BY DEF TypeInv, TypeOK, End, Place
<1>2. seen' \in [Request -> {NoPreload} \cup 1..made] /\ found' \in [Request -> BOOLEAN]
  BY DEF TypeInv, TypeOK, End, See
<1>3. CallInv' BY DEF TypeInv, TypeOK, CallInv, End, UnderLock
<1>4. QED BY <1>1, <1>2, <1>3

\* Whatever a request reads, it goes on or ends.
LEMMA ReadType ==
  ASSUME NEW r \in Request, NEW p \in Place, NEW ok \in BOOLEAN, TypeInv,
         pc[r] # "idle", GotoOrEnd(r, ok, p), UNCHANGED <<accountVars, preloadVars, faults>>,
         p \in {"checkUser", "checkPreload", "createPreload"} =>
           pc[r] \in {"checkUser", "checkPreload"},
         p \in UnderLock => pc[r] \in {"lock"} \cup UnderLock,
         p # "lock"
  PROVE  TypeInv'
<1>1. CASE Goto(r, p) /\ UNCHANGED <<seen, found>>
  <2>1. /\ pc' \in [Request -> Place] /\ call' \in [Request -> {NoCall} \cup Call]
        /\ CallInv' /\ Creators' = Creators
    BY <1>1, GotoCall
  <2>2. TypeOK' BY <1>1, <2>1 DEF TypeInv, TypeOK, accountVars, preloadVars
  <2>3. SlotInv' BY <2>1 DEF TypeInv, SlotInv, preloadVars
  <2>4. QED BY <2>1, <2>2, <2>3 DEF TypeInv
<1>2. CASE End(r)
  <2>1. TypeOK' /\ CallInv'
    BY <1>2, EndCall DEF TypeInv, TypeOK, accountVars, preloadVars
  <2>2. SlotInv'
    BY <1>2, EndCreator, CountCreators, OnboardingAssumption
       DEF TypeInv, TypeOK, SlotInv, preloadVars
  <2>3. QED BY <2>1, <2>2 DEF TypeInv
<1>3. QED BY <1>1, <1>2 DEF GotoOrEnd
LEMMA ArriveType ==
  ASSUME NEW r \in Request, NEW op \in {"login", "preload", "prepare"}, NEW e \in Email,
         TypeInv, Arrive(r, op, e)
  PROVE  TypeInv'
<1>1. PICK rs \in SUBSET Role :
        /\ op = "preload" => rs # {}
        /\ op \in {"preload", "prepare"} => made + Cardinality(Creators) < MaxPreloads
        /\ call' = [call EXCEPT ![r] = [op |-> op, email |-> e, roles |-> rs]]
  BY DEF Arrive, RolesAccepted
<1>2. /\ pc[r] = "idle" /\ op \in Ops
      /\ UNCHANGED <<accountVars, preloadVars, seen, found, faults>>
  BY DEF Arrive
<1>3. pc' = [pc EXCEPT ![r] = IF op = "login" THEN "findUser"
                              ELSE IF op = "preload" THEN "checkUser" ELSE "lock"]
  BY DEF Arrive
<1>4. [op |-> op, email |-> e, roles |-> rs] \in Call BY <1>2 DEF Call
<1>5. TypeOK'
  <2>1. call' \in [Request -> {NoCall} \cup Call] BY <1>1, <1>4 DEF TypeInv, TypeOK
  <2>2. pc' \in [Request -> Place] BY <1>3 DEF TypeInv, TypeOK, Place
  <2>3. QED BY <1>2, <2>1, <2>2 DEF TypeInv, TypeOK, accountVars, preloadVars
<1>6. CallInv' BY <1>1, <1>3, <1>4 DEF TypeInv, TypeOK, CallInv, UnderLock
<1>7. SlotInv'
  <2>1. IsFiniteSet(Creators) /\ Cardinality(Creators) \in Nat BY CountCreators
  <2>2. CASE op = "login"
    <3>1. Creators' \subseteq Creators BY <1>1, <2>2 DEF Creators, TypeInv, TypeOK
    <3>2. Cardinality(Creators') <= Cardinality(Creators) /\ Cardinality(Creators') \in Nat
      BY <2>1, <3>1, FS_Subset, FS_CardinalityType
    <3>3. QED BY <1>2, <2>1, <3>2, OnboardingAssumption
              DEF TypeInv, TypeOK, SlotInv, preloadVars
  <2>3. CASE op # "login"
    <3>1. Creators' \subseteq Creators \cup {r} BY <1>1 DEF Creators, TypeInv, TypeOK
    <3>2. /\ IsFiniteSet(Creators \cup {r})
          /\ Cardinality(Creators \cup {r}) <= Cardinality(Creators) + 1
          /\ Cardinality(Creators \cup {r}) \in Nat
      BY <2>1, FS_AddElement, FS_CardinalityType
    <3>3. /\ Cardinality(Creators') <= Cardinality(Creators \cup {r})
          /\ Cardinality(Creators') \in Nat
      BY <3>1, <3>2, FS_Subset, FS_CardinalityType
    <3>4. made' = made BY <1>2 DEF preloadVars
    <3>5. QED BY <1>1, <2>1, <2>3, <3>2, <3>3, <3>4, OnboardingAssumption
              DEF TypeInv, TypeOK, SlotInv
  <2>4. QED BY <2>2, <2>3
<1>8. QED BY <1>5, <1>6, <1>7 DEF TypeInv

\* A creator may insert: its slot is free.
LEMMA InsertType ==
  ASSUME NEW r \in Request, NEW rs \in SUBSET Role, rs # {}, TypeInv,
         call[r] \in Call, call[r].op \in {"preload", "prepare"},
         InsertPreload(r, rs), End(r), spent' = spent
  PROVE  /\ made + 1 \in Preload /\ made' = made + 1 /\ made' \in 0..MaxPreloads
         /\ preload' \in [Email -> {NoPreload} \cup 1..made']
         /\ preloadRoles' \in [Preload -> SUBSET Role]
         /\ \A id \in 1..made' : preloadRoles'[id] # {}
         /\ seen' \in [Request -> {NoPreload} \cup 1..made']
         /\ SlotInv'
<1>1. r \in Creators BY DEF Creators
<1>2. IsFiniteSet(Creators) /\ Cardinality(Creators) \in Nat BY CountCreators
<1>3. Cardinality(Creators) # 0 BY <1>1, <1>2, FS_EmptySet
<1>4. made \in Nat /\ MaxPreloads \in Nat BY OnboardingAssumption DEF TypeInv, TypeOK
<1>5. made' = made + 1 BY DEF InsertPreload
<1>6. made + 1 <= MaxPreloads BY <1>2, <1>3, <1>4 DEF TypeInv, SlotInv
<1>7. made + 1 \in Preload /\ made' \in 0..MaxPreloads BY <1>4, <1>5, <1>6 DEF Preload
<1>8. preload' = [preload EXCEPT ![call[r].email] = made + 1]
  BY DEF InsertPreload
<1>9. preloadRoles' = [preloadRoles EXCEPT ![made + 1] = rs] BY DEF InsertPreload
<1>10. preload' \in [Email -> {NoPreload} \cup 1..made']
  <2>1. 1..made \subseteq 1..made' /\ made + 1 \in 1..made' BY <1>4, <1>5
  <2>2. preload \in [Email -> {NoPreload} \cup 1..made'] BY <2>1 DEF TypeInv, TypeOK
  <2>3. QED BY <1>8, <2>1, <2>2
<1>11. preloadRoles' \in [Preload -> SUBSET Role]
  BY <1>9 DEF TypeInv, TypeOK
<1>12. \A id \in 1..made' : preloadRoles'[id] # {}
  <2> SUFFICES ASSUME NEW id \in 1..made' PROVE preloadRoles'[id] # {}
    OBVIOUS
  <2>1. id \in Preload /\ (id = made + 1 \/ id \in 1..made)
    BY <1>4, <1>5, <1>6 DEF Preload
  <2>2. preloadRoles'[id] = IF id = made + 1 THEN rs ELSE preloadRoles[id]
    BY <1>9, <2>1 DEF TypeInv, TypeOK
  <2>3. QED BY <2>1, <2>2 DEF TypeInv, TypeOK
<1>13. seen' \in [Request -> {NoPreload} \cup 1..made']
  <2>1. seen' \in [Request -> {NoPreload} \cup 1..made] BY EndCall
  <2>2. 1..made \subseteq 1..made' BY <1>4, <1>5
  <2>3. QED BY <2>1, <2>2
<1>14. SlotInv'
  BY <1>1, <1>2, <1>4, <1>5, EndCreator DEF TypeInv, TypeOK, SlotInv
<1>15. QED BY <1>5, <1>7, <1>10, <1>11, <1>12, <1>13, <1>14

LEMMA TypeStep == TypeInv /\ [Next]_vars => TypeInv'
<1> SUFFICES ASSUME TypeInv, [Next]_vars PROVE TypeInv'
  OBVIOUS
<1> DEFINE EndType(r) == End(r) /\ UNCHANGED made
<1>0. ASSUME NEW r \in Request, EndType(r)
      PROVE  /\ CallInv' /\ SlotInv'
             /\ pc' \in [Request -> Place] /\ call' \in [Request -> {NoCall} \cup Call]
             /\ seen' \in [Request -> {NoPreload} \cup 1..made']
             /\ found' \in [Request -> BOOLEAN]
  <2>1. SlotInv'
    BY <1>0, EndCreator, CountCreators, OnboardingAssumption DEF TypeInv, TypeOK, SlotInv
  <2>2. QED BY <1>0, <2>1, EndCall
<1>1. ASSUME NEW r \in Request, NEW op \in {"login", "preload", "prepare"}, NEW e \in Email,
             Arrive(r, op, e)
      PROVE  TypeInv'
  BY <1>1, ArriveType
<1>2. ASSUME NEW r \in Request, FindUser(r) PROVE TypeInv'
  BY <1>2, ReadType DEF FindUser, Place, UnderLock
<1>3. ASSUME NEW r \in Request, FindPreload(r) PROVE TypeInv'
  <2>1. pc[r] = "findPreload" /\ Goto(r, "createUser") BY <1>3 DEF FindPreload
  <2>2. /\ pc' \in [Request -> Place] /\ call' \in [Request -> {NoCall} \cup Call]
        /\ CallInv' /\ Creators' = Creators
    BY <2>1, GotoCall DEF Place, UnderLock
  <2>3. call[r].email \in Email BY <2>1 DEF TypeInv, CallInv, Call
  <2>4. seen' \in [Request -> {NoPreload} \cup 1..made] /\ found' \in [Request -> BOOLEAN]
    BY <1>3, <2>3 DEF FindPreload, See, TypeInv, TypeOK
  <2>5. TypeOK' /\ SlotInv'
    BY <1>3, <2>2, <2>4 DEF FindPreload, TypeInv, TypeOK, SlotInv, accountVars, preloadVars
  <2>6. QED BY <2>2, <2>5 DEF TypeInv
<1>4. ASSUME NEW r \in Request, CreateUser(r) PROVE TypeInv'
  <2>1. /\ call[r].email \in Email /\ seen[r] \in {NoPreload} \cup 1..made
        /\ EndType(r) /\ UNCHANGED <<preloadRoles, initial, faults>>
    BY <1>4 DEF CreateUser, TypeInv, TypeOK, CallInv, Call
  <2>2. seen[r] # NoPreload => seen[r] \in Preload
    BY <2>1, OnboardingAssumption DEF TypeInv, TypeOK, Preload
  <2>3. account' \in [Email -> {"none", "active", "inactive"}] /\ roles' \in [Email -> SUBSET Role]
    BY <1>4, <2>1, <2>2 DEF CreateUser, accountVars, TypeInv, TypeOK
  <2>4. preload' \in [Email -> {NoPreload} \cup 1..made] /\ spent' \in [Preload -> Nat]
    BY <1>4, <2>1, <2>2 DEF CreateUser, DropPreload, TypeInv, TypeOK
  <2>5. TypeOK' BY <1>0, <2>1, <2>3, <2>4 DEF TypeInv, TypeOK
  <2>6. QED BY <1>0, <2>1, <2>5 DEF TypeInv
<1>5. ASSUME NEW r \in Request, CheckUser(r) PROVE TypeInv'
  BY <1>5, ReadType DEF CheckUser, Place, UnderLock
<1>6. ASSUME NEW r \in Request, CheckPreload(r) PROVE TypeInv'
  BY <1>6, ReadType DEF CheckPreload, Place, UnderLock
<1>7. ASSUME NEW r \in Request, CreatePreload(r) PROVE TypeInv'
  <2>1. /\ call[r] \in Call /\ call[r].op = "preload" /\ call[r].roles # {}
        /\ call[r].roles \in SUBSET Role
        /\ End(r) /\ UNCHANGED <<accountVars, initial, spent, faults>>
    BY <1>7 DEF CreatePreload, TypeInv, CallInv, Call
  <2>2. CASE InsertPreload(r, call[r].roles)
    <3>1. TypeOK'
      <4>1. initial \subseteq 1..(made + 1) BY OnboardingAssumption DEF TypeInv, TypeOK
      <4>2. QED BY <2>1, <2>2, <4>1, InsertType, EndCall DEF TypeInv, TypeOK, accountVars
    <3>2. QED BY <2>1, <2>2, <3>1, InsertType, EndCall DEF TypeInv
  <2>3. CASE UNCHANGED <<made, preload, preloadRoles>>
    BY <1>0, <2>1, <2>3 DEF TypeInv, TypeOK, accountVars
  <2>4. QED BY <1>7, <2>2, <2>3 DEF CreatePreload
<1>8. ASSUME NEW r \in Request, Lock(r) PROVE TypeInv'
  <2>1. pc[r] = "lock" /\ Goto(r, "countAdmins") BY <1>8 DEF Lock
  <2>2. /\ pc' \in [Request -> Place] /\ call' \in [Request -> {NoCall} \cup Call]
        /\ CallInv' /\ Creators' = Creators
    BY <2>1, GotoCall DEF Place, UnderLock
  <2>3. QED BY <1>8, <2>2 DEF Lock, TypeInv, TypeOK, SlotInv, accountVars, preloadVars
<1>9. ASSUME NEW r \in Request, CountAdmins(r) PROVE TypeInv'
  BY <1>9, ReadType DEF CountAdmins, Place, UnderLock
<1>10. ASSUME NEW r \in Request, FindInitial(r) PROVE TypeInv'
  BY <1>10, ReadType DEF FindInitial, Place, UnderLock
<1>11. ASSUME NEW r \in Request, FindAccount(r) PROVE TypeInv'
  <2>1. pc[r] = "findAccount" /\ UNCHANGED <<accountVars, preloadVars, faults>>
    BY <1>11 DEF FindAccount
  <2>2. CASE Goto(r, "grant") /\ See(r, NoPreload, HasAccount(call[r].email))
    <3>1. /\ pc' \in [Request -> Place] /\ call' \in [Request -> {NoCall} \cup Call]
          /\ CallInv' /\ Creators' = Creators
      BY <2>1, <2>2, GotoCall DEF Place, UnderLock
    <3>2. seen' \in [Request -> {NoPreload} \cup 1..made] /\ found' \in [Request -> BOOLEAN]
      BY <2>2 DEF See, HasAccount, TypeInv, TypeOK
    <3>3. QED BY <2>1, <3>1, <3>2 DEF TypeInv, TypeOK, SlotInv, accountVars, preloadVars
  <2>3. CASE End(r)
    BY <1>0, <2>1, <2>3 DEF TypeInv, TypeOK, accountVars, preloadVars
  <2>4. QED BY <1>11, <2>2, <2>3 DEF FindAccount
<1>12. ASSUME NEW r \in Request, Grant(r) PROVE TypeInv'
  <2>1. /\ call[r] \in Call /\ call[r].email \in Email /\ call[r].op = "prepare"
        /\ End(r) /\ UNCHANGED <<account, spent, faults>>
    BY <1>12 DEF Grant, TypeInv, CallInv, Call, UnderLock
  <2>2. roles' \in [Email -> SUBSET Role]
    BY <1>12, <2>1, OnboardingAssumption DEF Grant, TypeInv, TypeOK
  <2>3. CASE InsertPreload(r, {SYSTEM_ADMIN}) /\ initial' = initial \cup {made'}
    <3>1. {SYSTEM_ADMIN} \in SUBSET Role /\ {SYSTEM_ADMIN} # {} BY OnboardingAssumption
    <3>2. initial' \subseteq 1..made'
      <4>1. made' = made + 1 BY <2>3 DEF InsertPreload
      <4>2. initial \subseteq 1..made /\ made \in Nat
        BY OnboardingAssumption DEF TypeInv, TypeOK
      <4>3. 1..made \subseteq 1..made' /\ made' \in 1..made' BY <4>1, <4>2
      <4>4. QED BY <2>3, <4>2, <4>3
    <3>3. TypeOK'
      BY <2>1, <2>2, <2>3, <3>1, <3>2, InsertType, EndCall DEF TypeInv, TypeOK
    <3>4. QED BY <2>1, <2>3, <3>1, <3>3, InsertType, EndCall DEF TypeInv
  <2>4. CASE UNCHANGED <<made, preload, preloadRoles, initial>>
    BY <1>0, <2>1, <2>2, <2>4 DEF TypeInv, TypeOK
  <2>5. QED BY <1>12, <2>3, <2>4 DEF Grant
<1>13. ASSUME NEW r \in Request, Abandon(r) PROVE TypeInv'
  <2>1. /\ EndType(r) /\ UNCHANGED <<accountVars, preloadVars>>
        /\ faults < MaxFaults /\ faults' = faults + 1
    BY <1>13 DEF Abandon, preloadVars
  <2>2. QED BY <1>0, <2>1, OnboardingAssumption DEF TypeInv, TypeOK, accountVars, preloadVars
<1>14. ASSUME NEW e \in Email, CancelPreload(e) PROVE TypeInv'
  <2>1. preload[e] \in Preload
    BY <1>14, OnboardingAssumption DEF CancelPreload, TypeInv, TypeOK, Preload
  <2>2. Creators' = Creators BY <1>14 DEF CancelPreload, requestVars, Creators
  <2>3. QED BY <1>14, <2>1, <2>2
            DEF CancelPreload, DropPreload, TypeInv, TypeOK, CallInv, SlotInv, accountVars,
                requestVars
<1>15. ASSUME NEW e \in Email, ChangeAccount(e) \/ ChangeRoles(e) PROVE TypeInv'
  <2>1. UNCHANGED <<preloadVars, requestVars, faults>> BY <1>15 DEF ChangeAccount, ChangeRoles
  <2>2. Creators' = Creators BY <2>1 DEF requestVars, Creators
  <2>3. /\ account' \in [Email -> {"none", "active", "inactive"}]
        /\ roles' \in [Email -> SUBSET Role]
    BY <1>15 DEF ChangeAccount, ChangeRoles, TypeInv, TypeOK
  <2>4. QED BY <2>1, <2>2, <2>3
            DEF TypeInv, TypeOK, CallInv, SlotInv, preloadVars, requestVars
<1>16. CASE UNCHANGED vars
  BY <1>16 DEF vars, TypeInv, TypeOK, CallInv, SlotInv, Creators, accountVars, preloadVars,
               requestVars
<1>17. QED
  BY <1>1, <1>2, <1>3, <1>4, <1>5, <1>6, <1>7, <1>8, <1>9, <1>10, <1>11, <1>12, <1>13,
     <1>14, <1>15, <1>16
     DEF Next, ArriveAny, Serve

\* Every variable keeps its type, the ids of preloads within their bound.
THEOREM TypeCorrect == Spec => []TypeOK
<1>1. TypeInv => TypeOK BY DEF TypeInv
<1>2. QED BY TypeInit, TypeStep, <1>1, PTL DEF Spec
-----------------------------------------------------------------------------
(* Preloads are spent once.                                                *)

LEMMA SpentInit == Init => SpentInv
BY OnboardingAssumption DEF Init, SpentInv, SpentOnce, Preload, NoPreload

\* Who takes a live preload takes it first.
LEMMA DropSpends ==
  ASSUME TypeInv, SpentInv, NEW e \in Email, NEW id \in Preload, preload[e] = id,
         DropPreload(e, id), made' = made
  PROVE  SpentInv'
<1>1. id # NoPreload /\ spent[id] = 0
  BY OnboardingAssumption DEF SpentInv, Preload, NoPreload
<1>2. preload' = [preload EXCEPT ![e] = NoPreload] /\ spent' = [spent EXCEPT ![id] = 1]
  BY <1>1 DEF DropPreload, TypeInv, TypeOK
<1>3. id \in 1..made BY <1>1 DEF TypeInv, TypeOK
<1>4. \A i \in 1..made : i \in Preload
  BY OnboardingAssumption DEF TypeInv, TypeOK, Preload
<1>5. SpentOnce'
  BY <1>2, <1>4 DEF SpentInv, SpentOnce, TypeInv, TypeOK
<1>6. \A i \in Preload : i > made' => spent'[i] = 0
  BY <1>2, <1>3, OnboardingAssumption DEF SpentInv, TypeInv, TypeOK, Preload
<1>7. \A d \in Email : preload'[d] # NoPreload => preload'[d] = preload[d] /\ preload[d] # id
  BY <1>1, <1>2 DEF SpentInv, TypeInv, TypeOK
<1>8. \A d \in Email : preload'[d] # NoPreload => spent'[preload'[d]] = 0
  BY <1>2, <1>4, <1>7 DEF SpentInv, TypeInv, TypeOK
<1>9. \A d, f \in Email : preload'[d] = preload'[f] /\ preload'[d] # NoPreload => d = f
  BY <1>7 DEF SpentInv
<1>10. QED BY <1>5, <1>6, <1>8, <1>9 DEF SpentInv

\* A new preload has an id of its own.
LEMMA InsertSpends ==
  ASSUME TypeInv, SpentInv, NEW r \in Request, call[r].email \in Email, NEW rs,
         InsertPreload(r, rs), made + 1 \in Preload, spent' = spent
  PROVE  SpentInv'
<1> DEFINE e == call[r].email
<1>1. made' = made + 1 /\ preload' = [preload EXCEPT ![e] = made + 1]
  BY DEF InsertPreload
<1>2. made \in Nat /\ spent[made + 1] = 0
  BY OnboardingAssumption DEF SpentInv, TypeInv, TypeOK, Preload
<1>3. \A i \in 1..made' : i \in 1..made \/ i = made + 1 BY <1>1, <1>2
<1>4. SpentOnce' BY <1>2, <1>3 DEF SpentInv, SpentOnce
<1>5. \A i \in Preload : i > made' => spent'[i] = 0
  BY <1>1, <1>2, OnboardingAssumption DEF SpentInv, Preload
<1>6. \A d \in Email : preload'[d] = IF d = e THEN made + 1 ELSE preload[d]
  BY <1>1 DEF TypeInv, TypeOK
<1>7. \A d \in Email : preload[d] # made + 1
  BY <1>2 DEF TypeInv, TypeOK, NoPreload
<1>8. \A d \in Email : preload'[d] # NoPreload => spent'[preload'[d]] = 0
  BY <1>2, <1>6 DEF SpentInv
<1>9. \A d, f \in Email : preload'[d] = preload'[f] /\ preload'[d] # NoPreload => d = f
  BY <1>6, <1>7 DEF SpentInv
<1>10. QED BY <1>4, <1>5, <1>8, <1>9 DEF SpentInv

LEMMA SlotFree ==
  ASSUME TypeInv, NEW r \in Request, call[r].op \in {"preload", "prepare"}
  PROVE  made + 1 \in Preload
<1>1. r \in Creators BY DEF Creators
<1>2. IsFiniteSet(Creators) /\ Cardinality(Creators) \in Nat BY CountCreators
<1>3. Cardinality(Creators) # 0 BY <1>1, <1>2, FS_EmptySet
<1>4. QED BY <1>2, <1>3, OnboardingAssumption DEF TypeInv, TypeOK, SlotInv, Preload

LEMMA SpentStep == TypeInv /\ SpentInv /\ [Next]_vars => SpentInv'
<1> SUFFICES ASSUME TypeInv, SpentInv, [Next]_vars PROVE SpentInv'
  OBVIOUS
<1>1. ASSUME UNCHANGED <<made, preload, spent>> PROVE SpentInv'
  BY <1>1 DEF SpentInv, SpentOnce
<1>2. ASSUME NEW r \in Request, CreateUser(r) PROVE SpentInv'
  <2> DEFINE e == call[r].email
  <2>1. e \in Email /\ made' = made
    BY <1>2 DEF CreateUser, TypeInv, CallInv, Call
  <2>2. CASE Consumable(e, seen[r]) /\ seen[r] # NoPreload /\ DropPreload(e, seen[r])
    <3>1. preload[e] = seen[r] BY <2>2 DEF Consumable
    <3>2. seen[r] \in Preload
      BY <2>2, OnboardingAssumption DEF TypeInv, TypeOK, Preload
    <3>3. QED BY <2>1, <2>2, <3>1, <3>2, DropSpends
  <2>3. CASE UNCHANGED <<preload, spent>> BY <1>1, <2>1, <2>3
  <2>4. QED BY <1>2, <2>2, <2>3 DEF CreateUser
<1>3. ASSUME NEW e \in Email, CancelPreload(e) PROVE SpentInv'
  <2>1. preload[e] \in Preload
    BY <1>3, OnboardingAssumption DEF CancelPreload, TypeInv, TypeOK, Preload
  <2>2. QED BY <1>3, <2>1, DropSpends DEF CancelPreload
<1>4. ASSUME NEW r \in Request, CreatePreload(r) PROVE SpentInv'
  <2>1. call[r].email \in Email /\ call[r].op = "preload" /\ spent' = spent
    BY <1>4 DEF CreatePreload, TypeInv, CallInv, Call
  <2>2. made + 1 \in Preload BY <2>1, SlotFree
  <2>3. CASE InsertPreload(r, call[r].roles) BY <2>1, <2>2, <2>3, InsertSpends
  <2>4. CASE UNCHANGED <<made, preload, preloadRoles>> BY <1>1, <2>1, <2>4
  <2>5. QED BY <1>4, <2>3, <2>4 DEF CreatePreload
<1>5. ASSUME NEW r \in Request, Grant(r) PROVE SpentInv'
  <2>1. call[r].email \in Email /\ call[r].op = "prepare" /\ spent' = spent
    BY <1>5 DEF Grant, TypeInv, CallInv, Call, UnderLock
  <2>2. made + 1 \in Preload BY <2>1, SlotFree
  <2>3. CASE InsertPreload(r, {SYSTEM_ADMIN}) BY <2>1, <2>2, <2>3, InsertSpends
  <2>4. CASE UNCHANGED <<made, preload, preloadRoles, initial>> BY <1>1, <2>1, <2>4
  <2>5. QED BY <1>5, <2>3, <2>4 DEF Grant
<1>6. ASSUME NEW r \in Request,
             \/ FindUser(r) \/ FindPreload(r) \/ CheckUser(r) \/ CheckPreload(r) \/ Lock(r)
             \/ CountAdmins(r) \/ FindInitial(r) \/ FindAccount(r) \/ Abandon(r)
             \/ \E op \in {"login", "preload", "prepare"}, e \in Email : Arrive(r, op, e)
      PROVE  SpentInv'
  BY <1>1, <1>6
     DEF FindUser, FindPreload, CheckUser, CheckPreload, Lock, CountAdmins, FindInitial,
         FindAccount, Abandon, Arrive, preloadVars
<1>7. ASSUME NEW e \in Email, ChangeAccount(e) \/ ChangeRoles(e) PROVE SpentInv'
  BY <1>1, <1>7 DEF ChangeAccount, ChangeRoles, preloadVars
<1>8. CASE UNCHANGED vars BY <1>1, <1>8 DEF vars, preloadVars
<1>9. QED
  BY <1>2, <1>3, <1>4, <1>5, <1>6, <1>7, <1>8 DEF Next, ArriveAny, Serve

\* However logins, cancellations and bootstraps interleave, no preload gives
\* its roles twice, and none that was cancelled gives them at all.
THEOREM PreloadSpentOnce == Spec => []SpentOnce
<1>1. TypeInv /\ SpentInv /\ [Next]_vars => (TypeInv /\ SpentInv)'
  BY TypeStep, SpentStep
<1>2. SpentInv => SpentOnce BY DEF SpentInv
<1>3. QED BY TypeInit, SpentInit, <1>1, <1>2, PTL DEF Spec
-----------------------------------------------------------------------------
(* One initial administrator waits at a time.                              *)

LEMMA LockInit == Init => LockInv
BY DEF Init, LockInv, UnderLock, OneInitialPreload

\* A request that goes on to p or ends leaves the lock as it is, or frees it.
LEMMA PlaceLock ==
  ASSUME TypeInv, LockInv, NEW r \in Request, NEW p \in Place,
         pc' = [pc EXCEPT ![r] = p],
         p \in UnderLock => pc[r] \in UnderLock,
         p \in {"findAccount", "grant"} =>
           pc[r] \in {"findAccount", "grant"} \/ \A e \in Email : preload[e] \notin initial,
         UNCHANGED <<preload, preloadRoles, initial>>
  PROVE  LockInv'
<1>1. \A q \in Request : pc'[q] = IF q = r THEN p ELSE pc[q] BY DEF TypeInv, TypeOK
<1>2. \A q, s \in Request : pc'[q] \in UnderLock /\ pc'[s] \in UnderLock => q = s
  BY <1>1 DEF LockInv
<1>3. \A q \in Request : pc'[q] \in {"findAccount", "grant"} =>
        \A e \in Email : preload'[e] \notin initial'
  BY <1>1 DEF LockInv
<1>4. QED BY <1>2, <1>3 DEF LockInv, OneInitialPreload

\* A preload that goes away, or one of an administrator's, is not initial.
LEMMA PreloadLock ==
  ASSUME TypeInv, LockInv, UNCHANGED initial,
         \A q \in Request : pc'[q] \in UnderLock => pc'[q] = pc[q],
         \A id \in initial : preloadRoles'[id] = preloadRoles[id],
         \A e \in Email : preload'[e] = preload[e] \/ preload'[e] \notin initial
  PROVE  LockInv'
<1>1. \A q, s \in Request : pc'[q] \in UnderLock /\ pc'[s] \in UnderLock => q = s
  BY DEF LockInv
<1>2. \A q \in Request : pc'[q] \in {"findAccount", "grant"} =>
        \A e \in Email : preload'[e] \notin initial'
  BY DEF LockInv, UnderLock
<1>3. OneInitialPreload' BY DEF LockInv, OneInitialPreload
<1>4. QED BY <1>1, <1>2, <1>3 DEF LockInv

LEMMA LockStep == TypeInv /\ LockInv /\ [Next]_vars => LockInv'
<1> SUFFICES ASSUME TypeInv, LockInv, [Next]_vars PROVE LockInv'
  OBVIOUS
<1> USE DEF UnderLock
<1>1. ASSUME NEW r \in Request, NEW p \in Place \ UnderLock,
             pc' = [pc EXCEPT ![r] = p] \/ End(r), UNCHANGED preloadVars
      PROVE  LockInv'
  BY <1>1, PlaceLock DEF Place, End, preloadVars
<1>2. ASSUME NEW r \in Request,
             \/ FindUser(r) \/ FindPreload(r) \/ CheckUser(r) \/ CheckPreload(r) \/ Abandon(r)
      PROVE  LockInv'
  <2>1. UNCHANGED preloadVars
    BY <1>2 DEF FindUser, FindPreload, CheckUser, CheckPreload, Abandon, preloadVars
  <2>2. End(r) \/ \E p \in {"findPreload", "createUser", "checkPreload", "createPreload"} :
                    pc' = [pc EXCEPT ![r] = p]
    BY <1>2 DEF FindUser, FindPreload, CheckUser, CheckPreload, Abandon, GotoOrEnd, Goto
  <2>3. "idle" \in Place \ UnderLock
        /\ {"findPreload", "createUser", "checkPreload", "createPreload"}
             \subseteq Place \ UnderLock
    BY DEF Place
  <2>4. QED BY <1>1, <2>1, <2>2, <2>3
<1>3. ASSUME NEW r \in Request, NEW op \in {"login", "preload", "prepare"}, NEW e \in Email,
             Arrive(r, op, e)
      PROVE  LockInv'
  <2>1. \E p \in {"findUser", "checkUser", "lock"} : pc' = [pc EXCEPT ![r] = p]
    BY <1>3 DEF Arrive
  <2>2. UNCHANGED preloadVars BY <1>3 DEF Arrive
  <2>3. QED BY <1>1, <2>1, <2>2 DEF Place
<1>4. ASSUME NEW r \in Request, CreateUser(r) PROVE LockInv'
  <2>1. pc' = [pc EXCEPT ![r] = "idle"] /\ UNCHANGED <<preloadRoles, initial>>
    BY <1>4 DEF CreateUser, End
  <2>2. \A e \in Email : preload'[e] = preload[e] \/ preload'[e] = NoPreload
    BY <1>4 DEF CreateUser, DropPreload, TypeInv, TypeOK
  <2>3. NoPreload \notin initial BY DEF TypeInv, TypeOK, NoPreload
  <2>4. QED BY <2>1, <2>2, <2>3, PreloadLock DEF TypeInv, TypeOK
<1>5. ASSUME NEW e \in Email, CancelPreload(e) PROVE LockInv'
  <2>1. UNCHANGED <<pc, preloadRoles, initial>> BY <1>5 DEF CancelPreload, requestVars
  <2>2. \A d \in Email : preload'[d] = preload[d] \/ preload'[d] = NoPreload
    BY <1>5 DEF CancelPreload, DropPreload, TypeInv, TypeOK
  <2>3. NoPreload \notin initial BY DEF TypeInv, TypeOK, NoPreload
  <2>4. QED BY <2>1, <2>2, <2>3, PreloadLock
<1>6. ASSUME NEW r \in Request, CreatePreload(r) PROVE LockInv'
  <2>1. /\ pc' = [pc EXCEPT ![r] = "idle"] /\ UNCHANGED initial
        /\ call[r].op = "preload" /\ call[r].email \in Email
    BY <1>6 DEF CreatePreload, End, TypeInv, CallInv, Call
  <2>2. CASE InsertPreload(r, call[r].roles)
    <3>1. made + 1 \notin initial /\ made + 1 \in Preload
      <4>1. made + 1 \in Preload BY <2>1, SlotFree
      <4>2. initial \subseteq 1..made /\ made \in Nat
        BY OnboardingAssumption DEF TypeInv, TypeOK
      <4>3. QED BY <4>1, <4>2
    <3>2. \A id \in initial : id \in Preload /\ preloadRoles'[id] = preloadRoles[id]
      BY <2>2, <3>1, OnboardingAssumption DEF InsertPreload, TypeInv, TypeOK, Preload
    <3>3. \A e \in Email : preload'[e] = preload[e] \/ preload'[e] = made + 1
      BY <2>2 DEF InsertPreload, TypeInv, TypeOK
    <3>4. QED BY <2>1, <3>1, <3>2, <3>3, PreloadLock DEF TypeInv, TypeOK
  <2>3. CASE UNCHANGED <<made, preload, preloadRoles>>
    BY <2>1, <2>3, PreloadLock DEF TypeInv, TypeOK
  <2>4. QED BY <1>6, <2>2, <2>3 DEF CreatePreload
<1>7. ASSUME NEW r \in Request, Lock(r) PROVE LockInv'
  <2>1. /\ \A q \in Request : pc[q] \notin UnderLock
        /\ pc' = [pc EXCEPT ![r] = "countAdmins"]
        /\ UNCHANGED <<preload, preloadRoles, initial>>
    BY <1>7 DEF Lock, LockFree, Goto, preloadVars
  <2>2. QED BY <2>1 DEF LockInv, OneInitialPreload, TypeInv, TypeOK
<1>8. ASSUME NEW r \in Request, CountAdmins(r) PROVE LockInv'
  <2>1. CASE Goto(r, "findInitial")
    BY <1>8, <2>1, PlaceLock DEF CountAdmins, Goto, Place, preloadVars
  <2>2. CASE End(r) BY <1>1, <1>8, <2>2 DEF CountAdmins, Place
  <2>3. QED BY <1>8, <2>1, <2>2 DEF CountAdmins, GotoOrEnd
<1>9. ASSUME NEW r \in Request, FindInitial(r) PROVE LockInv'
  <2>1. CASE Goto(r, "findAccount") /\ AdminPreloads = {}
    <3>1. \A e \in Email : preload[e] \notin initial
      BY <2>1 DEF AdminPreloads, LockInv, TypeInv, TypeOK, NoPreload
    <3>2. QED BY <1>9, <2>1, <3>1, PlaceLock DEF FindInitial, Goto, Place, preloadVars
  <2>2. CASE End(r) BY <1>1, <1>9, <2>2 DEF FindInitial, Place
  <2>3. QED BY <1>9, <2>1, <2>2 DEF FindInitial, GotoOrEnd
<1>10. ASSUME NEW r \in Request, FindAccount(r) PROVE LockInv'
  <2>1. CASE Goto(r, "grant")
    BY <1>10, <2>1, PlaceLock DEF FindAccount, Goto, Place, preloadVars
  <2>2. CASE End(r) BY <1>1, <1>10, <2>2 DEF FindAccount, Place
  <2>3. QED BY <1>10, <2>1, <2>2 DEF FindAccount
<1>11. ASSUME NEW r \in Request, Grant(r) PROVE LockInv'
  <2>1. /\ pc[r] = "grant" /\ pc' = [pc EXCEPT ![r] = "idle"]
        /\ call[r].email \in Email /\ call[r].op = "prepare"
    BY <1>11 DEF Grant, End, TypeInv, CallInv, Call
  <2>2. CASE InsertPreload(r, {SYSTEM_ADMIN}) /\ initial' = initial \cup {made'}
    <3>1. made + 1 \in Preload BY <2>1, SlotFree
    <3>2. made' = made + 1 /\ preload' = [preload EXCEPT ![call[r].email] = made + 1]
          /\ preloadRoles' = [preloadRoles EXCEPT ![made + 1] = {SYSTEM_ADMIN}]
      BY <2>2 DEF InsertPreload
    <3>3. \A q \in Request : pc'[q] \notin UnderLock
      BY <2>1 DEF LockInv, TypeInv, TypeOK
    <3>4. \A e \in Email : preload[e] \notin initial BY <2>1 DEF LockInv
    <3>5. \A e \in Email : preload[e] # made + 1
      BY OnboardingAssumption DEF TypeInv, TypeOK, NoPreload
    <3>6. \A e \in Email : preload'[e] \in initial' => e = call[r].email
      BY <2>2, <3>2, <3>4, <3>5 DEF TypeInv, TypeOK
    <3>7. \A id \in initial : id \in Preload
      BY OnboardingAssumption DEF TypeInv, TypeOK, Preload
    <3>8. \A id \in initial' : SYSTEM_ADMIN \in preloadRoles'[id]
      BY <2>2, <3>1, <3>2, <3>7 DEF LockInv, TypeInv, TypeOK
    <3>9. QED BY <3>3, <3>6, <3>8 DEF LockInv, OneInitialPreload
  <2>3. CASE UNCHANGED <<made, preload, preloadRoles, initial>>
    BY <2>1, <2>3, PlaceLock DEF Place
  <2>4. QED BY <1>11, <2>2, <2>3 DEF Grant
<1>12. ASSUME NEW e \in Email, ChangeAccount(e) \/ ChangeRoles(e) PROVE LockInv'
  BY <1>12, PreloadLock DEF ChangeAccount, ChangeRoles, preloadVars, requestVars
<1>13. CASE UNCHANGED vars
  BY <1>13, PreloadLock DEF vars, preloadVars, requestVars
<1>14. QED
  BY <1>2, <1>3, <1>4, <1>5, <1>6, <1>7, <1>8, <1>9, <1>10, <1>11, <1>12, <1>13
     DEF Next, ArriveAny, Serve

\* However many replicas bootstrap at once, with whatever emails and among
\* whatever logins, one initial administrator at most is waiting to log in.
THEOREM OneInitialAdministrator == Spec => []OneInitialPreload
<1>1. TypeInv /\ LockInv /\ [Next]_vars => (TypeInv /\ LockInv)'
  BY TypeStep, LockStep
<1>2. LockInv => OneInitialPreload BY DEF LockInv
<1>3. QED BY TypeInit, LockInit, <1>1, <1>2, PTL DEF Spec

-----------------------------------------------------------------------------
(* A new account has the roles of the preload it consumes.                 *)

Born ==
  \A e \in Email :
    account[e] = "none" /\ account'[e] # "none" /\ roles'[e] # {}
      => preload[e] # NoPreload /\ roles'[e] = preloadRoles[preload[e]]

LEMMA BornStep == TypeInv /\ [Next]_vars => [Born]_vars
<1> SUFFICES ASSUME TypeInv, Next PROVE Born
  OBVIOUS
<1>1. ASSUME UNCHANGED account PROVE Born BY <1>1 DEF Born
<1>2. ASSUME NEW r \in Request, CreateUser(r) PROVE Born
  <2> DEFINE d == call[r].email
             id == seen[r]
  <2>1. CASE /\ Consumable(d, id)
             /\ account' = [account EXCEPT ![d] = "active"]
             /\ roles' = [roles EXCEPT ![d] = IF id = NoPreload THEN {} ELSE preloadRoles[id]]
    <3>1. \A e \in Email : account[e] = "none" /\ account'[e] # "none" => e = d
      BY <2>1 DEF TypeInv, TypeOK
    <3>2. d \in Email => roles'[d] = IF id = NoPreload THEN {} ELSE preloadRoles[id]
      BY <2>1 DEF TypeInv, TypeOK
    <3>3. QED BY <2>1, <3>1, <3>2 DEF Born, Consumable
  <2>2. CASE UNCHANGED accountVars BY <1>1, <2>2 DEF accountVars
  <2>3. QED BY <1>2, <2>1, <2>2 DEF CreateUser
<1>3. ASSUME NEW d \in Email, ChangeAccount(d) PROVE Born
  BY <1>3 DEF ChangeAccount, Born, TypeInv, TypeOK
<1>4. QED
  BY <1>1, <1>2, <1>3
     DEF Next, ArriveAny, Serve, Arrive, FindUser, FindPreload, CheckUser, CheckPreload,
         CreatePreload, Lock, CountAdmins, FindInitial, FindAccount, Grant, Abandon,
         CancelPreload, ChangeRoles, accountVars

\* Whatever was read before, an account is born with no roles other than
\* those of the preload its email has when it is created.
THEOREM RolesComeFromThePreload == Spec => BornWithItsPreload
<1>1. TypeInv /\ [Next]_vars => TypeInv' /\ [Born]_vars BY TypeStep, BornStep
<1>2. QED BY TypeInit, <1>1, PTL DEF Spec, BornWithItsPreload, Born
=============================================================================
