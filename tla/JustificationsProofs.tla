------------------------ MODULE JustificationsProofs ------------------------
(***************************************************************************)
(* Proofs about Justifications, for any number of responses, submissions   *)
(* and concurrent requests.                                                *)
(***************************************************************************)
EXTENDS Justifications, SequenceTheorems, TLAPS

Own(l, v) == l \in {NoOne, EmailOf[v]}

\* A request that carries a student carries the one of its content, and one
\* that opens an entry opens one there is.
LinkInv ==
  /\ OwnStudent
  /\ \A q \in Request : pc[q] \in {"upsert", "create"} => Own(link[q], version[q])
  /\ \A q \in Request : pc[q] \in {"open", "match", "create"} => inbox[about[q]] # "none"

\* The history and the inbox follow the status of the case.
StoryInv == HistoryIsTheStory /\ ReadIffOpened

Informing(q) == pc[q] \in {"contacts", "mail"}

\* One request at most informs about a case: the one that decided it.  It
\* messages only for recipients it has not tried.
MailInv ==
  /\ \A q, r \in Request : Informing(q) /\ Informing(r) /\ about[q] = about[r] => q = r
  /\ \A q \in Request : Informing(q) =>
       status[about[q]] = verdict[q] /\ version[q] = caseVersion[about[q]]
  /\ \A q \in Request : pc[q] = "contacts" => tried[about[q]] = Nobody
  /\ \A q \in Request : pc[q] = "mail" =>
       \A r \in Recipient :
         /\ toMail[q][r] > 0 => r \in Recipients(version[q], verdict[q])
         /\ toMail[q][r] + tried[about[q]][r] <= 1
  /\ \A x \in Response : status[x] \in {"none", "PENDING"} => tried[x] = Nobody
  /\ \A x \in Response, r \in Recipient, d \in Decision :
       mails[x][<<r, d>>] <= tried[x][r]
  /\ MailsTellTheDecision

JInv == TypeOK /\ LinkInv /\ StoryInv /\ MailInv

LEMMA SomeOf == ASSUME NEW S, S # {} PROVE AnyOf(S) \in S
BY DEF AnyOf

LEMMA Stories ==
  /\ <<>> \in Story /\ <<"PENDING">> \in Story
  /\ \A d \in Decision : <<"PENDING", d>> \in Story
  /\ Append(<<>>, "PENDING") = <<"PENDING">>
  /\ \A d \in Decision : Append(<<"PENDING">>, d) = <<"PENDING", d>>
<1>1. <<>> \in [1..0 -> {"PENDING"} \cup Decision] OBVIOUS
<1>2. <<"PENDING">> \in [1..1 -> {"PENDING"} \cup Decision] OBVIOUS
<1>3. \A d \in Decision : <<"PENDING", d>> \in [1..2 -> {"PENDING"} \cup Decision]
  OBVIOUS
<1>4. 0 \in 0..2 /\ 1 \in 0..2 /\ 2 \in 0..2 OBVIOUS
<1>5. \A n \in 0..2 : [1..n -> {"PENDING"} \cup Decision] \subseteq Story
  BY DEF Story
<1>6. <<>> \in Story /\ <<"PENDING">> \in Story BY <1>1, <1>2, <1>4, <1>5
<1>7. \A d \in Decision : <<"PENDING", d>> \in Story BY <1>3, <1>4, <1>5
<1>8. Append(<<>>, "PENDING") = <<"PENDING">> OBVIOUS
<1>9. ASSUME NEW d \in Decision PROVE Append(<<"PENDING">>, d) = <<"PENDING", d>>
  <2> DEFINE T == {"PENDING"} \cup Decision
  <2>1. <<"PENDING">> \in Seq(T) /\ Len(<<"PENDING">>) = 1 OBVIOUS
  <2>2. /\ Append(<<"PENDING">>, d) \in Seq(T) /\ Len(Append(<<"PENDING">>, d)) = 2
        /\ Append(<<"PENDING">>, d)[1] = "PENDING" /\ Append(<<"PENDING">>, d)[2] = d
    BY <2>1
  <2>3. /\ <<"PENDING", d>> \in Seq(T) /\ Len(<<"PENDING", d>>) = 2
        /\ <<"PENDING", d>>[1] = "PENDING" /\ <<"PENDING", d>>[2] = d
    OBVIOUS
  <2>4. \A i \in 1..2 : Append(<<"PENDING">>, d)[i] = <<"PENDING", d>>[i] BY <2>2, <2>3
  <2>5. QED BY <2>2, <2>3, <2>4, SeqEqual
<1>10. QED BY <1>6, <1>7, <1>8, <1>9

LEMMA NobodyTyped == Nobody \in Tally(Recipient) /\ \A r \in Recipient : Nobody[r] = 0
BY DEF Nobody, Tally

\* One more and one less of something counted.
LEMMA TallyUp ==
  ASSUME NEW S, NEW f \in Tally(S), NEW e \in S
  PROVE  [f EXCEPT ![e] = @ + 1] \in Tally(S) /\ f[e] \in Nat
BY DEF Tally

LEMMA TallyDown ==
  ASSUME NEW S, NEW f \in Tally(S), NEW e \in S, f[e] > 0
  PROVE  [f EXCEPT ![e] = @ - 1] \in Tally(S)
BY DEF Tally

LEMMA Counts ==
  ASSUME TypeOK
  PROVE  /\ \A x \in Response, r \in Recipient : tried[x][r] \in Nat
         /\ \A q \in Request, r \in Recipient : toMail[q][r] \in Nat
         /\ \A x \in Response, r \in Recipient, d \in Decision :
              mails[x][<<r, d>>] \in Nat
<1>1. \A r \in Recipient, d \in Decision : <<r, d>> \in Recipient \X Decision
  OBVIOUS
<1>2. QED BY <1>1 DEF TypeOK, Tally

LEMMA MessagesTyped ==
  ASSUME NEW v, NEW d
  PROVE  /\ Messages(v, d) \in Tally(Recipient)
         /\ \A r \in Recipient : Messages(v, d)[r] \in {0, 1}
         /\ \A r \in Recipient : Messages(v, d)[r] > 0 => r \in Recipients(v, d)
BY DEF Messages, Tally

LEMMA JInit == Init => JInv
<1> SUFFICES ASSUME Init PROVE JInv OBVIOUS
<1> USE JustificationsAssumption
<1>1. AnyOf(Response) \in Response /\ AnyOf(Version) \in Version
  BY SomeOf
<1>2. TypeOK
  <2>1. inbox \in [Response -> {"none", "UNREAD", "READ"}]
        /\ inboxVersion \in [Response -> Version]
        /\ inboxStudent \in [Response -> Email \cup {NoOne}]
        /\ status \in [Response -> {"none", "PENDING"} \cup Decision]
        /\ caseVersion \in [Response -> Version]
        /\ caseStudent \in [Response -> Email \cup {NoOne}]
    BY <1>1 DEF Init
  <2>2. history \in [Response -> Story] BY Stories DEF Init
  <2>3. mails \in [Response -> Tally(Recipient \X Decision)]
        /\ tried \in [Response -> Tally(Recipient)]
    BY NobodyTyped DEF Init, Tally
  <2>4. pc \in [Request -> Place] /\ about \in [Request -> Response]
        /\ version \in [Request -> Version]
        /\ link \in [Request -> Email \cup {NoOne}]
        /\ verdict \in [Request -> Decision]
        /\ toMail \in [Request -> Tally(Recipient)]
    BY <1>1, NobodyTyped DEF Init, Place, Decision
  <2>5. students \in SUBSET Email /\ faults \in 0..MaxFaults BY DEF Init
  <2>6. QED BY <2>1, <2>2, <2>3, <2>4, <2>5 DEF TypeOK
<1>3. LinkInv BY <1>1 DEF Init, LinkInv, OwnStudent, Own
<1>4. StoryInv BY DEF Init, StoryInv, HistoryIsTheStory, ReadIffOpened
<1>5. MailInv
  BY NobodyTyped DEF Init, MailInv, Informing, MailsTellTheDecision
<1>6. QED BY <1>2, <1>3, <1>4, <1>5 DEF JInv

-----------------------------------------------------------------------------
(* Every step preserves the invariant, one part at a time.                 *)

LEMMA TypeStep == ASSUME TypeOK, StoryInv, Next PROVE TypeOK'
<1> USE JustificationsAssumption, SomeOf DEF TypeOK
<1>1. ASSUME NEW q \in Request, End(q)
      PROVE  /\ pc' \in [Request -> Place] /\ about' \in [Request -> Response]
             /\ version' \in [Request -> Version]
             /\ link' \in [Request -> Email \cup {NoOne}]
             /\ verdict' \in [Request -> Decision]
             /\ toMail' \in [Request -> Tally(Recipient)]
  BY <1>1, NobodyTyped DEF End, Place, Decision
<1>2. ASSUME NEW e \in Email, Register(e) PROVE TypeOK'
  BY <1>2 DEF Register, inboxVars, caseVars, mailVars, requestVars
<1> SUFFICES ASSUME NEW q \in Request,
                    \/ \E x \in Response, v \in Version : Submit(q, x, v)
                    \/ \E x \in Response : AskOpen(q, x)
                    \/ \E x \in Response, d \in Decision : AskDecision(q, x, d)
                    \/ Serve(q) \/ Abandon(q)
             PROVE TypeOK'
  BY <1>2 DEF Next
<1>3. ASSUME NEW x \in Response, NEW v \in Version, Submit(q, x, v) PROVE TypeOK'
  BY <1>3 DEF Submit, Goto, Place, inboxVars, caseVars, mailVars
<1>4. CASE Receive(q)
  BY <1>1, <1>4 DEF Receive, Goto, Place, StudentOf, inboxVars, caseVars, mailVars
<1>5. CASE Upsert(q)
  BY <1>1, <1>5 DEF Upsert, UpsertedStatus, caseVars, mailVars
<1>6. ASSUME NEW x \in Response, AskOpen(q, x) PROVE TypeOK'
  BY <1>6 DEF AskOpen, Goto, Place, inboxVars, caseVars, mailVars
<1>7. CASE Open(q)
  <2>1. CASE End(q) BY <1>1, <1>7, <2>1 DEF Open, inboxVars, caseVars, mailVars
  <2>2. CASE ~End(q)
    <3>1. /\ pc' = [pc EXCEPT ![q] = IF inboxStudent[about[q]] = NoOne
                                    THEN "match" ELSE "create"]
          /\ version' = [version EXCEPT ![q] = inboxVersion[about[q]]]
          /\ link' = [link EXCEPT ![q] = inboxStudent[about[q]]]
          /\ UNCHANGED <<about, verdict, toMail>>
      BY <1>7, <2>2 DEF Open, Goto
    <3>2. pc' \in [Request -> Place] BY <3>1 DEF Place
    <3>3. QED BY <1>7, <3>1, <3>2 DEF Open, inboxVars, caseVars, mailVars
  <2>3. QED BY <2>1, <2>2
<1>8. CASE Match(q)
  BY <1>8 DEF Match, MatchedEmail, StudentOf, Goto, Place, inboxVars, caseVars, mailVars
<1>9. CASE Create(q)
  <2> DEFINE x == about[q]
  <2>1. status[x] = "none" => history[x] = <<>>
    BY DEF StoryInv, HistoryIsTheStory
  <2>2. CASE SourceTaken(x)
    BY <1>1, <1>9, <2>2 DEF Create, inboxVars, caseVars, mailVars
  <2>3. CASE ~SourceTaken(x)
    <3>1. /\ status' = [status EXCEPT ![x] = "PENDING"]
          /\ caseVersion' = [caseVersion EXCEPT ![x] = version[q]]
          /\ caseStudent' = [caseStudent EXCEPT ![x] = link[q]]
          /\ history' = [history EXCEPT ![x] = <<"PENDING">>]
          /\ inbox' = [inbox EXCEPT ![x] = "READ"]
          /\ inboxStudent' = [inboxStudent EXCEPT ![x] = link[q]]
          /\ UNCHANGED <<inboxVersion, students, mailVars, faults>>
      BY <1>9, <2>1, <2>3, Stories DEF Create, SourceTaken
    <3>2. history' \in [Response -> Story] BY <3>1, Stories
    <3>3. status' \in [Response -> {"none", "PENDING"} \cup Decision] BY <3>1
    <3>4. inbox' \in [Response -> {"none", "UNREAD", "READ"}] BY <3>1
    <3>5. /\ caseVersion' \in [Response -> Version]
          /\ caseStudent' \in [Response -> Email \cup {NoOne}]
          /\ inboxStudent' \in [Response -> Email \cup {NoOne}]
      BY <3>1
    <3>6. QED BY <1>1, <1>9, <3>1, <3>2, <3>3, <3>4, <3>5 DEF Create, mailVars
  <2>4. QED BY <2>2, <2>3
<1>10. ASSUME NEW x \in Response, NEW d \in Decision, AskDecision(q, x, d) PROVE TypeOK'
  BY <1>10 DEF AskDecision, Goto, Place, inboxVars, caseVars, mailVars
<1>11. CASE Check(q)
  BY <1>1, <1>11 DEF Check, Goto, Place, inboxVars, caseVars, mailVars
<1>12. CASE Decide(q)
  <2> DEFINE x == about[q]
  <2>1. CASE Undecided(x)
    <3>1. history[x] = <<"PENDING">>
      BY <2>1 DEF Undecided, StoryInv, HistoryIsTheStory
    <3>2. history' = [history EXCEPT ![x] = <<"PENDING", verdict[q]>>]
      BY <1>12, <2>1, <3>1, Stories DEF Decide
    <3>3. history' \in [Response -> Story] BY <3>2, Stories
    <3>4. /\ status' = [status EXCEPT ![x] = verdict[q]]
          /\ pc' = [pc EXCEPT ![q] = "contacts"]
          /\ version' = [version EXCEPT ![q] = caseVersion[x]]
          /\ UNCHANGED <<caseVersion, caseStudent, about, link, verdict, toMail>>
          /\ UNCHANGED <<students, inboxVars, mailVars, faults>>
      BY <1>12, <2>1 DEF Decide, Goto
    <3>5. pc' \in [Request -> Place] BY <3>4 DEF Place
    <3>6. status' \in [Response -> {"none", "PENDING"} \cup Decision] BY <3>4
    <3>7. QED BY <3>3, <3>4, <3>5, <3>6 DEF inboxVars, mailVars
  <2>2. CASE ~Undecided(x)
    BY <1>1, <1>12, <2>2 DEF Decide, inboxVars, caseVars, mailVars
  <2>3. QED BY <2>1, <2>2
<1>13. CASE Contacts(q)
  BY <1>13, MessagesTyped DEF Contacts, Goto, Place, inboxVars, caseVars, mailVars
<1>14. CASE Mail(q)
  <2> PICK r \in Recipient, sent \in BOOLEAN :
        /\ toMail[q][r] > 0
        /\ toMail' = [toMail EXCEPT ![q] = [toMail[q] EXCEPT ![r] = @ - 1]]
        /\ tried' = [tried EXCEPT ![about[q]][r] = @ + 1]
        /\ mails' = IF sent THEN [mails EXCEPT ![about[q]][<<r, verdict[q]>>] = @ + 1]
                     ELSE mails
    BY <1>14 DEF Mail, StillToMail
  <2> DEFINE x == about[q]
             m == <<r, verdict[q]>>
  <2>1. x \in Response /\ m \in Recipient \X Decision OBVIOUS
  <2>2. mails' \in [Response -> Tally(Recipient \X Decision)]
    <3>1. [mails[x] EXCEPT ![m] = @ + 1] \in Tally(Recipient \X Decision)
      BY <2>1, TallyUp
    <3>2. QED BY <2>1, <3>1
  <2>3. tried' \in [Response -> Tally(Recipient)]
    <3>1. [tried[x] EXCEPT ![r] = @ + 1] \in Tally(Recipient) BY <2>1, TallyUp
    <3>2. QED BY <2>1, <3>1
  <2>4. toMail' \in [Request -> Tally(Recipient)]
    <3>1. [toMail[q] EXCEPT ![r] = @ - 1] \in Tally(Recipient) BY TallyDown
    <3>2. QED BY <3>1
  <2>5. QED BY <1>14, <2>2, <2>3, <2>4 DEF Mail, inboxVars, caseVars
<1>15. CASE Respond(q)
  BY <1>1, <1>15 DEF Respond, inboxVars, caseVars, mailVars
<1>16. CASE Abandon(q)
  <2>1. faults' \in 0..MaxFaults
    <3>1. faults \in 0..MaxFaults /\ MaxFaults \in Nat OBVIOUS
    <3>2. faults < MaxFaults /\ faults' = faults + 1 BY <1>16 DEF Abandon
    <3>3. QED BY ONLY <3>1, <3>2
  <2>2. End(q) /\ UNCHANGED <<students, inboxVars, caseVars, mailVars>>
    BY <1>16 DEF Abandon
  <2>3. QED BY <1>1, <2>1, <2>2 DEF inboxVars, caseVars, mailVars
<1>17. QED
  BY <1>3, <1>4, <1>5, <1>6, <1>7, <1>8, <1>9, <1>10, <1>11, <1>12, <1>13, <1>14,
     <1>15, <1>16 DEF Serve

LEMMA LinkStep == ASSUME TypeOK, StoryInv, LinkInv, Next PROVE LinkInv'
<1> USE DEF TypeOK, LinkInv, OwnStudent, Own
<1>1. ASSUME NEW e \in Email, Register(e) PROVE LinkInv'
  BY <1>1 DEF Register, inboxVars, caseVars, mailVars, requestVars
<1> SUFFICES ASSUME NEW q \in Request,
                    \/ \E x \in Response, v \in Version : Submit(q, x, v)
                    \/ \E x \in Response : AskOpen(q, x)
                    \/ \E x \in Response, d \in Decision : AskDecision(q, x, d)
                    \/ Serve(q) \/ Abandon(q)
             PROVE LinkInv'
  BY <1>1 DEF Next
<1>2. ASSUME End(q), UNCHANGED <<inboxVars, caseVars>> PROVE LinkInv'
  BY <1>2 DEF End, inboxVars, caseVars
<1>3. ASSUME NEW x \in Response, NEW v \in Version, Submit(q, x, v) PROVE LinkInv'
  BY <1>3 DEF Submit, Goto, inboxVars, caseVars
<1>4. CASE Receive(q)
  BY <1>2, <1>4 DEF Receive, Goto, StudentOf, inboxVars, caseVars
<1>5. CASE Upsert(q)
  <2> DEFINE x == about[q]
  <2>1. /\ inbox' = [inbox EXCEPT ![x] = UpsertedStatus(x)]
        /\ inboxVersion' = [inboxVersion EXCEPT ![x] = version[q]]
        /\ inboxStudent' = [inboxStudent EXCEPT ![x] = link[q]]
        /\ pc[q] = "upsert" /\ End(q) /\ UNCHANGED caseVars
    BY <1>5 DEF Upsert
  <2>2. Own(link[q], version[q]) BY <2>1
  <2>3. OwnStudent' BY <2>1, <2>2 DEF caseVars
  <2>4. \A r \in Request : pc'[r] \in {"open", "match", "create"} =>
          r # q /\ inbox'[about'[r]] # "none"
    BY <2>1 DEF End, UpsertedStatus
  <2>5. QED BY <2>1, <2>3, <2>4 DEF End
<1>6. ASSUME NEW x \in Response, AskOpen(q, x) PROVE LinkInv'
  BY <1>6 DEF AskOpen, Goto, inboxVars, caseVars
<1>7. CASE Open(q)
  BY <1>2, <1>7 DEF Open, Goto, inboxVars, caseVars
<1>8. CASE Match(q)
  BY <1>8 DEF Match, MatchedEmail, StudentOf, Goto, inboxVars, caseVars
<1>9. CASE Create(q)
  <2>1. CASE SourceTaken(about[q]) BY <1>2, <1>9, <2>1 DEF Create
  <2>2. CASE ~SourceTaken(about[q])
    <3> DEFINE x == about[q]
    <3>1. /\ caseVersion' = [caseVersion EXCEPT ![x] = version[q]]
          /\ caseStudent' = [caseStudent EXCEPT ![x] = link[q]]
          /\ inbox' = [inbox EXCEPT ![x] = "READ"]
          /\ inboxStudent' = [inboxStudent EXCEPT ![x] = link[q]]
          /\ UNCHANGED inboxVersion /\ pc[q] = "create" /\ End(q)
      BY <1>9, <2>2 DEF Create
    <3>2. Own(link[q], version[q]) BY <3>1
    <3>3. OwnStudent' BY <3>1, <3>2
    <3>4. \A r \in Request : pc'[r] \in {"open", "match", "create"} =>
            inbox'[about'[r]] # "none"
      BY <3>1 DEF End
    <3>5. QED BY <3>1, <3>3, <3>4 DEF End
  <2>3. QED BY <2>1, <2>2
<1>10. ASSUME NEW x \in Response, NEW d \in Decision, AskDecision(q, x, d) PROVE LinkInv'
  BY <1>10 DEF AskDecision, Goto, inboxVars, caseVars
<1>11. CASE Check(q)
  BY <1>2, <1>11 DEF Check, Goto, inboxVars, caseVars
<1>12. CASE Decide(q)
  BY <1>2, <1>12 DEF Decide, Goto, inboxVars, caseVars
<1>13. CASE Contacts(q)
  BY <1>13 DEF Contacts, Goto, inboxVars, caseVars
<1>14. CASE Mail(q)
  BY <1>14 DEF Mail, inboxVars, caseVars
<1>15. CASE Respond(q)
  BY <1>2, <1>15 DEF Respond
<1>16. CASE Abandon(q)
  BY <1>2, <1>16 DEF Abandon
<1>17. QED
  BY <1>3, <1>4, <1>5, <1>6, <1>7, <1>8, <1>9, <1>10, <1>11, <1>12, <1>13, <1>14,
     <1>15, <1>16 DEF Serve

LEMMA StoryStep == ASSUME TypeOK, StoryInv, Next PROVE StoryInv'
<1> USE DEF TypeOK, StoryInv, HistoryIsTheStory, ReadIffOpened
<1>1. ASSUME UNCHANGED <<inbox, status, history>> PROVE StoryInv'
  BY <1>1
<1> SUFFICES ASSUME NEW q \in Request, Upsert(q) \/ Create(q) \/ Decide(q)
             PROVE StoryInv'
  BY <1>1 DEF Next, Serve, Register, Submit, Receive, AskOpen, Open, Match,
     AskDecision, Check, Contacts, Mail, Respond, Abandon, inboxVars, caseVars
<1> DEFINE x == about[q]
<1>2. CASE Upsert(q)
  BY <1>2 DEF Upsert, UpsertedStatus, caseVars
<1>3. CASE Create(q)
  <2>1. CASE SourceTaken(x)
    BY <1>1, <1>3, <2>1 DEF Create, inboxVars, caseVars
  <2>2. CASE ~SourceTaken(x)
    <3>1. /\ status' = [status EXCEPT ![x] = "PENDING"]
          /\ history' = [history EXCEPT ![x] = <<"PENDING">>]
          /\ inbox' = [inbox EXCEPT ![x] = "READ"]
      BY <1>3, <2>2, Stories DEF Create, SourceTaken
    <3>2. QED BY <3>1
  <2>3. QED BY <2>1, <2>2
<1>4. CASE Decide(q)
  <2>1. CASE ~Undecided(x)
    BY <1>1, <1>4, <2>1 DEF Decide, inboxVars, caseVars
  <2>2. CASE Undecided(x)
    <3>1. history[x] = <<"PENDING">> BY <2>2 DEF Undecided
    <3>2. /\ status' = [status EXCEPT ![x] = verdict[q]]
          /\ history' = [history EXCEPT ![x] = <<"PENDING", verdict[q]>>]
          /\ UNCHANGED inbox
      BY <1>4, <2>2, <3>1, Stories DEF Decide, inboxVars
    <3>3. verdict[q] \in Decision OBVIOUS
    <3>4. verdict[q] # "none" /\ verdict[q] # "PENDING" BY <3>3 DEF Decision
    <3>5. status[x] = "PENDING" BY <2>2 DEF Undecided
    <3>6. HistoryIsTheStory' BY <3>2, <3>4
    <3>7. ReadIffOpened' BY <3>2, <3>4, <3>5
    <3>8. QED BY <3>6, <3>7
  <2>3. QED BY <2>1, <2>2
<1>5. QED BY <1>2, <1>3, <1>4

\* Only Create, Decide, Contacts and Mail matter to what is mailed; the other
\* steps leave the cases and the mails alone and start no information.
LEMMA MailStep == ASSUME TypeOK, StoryInv, MailInv, Next PROVE MailInv'
<1>0. /\ \A y \in Response, r \in Recipient : tried[y][r] \in Nat
      /\ \A q \in Request, r \in Recipient : toMail[q][r] \in Nat
      /\ \A y \in Response, r \in Recipient, d \in Decision :
           mails[y][<<r, d>>] \in Nat
  BY Counts
<1> USE DEF TypeOK, MailInv, Informing, MailsTellTheDecision
<1> DEFINE Quiet(q) ==
      /\ UNCHANGED <<caseVars, mailVars>>
      /\ \A r \in Request : r # q =>
           /\ pc'[r] = pc[r] /\ about'[r] = about[r] /\ version'[r] = version[r]
           /\ verdict'[r] = verdict[r] /\ toMail'[r] = toMail[r]
      /\ ~ Informing(q)'
<1>1. ASSUME NEW q \in Request, Quiet(q) PROVE MailInv'
  <2>1. UNCHANGED <<status, caseVersion, mails, tried>>
    BY <1>1 DEF caseVars, mailVars
  <2>2. \A r \in Request : Informing(r)' =>
          /\ Informing(r) /\ UNCHANGED <<pc[r], about[r], version[r]>>
          /\ UNCHANGED <<verdict[r], toMail[r]>>
    BY <1>1
  <2>3. QED BY <2>1, <2>2
<1>2. ASSUME NEW e \in Email, Register(e) PROVE MailInv'
  BY <1>2 DEF Register, caseVars, mailVars, requestVars
<1> SUFFICES ASSUME NEW q \in Request,
                    \/ \E x \in Response, v \in Version : Submit(q, x, v)
                    \/ \E x \in Response : AskOpen(q, x)
                    \/ \E x \in Response, d \in Decision : AskDecision(q, x, d)
                    \/ Serve(q) \/ Abandon(q)
             PROVE MailInv'
  BY <1>2 DEF Next
<1> DEFINE x == about[q]
<1>3. ASSUME End(q), UNCHANGED <<caseVars, mailVars>> PROVE MailInv'
  BY <1>1, <1>3 DEF End
<1>4. ASSUME NEW y \in Response, NEW v \in Version, Submit(q, y, v) PROVE MailInv'
  BY <1>1, <1>4 DEF Submit, Goto
<1>5. ASSUME NEW y \in Response, AskOpen(q, y) PROVE MailInv'
  BY <1>1, <1>5 DEF AskOpen, Goto
<1>6. ASSUME NEW y \in Response, NEW d \in Decision, AskDecision(q, y, d) PROVE MailInv'
  BY <1>1, <1>6 DEF AskDecision, Goto
<1>7. CASE Receive(q)
  <2>1. CASE End(q) BY <1>3, <1>7, <2>1 DEF Receive
  <2>2. CASE ~End(q)
    <3>1. /\ pc' = [pc EXCEPT ![q] = "upsert"]
          /\ UNCHANGED <<about, version, verdict, toMail, caseVars, mailVars>>
      BY <1>7, <2>2 DEF Receive, Goto
    <3>2. Quiet(q) BY <3>1
    <3>3. QED BY <1>1, <3>2
  <2>3. QED BY <2>1, <2>2
<1>8. CASE Upsert(q) BY <1>3, <1>8 DEF Upsert
<1>9. CASE Open(q) BY <1>1, <1>3, <1>9 DEF Open, Goto
<1>10. CASE Match(q) BY <1>1, <1>10 DEF Match, Goto
<1>11. CASE Create(q)
  <2>1. CASE SourceTaken(x) BY <1>3, <1>11, <2>1 DEF Create
  <2>2. CASE ~SourceTaken(x)
    <3>1. /\ status' = [status EXCEPT ![x] = "PENDING"]
          /\ caseVersion' = [caseVersion EXCEPT ![x] = version[q]]
          /\ UNCHANGED mailVars /\ End(q) /\ status[x] = "none"
      BY <1>11, <2>2 DEF Create, SourceTaken
    <3>2. \A r \in Recipient : tried[x][r] = 0 BY <3>1, NobodyTyped
    <3>3. \A r \in Request : Informing(r) => about[r] # x
      BY <3>1 DEF Decision
    <3>4. \A r \in Request : Informing(r)' =>
            /\ r # q /\ Informing(r) /\ UNCHANGED <<pc[r], about[r], version[r]>>
            /\ UNCHANGED <<verdict[r], toMail[r]>>
      BY <3>1 DEF End
    <3>5. \A r \in Recipient, d \in Decision : mails[x][<<r, d>>] = 0
      <4> TAKE r \in Recipient, d \in Decision
      <4>1. mails[x][<<r, d>>] <= tried[x][r] OBVIOUS
      <4>2. mails[x][<<r, d>>] \in Nat BY <1>0
      <4>3. tried[x][r] = 0 BY <3>2
      <4>4. QED BY ONLY <4>1, <4>2, <4>3
    <3>6. QED BY <3>1, <3>2, <3>3, <3>4, <3>5 DEF mailVars
  <2>3. QED BY <2>1, <2>2
<1>12. CASE Check(q) BY <1>1, <1>3, <1>12 DEF Check, Goto
<1>13. CASE Decide(q)
  <2>1. CASE ~Undecided(x) BY <1>3, <1>13, <2>1 DEF Decide
  <2>2. CASE Undecided(x)
    <3>1. /\ status' = [status EXCEPT ![x] = verdict[q]]
          /\ pc' = [pc EXCEPT ![q] = "contacts"]
          /\ version' = [version EXCEPT ![q] = caseVersion[x]]
          /\ UNCHANGED <<caseVersion, about, verdict, toMail, mailVars>>
          /\ status[x] = "PENDING"
      BY <1>13, <2>2 DEF Decide, Undecided, Goto
    <3>2. \A r \in Recipient : tried[x][r] = 0 BY <3>1, NobodyTyped
    <3>3. \A r \in Request : Informing(r) => about[r] # x
      BY <3>1 DEF Decision
    <3>4. \A r \in Request : Informing(r)' => r = q \/ Informing(r) BY <3>1
    <3>5. \A r \in Recipient, d \in Decision : mails[x][<<r, d>>] = 0
      <4> TAKE r \in Recipient, d \in Decision
      <4>1. mails[x][<<r, d>>] <= tried[x][r] OBVIOUS
      <4>2. mails[x][<<r, d>>] \in Nat BY <1>0
      <4>3. tried[x][r] = 0 BY <3>2
      <4>4. QED BY ONLY <4>1, <4>2, <4>3
    <3>6. verdict[q] \in Decision OBVIOUS
    <3>7. QED BY <3>1, <3>2, <3>3, <3>4, <3>5, <3>6 DEF mailVars, Decision
  <2>3. QED BY <2>1, <2>2
<1>14. CASE Contacts(q)
  <2>1. /\ pc[q] = "contacts" /\ pc' = [pc EXCEPT ![q] = "mail"]
        /\ toMail' = [toMail EXCEPT ![q] = Messages(version[q], verdict[q])]
        /\ UNCHANGED <<status, caseVersion, mails, tried, about, version, verdict>>
    BY <1>14 DEF Contacts, Goto, caseVars, mailVars
  <2>2. \A r \in Recipient :
          /\ toMail'[q][r] > 0 => r \in Recipients(version[q], verdict[q])
          /\ toMail'[q][r] + tried[x][r] <= 1
    <3>1. tried[x] = Nobody BY <2>1
    <3>2. toMail'[q] = Messages(version[q], verdict[q]) BY <2>1
    <3>3. QED BY ONLY <3>1, <3>2, MessagesTyped, NobodyTyped DEF Tally
  <2>3. QED BY <2>1, <2>2
<1>15. CASE Mail(q)
  <2> PICK p \in Recipient, sent \in BOOLEAN :
        /\ toMail[q][p] > 0
        /\ toMail' = [toMail EXCEPT ![q] = [toMail[q] EXCEPT ![p] = @ - 1]]
        /\ tried' = [tried EXCEPT ![x][p] = @ + 1]
        /\ mails' = IF sent THEN [mails EXCEPT ![x][<<p, verdict[q]>>] = @ + 1]
                     ELSE mails
    BY <1>15 DEF Mail, StillToMail
  <2>1. /\ pc[q] = "mail"
        /\ UNCHANGED <<status, caseVersion, pc, about, version, verdict>>
    BY <1>15 DEF Mail, caseVars
  <2>2. tried[x][p] = 0 /\ toMail[q][p] = 1 /\ p \in Recipients(version[q], verdict[q])
    <3>1. /\ toMail[q][p] > 0 => p \in Recipients(version[q], verdict[q])
          /\ toMail[q][p] + tried[x][p] <= 1
      BY <2>1
    <3>2. tried[x][p] \in Nat /\ toMail[q][p] \in Nat BY <1>0
    <3>3. toMail[q][p] > 0 OBVIOUS
    <3>4. QED BY ONLY <3>1, <3>2, <3>3
  <2>3. status[x] = verdict[q] /\ version[q] = caseVersion[x] BY <2>1
  <2>4. \A r \in Request \ {q} : Informing(r) => about[r] # x BY <2>1
  <2>5. \A y \in Response, r \in Recipient :
          tried'[y][r] = IF y = x /\ r = p THEN 1 ELSE tried[y][r]
    BY <2>2 DEF Tally
  <2>6. \A y \in Response, r \in Recipient, d \in Decision :
          \/ mails'[y][<<r, d>>] = mails[y][<<r, d>>]
          \/ /\ y = x /\ r = p /\ d = verdict[q]
             /\ mails'[y][<<r, d>>] = mails[y][<<r, d>>] + 1
    <3> DEFINE m == <<p, verdict[q]>>
    <3>1. mails[x] \in Tally(Recipient \X Decision) /\ m \in Recipient \X Decision
      OBVIOUS
    <3>2. \A e \in Recipient \X Decision :
            [mails[x] EXCEPT ![m] = @ + 1][e] =
              IF e = m THEN mails[x][e] + 1 ELSE mails[x][e]
      BY ONLY <3>1 DEF Tally
    <3>3. mails' = IF sent THEN [mails EXCEPT ![x] = [mails[x] EXCEPT ![m] = @ + 1]]
                   ELSE mails
      OBVIOUS
    <3>4. ASSUME NEW y \in Response, NEW r \in Recipient, NEW d \in Decision
          PROVE  \/ mails'[y][<<r, d>>] = mails[y][<<r, d>>]
                 \/ /\ y = x /\ r = p /\ d = verdict[q]
                    /\ mails'[y][<<r, d>>] = mails[y][<<r, d>>] + 1
      <4>1. <<r, d>> \in Recipient \X Decision BY <3>4
      <4>2. <<r, d>> = m => r = p /\ d = verdict[q] OBVIOUS
      <4>3. mails \in [Response -> Tally(Recipient \X Decision)] OBVIOUS
      <4> HIDE DEF m
      <4>4. QED BY ONLY <3>2, <3>3, <3>4, <4>1, <4>2, <4>3
    <3>5. QED BY ONLY <3>4
  <2>7. \A d \in Decision : mails[x][<<p, d>>] = 0
    <3>1. \A d \in Decision : mails[x][<<p, d>>] <= tried[x][p] OBVIOUS
    <3>2. \A d \in Decision : mails[x][<<p, d>>] \in Nat BY <1>0
    <3>3. QED BY ONLY <2>2, <3>1, <3>2
  <2>8. MailsTellTheDecision'
    BY <2>1, <2>2, <2>3, <2>5, <2>6 DEF Recipients
  <2>9. \A y \in Response, r \in Recipient, d \in Decision :
          mails'[y][<<r, d>>] <= tried'[y][r]
    <3> TAKE y \in Response, r \in Recipient, d \in Decision
    <3>1. mails[y][<<r, d>>] \in Nat /\ tried[y][r] \in Nat BY <1>0
    <3>2. mails[y][<<r, d>>] <= tried[y][r] OBVIOUS
    <3>3. y = x /\ r = p => mails[y][<<r, d>>] = 0 BY <2>7
    <3>4. \/ mails'[y][<<r, d>>] = mails[y][<<r, d>>]
          \/ /\ y = x /\ r = p
             /\ mails'[y][<<r, d>>] = mails[y][<<r, d>>] + 1
      BY ONLY <2>6
    <3>5. tried'[y][r] = IF y = x /\ r = p THEN 1 ELSE tried[y][r] BY ONLY <2>5
    <3>6. QED BY ONLY <3>1, <3>2, <3>3, <3>4, <3>5
  <2>10. \A y \in Response :
           status'[y] \in {"none", "PENDING"} => tried'[y] = Nobody
    BY <2>1, <2>3 DEF Decision
  <2>11. ASSUME NEW r \in Request, pc'[r] = "mail", NEW w \in Recipient
         PROVE  /\ toMail'[r][w] > 0 => w \in Recipients(version'[r], verdict'[r])
                /\ toMail'[r][w] + tried'[about'[r]][w] <= 1
    <3>1. CASE r = q
      <4>1. toMail'[q][w] = IF w = p THEN 0 ELSE toMail[q][w] BY <2>2 DEF Tally
      <4>2. tried'[x][w] = IF w = p THEN 1 ELSE tried[x][w] BY <2>5
      <4>3. toMail[q][w] > 0 => w \in Recipients(version[q], verdict[q]) BY <2>1
      <4>4. toMail[q][w] + tried[x][w] <= 1 BY <2>1
      <4>5. UNCHANGED <<about, version, verdict>> BY <2>1
      <4>6. toMail[q][w] \in Nat /\ tried[x][w] \in Nat BY <1>0
      <4>7. w = p => p \in Recipients(version[q], verdict[q]) BY <2>2
      <4>8. QED BY ONLY <3>1, <4>1, <4>2, <4>3, <4>4, <4>5, <4>6, <4>7
    <3>2. CASE r # q
      <4>1. toMail'[r] = toMail[r] /\ about[r] # x BY <2>1, <2>4, <2>11, <3>2
      <4>2. tried'[about[r]][w] = tried[about[r]][w] BY <2>5, <4>1
      <4>3. QED BY <2>1, <2>11, <4>1, <4>2
    <3>3. QED BY <3>1, <3>2
  <2>12. \A r \in Request : pc'[r] = "contacts" => tried'[about'[r]] = Nobody
    BY <2>1, <2>4
  <2>13. QED BY <2>1, <2>8, <2>9, <2>10, <2>11, <2>12
<1>16. CASE Respond(q) BY <1>3, <1>16 DEF Respond
<1>17. CASE Abandon(q) BY <1>3, <1>17 DEF Abandon
<1>18. QED
  BY <1>4, <1>5, <1>6, <1>7, <1>8, <1>9, <1>10, <1>11, <1>12, <1>13, <1>14, <1>15,
     <1>16, <1>17 DEF Serve

-----------------------------------------------------------------------------
LEMMA JStutter == ASSUME JInv, UNCHANGED vars PROVE JInv'
<1>1. /\ UNCHANGED <<students, inbox, inboxVersion, inboxStudent>>
      /\ UNCHANGED <<status, caseVersion, caseStudent, history>>
      /\ UNCHANGED <<mails, tried>>
      /\ UNCHANGED <<pc, about, version, link, verdict, toMail, faults>>
  BY DEF vars, inboxVars, caseVars, mailVars, requestVars
<1>2. TypeOK' BY <1>1 DEF JInv, TypeOK
<1>3. LinkInv' BY <1>1 DEF JInv, LinkInv, OwnStudent, Own
<1>4. StoryInv' BY <1>1 DEF JInv, StoryInv, HistoryIsTheStory, ReadIffOpened
<1>5. MailInv' BY <1>1 DEF JInv, MailInv, Informing, MailsTellTheDecision
<1>6. QED BY <1>2, <1>3, <1>4, <1>5 DEF JInv

LEMMA Invariant == Spec => []JInv
<1>1. Init => JInv BY JInit
<1>2. JInv /\ [Next]_vars => JInv'
  BY TypeStep, LinkStep, StoryStep, MailStep, JStutter DEF JInv
<1>3. QED BY <1>1, <1>2, PTL DEF Spec

\* Every variable keeps its type.
THEOREM TypeCorrect == Spec => []TypeOK
<1>1. JInv => TypeOK BY DEF JInv
<1>2. QED BY <1>1, Invariant, PTL

\* However many coordinators open and decide a case at once, and however
\* often the form is submitted again, the case is opened and decided at most
\* once, and its history says so.
THEOREM OneStory == Spec => []HistoryIsTheStory
<1>1. JInv => HistoryIsTheStory BY DEF JInv, StoryInv
<1>2. QED BY <1>1, Invariant, PTL

\* Opening an entry and its justification come together: no submission is
\* lost from the inbox, and none is opened twice.
THEOREM InboxAgrees == Spec => []ReadIffOpened
<1>1. JInv => ReadIffOpened BY DEF JInv, StoryInv
<1>2. QED BY <1>1, Invariant, PTL

\* A justification is never linked to the student of another submission.
THEOREM NobodyElsesCase == Spec => []OwnStudent
<1>1. JInv => OwnStudent BY DEF JInv, LinkInv
<1>2. QED BY <1>1, Invariant, PTL

\* Whatever mails fail and requests are cut off, only the decision in the
\* database is mailed, only to the people of the case, and an address is tried
\* at most once in each of its roles.
THEOREM OneAnswer == Spec => []MailsTellTheDecision
<1>1. JInv => MailsTellTheDecision BY DEF JInv, MailInv
<1>2. QED BY <1>1, Invariant, PTL

-----------------------------------------------------------------------------
(* The service implements the life of a case.                              *)

Stage == [x \in Response |->
            IF status[x] # "none" THEN status[x]
            ELSE IF inbox[x] = "none" THEN "absent" ELSE "received"]

LEMMA CaseInitially == Init => Case!CaseInit
BY DEF Init, Case!CaseInit, Case!Decisions, Decision

LEMMA CaseStep == ASSUME JInv, [Next]_vars PROVE [Case!CaseNext]_(Case!caseVars)
<1> USE DEF JInv, TypeOK, Case!caseVars
<1>1. ASSUME UNCHANGED <<inbox, status, mails>> PROVE UNCHANGED Case!caseVars
  BY <1>1
<1> SUFFICES ASSUME NEW q \in Request,
                    Upsert(q) \/ Create(q) \/ Decide(q) \/ Mail(q)
             PROVE [Case!CaseNext]_(Case!caseVars)
  BY <1>1 DEF Next, Serve, Register, Submit, Receive, AskOpen, Open, Match,
     AskDecision, Check, Contacts, Respond, Abandon, vars, inboxVars, caseVars,
     mailVars
<1> DEFINE x == about[q]
<1>2. Stage \in [Response -> {"absent", "received", "none", "PENDING"} \cup Decision]
  BY DEF Stage
<1>3. ASSUME NEW y \in Response, NEW from, NEW to, Stage[y] = from,
             Stage' = [Stage EXCEPT ![y] = to], UNCHANGED mails,
             <<from, to>> \in {<<"absent", "received">>, <<"received", "PENDING">>,
                               <<"PENDING", "ACCEPTED">>, <<"PENDING", "REJECTED">>}
      PROVE Case!CaseNext
  BY <1>3 DEF Stage, Case!CaseNext, Case!Advance
<1>4. CASE Upsert(q)
  <2>1. /\ inbox' = [inbox EXCEPT ![x] = UpsertedStatus(x)]
        /\ UNCHANGED <<status, mails>>
    BY <1>4 DEF Upsert, caseVars, mailVars
  <2>2. CASE inbox[x] = "none" /\ status[x] = "none"
    <3>1. Stage[x] = "absent" BY <2>2 DEF Stage
    <3>2. Stage' = [Stage EXCEPT ![x] = "received"]
      BY <2>1, <2>2 DEF Stage, UpsertedStatus
    <3>3. QED BY <1>3, <2>1, <3>1, <3>2
  <2>3. CASE ~(inbox[x] = "none" /\ status[x] = "none")
    <3>1. Stage' = Stage BY <2>1, <2>3 DEF Stage, UpsertedStatus
    <3>2. QED BY <2>1, <3>1 DEF Stage
  <2>4. QED BY <2>2, <2>3
<1>5. CASE Create(q)
  <2>1. CASE SourceTaken(x)
    BY <1>1, <1>5, <2>1 DEF Create, inboxVars, caseVars, mailVars
  <2>2. CASE ~SourceTaken(x)
    <3>1. /\ status' = [status EXCEPT ![x] = "PENDING"]
          /\ inbox' = [inbox EXCEPT ![x] = "READ"]
          /\ UNCHANGED mails /\ status[x] = "none" /\ inbox[x] # "none"
      BY <1>5, <2>2 DEF Create, SourceTaken, mailVars, LinkInv
    <3>2. Stage[x] = "received" BY <3>1 DEF Stage
    <3>3. Stage' = [Stage EXCEPT ![x] = "PENDING"] BY <3>1 DEF Stage
    <3>4. QED BY <1>3, <3>1, <3>2, <3>3
  <2>3. QED BY <2>1, <2>2
<1>6. CASE Decide(q)
  <2>1. CASE ~Undecided(x)
    BY <1>1, <1>6, <2>1 DEF Decide, inboxVars, caseVars, mailVars
  <2>2. CASE Undecided(x)
    <3>1. /\ status' = [status EXCEPT ![x] = verdict[q]]
          /\ UNCHANGED <<inbox, mails>> /\ status[x] = "PENDING"
      BY <1>6, <2>2 DEF Decide, Undecided, inboxVars, mailVars
    <3>2. Stage[x] = "PENDING" BY <3>1 DEF Stage
    <3>3. verdict[q] \in Decision OBVIOUS
    <3>4. Stage' = [Stage EXCEPT ![x] = verdict[q]]
      BY <3>1, <3>3 DEF Stage, Decision
    <3>5. QED BY <1>3, <3>1, <3>2, <3>3, <3>4 DEF Decision
  <2>3. QED BY <2>1, <2>2
<1>7. CASE Mail(q)
  <2> PICK p \in Recipient, sent \in BOOLEAN :
        /\ toMail[q][p] > 0
        /\ mails' = IF sent THEN [mails EXCEPT ![x][<<p, verdict[q]>>] = @ + 1]
                    ELSE mails
    BY <1>7 DEF Mail
  <2>1. UNCHANGED <<inbox, status>> BY <1>7 DEF Mail, inboxVars, caseVars
  <2>2. CASE ~sent BY <1>1, <2>1, <2>2
  <2>3. CASE sent
    <3>1. /\ status[x] = verdict[q] /\ toMail[q][p] + tried[x][p] <= 1
          /\ mails[x][<<p, verdict[q]>>] <= tried[x][p]
      BY <1>7 DEF Mail, MailInv, Informing
    <3>2. verdict[q] \in Decision /\ x \in Response OBVIOUS
    <3>3. mails[x][<<p, verdict[q]>>] = 0
      <4>1. /\ mails[x][<<p, verdict[q]>>] \in Nat
            /\ toMail[q][p] \in Nat /\ tried[x][p] \in Nat
        BY <3>2, Counts
      <4>2. toMail[q][p] > 0 OBVIOUS
      <4>3. QED BY ONLY <3>1, <4>1, <4>2
    <3>4. Stage[x] = verdict[q] BY <3>1, <3>2 DEF Stage, Decision
    <3>5. Stage' = Stage BY <2>1 DEF Stage
    <3>6. mails' = [mails EXCEPT ![x][<<p, Stage[x]>>] = 1]
      BY <2>3, <3>2, <3>3, <3>4
    <3>7. Case!Tell(x, p)
      BY <3>2, <3>3, <3>4, <3>5, <3>6 DEF Case!Tell, Case!Decisions, Stage, Decision
    <3>8. QED BY <3>2, <3>7 DEF Case!CaseNext
  <2>4. QED BY <2>2, <2>3
<1>8. QED BY <1>4, <1>5, <1>6, <1>7

\* Requests, transactions, resubmissions and failures together do nothing
\* to a case that its life does not allow.
THEOREM Implementation == Spec => ImplementsCase
<1>1. Init => Case!CaseInit BY CaseInitially
<1>2. JInv /\ [Next]_vars => [Case!CaseNext]_(Case!caseVars) BY CaseStep
<1>3. QED BY <1>1, <1>2, Invariant, PTL DEF Spec, ImplementsCase, Case!CaseSpec
=============================================================================
