--------------------------- MODULE Justifications ---------------------------
(***************************************************************************)
(* JustificationsService: form submissions arrive in an inbox, opening one *)
(* creates a justification, deciding it notifies the student and, when it  *)
(* is accepted, the staff of the course.  A message goes to an address in  *)
(* a role: somebody who is the student, a teacher and an assistant of a    *)
(* case gets three.                                                        *)
(*                                                                         *)
(* A response is one row of the form's sheet (externalResponseId): it keys *)
(* both its inbox entry and its justification (sourceResponseId).  A       *)
(* version is the content a response is submitted with; Forms may submit a *)
(* response again, with another content.  A student is identified by the   *)
(* email of the submission.                                                *)
(***************************************************************************)
EXTENDS Naturals, Sequences, FiniteSets

CONSTANTS
  Response,
  Version,
  Email, EmailOf,   \* the student's email in each version
  Contact, Mailbox, \* rows of teachers and assistants; their normalized address
  TeachersOf, AssistantsOf,   \* the course's, per version
  NoOne,            \* no linked student
  Request,          \* the requests in flight at a time
  MaxFaults         \* bound: requests cut off in a behaviour

ASSUME JustificationsAssumption ==
  /\ Response # {} /\ Version # {}
  /\ EmailOf \in [Version -> Email]
  /\ Mailbox \in [Contact -> Email]
  /\ TeachersOf \in [Version -> SUBSET Contact]
  /\ AssistantsOf \in [Version -> SUBSET Contact]
  /\ NoOne \notin Email
  /\ MaxFaults \in Nat

VARIABLES
  students,                           \* the emails in the Student table
  inbox, inboxVersion, inboxStudent,  \* JustificationInbox, by response
  status, caseVersion, caseStudent,   \* Justification, by response
  history,                            \* JustificationStatusHistory: toStatus
  mails,   \* mails[x]: how often each <<recipient, decision>> was mailed
  tried,   \* observation, tried[x]: how often each recipient was tried
  pc, about,  \* per request: where it is, and on which response
  version,    \* the content it works with
  link,       \* the student it found
  verdict,    \* the decision it carries
  toMail,     \* how many messages it still has for each recipient
  faults

inboxVars == <<inbox, inboxVersion, inboxStudent>>
caseVars == <<status, caseVersion, caseStudent, history>>
mailVars == <<mails, tried>>
requestVars == <<pc, about, version, link, verdict, toMail>>
vars == <<students, inboxVars, caseVars, mailVars, requestVars, faults>>

Decision == {"ACCEPTED", "REJECTED"}
Role == {"student", "assistant", "teacher"}
Recipient == Role \X Email
Tally(S) == [S -> Nat]
Nobody == [r \in Recipient |-> 0]
Place == {"idle", "receive", "upsert", "open", "match", "create",
          "check", "decide", "contacts", "mail"}

\* A history has at most two lines.
Story == UNION {[1..n -> {"PENDING"} \cup Decision] : n \in 0..2}

AnyOf(S) == CHOOSE x \in S : TRUE

TypeOK ==
  /\ students \in SUBSET Email
  /\ inbox \in [Response -> {"none", "UNREAD", "READ"}]
  /\ inboxVersion \in [Response -> Version]
  /\ inboxStudent \in [Response -> Email \cup {NoOne}]
  /\ status \in [Response -> {"none", "PENDING"} \cup Decision]
  /\ caseVersion \in [Response -> Version]
  /\ caseStudent \in [Response -> Email \cup {NoOne}]
  /\ history \in [Response -> Story]
  /\ mails \in [Response -> Tally(Recipient \X Decision)]
  /\ tried \in [Response -> Tally(Recipient)]
  /\ pc \in [Request -> Place]
  /\ about \in [Request -> Response]
  /\ version \in [Request -> Version]
  /\ link \in [Request -> Email \cup {NoOne}]
  /\ verdict \in [Request -> Decision]
  /\ toMail \in [Request -> Tally(Recipient)]
  /\ faults \in 0..MaxFaults

Init ==
  /\ students \in SUBSET Email
  /\ inbox = [x \in Response |-> "none"]
  /\ inboxVersion = [x \in Response |-> AnyOf(Version)]
  /\ inboxStudent = [x \in Response |-> NoOne]
  /\ status = [x \in Response |-> "none"]
  /\ caseVersion = [x \in Response |-> AnyOf(Version)]
  /\ caseStudent = [x \in Response |-> NoOne]
  /\ history = [x \in Response |-> <<>>]
  /\ mails = [x \in Response |-> [m \in Recipient \X Decision |-> 0]]
  /\ tried = [x \in Response |-> Nobody]
  /\ pc = [q \in Request |-> "idle"]
  /\ about = [q \in Request |-> AnyOf(Response)]
  /\ version = [q \in Request |-> AnyOf(Version)]
  /\ link = [q \in Request |-> NoOne]
  /\ verdict = [q \in Request |-> "REJECTED"]
  /\ toMail = [q \in Request |-> Nobody]
  /\ faults = 0

-----------------------------------------------------------------------------
Goto(q, p) == pc' = [pc EXCEPT ![q] = p]

\* The response, whatever it says: the request and what it read are gone.
End(q) ==
  /\ pc' = [pc EXCEPT ![q] = "idle"]
  /\ about' = [about EXCEPT ![q] = AnyOf(Response)]
  /\ version' = [version EXCEPT ![q] = AnyOf(Version)]
  /\ link' = [link EXCEPT ![q] = NoOne]
  /\ verdict' = [verdict EXCEPT ![q] = "REJECTED"]
  /\ toMail' = [toMail EXCEPT ![q] = Nobody]

\* findUnique on Student
StudentOf(e) == IF e \in students THEN e ELSE NoOne

\* Elsewhere: the students service registers a student.
Register(e) ==
  /\ e \notin students
  /\ students' = students \cup {e}
  /\ UNCHANGED <<inboxVars, caseVars, mailVars, requestVars, faults>>

Submit(q, x, v) ==
  /\ pc[q] = "idle"
  /\ Goto(q, "receive")
  /\ about' = [about EXCEPT ![q] = x]
  /\ version' = [version EXCEPT ![q] = v]
  /\ UNCHANGED <<students, inboxVars, caseVars, mailVars, link, verdict, toMail, faults>>

\* receiveFormSubmission: look up the student (a submission of no active
\* course ends here), then upsert the inbox entry.
Receive(q) ==
  /\ pc[q] = "receive"
  /\ \/ /\ Goto(q, "upsert")
        /\ link' = [link EXCEPT ![q] = StudentOf(EmailOf[version[q]])]
        /\ UNCHANGED <<about, version, verdict, toMail>>
     \/ End(q)
  /\ UNCHANGED <<students, inboxVars, caseVars, mailVars, faults>>

\* The update leaves the entry's status alone: a READ entry stays READ.
UpsertedStatus_Mut(x) == "UNREAD"
UpsertedStatus(x) == IF inbox[x] = "none" THEN "UNREAD" ELSE inbox[x]

Upsert(q) ==
  LET x == about[q]
  IN  /\ pc[q] = "upsert"
      /\ inbox' = [inbox EXCEPT ![x] = UpsertedStatus(x)]
      /\ inboxVersion' = [inboxVersion EXCEPT ![x] = version[q]]
      /\ inboxStudent' = [inboxStudent EXCEPT ![x] = link[q]]
      /\ End(q)
      /\ UNCHANGED <<students, caseVars, mailVars, faults>>

-----------------------------------------------------------------------------
(* openInboxEntry: one read-committed transaction.  Its reads see what was *)
(* committed before each; its writes happen together when it commits, and  *)
(* the unique sourceResponseId makes a second creation fail.               *)

AskOpen(q, x) ==
  /\ pc[q] = "idle" /\ inbox[x] # "none"
  /\ Goto(q, "open")
  /\ about' = [about EXCEPT ![q] = x]
  /\ UNCHANGED <<students, inboxVars, caseVars, mailVars, version, link, verdict,
                 toMail, faults>>

\* An entry that is READ has a justification, which is all the answer needs.
Open(q) ==
  LET x == about[q]
  IN  /\ pc[q] = "open"
      /\ \/ inbox[x] = "READ" /\ End(q)
         \/ /\ inbox[x] = "UNREAD"
            /\ Goto(q, IF inboxStudent[x] = NoOne THEN "match" ELSE "create")
            /\ version' = [version EXCEPT ![q] = inboxVersion[x]]
            /\ link' = [link EXCEPT ![q] = inboxStudent[x]]
            /\ UNCHANGED <<about, verdict, toMail>>
      /\ UNCHANGED <<students, inboxVars, caseVars, mailVars, faults>>

\* An entry without student: registered since it arrived?
MatchedEmail_Mut(q) == EmailOf[inboxVersion[about[q]]]   \* reads the entry again
MatchedEmail(q) == EmailOf[version[q]]

Match(q) ==
  /\ pc[q] = "match"
  /\ Goto(q, "create")
  /\ link' = [link EXCEPT ![q] = StudentOf(MatchedEmail(q))]
  /\ UNCHANGED <<students, inboxVars, caseVars, mailVars, about, version, verdict,
                 toMail, faults>>

SourceTaken_Mut(x) == FALSE   \* sourceResponseId is not unique
SourceTaken(x) == status[x] # "none"

Create(q) ==
  LET x == about[q]
  IN  /\ pc[q] = "create"
      /\ \/ SourceTaken(x) /\ UNCHANGED <<inboxVars, caseVars>>
         \/ /\ ~SourceTaken(x)
            /\ status' = [status EXCEPT ![x] = "PENDING"]
            /\ caseVersion' = [caseVersion EXCEPT ![x] = version[q]]
            /\ caseStudent' = [caseStudent EXCEPT ![x] = link[q]]
            /\ history' = [history EXCEPT ![x] = Append(@, "PENDING")]
            /\ inbox' = [inbox EXCEPT ![x] = "READ"]
            /\ inboxStudent' = [inboxStudent EXCEPT ![x] = link[q]]
            /\ UNCHANGED inboxVersion
      /\ End(q)
      /\ UNCHANGED <<students, mailVars, faults>>

-----------------------------------------------------------------------------
(* decide: a check, the transaction that decides, the contacts, the mails. *)

AskDecision(q, x, d) ==
  /\ pc[q] = "idle" /\ status[x] # "none"
  /\ Goto(q, "check")
  /\ about' = [about EXCEPT ![q] = x]
  /\ verdict' = [verdict EXCEPT ![q] = d]
  /\ UNCHANGED <<students, inboxVars, caseVars, mailVars, version, link, toMail, faults>>

\* A rejection without a reason ends here as well.
Check(q) ==
  /\ pc[q] = "check"
  /\ \/ status[about[q]] = "PENDING"
        /\ Goto(q, "decide") /\ UNCHANGED <<about, version, link, verdict, toMail>>
     \/ status[about[q]] # "PENDING" /\ End(q)
     \/ verdict[q] = "REJECTED" /\ End(q)
  /\ UNCHANGED <<students, inboxVars, caseVars, mailVars, faults>>

Undecided_Mut(x) == TRUE   \* the update does not filter by status
Undecided(x) == status[x] = "PENDING"

Decide(q) ==
  LET x == about[q]
  IN  /\ pc[q] = "decide"
      /\ \/ /\ Undecided(x)
            /\ status' = [status EXCEPT ![x] = verdict[q]]
            /\ history' = [history EXCEPT ![x] = Append(@, verdict[q])]
            /\ Goto(q, "contacts")
            /\ version' = [version EXCEPT ![q] = caseVersion[x]]
            /\ UNCHANGED <<caseVersion, caseStudent, about, link, verdict, toMail>>
         \/ ~Undecided(x) /\ End(q) /\ UNCHANGED caseVars
      /\ UNCHANGED <<students, inboxVars, mailVars, faults>>

\* The contacts that a message in this role is built for.
ContactsIn(role, v) ==
  IF role = "teacher" THEN TeachersOf[v]
  ELSE IF role = "assistant" THEN AssistantsOf[v] ELSE {}

\* Who learns a decision: the student always, the staff when it is accepted.
Recipients(v, d) ==
  {<<"student", EmailOf[v]>>}
    \cup {r \in Recipient : /\ d = "ACCEPTED"
                           /\ \E c \in ContactsIn(r[1], v) : Mailbox[c] = r[2]}

\* notifyDecision: one message to each role and normalized address, however
\* many contacts share them.
Messages_Mut(v, d) ==   \* one for each contact
  [r \in Recipient |->
     IF r \notin Recipients(v, d) THEN 0
     ELSE IF r[1] = "student" THEN 1
     ELSE Cardinality({c \in ContactsIn(r[1], v) : Mailbox[c] = r[2]})]
Messages(v, d) == [r \in Recipient |-> IF r \in Recipients(v, d) THEN 1 ELSE 0]

Contacts(q) ==
  /\ pc[q] = "contacts"
  /\ Goto(q, "mail")
  /\ toMail' = [toMail EXCEPT ![q] = Messages(version[q], verdict[q])]
  /\ UNCHANGED <<students, inboxVars, caseVars, mailVars, about, version, link,
                 verdict, faults>>

\* sendAll: the messages go out in any order; one that fails is logged.
StillToMail_Mut(q, r, sent) ==   \* a failure stops the rest
  IF sent THEN [toMail[q] EXCEPT ![r] = @ - 1] ELSE Nobody
StillToMail(q, r, sent) == [toMail[q] EXCEPT ![r] = @ - 1]

Mail(q) ==
  /\ pc[q] = "mail"
  /\ \E r \in Recipient, sent \in BOOLEAN :
       LET x == about[q]
       IN  /\ toMail[q][r] > 0
           /\ toMail' = [toMail EXCEPT ![q] = StillToMail(q, r, sent)]
           /\ tried' = [tried EXCEPT ![x][r] = @ + 1]
           /\ mails' = IF sent THEN [mails EXCEPT ![x][<<r, verdict[q]>>] = @ + 1]
                      ELSE mails
  /\ UNCHANGED <<students, inboxVars, caseVars, pc, about, version, link, verdict, faults>>

Respond(q) ==
  /\ pc[q] = "mail" /\ toMail[q] = Nobody
  /\ End(q)
  /\ UNCHANGED <<students, inboxVars, caseVars, mailVars, faults>>

\* A database call fails or the replica dies: an open transaction is rolled
\* back, and whatever the request had left to do is not done.
Abandon(q) ==
  /\ pc[q] # "idle"
  /\ faults < MaxFaults /\ faults' = faults + 1
  /\ End(q)
  /\ UNCHANGED <<students, inboxVars, caseVars, mailVars>>

Serve(q) ==
  \/ Receive(q) \/ Upsert(q) \/ Open(q) \/ Match(q) \/ Create(q)
  \/ Check(q) \/ Decide(q) \/ Contacts(q) \/ Mail(q) \/ Respond(q)

Next ==
  \/ \E e \in Email : Register(e)
  \/ \E q \in Request :
       \/ \E x \in Response, v \in Version : Submit(q, x, v)
       \/ \E x \in Response : AskOpen(q, x)
       \/ \E x \in Response, d \in Decision : AskDecision(q, x, d)
       \/ Serve(q) \/ Abandon(q)

\* A request in course is served to its end.
Fairness == \A q \in Request : WF_vars(Serve(q))

Spec == Init /\ [][Next]_vars /\ Fairness

-----------------------------------------------------------------------------
(* Properties.                                                             *)

\* The history of a justification is the whole story of its status: opened
\* once, decided at most once, and the last line is the status it has.
HistoryIsTheStory ==
  \A x \in Response :
    CASE status[x] = "none" -> history[x] = <<>>
      [] status[x] = "PENDING" -> history[x] = <<"PENDING">>
      [] OTHER -> history[x] = <<"PENDING", status[x]>>

\* The inbox shows an entry as unread exactly until it has a justification,
\* so no submission is lost from view and none is opened twice.
ReadIffOpened ==
  \A x \in Response : (inbox[x] = "READ") <=> (status[x] # "none")

\* A justification and an unread entry are linked to no student other than
\* the one who submitted them.
OwnStudent ==
  \A x \in Response :
    /\ caseStudent[x] \in {NoOne, EmailOf[caseVersion[x]]}
    /\ inbox[x] = "UNREAD" => inboxStudent[x] \in {NoOne, EmailOf[inboxVersion[x]]}

\* Nobody is mailed a decision that is not the one in the database, nobody
\* outside the case is mailed, and an address is tried at most once in each of
\* its roles, whoever decides at the same time and however many contacts of a
\* role share the address.
MailsTellTheDecision ==
  \A x \in Response, r \in Recipient :
    /\ tried[x][r] <= 1
    /\ \A d \in Decision :
         mails[x][<<r, d>>] > 0 =>
           d = status[x] /\ r \in Recipients(caseVersion[x], d)

\* Unless a request is cut off, a decision reaches out to everybody who must
\* learn it, in every role, however many of the mails fail.
EveryoneIsTried ==
  \A x \in Response :
    status[x] \in Decision
      ~> \/ {r \in Recipient : tried[x][r] > 0} = Recipients(caseVersion[x], status[x])
         \/ faults > 0

\* The service implements the life of a case.
Case == INSTANCE JustificationCase WITH
  Cases <- Response, Addressees <- Recipient, told <- mails,
  stage <- [x \in Response |->
              IF status[x] # "none" THEN status[x]
              ELSE IF inbox[x] = "none" THEN "absent" ELSE "received"]

ImplementsCase == Case!CaseSpec
=============================================================================
