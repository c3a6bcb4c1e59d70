# MARSYS backend: verification

TLA+ models of the NestJS backend of this repository, their TLC runs, and
TLAPS proofs. Every definition is translated from the code; `PROJECT.json`
says which lines each one stands for.

    tlc -workers 2 -config ImportQueue_replicas.cfg MCImportQueue.tla
    tlapm ImportQueueProofs.tla

A definition whose name ends in `_Mut` is a plausible slip (a dropped guard, an
off-by-one). No run uses it as it is; replacing its sibling by it must make
the property that `PROJECT.json` pairs with it fail.

## The system

An academic administration API: PostgreSQL through Prisma, Redis through the
cache manager, an S3-compatible bucket, a mail provider, Google OAuth. Several
identical replicas may run at once, each an event loop. A request is a chain of
awaited calls, so requests interleave at every call, inside a replica and
between replicas. Transactions are either Prisma's default (read committed:
each statement sees what is committed when it runs) or explicitly serializable.

| Part | State | Operations | What is hard | What makes it correct |
| --- | --- | --- | --- | --- |
| Import queue (`academic-imports/academic-import-queue.service.ts`) | job table: status, attempts, payload, updatedAt, row locks; per replica: poll, timers | enqueue, poll, claim, run, heartbeat, recover, stop | crashes at any point, stale jobs run twice, outcome written by id alone, lost answers of committed writes | one runner per job, bounded attempts, the payload stored exactly while needed, answers that are true and final, every job ends |
| Workbook imports (`academic-imports.service.ts`) | projects, outputs, contracts with their assignments, new teachers | read, classify, look up, then insert in one transaction | lookup outside the transaction; spellings, repetitions and wrong rows of three sheets; an NRC whose course is found twice, each time in its own way | rows arrive together and once, and every row is imported or reported |
| User administration (`users/`) | User, UserRole | assign, revoke, (de)activate, delete | counts and writes in separate statements | never without an administrator, no history without its author |
| Active-user cache and guards (`auth/active-user.service.ts`, `auth/guards/`) | Redis entries with a TTL | look up, load, store, evict | a reader stores an old answer after the eviction; eviction fails | a stale answer lives a bounded time |
| Preloads, first login, bootstrap (`users/`, `auth/auth.service.ts`, `maintenance/`) | PreloadedUser and its roles, User | preload, cancel, first login, prepare | logins, cancellations and bootstraps of several replicas in any order | roles granted only by the preload that is consumed, once; one initial administrator at a time, who gets in |
| Justifications (`justifications/`) and mails (`notifications/`) | inbox, case, history | receive, open, decide, mail | concurrent coordinators, resubmissions, mails failing after the commit | one case per submission, decided once, told truthfully and once per role and address |
| Semesters and catalog (`academic/academic.service.ts`, `academic-management.service.ts`, `current-courses.ts`) | semesters, courses, schedules, assignments | activate, create, update, import CSV, set teachers | read-committed imports against serializable edits; a form of an old semester | one active semester, one course per NRC and semester, no assignment removed under an assistantship or contract, the past not rewritten |
| Students (`students/`) | students, enrollments | save, import CSV | whole-file imports, renamed NRCs | the students of an NRC are in one course, also after its NRC changes |
| Hourly contracts (`academic/hourly-*.ts`) | rates, contracts | set rate, sync contracts, calculate | line-by-line updates under unique keys; commercial months and rounding | the signed rate is kept, amounts are right at the edges |
| Assistantships (`assistantships/`) | approvals, assistantships, schedules | register, update | old rows without an end date, periods and weekly times to compare | no assistant in two places at once |
| Academic repository (`academic-repository/`) | projects, research, outputs | create, update and delete with an expected version | two editors of one version; linking to a row leaves its version alone | no lost update, no link to a deleted row |
| Private storage (`storage/`) | objects, signed transfers | presign, upload, download | aborted and oversized transfers | nothing stored beyond the limit or after an abort |
| PII (`privacy/`, `prisma/prisma.service.ts`, `scripts/backfill-pii.ts`) | encrypted columns with a version | encode, decode, backfill | little: an offline conversion that may be run again | every row converted before a replica starts |
| Sessions (`auth/session.service.ts`, `auth.controller.ts`) | one cache entry per session | create, read, delete | little: each operation is one call | the guard asks for the account on every request |

They interact through the tables above all: an administrator's revocation
reaches a live session through the cache; deleting an account meets the foreign
keys of justifications; the imports insert into the repository's tables; a
student's enrollments, an assistantship and a contract hang on the catalog,
which imports and forms change at once; the bootstrap and the administrators
compete with first logins for an email.

## Modules

| Module | Models |
| --- | --- |
| `AcademicImports` | what an import does to the repository tables: lookup, then an insert-only transaction |
| `ImportQueue` | the job table and the poll loop of every replica; extends `AcademicImports` |
| `ImportJobs` | abstract: the life of a job as its submitter sees it; `ImportQueue` implements it (`ImplementsImportJobs`) |
| `Workbooks` | what the three templates make of a file: wrong rows, repetitions, rows inserted |
| `ActiveUsers` | accounts, roles, and the cached answer about an account with its TTL |
| `UserAdmin` | the requests of the API that change accounts, with their authentication; extends `ActiveUsers` |
| `Onboarding` | preloads, first login, initial administrator |
| `Justifications` | inbox, cases, decisions and their mails, request by request |
| `JustificationCase` | abstract: the life of one case; `Justifications` implements it (`ImplementsCase`) |
| `Catalog` | semesters, offerings, assignments, enrollments: forms among imports and activations |
| `HourlyPay` | rates, a teacher's contracts, and the calculator of payments |
| `Assistantships` | approvals and assistantships with their periods and weekly times |
| `Repository` | projects, research and outputs, edited with versions |
| `*Proofs` | proofs about the module they extend; `TeachingProofs` is about `HourlyPay` and `Assistantships`, `RepositoryProofs` about `Repository` and `Workbooks`, `ServicesProofs` about their common run |
| `MC*` | the values TLC needs and symmetries; `MCServices` puts five services into one run |

### ImportQueue

A replica's `phase` is the await its poll stands at. `Requeue` and `GiveUp` are
the two `updateMany` of `recoverInterruptedJobs`, `SelectCandidate` and
`ClaimJob` the `SELECT ... FOR UPDATE SKIP LOCKED` and the `UPDATE` with its
commit, `Parse` and `Insert` the import, `Complete` and `Fail` the outcome
writes, `Heartbeat` the timer. `Crash` loses the process and rolls back an open
transaction; the `...Error` actions are failed database calls, which may have
committed with their answer lost. Jobs are numbered by `createdAt`.

Time is in ticks. `age[j]` is the time since `updatedAt`; `HEARTBEAT`,
`RECOVERY` and `STALE` stand for 30 s, 60 s and 10 min, and the proofs hold for
any values. A tick waits for a heartbeat that is due: Node timers are late by
less than a tick, and a lost heartbeat is an action of its own, at most
`MaxLost` in a row. The code computes the stale limit once for both recovery
updates; the model reads the clock at each, a few milliseconds later in the code.

Abstracted: cells, validation messages, the previews. A row is one valid
project, output or contract; `Keyed` rows have a unique index behind them.

### UserAdmin and ActiveUsers

A request is admitted (`Lookup`, `Load`, `Store` are the three calls of
`findActive`; `Admit` is the roles guard), then runs its reads, its write and
its eviction, one action per call. `View(u)` is the right answer about an
account, `cache[u]` the one Redis holds; `since[u]` observes how long ago the
right answer last changed. `traced` is the academic history that refers to an
account; `Act` is any endpoint that adds to it. `Pause` bounds the time one
request takes, which the code does not state; without any bound no cache bound
would hold. A request that fails half way (`Abandon`) leaves what it wrote.

### Onboarding

Emails index everything: `account`, `roles`, `preload` (the id of its row).
`FindUser`, `FindPreload`, `CreateUser` are the statements of
`validateGoogleUser`, the last with the commit, since its unique and foreign
keys decide there. `CheckUser` to `CreatePreload` are `preloadUser`, `Lock` to
`Grant` are `InitialAdminService.prepare` under its advisory lock.
`CancelPreload` is one `deleteMany`. `ChangeAccount` and `ChangeRoles` are the
five operations of `UsersService` on existing accounts, done atomically: an
administrator deactivates, activates or deletes somebody else, and gives or
takes any role, but never that of the last active administrator. Their race
with each other is `UserAdmin`'s subject. `initial` and `spent` only observe.
Initial accounts are active without a preload, one possible state after the
seed.

### Justifications

A response is a row of the form's sheet and keys both the inbox entry and the
case; a version is the content it was submitted with. `Receive` and `Upsert`
are `receiveFormSubmission`, `Open`, `Match` and `Create` the three statements
of `openInboxEntry`'s transaction (the last with the commit and the unique
`sourceResponseId`), `Check` and `Decide` are `decide`, `Contacts`, `Mail` and
`Respond` what follows its commit. The staff of a course are constants of a
version: rows of contacts (`TeachersOf`, `AssistantsOf`), each with its
normalized address (`Mailbox`). A recipient is an address in a role, as the
code builds one message per role and address (`Messages`): two contacts of one
role who share an address count once, and somebody who is the student, a
teacher and an assistant of the case is mailed three times. `mails` and `tried`
count, so a second message to the same recipient is another state, and
`JustificationCase` allows none.

### Catalog

No table holds an offering: `CoursesOf` is what its NRC means in the schedules,
the assignments and the enrollments, as `current-courses.ts` computes it. Forms
are serializable transactions, one action each, with everything they check and
write (`UpdateCourse` renames in three tables, `SaveTeacher` replaces
assignments and drops the contracts the form omits; a form without NRCs writes
none of these tables and is no step). The CSV imports and the
activation are read committed, and the hourly workbook is previewed before its
transaction: `call` keeps what such a request read until its `Commit...`, and
anything happens between. An activation locks the row of its semester
(`Upsert`) and then waits for the rows of others (`CommitActivation`); `swept`
are the rows its second statement can see.

### HourlyPay, Assistantships, Repository

Each operation is one serializable transaction and one action. In `HourlyPay` a
date is a month and a day, a value is the product of rate and hours, and
`DaysPaid`, `Rounded` and `Total` are the calculator line by line; a form is the
whole list of lines, written one by one in its order, so that one which
exchanges the keys of two saved contracts meets the unique key and is refused
whole (`Writable`). Values are whole numbers of pesos; in the code rates and
hours are decimals, whose product may have a fraction, and that is left out. In
`Assistantships` a row of before the
end date was required has `NoEnd`. In `Repository` a form keeps the version it
was opened with; `editing[f].fields` observes what it showed; an imported output
comes with its authors. `LinksResolve` holds by the code's own
checks; the foreign keys (`onDelete: Restrict`) are a second guard, left out.

### Workbooks

A workbook is a function from line numbers to rows, `ok` says whether the cells
of a row are well formed. `FirstProjects`, `FoundProjects` and
`InsertedProjects` (and their siblings) are the three stages of a parser:
valid and first in the file, found by the query, still to be inserted. The query
compares texts as written and the code in lower case, which `Fold` tells apart.
The forms may change the tables between imports (`Edit...`).

A contract is of a teaching assignment, that is of a teacher, an NRC and a
course, and the code finds that assignment twice. `parseHourly` compares a row
with the contracts of the first assignment it meets of the teacher and the NRC
(`Lookups`: the query has no order, so any one may come first). `importHourly`
takes the course from a schedule, or else from an assignment, or else from an
enrollment of the NRC, any of them (`Resolved`, `Resolutions`), creates that
assignment if the teacher has none, and inserts the contract under it. While
the NRC is of one course (`OneCourse`) the two agree. When it has two, which
`Catalog_nrc` shows can happen, they may not: the existing contract is not
found, and the insertion doubles it under the other course or is refused by the
unique columns with all its rows. `HourlyOnce` therefore asks for `OneCourse`;
the model takes both courses, `Refused` included, so without that condition TLC
finds the refusal and the double.

A second import of the same workbook is not always idle: a row of a new teacher
without a name is an error the first time, and can be paid the second time if
another row of the file brought that teacher. `HourlyOnce` says just that: the
second import adds only such rows, and the third adds nothing. For projects and
outputs the second adds nothing. `ImportQueue` treats a rejected row as rejected
for good, so it does not have this late row.

The tables are those of the active semester; activating another one is a
different content of the tables, and the proofs hold for any content.

## Runs

| Run | Shows | States | Time |
| --- | --- | --- | --- |
| `ImportQueue_replicas` | two replicas, two workbooks sharing a row without a code, two faults: payloads, attempts, answers and runners are right; only a fault strands a job or rewrites an answer; the queue implements `ImportJobs` | 298k | 20 s |
| `ImportQueue_single` | one replica, two workbooks, three faults, three attempts: no row twice; every job ends; a stop ends | 30k | 11 s |
| `ImportQueue_race` | **violation** of `NoDuplicateRows`: two healthy replicas import a shared row twice | | 3 s |
| `UserAdmin_concurrent` | two accounts, two requests that may be cut off: stale answers and late administrators are bounded in time, history keeps its authors | 3.8M | 85 s |
| `UserAdmin_race` | **violation** of `AnActiveAdmin`: two concurrent removals leave no administrator | | 8 s |
| `Justifications_concurrent` | one case, two contents, two requests, one may be cut off: somebody with three roles and two contacts at one address: one story, one decision, true mails, everybody tried; implements `JustificationCase` | 326k | 50 s |
| `Onboarding_concurrent` | three operations in course, two emails, two preloads, one cut off, administrators changing accounts and roles: preloads spent once, roles from the consumed preload, one initial administrator | 616k | 75 s |
| `Onboarding_bootstrap` | **violation** of `InitialAdminArrives`: a first login during `prepare` leaves an application nobody administers | | 1 s |
| `Catalog_concurrent` | five operations on three semesters, two of them read committed at a time: students of an NRC stay together, renames separate nobody, only a CSV import gives an NRC two courses, the past is not rewritten, a second active semester needs a creation meanwhile | 116k | 45 s |
| `Catalog_nrc` | **violation** of `OneCoursePerNrc`: a coded row of the teaching load gives an NRC a second course | | 1 s |
| `Services` | seven scenes that share no state: three accounts administered one request at a time, a teacher's contracts, assistantships, two editors of the repository, and each of the three workbooks imported among edits | 363k | 170 s |
| `Workbooks_sheets` | **violation** of `EveryRowIsReported`: a repeated publication takes the book of its row number along | | 1 s |

`Services` takes one scene per behaviour: the scenes share neither state nor
actions, so one run of TLC serves them all. Deadlock is checked where a system
never rests. `Catalog` ends after `MaxSteps` operations, and in `Services` a
scene may come to its end (`MaxVersion` writes of a row, an account that is not
created again), so their configurations do not check it. Violation runs are
findings: the code does not keep what the quoted line of the repository says.

**The findings.** `importProjects` looks rows up outside the serializable
transaction that inserts them, so two replicas insert the same project twice.
`revokeRole`, `setActive` and `permanentlyDelete` count administrators and then
write, so two of them remove the last two. `prepare` and `preloadUser` check
for the account and then insert the preload; a first login that commits in
between leaves an account and a preload of the same email, which no login
consumes. For the initial administrator that is final: `prepare` sees the
preload and answers `already-prepared` at every start. `importCsv` takes the
course a coded row names without looking at what the NRC is, and from then on
`loadCurrentCourses` refuses every form of the semester. `parseResearch` removes
repeated rows by number, whichever sheet they are of: with a publication in row
6 that is in the repository, the new book in row 6 of Libros is neither
imported nor counted nor reported.

**Bounds.** Two replicas are enough for a race over a job, and the proofs lift
the main invariants to any number. A second workbook is what makes rows
overlap. Two attempts (three in `ImportQueue_single`) give a retry and an
exhaustion. Faults are bounded in the whole behaviour, which is also what makes
liveness possible: two allow a fault during the recovery from a fault. Every
race found needs two requests; `Onboarding` takes three because a login, a
bootstrap and a preload can meet. `MaxPreloads` limits only arrivals: an
operation in course always has its slot. TTL and Pause of one tick are enough
to order a store, an eviction and an expiry in every way. In `Catalog` five
operations set up an offering with students or held assignments and let two
imports or activations cross over it; two NRCs allow a rename, two courses a
clash, and three semesters two activations beside the one that is active.
`HourlyPay` has a month of 31 days and a February, and days 1, 28 and 31 to
start or end on, so periods of every shape at the edges, and values that
round up and down; the cuts of a contract range over all days. `Assistantships`
has days outside the semester, three slots of which two overlap, and one old row
without an end. `Workbooks` has two lines, with spellings that differ in case
and a hole; a third line adds no kind of pair. Its contracts have one NRC that
schedules, assignments and enrollments give one course or two, one RUT beside
the teachers without any, and two emails; several new teachers in a workbook are
covered by the proof. `Onboarding_concurrent` has two preloads: enough for one
to replace another, or to be a second initial one. The proofs below lift most
of these to any size.

**Fairness.** A replica's event loop runs what is ready and its timers fire
(weak fairness of `Step`, `Exit` and the heartbeat), the orchestrator restarts a
replica that is down (`Boot`), time passes (`Tick`). A request in course is
served to its end unless it is cut off (`Serve`). In `Onboarding` a person who
wants in keeps trying (strong fairness of the login, since the request slots
may be busy). Nothing is assumed of stops, faults, cancellations or
administrators.

## Proofs

TLAPS proves for every value of the constants, under the named ASSUMEs of the
modules (sizes are naturals, distinguished values are outside their sets,
finitely many requests in `Onboarding`, disjoint tables in `Repository`, days
and months that are numbers in `Assistantships` and `HourlyPay`). What a theorem
assumes beyond them is in its statement. Every invariant and every action
property of the passing runs is a theorem, and so are both refinements.

| Theorem | Statement | Argument |
| --- | --- | --- |
| `ImportQueueProofs!TypeCorrect` | `[](TypeOK /\ ClaimInv)` | `ClaimInv` is what makes types inductive: a busy poll has a job, and a claim in course holds the lock of a job still queued, because nobody else writes a locked row |
| `PayloadStored`, `AttemptsNeverExceeded` | `[]PayloadWhileNeeded`, `[]AttemptsBounded` | `TableInv` adds that a job never submitted was never claimed and that a run's job was submitted; it needs no assumption about heartbeats |
| `NeverTwoRunners` | `HeartbeatsSuffice` implies `[]OneRunner` | `FreshInv`: the age of a run's job is at most the ticks since its last heartbeat that got through, so it is never stale; `RunInv`: then nobody requeues it. `HeartbeatsSuffice` is `HEARTBEAT * (MaxLost + 1) <= STALE`: with 30 s and 10 min, 19 losses in a row |
| `NeverStranded` | `[]StrandedOnlyByFault` | whoever gives a job up without a fault writes its status first; no assumption about heartbeats |
| `AnswersTrue`, `AnswersFinal` | `HeartbeatsSuffice` implies `[]AnswersAreTrue`, `TerminalIsFinal` | `DeliverInv`: a run past its parse knows which rows of its workbook are missing, and rows only come; `ImportedInv`: until the first fault, a job whose rows were committed is COMPLETED or about to be. With one runner per job nobody else writes the outcome |
| `QueueKeepsItsPromise` | `HeartbeatsSuffice` implies `ImplementsImportJobs` | the initial states map to initial states, and every step is a step of the life of one job or a stutter |
| `OneReplicaInsertsOnce` | with one replica, `[]NoDuplicateRows` | `OnceInv`: the rows a run is about to insert have no copy yet; a crash rolls the transaction back |
| `RetriesInsertOnce` | `HeartbeatsSuffice` and `Unshared` imply `[]NoDuplicateRows` | the same for any number of replicas when two workbooks share only rows with a unique index. `ImportQueue_race` shows that `Unshared` cannot be dropped |
| `UserAdminProofs!AuthorsKept` | `[]HistoryKeepsItsAuthors` | the foreign keys decide when the row is deleted, whatever was counted before |
| `CacheConverges` | `[]CacheCatchesUp` | `FreshAnswer`: an answer a request carries was right at most as long ago as the request is old; `FreshEntry`: an entry at most its age longer. Then an old entry has expired |
| `FormerAdminsStop` | `[]NoLateAdministration` | `FreshAdmin`: a request past the guard began with an answer of that age, and goes on for `Pause` at most |
| `AloneIsSafe` | with one request that is not cut off, `[]ServedAlone` | `AloneInv`: between check and write nothing changes, so a removal leaves an administrator, and what contradicts the tables is evicted before the request ends |
| `JustificationsProofs!OneStory`, `InboxAgrees`, `NobodyElsesCase`, `OneAnswer` | the safety properties of `Justifications` | `LinkInv`: a request carries only the student of its own content; `StoryInv`: history and inbox follow the status; `MailInv`: at most one request informs about a case, with the stored verdict and content, and a message is still to be sent or was tried, not both, for each role and address: the sum is at most one |
| `Implementation` | `Spec => ImplementsCase` | each step is a step of the case or a stutter, from the same invariant |
| `OnboardingProofs!PreloadSpentOnce` | `[]SpentOnce` | `SpentInv`: a live preload belongs to one email and is unspent |
| `OneInitialAdministrator` | `[]OneInitialPreload` | `LockInv`: one bootstrap under the lock, and once it found no preloaded administrator no initial one waits |
| `RolesComeFromThePreload` | `BornWithItsPreload` | an action property, from the types |
| `CatalogProofs!StudentsStayTogether`, `HeldRowsExist` | `[]EnrolledTogether`, `[]HeldExist` | each follows from the types and from how a table moves: `EnrollmentsMove`, `SchedulesMove` and their siblings say once what any action does to one table |
| `FormsDoNotConfuse`, `RenamesKeepClasses`, `PastIsKept` | `FormsKeepNrcsUnambiguous`, `RenamesSeparateNobody`, `PastSemestersFrozen` | action properties. A form refuses an NRC that means another course, a rename carries the three tables along, and every form writes to the active semester only |
| `OneActiveSemester` | `TwoActiveOnlyByCreation` | `SweepInv`: an activation in course sweeps every semester it knew but its own |
| `RepositoryProofs!LinksAlwaysResolve`, `NobodyOverwritesUnseen` | `[]LinksResolve`, `OverwritesWhatItShowed` | `FormsShow`: as long as a row has the version a form knows, the form shows it as it is. It is inductive because every write of a row raises its version |
| `AlwaysImportedOnce` | `[]ImportedOnce` | for each template: what an import inserted is found by the query of the next one, and the first row of a file shadows its repetitions. For contracts, if each NRC is of one course: an import gives no NRC another course (`SameCourses`), the lookup finds any contract there is (`LookupFinds`), so nothing is refused and no row that was compared comes back (`NotTwice`); rows of the second import bring no teacher, so the third finds the same rows (`ThirdIsEmpty`). `WorkbooksTypeOK` (the unique columns, no contract without its assignment) is inductive by the same lemmas |
| `TeachingProofs!NobodyEverInTwoPlaces` | `[]NobodyIsInTwoPlaces` | two rows of one student at the same minute are a `Conflict`, which the query looks for before every save; needs the types, rows without end included |
| `SignedValuesStay` | `KeptRateKeepsItsValue` | an action property of `SaveContracts` |
| `NoMonthIsOverpaid`, `EveryFullMonthPays30Days`, `RoundingOfAMonth`, `CutPaysTheSameMonth` | one month of the calculator: 1 to 30 days, 30 when full, half a peso of rounding, the same days when the contract is cut in two | arithmetic, for every calendar with months of 28 to 31 days |
| `CutPaysTheSame`, `RoundingOfAContract`, `PaymentsAlwaysAddUp` | `[]PaymentsAddUp` | the months added up: see below |
| `ServicesProofs!ServicesTypeCorrect`, `ServicesImportOnce` | `[]ServicesTypeOK`, `[]ImportedOnceHere` | a behaviour of the common run is, seen from each service, a behaviour of that service (`ServicesKeepApart`) |

with the type correctness of each of these modules. `SlotInv` in
`OnboardingProofs` is about the bound `MaxPreloads` only.

**Sums.** `Days` and `Total` add up the months of a contract with
`MapThenSumSet`, which is recursive. The library's induction theorems take an
operator, so the lemmas of `TeachingProofs` go by a least counterexample
instead: the strict subsets of a finite set are well founded
(`FS_StrictSubsetOrderingWellFounded`), hence a set of good subsets that
contains each one whose strict subsets are good contains them all
(`AllSubsets`). From it follow that a sum exists (`SumExists`), does not
depend on the set around (`SumAgrees`) or on the order (`SumAny`), is linear
(`SumLinear`) and bounded by its terms (`SumBounded`); `DaysIsSum` and
`TotalIsSum` say that the fold of the library is that sum.

**What the proofs found in the models.** `Read` of `UserAdmin` had a CASE with
overlapping guards, where the code takes the first branch that applies; TLC
reads a CASE in that order, the language does not. It is an ordered choice now.
`Ambiguous`, `Classes` and the action properties of `Catalog` were rewritten
without changing what they say.

Only model-checked: the liveness properties `EveryJobEnds`, `StopEnds` and
`EveryoneIsTried`, since the prover handles neither fairness nor ENABLED. No
module declares a RECURSIVE operator. The violation runs are counterexamples
and need no proof.

## Not modelled

- Parts without state of their own: reports, charts and the dashboard
  (queries), GraphQL resolvers, DTOs and filters, the shell (`main.ts`, health,
  logging), deployment scripts.
- Private storage: calls to the S3 client, a format of names and one limit.
- PII: the codec rewrites the arguments of queries around a library cipher; the
  offline conversion is one process that runs alone.
- Sessions: one cache entry that is created, read and deleted whole.
- In the parts that are modelled: cells and formats of workbooks, names and
  texts, the personal data of teachers, later logins of an account that exists,
  and everything that only reads. A component is `partly` modelled when one of
  its operations is left out; `PROJECT.json` says which.

## Plan

Done: every part above that keeps a state which more than one step depends on,
and a theorem for every property of it but liveness. What could still be said
for every value of the constants: that `UserAdmin` with transactions around
check and write would keep an administrator, and that `importProjects` with its
look-up inside the transaction would need no `Unshared`, which is what the two
races of the findings ask of a correction.
