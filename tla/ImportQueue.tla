---------------------------- MODULE ImportQueue ----------------------------
(***************************************************************************)
(* AcademicImportQueueService: a job table in PostgreSQL served by one     *)
(* poll loop in every API replica.  A replica claims the oldest queued     *)
(* job, runs the import, keeps the job's updatedAt fresh with a heartbeat  *)
(* and writes the outcome; jobs whose updatedAt went stale are put back    *)
(* in the queue, or given up after MAX_ATTEMPTS claims.                    *)
(*                                                                         *)
(* Time advances in ticks.  Jobs are numbered in createdAt order.          *)
(***************************************************************************)
EXTENDS AcademicImports

CONSTANTS
  Worker,          \* the API replicas
  NoWorker,        \* "nobody holds the row lock"
  MAX_ATTEMPTS,    \* claims before a job is given up (3 in the code)
  HEARTBEAT,       \* ticks between two heartbeats (30 s)
  RECOVERY,        \* ticks between two recoveries of a replica (60 s)
  STALE,           \* a job is stale when updatedAt is older than this (10 min)
  MaxLost,         \* bound: consecutive heartbeats of a run that may fail
  MaxFaults        \* bound: crashes and failed database calls in a behaviour

ASSUME QueueAssumption ==
  /\ NoWorker \notin Worker
  /\ MAX_ATTEMPTS \in Nat \ {0}
  /\ HEARTBEAT \in Nat \ {0}
  /\ RECOVERY \in Nat /\ STALE \in Nat /\ MaxLost \in Nat /\ MaxFaults \in Nat

VARIABLES
  \* the AcademicImportJob table
  status, attempts, payload,
  age,        \* ticks since updatedAt, while the job is PROCESSING
  lock,       \* row lock of the claim transaction (FOR UPDATE)
  \* one AcademicImportQueueService per replica
  phase,      \* where its poll is
  stopped,    \* onModuleDestroy has run
  job,        \* the job its poll works on
  todo,       \* the rows its import decided to insert
  beat,       \* ticks since its heartbeat timer fired
  lost,       \* heartbeats of this run that failed in a row
  sinceRecovery,
  \* observation only: faults so far, jobs whose import transaction committed
  faults, imported

jobVars == <<status, attempts, payload, age, lock>>
runVars == <<job, todo, beat, lost>>
vars == <<copies, jobVars, runVars, phase, stopped, sinceRecovery, faults, imported>>

NoJob == 0
Terminal == {"COMPLETED", "FAILED"}
RunningPhase == {"parse", "write", "complete", "fail"}
RecoveryPhase == {"bootRequeue", "bootGiveUp", "requeue", "giveUp"}

Running(w) == phase[w] \in RunningPhase

(* Variants that end in _Mut are plausible slips; no run uses them as they *)
(* are.  They are here to confirm that the properties notice such a slip.  *)
Stale_Mut(j) == status[j] = "PROCESSING"   \* ignores recent activity
Stale(j) == status[j] = "PROCESSING" /\ age[j] > STALE

Retryable_Mut(j) == Stale(j) /\ attempts[j] <= MAX_ATTEMPTS
Retryable(j) == Stale(j) /\ attempts[j] < MAX_ATTEMPTS

Exhausted_Mut(j) == Stale(j) /\ attempts[j] > MAX_ATTEMPTS
Exhausted(j) == Stale(j) /\ attempts[j] >= MAX_ATTEMPTS

TypeOK ==
  /\ ImportsTypeOK
  /\ status \in [Job -> {"NONE", "QUEUED", "PROCESSING"} \cup Terminal]
  /\ attempts \in [Job -> Nat]
  /\ payload \in [Job -> BOOLEAN]
  /\ age \in [Job -> 0..(STALE + 1)]
  /\ lock \in [Job -> Worker \cup {NoWorker}]
  /\ phase \in [Worker -> {"down", "idle", "claim", "claimed"}
                            \cup RecoveryPhase \cup RunningPhase]
  /\ stopped \in [Worker -> BOOLEAN]
  /\ job \in [Worker -> Job \cup {NoJob}]
  /\ todo \in [Worker -> SUBSET Row]
  /\ beat \in [Worker -> 0..HEARTBEAT]
  /\ lost \in [Worker -> 0..MaxLost]
  /\ sinceRecovery \in [Worker -> 0..RECOVERY]
  /\ faults \in 0..MaxFaults
  /\ imported \in SUBSET Job

Init ==
  /\ ImportsInit
  /\ status = [j \in Job |-> "NONE"]
  /\ attempts = [j \in Job |-> 0]
  /\ payload = [j \in Job |-> FALSE]
  /\ age = [j \in Job |-> 0]
  /\ lock = [j \in Job |-> NoWorker]
  /\ phase = [w \in Worker |-> "down"]
  /\ stopped = [w \in Worker |-> FALSE]
  /\ job = [w \in Worker |-> NoJob]
  /\ todo = [w \in Worker |-> {}]
  /\ beat = [w \in Worker |-> 0]
  /\ lost = [w \in Worker |-> 0]
  /\ sinceRecovery = [w \in Worker |-> 0]
  /\ faults = 0
  /\ imported = {}

-----------------------------------------------------------------------------
(* Helpers: each says what one database write or one return changes.       *)

Goto(w, p) == phase' = [phase EXCEPT ![w] = p]

\* The end of poll(): the replica forgets the job and its timer is cleared.
EndPoll(w, p) ==
  /\ Goto(w, p)
  /\ job' = [job EXCEPT ![w] = NoJob]
  /\ todo' = [todo EXCEPT ![w] = {}]
  /\ beat' = [beat EXCEPT ![w] = 0]
  /\ lost' = [lost EXCEPT ![w] = 0]

\* A write that ends a set of jobs: the payload goes with it.
Settle_Mut(js, s) ==   \* leaves the workbook behind
  /\ status' = [j \in Job |-> IF j \in js THEN s ELSE status[j]]
  /\ age' = [j \in Job |-> IF j \in js THEN 0 ELSE age[j]]
  /\ UNCHANGED <<attempts, payload, lock>>

Settle(js, s) ==
  /\ status' = [j \in Job |-> IF j \in js THEN s ELSE status[j]]
  /\ payload' = [j \in Job |-> IF j \in js THEN FALSE ELSE payload[j]]
  /\ age' = [j \in Job |-> IF j \in js THEN 0 ELSE age[j]]
  /\ UNCHANGED <<attempts, lock>>

\* What a process loses when it ends, besides its poll.
ForgetProcess(w) ==
  /\ stopped' = [stopped EXCEPT ![w] = FALSE]
  /\ sinceRecovery' = [sinceRecovery EXCEPT ![w] = 0]

Unlock(w) == lock' = [j \in Job |-> IF lock[j] = w THEN NoWorker ELSE lock[j]]

Fault == faults < MaxFaults /\ faults' = faults + 1

-----------------------------------------------------------------------------
(* Requests and process lifecycle.                                         *)

\* enqueue: any replica that is up serves the request.
Enqueue(j) ==
  /\ status[j] = "NONE"
  /\ \A i \in 1..(j - 1) : status[i] # "NONE"
  /\ \E w \in Worker : phase[w] \notin {"down", "bootRequeue", "bootGiveUp"}
  /\ status' = [status EXCEPT ![j] = "QUEUED"]
  /\ payload' = [payload EXCEPT ![j] = TRUE]
  /\ UNCHANGED <<copies, attempts, age, lock, runVars, phase, stopped,
                 sinceRecovery, faults, imported>>

\* A replica starts and enters onModuleInit.
Boot(w) ==
  /\ phase[w] = "down"
  /\ Goto(w, "bootRequeue")
  /\ UNCHANGED <<copies, jobVars, runVars, stopped, sinceRecovery, faults, imported>>

\* onModuleDestroy: no poll starts any more, the one in course is awaited.
Stop(w) ==
  /\ phase[w] \notin {"down", "bootRequeue", "bootGiveUp"}
  /\ ~stopped[w]
  /\ stopped' = [stopped EXCEPT ![w] = TRUE]
  /\ UNCHANGED <<copies, jobVars, runVars, phase, sinceRecovery, faults, imported>>

Exit_Mut(w) ==   \* does not wait for the poll in course
  /\ stopped[w] /\ phase[w] # "down"
  /\ Goto(w, "down")
  /\ ForgetProcess(w)
  /\ Unlock(w)
  /\ UNCHANGED <<copies, status, attempts, payload, age, runVars, faults, imported>>

Exit(w) ==
  /\ stopped[w] /\ phase[w] = "idle"
  /\ Goto(w, "down")
  /\ ForgetProcess(w)
  /\ UNCHANGED <<copies, jobVars, runVars, faults, imported>>

\* The process is killed: its memory is gone, its open transaction rolls back.
Crash(w) ==
  /\ phase[w] # "down"
  /\ Fault
  /\ EndPoll(w, "down")
  /\ ForgetProcess(w)
  /\ Unlock(w)
  /\ UNCHANGED <<copies, status, attempts, payload, age, imported>>

-----------------------------------------------------------------------------
(* recoverInterruptedJobs: two updates, one after the other.  On start it  *)
(* runs inside onModuleInit, which then polls at once; later a poll runs   *)
(* it first when the last recovery is RECOVERY ticks old.                  *)

Requeue(w) ==
  /\ phase[w] \in {"bootRequeue", "requeue"}
  /\ LET back == {j \in Job : Retryable(j)}
     IN  /\ status' = [j \in Job |-> IF j \in back THEN "QUEUED" ELSE status[j]]
         /\ age' = [j \in Job |-> IF j \in back THEN 0 ELSE age[j]]
  /\ Goto(w, IF phase[w] = "requeue" THEN "giveUp" ELSE "bootGiveUp")
  /\ UNCHANGED <<copies, attempts, payload, lock, runVars, stopped,
                 sinceRecovery, faults, imported>>

GiveUp(w) ==
  /\ phase[w] \in {"bootGiveUp", "giveUp"}
  /\ Settle({j \in Job : Exhausted(j)}, "FAILED")
  /\ Goto(w, "claim")
  /\ sinceRecovery' = [sinceRecovery EXCEPT ![w] = 0]
  /\ UNCHANGED <<copies, runVars, stopped, faults, imported>>

\* A failed recovery aborts the start of a replica; a poll only logs it.
RecoveryError(w) ==
  /\ Fault
  /\ \/ /\ phase[w] \in {"bootRequeue", "bootGiveUp"}
        /\ Goto(w, "down")
     \/ /\ phase[w] \in {"requeue", "giveUp"}
        /\ Goto(w, "idle")
  /\ UNCHANGED <<copies, jobVars, runVars, stopped, sinceRecovery, imported>>

-----------------------------------------------------------------------------
(* processNext and poll: one job per poll, never two polls in a replica.   *)

StartPoll_Mut(w) ==   \* polls on after onModuleDestroy
  /\ phase[w] = "idle"
  /\ Goto(w, IF sinceRecovery[w] >= RECOVERY THEN "requeue" ELSE "claim")
  /\ UNCHANGED <<copies, jobVars, runVars, stopped, sinceRecovery, faults, imported>>

StartPoll(w) ==
  /\ phase[w] = "idle" /\ ~stopped[w]
  /\ Goto(w, IF sinceRecovery[w] >= RECOVERY THEN "requeue" ELSE "claim")
  /\ UNCHANGED <<copies, jobVars, runVars, stopped, sinceRecovery, faults, imported>>

\* SELECT ... ORDER BY createdAt FOR UPDATE SKIP LOCKED LIMIT 1
Candidates_Mut == {j \in Job : status[j] = "QUEUED"}   \* no SKIP LOCKED
Candidates == {j \in Job : status[j] = "QUEUED" /\ lock[j] = NoWorker}

SelectCandidate(w) ==
  /\ phase[w] = "claim"
  /\ \E j \in Candidates :
       /\ \A i \in Candidates : j <= i
       /\ lock' = [lock EXCEPT ![j] = w]
       /\ job' = [job EXCEPT ![w] = j]
  /\ Goto(w, "claimed")
  /\ UNCHANGED <<copies, status, attempts, payload, age, todo, beat, lost,
                 stopped, sinceRecovery, faults, imported>>

NothingToClaim(w) ==
  /\ phase[w] = "claim" /\ Candidates = {}
  /\ Goto(w, "idle")
  /\ UNCHANGED <<copies, jobVars, runVars, stopped, sinceRecovery, faults, imported>>

\* The UPDATE of the claim transaction and its commit.
TakeJob(j) ==
  /\ status' = [status EXCEPT ![j] = "PROCESSING"]
  /\ attempts' = [attempts EXCEPT ![j] = @ + 1]
  /\ age' = [age EXCEPT ![j] = 0]

ClaimJob(w) ==
  /\ phase[w] = "claimed"
  /\ TakeJob(job[w])
  /\ Unlock(w)
  /\ Goto(w, IF payload[job[w]] THEN "parse" ELSE "fail")
  /\ UNCHANGED <<copies, payload, runVars, stopped, sinceRecovery, faults, imported>>

\* The claim fails: rolled back, or committed with its answer lost.
ClaimError(w) ==
  /\ phase[w] \in {"claim", "claimed"}
  /\ Fault
  /\ \/ UNCHANGED <<status, attempts, age>>
     \/ phase[w] = "claimed" /\ TakeJob(job[w])
  /\ Unlock(w)
  /\ EndPoll(w, "idle")
  /\ UNCHANGED <<copies, payload, stopped, sinceRecovery, imported>>

-----------------------------------------------------------------------------
(* process: run the import, then record its outcome.                       *)

\* The lookup; nothing left to insert is a BadRequestException.
Parse(w) ==
  /\ phase[w] = "parse"
  /\ LET rows == MissingRows(job[w])
     IN  /\ todo' = [todo EXCEPT ![w] = rows]
         /\ Goto(w, IF rows = {} THEN "fail" ELSE "write")
  /\ UNCHANGED <<copies, jobVars, job, beat, lost, stopped, sinceRecovery,
                 faults, imported>>

Insert(w) ==
  /\ phase[w] = "write" /\ ~KeyClash(todo[w])
  /\ InsertRows(todo[w])
  /\ imported' = imported \cup {job[w]}
  /\ \/ Goto(w, "complete") /\ UNCHANGED faults
     \/ Goto(w, "fail") /\ Fault        \* committed, but the answer was lost
  /\ UNCHANGED <<jobVars, runVars, stopped, sinceRecovery>>

\* The import throws and wrote nothing: unreadable workbook, unique
\* violation, serialization failure, transaction timeout.
ImportThrows(w) ==
  /\ phase[w] \in {"parse", "write"}
  /\ Goto(w, "fail")
  /\ UNCHANGED <<copies, jobVars, runVars, stopped, sinceRecovery, faults, imported>>

\* update({ where: { id } }) waits for a row lock and looks at nothing else.
WriteOutcome(w, s) == lock[job[w]] = NoWorker /\ Settle({job[w]}, s)

Complete(w) ==
  /\ phase[w] = "complete"
  /\ WriteOutcome(w, "COMPLETED")
  /\ EndPoll(w, "idle")
  /\ UNCHANGED <<copies, stopped, sinceRecovery, faults, imported>>

\* The catch block also catches a failure of the COMPLETED write.
CompleteError(w) ==
  /\ phase[w] = "complete"
  /\ Fault
  /\ WriteOutcome(w, "COMPLETED") \/ UNCHANGED jobVars
  /\ Goto(w, "fail")
  /\ UNCHANGED <<copies, runVars, stopped, sinceRecovery, imported>>

Fail(w) ==
  /\ phase[w] = "fail"
  /\ WriteOutcome(w, "FAILED")
  /\ EndPoll(w, "idle")
  /\ UNCHANGED <<copies, stopped, sinceRecovery, faults, imported>>

FailError(w) ==
  /\ phase[w] = "fail"
  /\ Fault
  /\ WriteOutcome(w, "FAILED") \/ UNCHANGED jobVars
  /\ EndPoll(w, "idle")
  /\ UNCHANGED <<copies, stopped, sinceRecovery, imported>>

-----------------------------------------------------------------------------
(* The heartbeat interval of a running import, and time.                   *)

HeartbeatDue_Mut(w) == Running(w) /\ beat[w] > HEARTBEAT   \* one tick late
HeartbeatDue(w) == Running(w) /\ beat[w] = HEARTBEAT

\* updateMany({ where: { id, status: PROCESSING } }): any run's heartbeat
\* refreshes the job, whoever claimed it last.
Heartbeat(w) ==
  /\ HeartbeatDue(w)
  /\ age' = [age EXCEPT ![job[w]] = 0]
  /\ beat' = [beat EXCEPT ![w] = 0]
  /\ lost' = [lost EXCEPT ![w] = 0]
  /\ UNCHANGED <<copies, status, attempts, payload, lock, phase, stopped, job,
                 todo, sinceRecovery, faults, imported>>

HeartbeatLost(w) ==
  /\ HeartbeatDue(w) /\ lost[w] < MaxLost
  /\ beat' = [beat EXCEPT ![w] = 0]
  /\ lost' = [lost EXCEPT ![w] = @ + 1]
  /\ UNCHANGED <<copies, jobVars, phase, stopped, job, todo, sinceRecovery,
                 faults, imported>>

\* Timers fire on time: a tick waits for the heartbeats that are due.
Tick ==
  /\ \A w \in Worker : ~HeartbeatDue(w)
  /\ age' = [j \in Job |-> IF status[j] = "PROCESSING" /\ age[j] <= STALE
                             THEN age[j] + 1 ELSE age[j]]
  /\ beat' = [w \in Worker |-> IF Running(w) THEN beat[w] + 1 ELSE beat[w]]
  /\ sinceRecovery' = [w \in Worker |->
                         IF phase[w] # "down" /\ sinceRecovery[w] < RECOVERY
                           THEN sinceRecovery[w] + 1 ELSE sinceRecovery[w]]
  /\ UNCHANGED <<copies, status, attempts, payload, lock, phase, stopped, job,
                 todo, lost, faults, imported>>

-----------------------------------------------------------------------------
\* The code a running replica executes on its own.
Step(w) ==
  \/ Requeue(w) \/ GiveUp(w)
  \/ StartPoll(w) \/ SelectCandidate(w) \/ NothingToClaim(w) \/ ClaimJob(w)
  \/ Parse(w) \/ Insert(w) \/ ImportThrows(w) \/ Complete(w) \/ Fail(w)

Trouble(w) ==
  \/ Crash(w) \/ RecoveryError(w) \/ ClaimError(w) \/ CompleteError(w)
  \/ FailError(w) \/ HeartbeatLost(w)

Next ==
  \/ \E j \in Job : Enqueue(j)
  \/ \E w \in Worker :
       Boot(w) \/ Stop(w) \/ Exit(w) \/ Step(w) \/ Heartbeat(w) \/ Trouble(w)
  \/ Tick

\* A replica that is down is started again, a running one keeps executing,
\* its timers fire and time passes.  Stops, faults and requests just happen.
Fairness ==
  /\ \A w \in Worker :
       /\ WF_vars(Boot(w)) /\ WF_vars(Exit(w)) /\ WF_vars(Step(w))
       /\ WF_vars(Heartbeat(w) \/ HeartbeatLost(w))
  /\ WF_vars(Tick)

Spec == Init /\ [][Next]_vars /\ Fairness

-----------------------------------------------------------------------------
(* Properties.                                                             *)

\* The heartbeats that may fail in a row do not add up to a stale job.  With
\* the code's 30 s and 10 min this allows 19 failures in a row.
HeartbeatsSuffice == HEARTBEAT * (MaxLost + 1) <= STALE

\* The encrypted workbook of a job (personal data) is stored exactly while
\* some claim may still need it: every path that ends a job erases it, and
\* no path puts a job without workbook back in the queue.
PayloadWhileNeeded ==
  \A j \in Job : payload[j] <=> status[j] \in {"QUEUED", "PROCESSING"}

\* A job is claimed at most MAX_ATTEMPTS times, and only a job with a claim
\* left is ever put back in the queue.
AttemptsBounded ==
  \A j \in Job : /\ attempts[j] <= MAX_ATTEMPTS
                 /\ status[j] = "QUEUED" => attempts[j] < MAX_ATTEMPTS

\* No two replicas ever run the same job: while its heartbeats get through
\* often enough, a running job is never taken for an interrupted one.
OneRunner ==
  \A v, w \in Worker : Running(v) /\ Running(w) /\ job[v] = job[w] => v = w

\* A job is PROCESSING with nobody working on it only after a crash or a
\* failed database call: a graceful stop never strands a job.
StrandedOnlyByFault ==
  \A j \in Job :
    status[j] = "PROCESSING" /\ ~(\E w \in Worker : Running(w) /\ job[w] = j)
      => faults > 0

\* The rows of a job are all in the repository.
Delivered(j) == \A r \in RowsOf[j] : Present(r)

\* What the answer says is so: COMPLETED is never shown for a workbook whose
\* rows are not all in the repository, whatever was lost or retried on the
\* way, and a job reported as FAILED inserted nothing, unless a crash or a
\* failed database call hid the commit from the replica.
AnswersAreTrue ==
  /\ \A j \in Job : status[j] = "COMPLETED" => Delivered(j)
  /\ \A j \in Job : status[j] = "FAILED" /\ j \in imported => faults > 0

\* The answer a client has seen (COMPLETED or FAILED) is not rewritten,
\* unless a failed database call left the replica in doubt about it, and
\* FAILED is never rewritten at all.
TerminalIsFinal ==
  [][\A j \in Job : status[j] \in Terminal /\ status'[j] # status[j]
       => status[j] = "COMPLETED" /\ status'[j] = "FAILED" /\ faults > 0]_vars

\* The repository never holds two copies of a row.
NoDuplicateRows == \A r \in Row : copies[r] <= 1

\* Every submitted workbook ends COMPLETED or FAILED, although replicas
\* crash, stop and lose database calls a bounded number of times.
EveryJobEnds == \A j \in Job : status[j] = "QUEUED" ~> status[j] \in Terminal

\* A replica told to stop does stop: the poll it waits for ends.
StopEnds == \A w \in Worker : stopped[w] ~> phase[w] = "down"

\* The queue implements the life of a job that a client is promised.
Promise == INSTANCE ImportJobs WITH
  Jobs <- Job, MaxStarts <- MAX_ATTEMPTS,
  state <- status, starts <- attempts, delivered <- [j \in Job |-> Delivered(j)]

ImplementsImportJobs == Promise!JobsSpec
=============================================================================
