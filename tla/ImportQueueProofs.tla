------------------------- MODULE ImportQueueProofs -------------------------
(***************************************************************************)
(* Proofs about ImportQueue, for every number of jobs and replicas, every  *)
(* set of rows and every choice of the timing constants.                   *)
(***************************************************************************)
EXTENDS ImportQueue, TLAPS

\* Where a poll that holds or runs a job is.
Busy(w) == phase[w] = "claimed" \/ Running(w)

\* A busy poll has a job; a poll about to commit its claim holds the row lock
\* of a job that is still queued.
ClaimInv ==
  /\ \A w \in Worker : Busy(w) => job[w] \in Job
  /\ \A w \in Worker : phase[w] = "claimed" =>
       status[job[w]] = "QUEUED" /\ lock[job[w]] = w

TypeInv == TypeOK /\ ClaimInv

LEMMA TypeInit == Init => TypeInv
<1>1. ASSUME Init PROVE TypeOK
  BY <1>1, QueueAssumption, ImportsAssumption
     DEF Init, TypeOK, ImportsTypeOK, ImportsInit, NoJob, Terminal
<1>2. ASSUME Init PROVE ClaimInv
  BY <1>2 DEF Init, ClaimInv, Busy, Running, RunningPhase
<1>3. QED BY <1>1, <1>2 DEF TypeInv

\* A write that ends jobs keeps the job table well typed, and leaves alone
\* the jobs whose claim is in course: they are queued and locked.
SettledOK ==
  /\ status' \in [Job -> {"NONE", "QUEUED", "PROCESSING"} \cup Terminal]
  /\ payload' \in [Job -> BOOLEAN]
  /\ age' \in [Job -> 0..(STALE + 1)]
  /\ attempts' = attempts /\ lock' = lock
  /\ \A v \in Worker : phase[v] = "claimed" => status'[job[v]] = "QUEUED"

LEMMA SettleOK ==
  ASSUME TypeInv, NEW js, NEW s \in Terminal, Settle(js, s),
         \A j \in Job \cap js : status[j] # "QUEUED" \/ lock[j] = NoWorker
  PROVE  SettledOK
<1> USE DEF TypeInv
<1>1. status' \in [Job -> {"NONE", "QUEUED", "PROCESSING"} \cup Terminal]
  BY DEF TypeOK, Settle, Terminal
<1>2. payload' \in [Job -> BOOLEAN]
  BY DEF TypeOK, Settle
<1>3. age' \in [Job -> 0..(STALE + 1)]
  BY QueueAssumption DEF TypeOK, Settle
<1>4. attempts' = attempts /\ lock' = lock
  BY DEF Settle
<1>5. ASSUME NEW v \in Worker, phase[v] = "claimed"
      PROVE  status'[job[v]] = "QUEUED"
  <2>1. job[v] \in Job /\ status[job[v]] = "QUEUED" /\ lock[job[v]] = v
    BY <1>5 DEF ClaimInv, Busy
  <2>2. job[v] \notin js
    BY <2>1, QueueAssumption
  <2>3. QED BY <2>1, <2>2 DEF Settle
<1>6. QED BY <1>1, <1>2, <1>3, <1>4, <1>5 DEF SettledOK

\* The type invariant and ClaimInv are preserved together.
LEMMA TypeStep == TypeInv /\ [Next]_vars => TypeInv'
<1> SUFFICES ASSUME TypeInv, [Next]_vars PROVE TypeInv'
  OBVIOUS
<1> USE QueueAssumption, ImportsAssumption
    DEF TypeInv, TypeOK, ImportsTypeOK, ClaimInv, Busy, Running, RunningPhase,
        RecoveryPhase, Terminal, NoJob, Goto, jobVars, runVars
<1>1. ASSUME NEW j \in Job, Enqueue(j) PROVE TypeInv'
  BY <1>1 DEF Enqueue
<1>2. ASSUME NEW w \in Worker, Boot(w) \/ Stop(w) \/ Exit(w) PROVE TypeInv'
  <2>1. CASE Boot(w) BY <2>1 DEF Boot
  <2>2. CASE Stop(w) BY <2>2 DEF Stop
  <2>3. CASE Exit(w) BY <2>3 DEF Exit, ForgetProcess
  <2>4. QED BY <1>2, <2>1, <2>2, <2>3
<1>3. ASSUME NEW w \in Worker, Crash(w) PROVE TypeInv'
  BY <1>3 DEF Crash, Fault, EndPoll, ForgetProcess, Unlock
<1>4. ASSUME NEW w \in Worker, Requeue(w) PROVE TypeInv'
  BY <1>4 DEF Requeue, Retryable, Stale
<1>5. ASSUME NEW w \in Worker, GiveUp(w) PROVE TypeInv'
  <2>1. SettledOK
    BY <1>5, SettleOK DEF GiveUp, Exhausted, Stale
  <2>2. QED BY <1>5, <2>1 DEF GiveUp, SettledOK
<1>6. ASSUME NEW w \in Worker, RecoveryError(w) PROVE TypeInv'
  BY <1>6 DEF RecoveryError, Fault
<1>7. ASSUME NEW w \in Worker, StartPoll(w) PROVE TypeInv'
  BY <1>7 DEF StartPoll
<1>8. ASSUME NEW w \in Worker, SelectCandidate(w) PROVE TypeInv'
  BY <1>8 DEF SelectCandidate, Candidates
<1>9. ASSUME NEW w \in Worker, NothingToClaim(w) PROVE TypeInv'
  BY <1>9 DEF NothingToClaim
<1>10. ASSUME NEW w \in Worker, ClaimJob(w) PROVE TypeInv'
  BY <1>10 DEF ClaimJob, TakeJob, Unlock
<1>11. ASSUME NEW w \in Worker, ClaimError(w) PROVE TypeInv'
  BY <1>11 DEF ClaimError, TakeJob, Unlock, Fault, EndPoll
<1>12. ASSUME NEW w \in Worker, Parse(w) PROVE TypeInv'
  BY <1>12 DEF Parse, MissingRows
<1>13. ASSUME NEW w \in Worker, Insert(w) PROVE TypeInv'
  BY <1>13 DEF Insert, InsertRows, Fault
<1>14. ASSUME NEW w \in Worker, ImportThrows(w) PROVE TypeInv'
  BY <1>14 DEF ImportThrows
<1>15. ASSUME NEW w \in Worker, Complete(w) \/ Fail(w) PROVE TypeInv'
  <2>1. SettledOK
    BY <1>15, SettleOK DEF Complete, Fail, WriteOutcome
  <2>2. CASE Complete(w) BY <2>1, <2>2 DEF Complete, EndPoll, SettledOK
  <2>3. CASE Fail(w) BY <2>1, <2>3 DEF Fail, EndPoll, SettledOK
  <2>4. QED BY <1>15, <2>2, <2>3
<1>16. ASSUME NEW w \in Worker, CompleteError(w) PROVE TypeInv'
  <2>1. CASE WriteOutcome(w, "COMPLETED")
    <3>1. SettledOK BY <2>1, SettleOK DEF WriteOutcome
    <3>2. QED BY <1>16, <3>1 DEF CompleteError, Fault, SettledOK
  <2>2. CASE UNCHANGED jobVars
    BY <1>16, <2>2 DEF CompleteError, Fault
  <2>3. QED BY <1>16, <2>1, <2>2 DEF CompleteError
<1>17. ASSUME NEW w \in Worker, FailError(w) PROVE TypeInv'
  <2>1. CASE WriteOutcome(w, "FAILED")
    <3>1. SettledOK BY <2>1, SettleOK DEF WriteOutcome
    <3>2. QED BY <1>17, <3>1 DEF FailError, Fault, EndPoll, SettledOK
  <2>2. CASE UNCHANGED jobVars
    BY <1>17, <2>2 DEF FailError, Fault, EndPoll
  <2>3. QED BY <1>17, <2>1, <2>2 DEF FailError
<1>18. ASSUME NEW w \in Worker, Heartbeat(w) \/ HeartbeatLost(w) PROVE TypeInv'
  BY <1>18 DEF Heartbeat, HeartbeatLost, HeartbeatDue
<1>19. CASE Tick
  <2>1. ClaimInv'
    BY <1>19 DEF Tick
  <2>2. age' \in [Job -> 0..(STALE + 1)]
    BY <1>19 DEF Tick
  <2>3. beat' \in [Worker -> 0..HEARTBEAT]
    <3>1. ASSUME NEW w \in Worker
          PROVE  (IF Running(w) THEN beat[w] + 1 ELSE beat[w]) \in 0..HEARTBEAT
      <4>1. Running(w) => beat[w] # HEARTBEAT
        BY <1>19 DEF Tick, HeartbeatDue
      <4>2. \A b \in 0..HEARTBEAT : b # HEARTBEAT => b + 1 \in 0..HEARTBEAT
        OBVIOUS
      <4>3. beat[w] \in 0..HEARTBEAT
        OBVIOUS
      <4>4. CASE Running(w) BY ONLY <4>1, <4>2, <4>3, <4>4
      <4>5. CASE ~Running(w) BY ONLY <4>3, <4>5
      <4>6. QED BY <4>4, <4>5
    <3>2. QED BY <1>19, <3>1 DEF Tick
  <2>4. sinceRecovery' \in [Worker -> 0..RECOVERY]
    BY <1>19 DEF Tick
  <2>5. QED BY <1>19, <2>1, <2>2, <2>3, <2>4 DEF Tick
<1>20. CASE UNCHANGED vars
  BY <1>20 DEF vars
<1>21. QED
  BY <1>1, <1>2, <1>3, <1>4, <1>5, <1>6, <1>7, <1>8, <1>9, <1>10, <1>11,
     <1>12, <1>13, <1>14, <1>15, <1>16, <1>17, <1>18, <1>19, <1>20
     DEF Next, Step, Trouble

\* Every reachable state is well typed, and a claim in course holds the row
\* lock of a job nobody else can touch (FOR UPDATE in claimNext).
THEOREM TypeCorrect == Spec => [](TypeOK /\ ClaimInv)
<1>1. Spec => []TypeInv
  BY TypeInit, TypeStep, PTL DEF Spec
<1>2. QED BY <1>1 DEF TypeInv

-----------------------------------------------------------------------------
(* The job table: which workbook is stored, how often a job is claimed.    *)

\* A job that was never submitted was never claimed and is not running.
TableInv ==
  /\ PayloadWhileNeeded
  /\ AttemptsBounded
  /\ \A j \in Job : status[j] = "NONE" => attempts[j] = 0
  /\ \A w \in Worker : Running(w) => status[job[w]] # "NONE"

LEMMA TableInit == Init => TableInv
BY QueueAssumption
   DEF Init, TableInv, PayloadWhileNeeded, AttemptsBounded, Running, RunningPhase

\* The steps that write no job row, or only its updatedAt or row lock.
Quiet(w) ==
  \/ Boot(w) \/ Stop(w) \/ Exit(w) \/ Crash(w) \/ RecoveryError(w)
  \/ StartPoll(w) \/ SelectCandidate(w) \/ NothingToClaim(w)
  \/ Parse(w) \/ Insert(w) \/ ImportThrows(w) \/ Heartbeat(w) \/ HeartbeatLost(w)

LEMMA QuietTable ==
  ASSUME TypeInv, NEW w \in Worker, Quiet(w)
  PROVE  /\ UNCHANGED <<status, payload, attempts>>
         /\ \A v \in Worker : Running(v)' => Running(v) /\ job'[v] = job[v]
<1> USE DEF TypeInv, TypeOK, Running, RunningPhase, RecoveryPhase, Goto, jobVars, runVars
<1>1. UNCHANGED <<status, payload, attempts>>
  BY DEF Quiet, Boot, Stop, Exit, Crash, RecoveryError, StartPoll, SelectCandidate,
         NothingToClaim, Parse, Insert, ImportThrows, Heartbeat, HeartbeatLost
<1>2. ASSUME NEW v \in Worker, Running(v)' PROVE Running(v) /\ job'[v] = job[v]
  <2>1. CASE Boot(w) \/ Stop(w) \/ Exit(w) \/ StartPoll(w) \/ NothingToClaim(w)
    BY <1>2, <2>1 DEF Boot, Stop, Exit, StartPoll, NothingToClaim
  <2>2. CASE Crash(w) BY <1>2, <2>2 DEF Crash, EndPoll
  <2>3. CASE RecoveryError(w) BY <1>2, <2>3 DEF RecoveryError
  <2>4. CASE SelectCandidate(w) BY <1>2, <2>4 DEF SelectCandidate
  <2>5. CASE Parse(w) \/ ImportThrows(w) BY <1>2, <2>5 DEF Parse, ImportThrows
  <2>6. CASE Insert(w) BY <1>2, <2>6 DEF Insert
  <2>7. CASE Heartbeat(w) \/ HeartbeatLost(w) BY <1>2, <2>7 DEF Heartbeat, HeartbeatLost
  <2>8. QED BY <2>1, <2>2, <2>3, <2>4, <2>5, <2>6, <2>7 DEF Quiet
<1>3. QED BY <1>1, <1>2

\* A terminal write by a run, or by the recovery.
LEMMA SettleTable ==
  ASSUME TypeInv, TableInv, NEW js, NEW s \in Terminal, Settle(js, s),
         \A j \in Job \cap js : status[j] # "NONE"
  PROVE  /\ PayloadWhileNeeded' /\ AttemptsBounded'
         /\ \A j \in Job : status'[j] = "NONE" => attempts'[j] = 0 /\ status[j] = "NONE"
BY DEF TypeInv, TypeOK, TableInv, PayloadWhileNeeded, AttemptsBounded, Settle, Terminal

\* The commit of a claim.
LEMMA TakeTable ==
  ASSUME TypeInv, TableInv, NEW j \in Job, status[j] = "QUEUED", TakeJob(j),
         UNCHANGED payload
  PROVE  /\ PayloadWhileNeeded' /\ AttemptsBounded'
         /\ \A i \in Job : status'[i] = "NONE" => attempts'[i] = 0 /\ status[i] = "NONE"
         /\ status'[j] = "PROCESSING"
BY QueueAssumption
   DEF TypeInv, TypeOK, TableInv, PayloadWhileNeeded, AttemptsBounded, TakeJob, Terminal

LEMMA TableStep == TypeInv /\ TableInv /\ [Next]_vars => TableInv'
<1> SUFFICES ASSUME TypeInv, TableInv, [Next]_vars PROVE TableInv'
  OBVIOUS
<1>0. /\ status \in [Job -> {"NONE", "QUEUED", "PROCESSING"} \cup Terminal]
      /\ attempts \in [Job -> Nat]
      /\ payload \in [Job -> BOOLEAN]
      /\ phase \in [Worker -> {"down", "idle", "claim", "claimed"}
                            \cup RecoveryPhase \cup RunningPhase]
      /\ job \in [Worker -> Job \cup {NoJob}]
  BY DEF TypeInv, TypeOK
<1>a. \A w \in Worker : Running(w) => job[w] \in Job
  BY DEF TypeInv, ClaimInv, Busy
<1>b. \A w \in Worker : phase[w] = "claimed" => job[w] \in Job /\ status[job[w]] = "QUEUED"
  BY DEF TypeInv, ClaimInv, Busy
<1> USE DEF Running, RunningPhase, RecoveryPhase, Goto
<1>1. ASSUME NEW j \in Job, Enqueue(j) PROVE TableInv'
  BY <1>0, <1>a, <1>1, QueueAssumption
     DEF Enqueue, TableInv, PayloadWhileNeeded, AttemptsBounded, Terminal, runVars
<1>2. ASSUME NEW w \in Worker, Quiet(w) PROVE TableInv'
  BY <1>2, QuietTable DEF TableInv, PayloadWhileNeeded, AttemptsBounded
<1>3. ASSUME NEW w \in Worker, Requeue(w) PROVE TableInv'
  BY <1>0, <1>a, <1>3
     DEF Requeue, Retryable, Stale, TableInv, PayloadWhileNeeded, AttemptsBounded,
         Terminal, runVars
<1>4. ASSUME NEW w \in Worker, GiveUp(w) PROVE TableInv'
  <2>1. /\ Settle({j \in Job : Exhausted(j)}, "FAILED")
        /\ phase' = [phase EXCEPT ![w] = "claim"] /\ job' = job
    BY <1>4 DEF GiveUp, runVars
  <2>2. \A j \in Job \cap {i \in Job : Exhausted(i)} : status[j] # "NONE"
    BY DEF Exhausted, Stale
  <2>3. "FAILED" \in Terminal BY DEF Terminal
  <2>4. /\ PayloadWhileNeeded' /\ AttemptsBounded'
        /\ \A j \in Job : status'[j] = "NONE" => attempts'[j] = 0 /\ status[j] = "NONE"
    BY ONLY SettleTable, <2>1, <2>2, <2>3, TypeInv, TableInv
  <2>5. QED BY <1>0, <1>a, <2>1, <2>4 DEF TableInv
<1>5. ASSUME NEW w \in Worker, ClaimJob(w) \/ ClaimError(w) PROVE TableInv'
  <2>1. CASE UNCHANGED <<status, attempts>> /\ ClaimError(w)
    BY <1>0, <2>1 DEF ClaimError, EndPoll, TableInv, PayloadWhileNeeded, AttemptsBounded
  <2>2. CASE phase[w] = "claimed" /\ TakeJob(job[w])
    <3>1. UNCHANGED payload BY <1>5 DEF ClaimJob, ClaimError
    <3>2. /\ PayloadWhileNeeded' /\ AttemptsBounded'
          /\ \A i \in Job : status'[i] = "NONE" => attempts'[i] = 0 /\ status[i] = "NONE"
          /\ status'[job[w]] = "PROCESSING"
      BY <1>b, <2>2, <3>1, TakeTable
    <3>3. CASE ClaimJob(w)
      BY <1>0, <1>a, <1>b, <2>2, <3>2, <3>3 DEF ClaimJob, TableInv, runVars
    <3>4. CASE ClaimError(w)
      BY <1>0, <1>a, <1>b, <2>2, <3>2, <3>4 DEF ClaimError, EndPoll, TableInv
    <3>5. QED BY <1>5, <3>3, <3>4
  <2>3. QED BY <1>5, <2>1, <2>2 DEF ClaimJob, ClaimError
<1>6. ASSUME NEW w \in Worker,
             Complete(w) \/ CompleteError(w) \/ Fail(w) \/ FailError(w)
      PROVE TableInv'
  <2>1. Running(w) /\ job[w] \in Job /\ status[job[w]] # "NONE"
    BY <1>6, <1>a DEF Complete, CompleteError, Fail, FailError, TableInv
  <2>2. \A v \in Worker : Running(v)' => Running(v) /\ job'[v] = job[v]
    <3>1. CASE Complete(w) \/ Fail(w)
      BY <1>0, <3>1 DEF Complete, Fail, EndPoll
    <3>2. CASE CompleteError(w) BY <1>0, <3>2 DEF CompleteError, runVars
    <3>3. CASE FailError(w) BY <1>0, <3>3 DEF FailError, EndPoll
    <3>4. QED BY <1>6, <3>1, <3>2, <3>3
  <2>3. CASE UNCHANGED jobVars
    BY <1>a, <2>2, <2>3 DEF jobVars, TableInv, PayloadWhileNeeded, AttemptsBounded
  <2>4. ASSUME NEW s \in Terminal, WriteOutcome(w, s) PROVE TableInv'
    <3>1. /\ PayloadWhileNeeded' /\ AttemptsBounded'
          /\ \A j \in Job : status'[j] = "NONE" => attempts'[j] = 0 /\ status[j] = "NONE"
      BY <2>1, <2>4, SettleTable DEF WriteOutcome
    <3>2. QED BY <1>a, <2>2, <3>1 DEF TableInv
  <2>5. (\E s \in Terminal : WriteOutcome(w, s)) \/ UNCHANGED jobVars
    BY <1>6 DEF Complete, CompleteError, Fail, FailError, Terminal
  <2>6. QED BY <2>3, <2>4, <2>5
<1>7. CASE Tick
  BY <1>7 DEF Tick, TableInv, PayloadWhileNeeded, AttemptsBounded
<1>8. CASE UNCHANGED vars
  BY <1>8 DEF vars, jobVars, runVars, TableInv, PayloadWhileNeeded, AttemptsBounded
<1>9. QED
  BY <1>1, <1>2, <1>3, <1>4, <1>5, <1>6, <1>7, <1>8 DEF Next, Step, Trouble, Quiet

\* The encrypted workbook is in the table exactly while the job is queued or
\* being processed, whatever crashes, retries and late writers do.
THEOREM PayloadStored == Spec => []PayloadWhileNeeded
<1>1. TypeInv /\ TableInv /\ [Next]_vars => TypeInv' /\ TableInv'
  BY TypeStep, TableStep
<1>2. TableInv => PayloadWhileNeeded
  BY DEF TableInv
<1>3. QED BY TypeInit, TableInit, <1>1, <1>2, PTL DEF Spec

\* No job is claimed more than MAX_ATTEMPTS times, and no job without a claim
\* left waits in the queue.
THEOREM AttemptsNeverExceeded == Spec => []AttemptsBounded
<1>1. TypeInv /\ TableInv /\ [Next]_vars => TypeInv' /\ TableInv'
  BY TypeStep, TableStep
<1>2. TableInv => AttemptsBounded
  BY DEF TableInv
<1>3. QED BY TypeInit, TableInit, <1>1, <1>2, PTL DEF Spec

-----------------------------------------------------------------------------
(* Time: a run keeps its job fresh.                                        *)

\* The job of a run is no older than the last heartbeat that got through.
FreshInv ==
  \A w \in Worker : Running(w) => age[job[w]] <= beat[w] + HEARTBEAT * lost[w]

LEMMA FreshInit == Init => FreshInv
BY DEF Init, FreshInv, Running, RunningPhase

LEMMA FreshNotStale ==
  ASSUME TypeInv, FreshInv, HeartbeatsSuffice, NEW w \in Worker, Running(w)
  PROVE  ~Stale(job[w])
<1>1. /\ beat[w] \in Nat /\ beat[w] <= HEARTBEAT
      /\ lost[w] \in Nat /\ lost[w] <= MaxLost
      /\ job[w] \in Job /\ age[job[w]] \in Nat
  BY QueueAssumption DEF TypeInv, TypeOK, ClaimInv, Busy
<1>2. age[job[w]] <= beat[w] + HEARTBEAT * lost[w]
  BY DEF FreshInv
<1>3. \A n \in Nat : n <= MaxLost =>
        HEARTBEAT + HEARTBEAT * n <= HEARTBEAT * (MaxLost + 1)
  BY QueueAssumption
<1>4. HEARTBEAT * lost[w] \in Nat /\ HEARTBEAT * (MaxLost + 1) \in Nat
  BY <1>1, QueueAssumption
<1>5. age[job[w]] <= HEARTBEAT * (MaxLost + 1)
  <2>1. HEARTBEAT + HEARTBEAT * lost[w] <= HEARTBEAT * (MaxLost + 1)
    BY <1>1, <1>3
  <2>2. \A a, b, c, d, e \in Nat : a <= b + c /\ b <= d /\ d + c <= e => a <= e
    OBVIOUS
  <2>3. HEARTBEAT \in Nat BY QueueAssumption
  <2>4. QED BY ONLY <1>1, <1>2, <1>4, <2>1, <2>2, <2>3
<1>6. age[job[w]] <= STALE
  BY <1>1, <1>4, <1>5, QueueAssumption DEF HeartbeatsSuffice
<1>7. QED BY <1>1, <1>6, QueueAssumption DEF Stale

LEMMA FreshStep == TypeInv /\ FreshInv /\ [Next]_vars => FreshInv'
<1> SUFFICES ASSUME TypeInv, FreshInv, [Next]_vars, NEW v \in Worker, Running(v)'
             PROVE  age'[job'[v]] <= beat'[v] + HEARTBEAT * lost'[v]
  BY DEF FreshInv
<1>0. /\ age \in [Job -> 0..(STALE + 1)]
      /\ phase \in [Worker -> {"down", "idle", "claim", "claimed"}
                            \cup RecoveryPhase \cup RunningPhase]
      /\ job \in [Worker -> Job \cup {NoJob}]
      /\ beat \in [Worker -> 0..HEARTBEAT]
      /\ lost \in [Worker -> 0..MaxLost]
  BY DEF TypeInv, TypeOK
<1>a. \A w \in Worker : Running(w) => job[w] \in Job /\ age[job[w]] \in Nat
  BY QueueAssumption DEF TypeInv, TypeOK, ClaimInv, Busy
<1>b. \A w \in Worker : /\ beat[w] \in Nat /\ lost[w] \in Nat
                        /\ HEARTBEAT * lost[w] \in Nat
  BY <1>0, QueueAssumption
<1>c. \A w \in Worker : phase[w] = "claimed" => job[w] \in Job
  BY DEF TypeInv, ClaimInv, Busy
<1> USE DEF Running, RunningPhase, RecoveryPhase, Goto
<1>f. ASSUME Running(v), job'[v] = job[v], beat'[v] = beat[v], lost'[v] = lost[v],
             age'[job[v]] = age[job[v]] \/ age'[job[v]] = 0
      PROVE  age'[job'[v]] <= beat'[v] + HEARTBEAT * lost'[v]
  <2>1. age[job[v]] <= beat[v] + HEARTBEAT * lost[v]
    BY <1>f DEF FreshInv
  <2>2. beat[v] + HEARTBEAT * lost[v] >= 0 BY <1>b
  <2>3. QED BY <1>f, <2>1, <2>2
<1>1. ASSUME NEW w \in Worker, Quiet(w), ~Heartbeat(w), ~HeartbeatLost(w)
      PROVE  age'[job'[v]] <= beat'[v] + HEARTBEAT * lost'[v]
  <2>1. Running(v) /\ job'[v] = job[v] BY <1>1, QuietTable
  <2>2. beat'[v] = beat[v] /\ lost'[v] = lost[v] /\ age' = age
    BY <1>0, <1>1, <2>1
       DEF Quiet, Boot, Stop, Exit, Crash, EndPoll, RecoveryError, StartPoll,
           SelectCandidate, NothingToClaim, Parse, Insert, ImportThrows, jobVars, runVars
  <2>3. QED BY <1>f, <2>1, <2>2
<1>2. ASSUME NEW j \in Job, Enqueue(j)
      PROVE  age'[job'[v]] <= beat'[v] + HEARTBEAT * lost'[v]
  BY <1>2, <1>f DEF Enqueue, runVars
<1>3. ASSUME NEW w \in Worker, Requeue(w) \/ GiveUp(w)
      PROVE  age'[job'[v]] <= beat'[v] + HEARTBEAT * lost'[v]
  <2>1. Running(v) /\ job'[v] = job[v] /\ beat'[v] = beat[v] /\ lost'[v] = lost[v]
    BY <1>0, <1>3 DEF Requeue, GiveUp, runVars
  <2>2. \A j \in Job : age'[j] = age[j] \/ age'[j] = 0
    BY <1>3 DEF Requeue, GiveUp, Settle
  <2>3. QED BY <1>a, <1>f, <2>1, <2>2
<1>4. ASSUME NEW w \in Worker, ClaimJob(w) \/ ClaimError(w)
      PROVE  age'[job'[v]] <= beat'[v] + HEARTBEAT * lost'[v]
  <2>1. \A j \in Job : age'[j] = age[j] \/ age'[j] = 0
    BY <1>0, <1>c, <1>4 DEF ClaimJob, ClaimError, TakeJob
  <2>2. CASE ClaimJob(w) /\ v = w
    <3>1. age'[job'[v]] = 0 BY <1>0, <1>c, <2>2 DEF ClaimJob, TakeJob, runVars
    <3>2. beat' = beat /\ lost' = lost BY <2>2 DEF ClaimJob, runVars
    <3>3. beat[v] + HEARTBEAT * lost[v] >= 0 BY <1>b
    <3>4. QED BY <3>1, <3>2, <3>3
  <2>3. CASE ~(ClaimJob(w) /\ v = w)
    <3>1. Running(v) /\ job'[v] = job[v] /\ beat'[v] = beat[v] /\ lost'[v] = lost[v]
      BY <1>0, <1>4, <2>3 DEF ClaimJob, ClaimError, EndPoll, runVars
    <3>2. QED BY <1>a, <1>f, <2>1, <3>1
  <2>4. QED BY <2>2, <2>3
<1>5. ASSUME NEW w \in Worker,
             Complete(w) \/ CompleteError(w) \/ Fail(w) \/ FailError(w)
      PROVE  age'[job'[v]] <= beat'[v] + HEARTBEAT * lost'[v]
  <2>1. Running(v) /\ job'[v] = job[v] /\ beat'[v] = beat[v] /\ lost'[v] = lost[v]
    <3>1. CASE Complete(w) \/ Fail(w)
      BY <1>0, <3>1 DEF Complete, Fail, EndPoll
    <3>2. CASE CompleteError(w) BY <1>0, <3>2 DEF CompleteError, runVars
    <3>3. CASE FailError(w) BY <1>0, <3>3 DEF FailError, EndPoll
    <3>4. QED BY <1>5, <3>1, <3>2, <3>3
  <2>2. \A j \in Job : age'[j] = age[j] \/ age'[j] = 0
    BY <1>5 DEF Complete, CompleteError, Fail, FailError, WriteOutcome, Settle, jobVars
  <2>3. QED BY <1>a, <1>f, <2>1, <2>2
<1>6. ASSUME NEW w \in Worker, Heartbeat(w)
      PROVE  age'[job'[v]] <= beat'[v] + HEARTBEAT * lost'[v]
  <2>1. Running(v) /\ job'[v] = job[v] BY <1>6 DEF Heartbeat
  <2>2. age'[job[v]] = age[job[v]] \/ age'[job[v]] = 0
    BY <1>0, <1>a, <1>6, <2>1 DEF Heartbeat
  <2>3. CASE v # w BY <1>0, <1>6, <1>f, <2>1, <2>2, <2>3 DEF Heartbeat
  <2>4. CASE v = w
    BY <1>0, <1>a, <1>6, <2>1, <2>4, QueueAssumption DEF Heartbeat
  <2>5. QED BY <2>3, <2>4
<1>7. ASSUME NEW w \in Worker, HeartbeatLost(w)
      PROVE  age'[job'[v]] <= beat'[v] + HEARTBEAT * lost'[v]
  <2>1. Running(v) /\ job'[v] = job[v] /\ age' = age
    BY <1>7 DEF HeartbeatLost, jobVars
  <2>2. CASE v # w BY <1>0, <1>7, <1>f, <2>1, <2>2 DEF HeartbeatLost
  <2>3. CASE v = w
    <3>1. beat[w] = HEARTBEAT /\ beat'[w] = 0 /\ lost'[w] = lost[w] + 1
      BY <1>0, <1>7 DEF HeartbeatLost, HeartbeatDue
    <3>2. age[job[w]] <= HEARTBEAT + HEARTBEAT * lost[w]
      BY <2>1, <2>3, <3>1 DEF FreshInv
    <3>3. \A n \in Nat : HEARTBEAT + HEARTBEAT * n = 0 + HEARTBEAT * (n + 1)
      BY QueueAssumption
    <3>4. QED BY <1>b, <2>1, <2>3, <3>1, <3>2, <3>3
  <2>4. QED BY <2>2, <2>3
<1>8. CASE Tick
  <2>1. Running(v) /\ job'[v] = job[v] /\ lost' = lost BY <1>8 DEF Tick
  <2>2. beat'[v] = beat[v] + 1 BY <1>8, <2>1 DEF Tick
  <2>3. age'[job[v]] <= age[job[v]] + 1 BY <1>a, <1>8, <2>1 DEF Tick
  <2>4. age[job[v]] <= beat[v] + HEARTBEAT * lost[v] BY <2>1 DEF FreshInv
  <2>5. age'[job[v]] \in Nat BY <1>a, <1>8, <2>1 DEF Tick
  <2>6. \A a, b, c, d \in Nat : a <= b + 1 /\ b <= c + d => a <= c + 1 + d
    OBVIOUS
  <2>7. QED BY <1>a, <1>b, <2>1, <2>2, <2>3, <2>4, <2>5, <2>6
<1>9. CASE UNCHANGED vars
  BY <1>9, <1>f DEF vars, jobVars, runVars
<1>10. QED
  BY <1>1, <1>2, <1>3, <1>4, <1>5, <1>6, <1>7, <1>8, <1>9 DEF Next, Step, Trouble, Quiet

-----------------------------------------------------------------------------
(* One run per job, while heartbeats suffice.                              *)

\* A run's job is PROCESSING; only a run in doubt about its own COMPLETED
\* write can find it COMPLETED.
RunInv ==
  /\ OneRunner
  /\ \A w \in Worker : Running(w) =>
       \/ status[job[w]] = "PROCESSING"
       \/ phase[w] = "fail" /\ status[job[w]] = "COMPLETED" /\ faults > 0

LEMMA RunInit == Init => RunInv
BY DEF Init, RunInv, OneRunner, Running, RunningPhase

LEMMA RunStep ==
  ASSUME HeartbeatsSuffice, TypeInv, TableInv, FreshInv, RunInv, [Next]_vars
  PROVE  RunInv'
<1>0. /\ status \in [Job -> {"NONE", "QUEUED", "PROCESSING"} \cup Terminal]
      /\ phase \in [Worker -> {"down", "idle", "claim", "claimed"}
                            \cup RecoveryPhase \cup RunningPhase]
      /\ job \in [Worker -> Job \cup {NoJob}]
      /\ faults \in Nat
  BY QueueAssumption DEF TypeInv, TypeOK
<1>a. \A w \in Worker : Running(w) => job[w] \in Job /\ ~Stale(job[w])
  BY FreshNotStale DEF TypeInv, ClaimInv, Busy
<1>b. \A w \in Worker : phase[w] = "claimed" => job[w] \in Job /\ status[job[w]] = "QUEUED"
  BY DEF TypeInv, ClaimInv, Busy
<1> USE DEF Running, RunningPhase, RecoveryPhase, Goto, RunInv, OneRunner
<1>1. ASSUME NEW j \in Job, Enqueue(j) PROVE RunInv'
  BY <1>0, <1>1 DEF Enqueue, runVars
<1>2. ASSUME NEW w \in Worker, Quiet(w) PROVE RunInv'
  <2>1. /\ UNCHANGED status
        /\ \A v \in Worker : Running(v)' => Running(v) /\ job'[v] = job[v]
    BY <1>2, QuietTable
  <2>2. faults' >= faults
    BY <1>0, <1>2
       DEF Quiet, Boot, Stop, Exit, Crash, Fault, RecoveryError, StartPoll,
           SelectCandidate, NothingToClaim, Parse, Insert, ImportThrows, Heartbeat,
           HeartbeatLost
  <2>3. \A v \in Worker : phase[v] = "fail" /\ Running(v)' => phase'[v] = "fail"
    BY <1>0, <1>2
       DEF Quiet, Boot, Stop, Exit, Crash, EndPoll, RecoveryError, StartPoll,
           SelectCandidate, NothingToClaim, Parse, Insert, ImportThrows, Heartbeat,
           HeartbeatLost
  <2>4. faults' \in Nat
    BY <1>0, <1>2
       DEF Quiet, Boot, Stop, Exit, Crash, Fault, RecoveryError, StartPoll,
           SelectCandidate, NothingToClaim, Parse, Insert, ImportThrows, Heartbeat,
           HeartbeatLost
  <2>5. OneRunner' BY <2>1
  <2>6. ASSUME NEW v \in Worker, Running(v)', status[job[v]] # "PROCESSING"
        PROVE  phase'[v] = "fail" /\ status[job[v]] = "COMPLETED" /\ faults' > 0
    BY <1>0, <2>1, <2>2, <2>3, <2>4, <2>6
  <2>7. QED BY <2>1, <2>5, <2>6
<1>3. ASSUME NEW w \in Worker, Requeue(w) \/ GiveUp(w) PROVE RunInv'
  <2>1. \A v \in Worker : Running(v)' =>
          Running(v) /\ job'[v] = job[v] /\ phase'[v] = phase[v]
    BY <1>0, <1>3 DEF Requeue, GiveUp, runVars
  <2>2. \A j \in Job : ~Stale(j) => status'[j] = status[j]
    <3>1. CASE Requeue(w) BY <3>1 DEF Requeue, Retryable
    <3>2. CASE GiveUp(w)
      <4>1. Settle({j \in Job : Exhausted(j)}, "FAILED") BY <3>2 DEF GiveUp
      <4>2. QED BY ONLY <4>1 DEF Settle, Exhausted
    <3>3. QED BY <1>3, <3>1, <3>2
  <2>3. faults' = faults BY <1>3 DEF Requeue, GiveUp
  <2>4. QED BY <1>a, <2>1, <2>2, <2>3
<1>4. ASSUME NEW w \in Worker, ClaimJob(w) PROVE RunInv'
  <2>1. job' = job /\ faults' = faults BY <1>4 DEF ClaimJob, runVars
  <2>2. status' = [status EXCEPT ![job[w]] = "PROCESSING"]
    BY <1>4 DEF ClaimJob, TakeJob
  <2>3. \A v \in Worker : Running(v) => v # w /\ job[v] # job[w]
    BY <1>b, <1>4 DEF ClaimJob
  <2>4. \A v \in Worker : Running(v)' /\ v # w => Running(v) /\ phase'[v] = phase[v]
    BY <1>0, <1>4 DEF ClaimJob
  <2>5. phase[w] = "claimed" /\ job[w] \in Job BY <1>4, <1>b DEF ClaimJob
  <2>6. OneRunner' BY <2>1, <2>3, <2>4
  <2>7. QED BY <1>0, <1>a, <2>1, <2>2, <2>3, <2>4, <2>5, <2>6
<1>5. ASSUME NEW w \in Worker, ClaimError(w) PROVE RunInv'
  <2>1. faults' > 0 BY <1>0, <1>5 DEF ClaimError, Fault
  <2>2. \A v \in Worker : Running(v)' =>
          Running(v) /\ job'[v] = job[v] /\ phase'[v] = phase[v]
    BY <1>0, <1>5 DEF ClaimError, EndPoll
  <2>3. \A v \in Worker : Running(v) => status'[job[v]] = status[job[v]]
    BY <1>0, <1>a, <1>b, <1>5 DEF ClaimError, TakeJob
  <2>4. QED BY <2>1, <2>2, <2>3
<1>6. ASSUME NEW w \in Worker, Complete(w) \/ Fail(w) \/ FailError(w) PROVE RunInv'
  <2>1. Running(w) /\ job[w] \in Job /\ ~Running(w)'
    BY <1>0, <1>a, <1>6 DEF Complete, Fail, FailError, EndPoll
  <2>2. \A v \in Worker : Running(v)' =>
          v # w /\ Running(v) /\ job'[v] = job[v] /\ phase'[v] = phase[v]
    BY <1>0, <1>6, <2>1 DEF Complete, Fail, FailError, EndPoll
  <2>3. \A j \in Job : j # job[w] => status'[j] = status[j]
    <3>1. (\E t \in Terminal : Settle({job[w]}, t)) \/ status' = status
      BY <1>6 DEF Complete, Fail, FailError, WriteOutcome, Terminal, jobVars
    <3>2. QED BY ONLY <3>1 DEF Settle
  <2>4. faults' \in Nat /\ faults' >= faults
    BY <1>0, <1>6 DEF Complete, Fail, FailError, Fault
  <2>5. OneRunner' BY <2>2
  <2>6. ASSUME NEW v \in Worker, Running(v)'
        PROVE  \/ status'[job'[v]] = "PROCESSING"
               \/ phase'[v] = "fail" /\ status'[job'[v]] = "COMPLETED" /\ faults' > 0
    <3>1. Running(v) /\ v # w /\ job'[v] = job[v] /\ phase'[v] = phase[v]
      BY <2>2, <2>6
    <3>2. job[v] # job[w] BY <2>1, <3>1
    <3>3. status'[job[v]] = status[job[v]] BY <1>a, <2>3, <3>1, <3>2
    <3>4. faults > 0 => faults' > 0 BY <1>0, <2>4
    <3>5. QED BY <3>1, <3>3, <3>4
  <2>7. QED BY <2>5, <2>6
<1>7. ASSUME NEW w \in Worker, CompleteError(w) PROVE RunInv'
  <2>1. Running(w) /\ job[w] \in Job /\ status[job[w]] = "PROCESSING"
    BY <1>a, <1>7 DEF CompleteError
  <2>2. job' = job /\ faults' > 0 /\ phase'[w] = "fail"
    BY <1>0, <1>7 DEF CompleteError, Fault, runVars
  <2>3. \A v \in Worker : v # w => phase'[v] = phase[v]
    BY <1>0, <1>7 DEF CompleteError
  <2>4. \A j \in Job : j # job[w] => status'[j] = status[j]
    <3>1. Settle({job[w]}, "COMPLETED") \/ status' = status
      BY <1>7 DEF CompleteError, WriteOutcome, jobVars
    <3>2. QED BY ONLY <3>1 DEF Settle
  <2>5. status'[job[w]] \in {"PROCESSING", "COMPLETED"}
    <3>1. Settle({job[w]}, "COMPLETED") \/ status' = status
      BY <1>7 DEF CompleteError, WriteOutcome, jobVars
    <3>2. QED BY ONLY <2>1, <3>1 DEF Settle
  <2>6. OneRunner' BY <1>0, <2>1, <2>2, <2>3
  <2>7. ASSUME NEW v \in Worker, Running(v)'
        PROVE  \/ status'[job'[v]] = "PROCESSING"
               \/ phase'[v] = "fail" /\ status'[job'[v]] = "COMPLETED" /\ faults' > 0
    <3>1. CASE v = w BY <2>2, <2>5, <3>1
    <3>2. CASE v # w
      <4>1. Running(v) /\ phase'[v] = phase[v] BY <2>3, <2>7, <3>2
      <4>2. job[v] # job[w] BY <2>1, <3>2, <4>1
      <4>3. status'[job[v]] = status[job[v]] BY <1>a, <2>4, <4>1, <4>2
      <4>4. QED BY <2>2, <4>1, <4>3
    <3>3. QED BY <3>1, <3>2
  <2>8. QED BY <2>6, <2>7
<1>8. CASE Tick BY <1>8 DEF Tick
<1>9. CASE UNCHANGED vars BY <1>9 DEF vars, jobVars, runVars
<1>10. QED
  BY <1>1, <1>2, <1>3, <1>4, <1>5, <1>6, <1>7, <1>8, <1>9 DEF Next, Step, Trouble, Quiet

\* Everything a behaviour with sufficient heartbeats preserves.
TimedInv == TypeInv /\ TableInv /\ FreshInv /\ RunInv

LEMMA TimedInvariant == ASSUME HeartbeatsSuffice PROVE Spec => []TimedInv
<1>1. Init => TimedInv
  BY TypeInit, TableInit, FreshInit, RunInit DEF TimedInv
<1>2. TimedInv /\ [Next]_vars => TimedInv'
  BY TypeStep, TableStep, FreshStep, RunStep DEF TimedInv
<1>3. QED BY <1>1, <1>2, PTL DEF Spec

\* However many replicas poll the table, no two of them run the same import.
THEOREM NeverTwoRunners == ASSUME HeartbeatsSuffice PROVE Spec => []OneRunner
<1>1. TimedInv => OneRunner BY DEF TimedInv, RunInv
<1>2. QED BY <1>1, TimedInvariant, PTL

-----------------------------------------------------------------------------
(* A job without a run: only after a crash or a failed database call.      *)

LEMMA FaultsGrow ==
  ASSUME TypeInv, [Next]_vars
  PROVE  faults \in Nat /\ faults' \in Nat /\ faults' >= faults
<1>1. faults \in Nat BY DEF TypeInv, TypeOK
<1>2. faults' = faults \/ faults' = faults + 1
  BY DEF Next, Step, Trouble, vars, Enqueue, Boot, Stop, Exit, Crash, Fault, Requeue,
         GiveUp, RecoveryError, StartPoll, SelectCandidate, NothingToClaim, ClaimJob,
         ClaimError, Parse, Insert, ImportThrows, Complete, CompleteError, Fail,
         FailError, Heartbeat, HeartbeatLost, Tick
<1>3. QED BY <1>1, <1>2

\* The steps that are a fault: after them the properties that hold until the
\* first fault promise nothing.
Faulty(w) ==
  Crash(w) \/ RecoveryError(w) \/ ClaimError(w) \/ CompleteError(w) \/ FailError(w)

LEMMA FaultyFaults ==
  ASSUME TypeInv, NEW w \in Worker, Faulty(w) PROVE faults' # 0
<1>1. faults \in Nat BY DEF TypeInv, TypeOK
<1>2. faults' = faults + 1
  BY DEF Faulty, Crash, RecoveryError, ClaimError, CompleteError, FailError, Fault
<1>3. QED BY <1>1, <1>2

\* A quiet step that is no fault ends no run and moves none to another job.
LEMMA QuietKeepsRuns ==
  ASSUME TypeInv, NEW w \in Worker, Quiet(w), ~Crash(w), ~RecoveryError(w),
         NEW v \in Worker, Running(v)
  PROVE  Running(v)' /\ job'[v] = job[v]
<1> USE DEF TypeInv, TypeOK, Running, RunningPhase, RecoveryPhase, Goto, runVars
<1>1. CASE Boot(w) \/ Stop(w) \/ Exit(w) \/ StartPoll(w) \/ NothingToClaim(w)
  BY <1>1 DEF Boot, Stop, Exit, StartPoll, NothingToClaim
<1>2. CASE SelectCandidate(w) BY <1>2 DEF SelectCandidate
<1>3. CASE Parse(w) \/ ImportThrows(w) BY <1>3 DEF Parse, ImportThrows
<1>4. CASE Insert(w) BY <1>4 DEF Insert
<1>5. CASE Heartbeat(w) \/ HeartbeatLost(w) BY <1>5 DEF Heartbeat, HeartbeatLost
<1>6. QED BY <1>1, <1>2, <1>3, <1>4, <1>5 DEF Quiet

LEMMA StrandStep ==
  TypeInv /\ StrandedOnlyByFault /\ [Next]_vars => StrandedOnlyByFault'
<1> SUFFICES ASSUME TypeInv, StrandedOnlyByFault, [Next]_vars
             PROVE  StrandedOnlyByFault'
  OBVIOUS
<1> SUFFICES ASSUME faults' = 0, NEW j \in Job, status'[j] = "PROCESSING"
             PROVE  \E v \in Worker : Running(v)' /\ job'[v] = j
  <2>1. faults' \in Nat BY FaultsGrow
  <2>2. QED BY <2>1 DEF StrandedOnlyByFault
<1>0. /\ status \in [Job -> {"NONE", "QUEUED", "PROCESSING"} \cup Terminal]
      /\ phase \in [Worker -> {"down", "idle", "claim", "claimed"}
                            \cup RecoveryPhase \cup RunningPhase]
      /\ job \in [Worker -> Job \cup {NoJob}]
  BY DEF TypeInv, TypeOK
<1>a. faults = 0 BY FaultsGrow
<1>b. status[j] = "PROCESSING" => \E v \in Worker : Running(v) /\ job[v] = j
  BY <1>a DEF StrandedOnlyByFault
<1> USE DEF Running, RunningPhase, RecoveryPhase, Goto
<1>1. ASSUME NEW i \in Job, Enqueue(i)
      PROVE  \E v \in Worker : Running(v)' /\ job'[v] = j
  BY <1>0, <1>b, <1>1 DEF Enqueue, runVars
<1>2. ASSUME NEW w \in Worker, Quiet(w)
      PROVE  \E v \in Worker : Running(v)' /\ job'[v] = j
  <2>1. ~Crash(w) /\ ~RecoveryError(w) BY FaultyFaults DEF Faulty
  <2>2. status' = status BY <1>2, QuietTable
  <2>3. QED BY <1>b, <1>2, <2>1, <2>2, QuietKeepsRuns
<1>3. ASSUME NEW w \in Worker, Requeue(w) \/ GiveUp(w)
      PROVE  \E v \in Worker : Running(v)' /\ job'[v] = j
  <2>1. status[j] = "PROCESSING"
    BY <1>0, <1>3 DEF Requeue, GiveUp, Settle
  <2>2. PICK v \in Worker : Running(v) /\ job[v] = j BY <1>b, <2>1
  <2>3. Running(v)' /\ job'[v] = job[v]
    BY <1>0, <1>3, <2>2 DEF Requeue, GiveUp, runVars
  <2>4. QED BY <2>2, <2>3
<1>4. ASSUME NEW w \in Worker, ClaimJob(w)
      PROVE  \E v \in Worker : Running(v)' /\ job'[v] = j
  <2>1. \A v \in Worker : job'[v] = job[v] BY <1>4 DEF ClaimJob, runVars
  <2>2. Running(w)' BY <1>0, <1>4 DEF ClaimJob
  <2>3. CASE j = job[w] BY <2>1, <2>2, <2>3
  <2>4. CASE j # job[w]
    <3>1. status[j] = "PROCESSING" BY <1>0, <1>4, <2>4 DEF ClaimJob, TakeJob
    <3>2. PICK v \in Worker : Running(v) /\ job[v] = j BY <1>b, <3>1
    <3>3. Running(v)' BY <1>0, <1>4, <3>2 DEF ClaimJob
    <3>4. QED BY <2>1, <3>2, <3>3
  <2>5. QED BY <2>3, <2>4
<1>5. ASSUME NEW w \in Worker, Complete(w) \/ Fail(w)
      PROVE  \E v \in Worker : Running(v)' /\ job'[v] = j
  <2>1. PICK s \in Terminal : Settle({job[w]}, s)
    BY <1>5 DEF Complete, Fail, WriteOutcome, Terminal
  <2>2. j # job[w] /\ status[j] = "PROCESSING"
    BY <2>1 DEF Settle, Terminal
  <2>3. PICK v \in Worker : Running(v) /\ job[v] = j BY <1>b, <2>2
  <2>4. v # w BY <2>2, <2>3
  <2>5. Running(v)' /\ job'[v] = job[v]
    BY <1>0, <1>5, <2>3, <2>4 DEF Complete, Fail, EndPoll
  <2>6. QED BY <2>3, <2>5
<1>6. ASSUME NEW w \in Worker, ClaimError(w) \/ CompleteError(w) \/ FailError(w)
      PROVE  FALSE
  BY <1>6, FaultyFaults DEF Faulty
<1>7. CASE Tick BY <1>b, <1>7 DEF Tick
<1>8. CASE UNCHANGED vars BY <1>b, <1>8 DEF vars, jobVars, runVars
<1>9. QED
  BY <1>1, <1>2, <1>3, <1>4, <1>5, <1>6, <1>7, <1>8 DEF Next, Step, Trouble, Quiet

\* A graceful stop, a recovery of another replica or a slow run never leaves a
\* job PROCESSING with nobody working on it; only a fault does.
THEOREM NeverStranded == Spec => []StrandedOnlyByFault
<1>1. Init => StrandedOnlyByFault
  BY DEF Init, StrandedOnlyByFault
<1>2. TypeInv /\ StrandedOnlyByFault /\ [Next]_vars
        => TypeInv' /\ StrandedOnlyByFault'
  BY TypeStep, StrandStep
<1>3. QED BY TypeInit, <1>1, <1>2, PTL DEF Spec

-----------------------------------------------------------------------------
(* Rows and answers: what COMPLETED and FAILED say of the repository.      *)

LEMMA CopiesGrow ==
  ASSUME TypeInv, [Next]_vars
  PROVE  /\ \A r \in Row : Present(r) => Present(r)'
         /\ \A j \in Job : Delivered(j) => Delivered(j)'
<1>1. copies' = copies \/ \E rows : InsertRows(rows)
  BY DEF Next, Step, Trouble, vars, Enqueue, Boot, Stop, Exit, Crash, Requeue, GiveUp,
         RecoveryError, StartPoll, SelectCandidate, NothingToClaim, ClaimJob, ClaimError,
         Parse, Insert, ImportThrows, Complete, CompleteError, Fail, FailError, Heartbeat,
         HeartbeatLost, Tick
<1>2. copies \in [Row -> Nat] BY DEF TypeInv, TypeOK, ImportsTypeOK
<1>3. \A r \in Row : Present(r) => Present(r)'
  BY <1>1, <1>2 DEF InsertRows, Present
<1>4. QED BY <1>3, ImportsAssumption DEF Delivered

\* Where a poll comes from that is about to insert, or to report success.
LEMMA Origins ==
  ASSUME TypeInv, [Next]_vars, NEW v \in Worker
  PROVE  /\ phase'[v] = "write" => \/ Parse(v)
                                   \/ /\ phase[v] = "write"
                                      /\ job'[v] = job[v] /\ todo'[v] = todo[v]
         /\ phase'[v] = "complete" => \/ Insert(v)
                                      \/ phase[v] = "complete" /\ job'[v] = job[v]
<1> SUFFICES ASSUME phase'[v] \in {"write", "complete"}, ~Parse(v), ~Insert(v)
             PROVE  phase'[v] = phase[v] /\ job'[v] = job[v] /\ todo'[v] = todo[v]
  <2>1. ASSUME Parse(v) PROVE phase'[v] # "complete"
    BY <2>1 DEF Parse, Goto, TypeInv, TypeOK
  <2>2. ASSUME Insert(v) PROVE phase'[v] # "write"
    BY <2>2 DEF Insert, Goto, TypeInv, TypeOK
  <2>3. QED BY <2>1, <2>2
<1>0. /\ phase \in [Worker -> {"down", "idle", "claim", "claimed"}
                            \cup RecoveryPhase \cup RunningPhase]
      /\ job \in [Worker -> Job \cup {NoJob}]
      /\ todo \in [Worker -> SUBSET Row]
  BY DEF TypeInv, TypeOK
<1> USE DEF RunningPhase, RecoveryPhase, Goto, runVars
<1>1. ASSUME NEW j \in Job, Enqueue(j)
      PROVE  phase'[v] = phase[v] /\ job'[v] = job[v] /\ todo'[v] = todo[v]
  BY <1>1 DEF Enqueue
<1>2. ASSUME NEW w \in Worker, Boot(w) \/ Stop(w) \/ Exit(w) \/ StartPoll(w) \/ NothingToClaim(w)
      PROVE  phase'[v] = phase[v] /\ job'[v] = job[v] /\ todo'[v] = todo[v]
  BY <1>0, <1>2 DEF Boot, Stop, Exit, StartPoll, NothingToClaim
<1>3. ASSUME NEW w \in Worker, Crash(w) \/ ClaimError(w) \/ FailError(w)
      PROVE  phase'[v] = phase[v] /\ job'[v] = job[v] /\ todo'[v] = todo[v]
  BY <1>0, <1>3 DEF Crash, ClaimError, FailError, EndPoll
<1>4. ASSUME NEW w \in Worker, Requeue(w) \/ GiveUp(w) \/ RecoveryError(w)
      PROVE  phase'[v] = phase[v] /\ job'[v] = job[v] /\ todo'[v] = todo[v]
  BY <1>0, <1>4 DEF Requeue, GiveUp, RecoveryError
<1>5. ASSUME NEW w \in Worker, SelectCandidate(w) \/ ClaimJob(w)
      PROVE  phase'[v] = phase[v] /\ job'[v] = job[v] /\ todo'[v] = todo[v]
  BY <1>0, <1>5 DEF SelectCandidate, ClaimJob
<1>6. ASSUME NEW w \in Worker, Parse(w) \/ Insert(w) \/ ImportThrows(w)
      PROVE  phase'[v] = phase[v] /\ job'[v] = job[v] /\ todo'[v] = todo[v]
  BY <1>0, <1>6 DEF Parse, Insert, ImportThrows
<1>7. ASSUME NEW w \in Worker, Complete(w) \/ Fail(w) \/ CompleteError(w)
      PROVE  phase'[v] = phase[v] /\ job'[v] = job[v] /\ todo'[v] = todo[v]
  BY <1>0, <1>7 DEF Complete, Fail, CompleteError, EndPoll
<1>8. ASSUME NEW w \in Worker, Heartbeat(w) \/ HeartbeatLost(w)
      PROVE  phase'[v] = phase[v] /\ job'[v] = job[v] /\ todo'[v] = todo[v]
  BY <1>8 DEF Heartbeat, HeartbeatLost
<1>9. CASE Tick BY <1>9 DEF Tick
<1>10. CASE UNCHANGED vars BY <1>10 DEF vars
<1>11. QED
  BY <1>1, <1>2, <1>3, <1>4, <1>5, <1>6, <1>7, <1>8, <1>9, <1>10 DEF Next, Step, Trouble

\* Only a run that reports success writes COMPLETED, and to its own job.
LEMMA CompletedBy ==
  ASSUME TypeInv, [Next]_vars, NEW j \in Job, status'[j] = "COMPLETED"
  PROVE  \/ status[j] = "COMPLETED"
         \/ \E w \in Worker : phase[w] = "complete" /\ job[w] = j
<1>0. status \in [Job -> {"NONE", "QUEUED", "PROCESSING"} \cup Terminal]
  BY DEF TypeInv, TypeOK
<1>1. ASSUME NEW i \in Job, Enqueue(i) PROVE status[j] = "COMPLETED"
  BY <1>0, <1>1 DEF Enqueue
<1>2. ASSUME NEW w \in Worker, Quiet(w) PROVE status[j] = "COMPLETED"
  BY <1>2, QuietTable
<1>3. ASSUME NEW w \in Worker, Requeue(w) \/ GiveUp(w) PROVE status[j] = "COMPLETED"
  BY <1>0, <1>3 DEF Requeue, GiveUp, Settle
<1>4. ASSUME NEW w \in Worker, ClaimJob(w) \/ ClaimError(w) PROVE status[j] = "COMPLETED"
  BY <1>0, <1>4 DEF ClaimJob, ClaimError, TakeJob
<1>5. ASSUME NEW w \in Worker, Fail(w) \/ FailError(w) PROVE status[j] = "COMPLETED"
  BY <1>0, <1>5 DEF Fail, FailError, WriteOutcome, Settle, jobVars
<1>6. ASSUME NEW w \in Worker, Complete(w) \/ CompleteError(w)
      PROVE  status[j] = "COMPLETED" \/ (phase[w] = "complete" /\ job[w] = j)
  BY <1>0, <1>6 DEF Complete, CompleteError, WriteOutcome, Settle, jobVars
<1>7. CASE Tick BY <1>7 DEF Tick
<1>8. CASE UNCHANGED vars BY <1>8 DEF vars, jobVars
<1>9. QED
  BY <1>1, <1>2, <1>3, <1>4, <1>5, <1>6, <1>7, <1>8 DEF Next, Step, Trouble, Quiet

\* What a run still has to insert, plus what is there, is its whole workbook.
DeliverInv ==
  /\ \A w \in Worker : phase[w] = "write" =>
       /\ todo[w] \subseteq RowsOf[job[w]]
       /\ \A r \in RowsOf[job[w]] \ todo[w] : Present(r)
  /\ \A w \in Worker : phase[w] = "complete" => Delivered(job[w])
  /\ \A j \in Job : status[j] = "COMPLETED" => Delivered(j)

LEMMA DeliverStep == TypeInv /\ DeliverInv /\ [Next]_vars => DeliverInv'
<1> SUFFICES ASSUME TypeInv, DeliverInv, [Next]_vars PROVE DeliverInv'
  OBVIOUS
<1>a. \A w \in Worker : Running(w) => job[w] \in Job
  BY DEF TypeInv, ClaimInv, Busy
<1>b. /\ phase \in [Worker -> {"down", "idle", "claim", "claimed"}
                            \cup RecoveryPhase \cup RunningPhase]
      /\ todo \in [Worker -> SUBSET Row] /\ copies \in [Row -> Nat]
  BY DEF TypeInv, TypeOK, ImportsTypeOK
<1>1. ASSUME NEW w \in Worker, phase'[w] = "write"
      PROVE  /\ todo'[w] \subseteq RowsOf[job'[w]]
             /\ \A r \in RowsOf[job'[w]] \ todo'[w] : Present(r)'
  <2>1. CASE Parse(w)
    <3>1. job[w] \in Job BY <1>a, <2>1 DEF Parse, Running, RunningPhase
    <3>2. job'[w] = job[w] /\ todo'[w] = MissingRows(job[w]) /\ copies' = copies
      BY <1>b, <2>1 DEF Parse
    <3>3. QED BY <3>1, <3>2 DEF MissingRows, Present
  <2>2. CASE phase[w] = "write" /\ job'[w] = job[w] /\ todo'[w] = todo[w]
    <3>1. job[w] \in Job BY <1>a, <2>2 DEF Running, RunningPhase
    <3>2. RowsOf[job[w]] \subseteq Row BY <3>1, ImportsAssumption
    <3>3. QED BY <2>2, <3>2, CopiesGrow DEF DeliverInv
  <2>3. QED BY <1>1, <2>1, <2>2, Origins
<1>2. ASSUME NEW w \in Worker, phase'[w] = "complete" PROVE Delivered(job[w])'
  <2>1. CASE Insert(w)
    <3>1. job[w] \in Job /\ job'[w] = job[w]
      BY <1>a, <2>1 DEF Insert, Running, RunningPhase, runVars
    <3>2. InsertRows(todo[w]) /\ phase[w] = "write" BY <2>1 DEF Insert
    <3>3. RowsOf[job[w]] \subseteq Row BY <3>1, ImportsAssumption
    <3>4. ASSUME NEW r \in RowsOf[job[w]] PROVE Present(r)'
      <4>1. r \in todo[w] \/ Present(r) BY <3>2 DEF DeliverInv
      <4>2. QED BY <1>b, <3>2, <3>3, <4>1 DEF InsertRows, Present
    <3>5. QED BY <3>1, <3>4 DEF Delivered
  <2>2. CASE phase[w] = "complete" /\ job'[w] = job[w]
    BY <1>a, <2>2, CopiesGrow DEF DeliverInv, Delivered, Running, RunningPhase
  <2>3. QED BY <1>2, <2>1, <2>2, Origins
<1>3. ASSUME NEW j \in Job, status'[j] = "COMPLETED" PROVE Delivered(j)'
  BY <1>3, CompletedBy, CopiesGrow DEF DeliverInv
<1>4. QED BY <1>1, <1>2, <1>3 DEF DeliverInv

\* Until the first fault, a job whose rows were committed is reported as
\* COMPLETED, or is about to be.
ImportedInv ==
  faults = 0 => \A j \in imported :
    status[j] = "COMPLETED" \/ \E w \in Worker : phase[w] = "complete" /\ job[w] = j

LEMMA ImportedStep ==
  ASSUME TimedInv, ImportedInv, [Next]_vars PROVE ImportedInv'
<1>0. /\ status \in [Job -> {"NONE", "QUEUED", "PROCESSING"} \cup Terminal]
      /\ phase \in [Worker -> {"down", "idle", "claim", "claimed"}
                            \cup RecoveryPhase \cup RunningPhase]
      /\ job \in [Worker -> Job \cup {NoJob}]
      /\ imported \in SUBSET Job
  BY DEF TimedInv, TypeInv, TypeOK
<1>t. TypeInv BY DEF TimedInv
<1> SUFFICES ASSUME faults' = 0, NEW j \in imported'
    PROVE  \/ status'[j] = "COMPLETED"
           \/ \E v \in Worker : phase'[v] = "complete" /\ job'[v] = j
  BY DEF ImportedInv
<1>a. faults = 0 BY <1>t, FaultsGrow
<1>b. \A w \in Worker : ~Faulty(w) BY <1>a, <1>t, FaultyFaults
<1>r. ASSUME NEW v \in Worker, Running(v)
      PROVE  job[v] \in Job /\ status[job[v]] = "PROCESSING"
  BY <1>r, <1>a DEF TimedInv, TypeInv, ClaimInv, Busy, RunInv
<1>c. j \in imported =>
        status[j] = "COMPLETED" \/ \E v \in Worker : phase[v] = "complete" /\ job[v] = j
  BY <1>a DEF ImportedInv
<1>d. ASSUME j \in imported, j \in Job, status[j] = "COMPLETED" => status'[j] = "COMPLETED",
             \A v \in Worker : phase[v] = "complete" /\ job[v] = j =>
                 \/ phase'[v] = "complete" /\ job'[v] = j
                 \/ status'[j] = "COMPLETED"
      PROVE  \/ status'[j] = "COMPLETED"
             \/ \E v \in Worker : phase'[v] = "complete" /\ job'[v] = j
  BY <1>c, <1>d
<1> USE DEF RunningPhase, RecoveryPhase, Goto, runVars
<1>1. ASSUME NEW i \in Job, Enqueue(i)
      PROVE  \/ status'[j] = "COMPLETED"
             \/ \E v \in Worker : phase'[v] = "complete" /\ job'[v] = j
  BY <1>0, <1>1, <1>d DEF Enqueue
<1>2. ASSUME NEW w \in Worker, Insert(w)
      PROVE  \/ status'[j] = "COMPLETED"
             \/ \E v \in Worker : phase'[v] = "complete" /\ job'[v] = j
  <2>1. phase'[w] = "complete"
    <3>1. faults \in Nat BY <1>t DEF TypeInv, TypeOK
    <3>2. ~Fault BY <1>a, <3>1 DEF Fault
    <3>3. QED BY <1>0, <1>2, <3>2 DEF Insert
  <2>2. job' = job /\ status' = status BY <1>2 DEF Insert, jobVars
  <2>3. CASE j = job[w] BY <2>1, <2>2, <2>3
  <2>4. CASE j # job[w]
    <3>1. j \in imported BY <1>2, <2>4 DEF Insert
    <3>2. QED BY <1>0, <1>2, <1>d, <2>1, <2>2, <3>1 DEF Insert
  <2>5. QED BY <2>3, <2>4
<1>3. ASSUME NEW w \in Worker, Quiet(w), ~Insert(w)
      PROVE  \/ status'[j] = "COMPLETED"
             \/ \E v \in Worker : phase'[v] = "complete" /\ job'[v] = j
  <2>1. imported' = imported /\ \A v \in Worker : phase[v] = "complete" =>
          phase'[v] = "complete" /\ job'[v] = job[v]
    BY <1>0, <1>3, <1>b
       DEF Quiet, Faulty, Boot, Stop, Exit, StartPoll, SelectCandidate, NothingToClaim,
           Parse, ImportThrows, Heartbeat, HeartbeatLost
  <2>2. status' = status BY <1>3, <1>t, QuietTable
  <2>3. QED BY <1>0, <1>d, <2>1, <2>2
<1>4. ASSUME NEW w \in Worker, Requeue(w) \/ GiveUp(w) \/ ClaimJob(w)
      PROVE  \/ status'[j] = "COMPLETED"
             \/ \E v \in Worker : phase'[v] = "complete" /\ job'[v] = j
  <2>1. imported' = imported /\ \A v \in Worker : phase[v] = "complete" =>
          phase'[v] = "complete" /\ job'[v] = job[v]
    BY <1>0, <1>4 DEF Requeue, GiveUp, ClaimJob
  <2>2. \A i \in Job : status[i] = "COMPLETED" => status'[i] = "COMPLETED"
    <3>1. CASE Requeue(w) BY <1>0, <3>1 DEF Requeue, Retryable, Stale
    <3>2. CASE GiveUp(w)
      <4>1. Settle({i \in Job : Exhausted(i)}, "FAILED") BY <3>2 DEF GiveUp
      <4>2. QED BY ONLY <4>1 DEF Settle, Exhausted, Stale
    <3>3. CASE ClaimJob(w)
      <4>1. status[job[w]] = "QUEUED"
        BY <3>3, <1>t DEF ClaimJob, TypeInv, ClaimInv
      <4>2. QED BY <1>0, <3>3, <4>1 DEF ClaimJob, TakeJob
    <3>4. QED BY <1>4, <3>1, <3>2, <3>3
  <2>3. QED BY <1>0, <1>d, <2>1, <2>2
<1>5. ASSUME NEW w \in Worker, Complete(w) \/ Fail(w)
      PROVE  \/ status'[j] = "COMPLETED"
             \/ \E v \in Worker : phase'[v] = "complete" /\ job'[v] = j
  <2>1. j \in imported /\ j \in Job BY <1>0, <1>5 DEF Complete, Fail
  <2>2. Running(w) BY <1>5 DEF Complete, Fail, Running
  <2>3. status[job[w]] = "PROCESSING" BY <1>r, <2>2
  <2>4. \A i \in Job : i # job[w] => status'[i] = status[i]
    BY <1>5 DEF Complete, Fail, WriteOutcome, Settle
  <2>5. Complete(w) => status'[job[w]] = "COMPLETED"
    BY <1>r, <2>2 DEF Complete, WriteOutcome, Settle
  <2>6. \A v \in Worker : phase[v] = "complete" /\ job[v] = job[w] => v = w
    <3>1. OneRunner BY DEF TimedInv, RunInv
    <3>2. QED BY <2>2, <3>1 DEF OneRunner, Running
  <2>7. \A v \in Worker : v # w => phase'[v] = phase[v] /\ job'[v] = job[v]
    BY <1>0, <1>5 DEF Complete, Fail, EndPoll
  <2>8. Fail(w) => phase[w] = "fail" BY DEF Fail
  <2>9. ASSUME NEW v \in Worker, phase[v] = "complete", job[v] = j
        PROVE  (phase'[v] = "complete" /\ job'[v] = j) \/ status'[j] = "COMPLETED"
    BY <1>5, <2>5, <2>7, <2>8, <2>9
  <2>10. QED BY <1>d, <2>1, <2>3, <2>4, <2>9
<1>6. CASE Tick BY <1>0, <1>6, <1>d DEF Tick
<1>7. CASE UNCHANGED vars BY <1>0, <1>7, <1>d DEF vars, jobVars
<1>8. QED
  BY <1>1, <1>2, <1>3, <1>4, <1>5, <1>6, <1>7, <1>b DEF Next, Step, Trouble, Quiet, Faulty

\* COMPLETED is shown only for workbooks whose rows are all in the repository,
\* and FAILED for a workbook that was inserted only after a fault.
THEOREM AnswersTrue == ASSUME HeartbeatsSuffice PROVE Spec => []AnswersAreTrue
<1> DEFINE AInv == DeliverInv /\ ImportedInv
<1>1. Init => AInv
  BY DEF Init, DeliverInv, ImportedInv
<1>2. TimedInv /\ AInv /\ [Next]_vars => AInv'
  BY DeliverStep, ImportedStep DEF TimedInv
<1>3. TimedInv /\ AInv => AnswersAreTrue
  <2> SUFFICES ASSUME TimedInv, AInv, NEW j \in Job, status[j] = "FAILED", j \in imported
               PROVE  faults > 0
    BY DEF AnswersAreTrue, DeliverInv
  <2>1. faults \in Nat BY DEF TimedInv, TypeInv, TypeOK
  <2> SUFFICES ASSUME faults = 0 PROVE FALSE
    BY <2>1
  <2>2. PICK w \in Worker : phase[w] = "complete" /\ job[w] = j
    BY DEF ImportedInv
  <2>3. status[j] = "PROCESSING"
    BY <2>2 DEF TimedInv, RunInv, Running, RunningPhase
  <2>4. QED BY <2>3
<1>4. QED BY <1>1, <1>2, <1>3, TimedInvariant, PTL DEF Spec

-----------------------------------------------------------------------------
(* What a step may do to the status of a job.                              *)

LEMMA StatusStep ==
  ASSUME TimedInv, HeartbeatsSuffice, [Next]_vars, NEW j \in Job,
         status[j] \in Terminal, status'[j] # status[j]
  PROVE  status[j] = "COMPLETED" /\ status'[j] = "FAILED" /\ faults > 0
<1>0. /\ status \in [Job -> {"NONE", "QUEUED", "PROCESSING"} \cup Terminal]
      /\ job \in [Worker -> Job \cup {NoJob}]
  BY DEF TimedInv, TypeInv, TypeOK
<1>t. TypeInv BY DEF TimedInv
<1>r. ASSUME NEW v \in Worker, Running(v)
      PROVE  /\ job[v] \in Job
             /\ \/ status[job[v]] = "PROCESSING"
                \/ phase[v] = "fail" /\ status[job[v]] = "COMPLETED" /\ faults > 0
  BY <1>r DEF TimedInv, TypeInv, ClaimInv, Busy, RunInv
<1>1. ASSUME NEW i \in Job, Enqueue(i) PROVE FALSE
  BY <1>0, <1>1 DEF Enqueue, Terminal
<1>2. ASSUME NEW w \in Worker, Quiet(w) PROVE FALSE
  BY <1>2, <1>t, QuietTable
<1>3. ASSUME NEW w \in Worker, Requeue(w) PROVE FALSE
  BY <1>3 DEF Requeue, Retryable, Stale, Terminal
<1>4. ASSUME NEW w \in Worker, GiveUp(w) PROVE FALSE
  <2>1. Settle({i \in Job : Exhausted(i)}, "FAILED") BY <1>4 DEF GiveUp
  <2>2. QED BY ONLY <2>1, status[j] \in Terminal, status'[j] # status[j], j \in Job
            DEF Settle, Exhausted, Stale, Terminal
<1>5. ASSUME NEW w \in Worker, ClaimJob(w) \/ ClaimError(w) PROVE FALSE
  <2>1. TakeJob(job[w]) /\ status[job[w]] = "QUEUED"
    BY <1>5, <1>t DEF ClaimJob, ClaimError, TypeInv, ClaimInv
  <2>2. QED BY <1>0, <2>1 DEF TakeJob, Terminal
<1>6. ASSUME NEW w \in Worker, Complete(w) \/ CompleteError(w) PROVE FALSE
  <2>1. Settle({job[w]}, "COMPLETED") /\ Running(w) /\ phase[w] = "complete"
    BY <1>6 DEF Complete, CompleteError, WriteOutcome, jobVars, Running, RunningPhase
  <2>2. status[job[w]] = "PROCESSING" BY <1>r, <2>1
  <2>3. QED BY <2>1, <2>2 DEF Settle, Terminal
<1>7. ASSUME NEW w \in Worker, Fail(w) \/ FailError(w)
      PROVE  status[j] = "COMPLETED" /\ status'[j] = "FAILED" /\ faults > 0
  <2>1. Settle({job[w]}, "FAILED") /\ Running(w)
    BY <1>7 DEF Fail, FailError, WriteOutcome, jobVars, Running, RunningPhase
  <2>2. j = job[w] /\ status'[j] = "FAILED" BY <2>1 DEF Settle
  <2>3. QED BY <1>r, <2>1, <2>2 DEF Terminal
<1>8. CASE Tick BY <1>8 DEF Tick
<1>9. CASE UNCHANGED vars BY <1>9 DEF vars, jobVars
<1>10. QED
  BY <1>1, <1>2, <1>3, <1>4, <1>5, <1>6, <1>7, <1>8, <1>9 DEF Next, Step, Trouble, Quiet

\* The answer a client has seen is rewritten only from COMPLETED to FAILED,
\* and only after a fault.
THEOREM AnswersFinal == ASSUME HeartbeatsSuffice PROVE Spec => TerminalIsFinal
<1>1. TimedInv /\ [Next]_vars =>
        [\A j \in Job : status[j] \in Terminal /\ status'[j] # status[j]
           => status[j] = "COMPLETED" /\ status'[j] = "FAILED" /\ faults > 0]_vars
  BY StatusStep
<1>2. QED BY <1>1, TimedInvariant, PTL DEF Spec, TerminalIsFinal

-----------------------------------------------------------------------------
(* The queue implements what a client is promised (ImportJobs).            *)

LEMMA PromiseInitially == Init => Promise!JobsInit
BY DEF Init, Delivered, Promise!JobsInit

\* A step that writes neither a status, nor a claim, nor a row is invisible.
LEMMA PromiseStutter ==
  ASSUME UNCHANGED <<status, attempts, copies>> PROVE UNCHANGED Promise!jobsVars
BY DEF Promise!jobsVars, Delivered, Present

LEMMA PromiseStep ==
  ASSUME HeartbeatsSuffice, TimedInv, DeliverInv, [Next]_vars
  PROVE  [Promise!JobsNext]_(Promise!jobsVars)
<1>0. /\ status \in [Job -> {"NONE", "QUEUED", "PROCESSING"} \cup Terminal]
      /\ attempts \in [Job -> Nat]
      /\ job \in [Worker -> Job \cup {NoJob}]
  BY DEF TimedInv, TypeInv, TypeOK
<1>t. TypeInv BY DEF TimedInv
<1>r. ASSUME NEW v \in Worker, Running(v)
      PROVE  /\ job[v] \in Job
             /\ \/ status[job[v]] = "PROCESSING"
                \/ phase[v] = "fail" /\ status[job[v]] = "COMPLETED"
  BY <1>r DEF TimedInv, TypeInv, ClaimInv, Busy, RunInv
<1> DEFINE D == [j \in Job |-> Delivered(j)]
<1>d. copies' = copies => D' = D BY DEF Delivered, Present
<1>1. ASSUME NEW j \in Job, Enqueue(j) PROVE Promise!JobsNext
  <2>1. Promise!Submit(j)
    BY <1>d, <1>1 DEF Enqueue, Promise!Submit, Promise!Become
  <2>2. QED BY <2>1 DEF Promise!JobsNext
<1>2. ASSUME NEW w \in Worker, Quiet(w), ~Insert(w)
      PROVE  UNCHANGED Promise!jobsVars
  <2>1. copies' = copies
    BY <1>2 DEF Quiet, Boot, Stop, Exit, Crash, RecoveryError, StartPoll,
                SelectCandidate, NothingToClaim, Parse, ImportThrows, Heartbeat,
                HeartbeatLost
  <2>2. QED BY <1>2, <1>t, <2>1, QuietTable, PromiseStutter
<1>3. ASSUME NEW w \in Worker, Insert(w) PROVE Promise!JobsNext
  <2>1. Running(w) /\ phase[w] = "write" BY <1>3 DEF Insert, Running, RunningPhase
  <2>2. \E j \in Job : status[j] = "PROCESSING" BY <1>r, <2>1
  <2>3. UNCHANGED <<status, attempts>> BY <1>3 DEF Insert, jobVars
  <2>4. \A j \in Job : D[j] => D'[j] BY <1>t, CopiesGrow
  <2>5. D' \in [Job -> BOOLEAN] BY DEF Delivered
  <2>6. Promise!Deliver BY <2>2, <2>3, <2>4, <2>5 DEF Promise!Deliver
  <2>7. QED BY <2>6 DEF Promise!JobsNext
<1>4. ASSUME NEW w \in Worker, Requeue(w) PROVE Promise!JobsNext
  <2>1. Promise!Retry({j \in Job : Retryable(j)})
    BY <1>d, <1>4 DEF Requeue, Retryable, Stale, Promise!Retry
  <2>2. QED BY <2>1 DEF Promise!JobsNext
<1>5. ASSUME NEW js \in SUBSET Job, UNCHANGED copies, Settle(js, "FAILED"),
             \A j \in js : status[j] \in {"PROCESSING", "COMPLETED"}
      PROVE  Promise!JobsNext
  <2>1. Promise!Abandon(js) BY <1>d, <1>5 DEF Settle, Promise!Abandon
  <2>2. QED BY <2>1 DEF Promise!JobsNext
<1>6. ASSUME NEW w \in Worker, GiveUp(w) PROVE Promise!JobsNext
  <2> DEFINE js == {j \in Job : Exhausted(j)}
  <2>1. Settle(js, "FAILED") /\ UNCHANGED copies BY <1>6 DEF GiveUp
  <2>2. \A j \in js : status[j] = "PROCESSING" BY DEF Exhausted, Stale
  <2>3. js \in SUBSET Job OBVIOUS
  <2> HIDE DEF js
  <2>4. QED BY <1>5, <2>1, <2>2, <2>3
<1>7. ASSUME NEW w \in Worker, ClaimJob(w) \/ ClaimError(w)
      PROVE  [Promise!JobsNext]_(Promise!jobsVars)
  <2>1. CASE UNCHANGED <<status, attempts>>
    BY <1>7, <2>1, PromiseStutter DEF ClaimJob, ClaimError
  <2>2. CASE phase[w] = "claimed" /\ TakeJob(job[w])
    <3>1. job[w] \in Job /\ status[job[w]] = "QUEUED"
      BY <1>t, <2>2 DEF TypeInv, ClaimInv, Busy
    <3>2. attempts[job[w]] < MAX_ATTEMPTS
      BY <3>1 DEF TimedInv, TableInv, AttemptsBounded
    <3>3. copies' = copies BY <1>7 DEF ClaimJob, ClaimError
    <3>4. Promise!Start(job[w])
      BY <1>d, <2>2, <3>1, <3>2, <3>3 DEF TakeJob, Promise!Start, Promise!Become
    <3>5. QED BY <3>1, <3>4 DEF Promise!JobsNext
  <2>3. QED BY <1>7, <2>1, <2>2 DEF ClaimJob, ClaimError
<1>8. ASSUME NEW w \in Worker, Complete(w) \/ CompleteError(w) \/ Fail(w) \/ FailError(w)
      PROVE  [Promise!JobsNext]_(Promise!jobsVars)
  <2>1. Running(w) /\ copies' = copies
    BY <1>8 DEF Complete, CompleteError, Fail, FailError, Running, RunningPhase
  <2>2. job[w] \in Job /\ status[job[w]] \in {"PROCESSING", "COMPLETED"}
    BY <1>r, <2>1
  <2>3. CASE UNCHANGED jobVars BY <2>1, <2>3, PromiseStutter DEF jobVars
  <2>4. CASE Settle({job[w]}, "COMPLETED") /\ phase[w] = "complete"
    <3>1. status[job[w]] = "PROCESSING" /\ Delivered(job[w])
      BY <1>r, <2>1, <2>4 DEF DeliverInv
    <3>2. Promise!Finish(job[w])
      BY <1>0, <1>d, <2>1, <2>2, <2>4, <3>1 DEF Settle, Promise!Finish, Promise!Become
    <3>3. QED BY <2>2, <3>2 DEF Promise!JobsNext
  <2>5. CASE Settle({job[w]}, "FAILED")
    BY <1>5, <2>1, <2>2, <2>5
  <2>6. QED
    BY <1>8, <2>3, <2>4, <2>5 DEF Complete, CompleteError, Fail, FailError, WriteOutcome
<1>9. CASE Tick
  BY <1>9, PromiseStutter DEF Tick
<1>10. CASE UNCHANGED vars
  BY <1>10, PromiseStutter DEF vars, jobVars
<1>11. QED
  BY <1>1, <1>2, <1>3, <1>4, <1>6, <1>7, <1>8, <1>9, <1>10 DEF Next, Step, Trouble, Quiet

\* Replicas, row locks, heartbeats and recoveries together show a client
\* nothing but the job life that ImportJobs describes.
THEOREM QueueKeepsItsPromise ==
  ASSUME HeartbeatsSuffice PROVE Spec => ImplementsImportJobs
<1>1. Init => DeliverInv
  BY DEF Init, DeliverInv
<1>2. TimedInv /\ DeliverInv /\ [Next]_vars => DeliverInv'
  BY DeliverStep DEF TimedInv
<1>3. TimedInv /\ DeliverInv /\ [Next]_vars => [Promise!JobsNext]_(Promise!jobsVars)
  BY PromiseStep
<1>4. QED
  BY <1>1, <1>2, <1>3, PromiseInitially, TimedInvariant, PTL
     DEF Spec, ImplementsImportJobs, Promise!JobsSpec

-----------------------------------------------------------------------------
(* Duplicates: a row is inserted twice only by two replicas at once, and   *)
(* only when it has no unique column and two workbooks carry it.           *)

\* A row that is due to be inserted is not in the repository yet.
OnceInv(rows) ==
  /\ \A r \in rows : copies[r] <= 1
  /\ \A w \in Worker : phase[w] = "write" => \A r \in todo[w] \cap rows : copies[r] = 0

LEMMA OnceStep ==
  ASSUME TypeInv, DeliverInv, NEW rows \in SUBSET Row, OnceInv(rows), [Next]_vars,
         \A v, w \in Worker : phase[v] = "write" /\ phase[w] = "write" /\ v # w
            => todo[v] \cap todo[w] \cap rows = {}
  PROVE  OnceInv(rows)'
<1>0. /\ phase \in [Worker -> {"down", "idle", "claim", "claimed"}
                            \cup RecoveryPhase \cup RunningPhase]
      /\ todo \in [Worker -> SUBSET Row] /\ copies \in [Row -> Nat]
  BY DEF TypeInv, TypeOK, ImportsTypeOK
<1>1. ASSUME NEW w \in Worker, Insert(w) PROVE OnceInv(rows)'
  <2>1. phase[w] = "write" /\ InsertRows(todo[w]) /\ todo' = todo
    BY <1>1 DEF Insert, runVars
  <2>2. \A v \in Worker : phase'[v] = "write" => v # w /\ phase[v] = "write"
    BY <1>0, <1>1 DEF Insert, Goto
  <2>3. \A r \in rows : copies'[r] <= 1
    BY <1>0, <2>1 DEF InsertRows, OnceInv
  <2>4. ASSUME NEW v \in Worker, phase'[v] = "write", NEW r \in todo'[v] \cap rows
        PROVE  copies'[r] = 0
    <3>1. v # w /\ phase[v] = "write" /\ copies[r] = 0
      BY <2>1, <2>2, <2>4 DEF OnceInv
    <3>2. r \notin todo[w] BY <2>1, <2>4, <3>1
    <3>3. QED BY <1>0, <2>1, <3>1, <3>2 DEF InsertRows
  <2>5. QED BY <2>3, <2>4 DEF OnceInv
<1>2. ASSUME copies' = copies PROVE OnceInv(rows)'
  <2>1. ASSUME NEW v \in Worker, phase'[v] = "write", NEW r \in todo'[v] \cap rows
        PROVE  copies[r] = 0
    <3>1. CASE Parse(v)
      BY <1>0, <2>1, <3>1 DEF Parse, MissingRows, Present
    <3>2. CASE phase[v] = "write" /\ todo'[v] = todo[v]
      BY <2>1, <3>2 DEF OnceInv
    <3>3. QED BY <2>1, <3>1, <3>2, Origins
  <2>2. QED BY <1>2, <2>1 DEF OnceInv
<1>3. copies' = copies \/ \E w \in Worker : Insert(w)
  BY DEF Next, Step, Trouble, vars, Enqueue, Boot, Stop, Exit, Crash, Requeue, GiveUp,
         RecoveryError, StartPoll, SelectCandidate, NothingToClaim, ClaimJob, ClaimError,
         Parse, ImportThrows, Complete, CompleteError, Fail, FailError, Heartbeat,
         HeartbeatLost, Tick
<1>4. QED BY <1>1, <1>2, <1>3

\* One replica never inserts a row twice, whatever it crashes or retries.
THEOREM OneReplicaInsertsOnce ==
  ASSUME \A v, w \in Worker : v = w
  PROVE  Spec => []NoDuplicateRows
<1> DEFINE OInv == TypeInv /\ DeliverInv /\ OnceInv(Row)
<1>1. Init => OInv
  BY TypeInit DEF Init, ImportsInit, DeliverInv, OnceInv
<1>2. OInv /\ [Next]_vars => OInv'
  <2>1. TypeInv /\ DeliverInv /\ OnceInv(Row) /\ [Next]_vars => OnceInv(Row)'
    BY OnceStep
  <2>2. QED BY <2>1, TypeStep, DeliverStep
<1>3. OInv => NoDuplicateRows
  BY DEF OnceInv, NoDuplicateRows
<1>4. QED BY <1>1, <1>2, <1>3, PTL DEF Spec

\* No two workbooks carry the same row, unless the database keeps it unique.
Unshared ==
  \A i, j \in Job : i # j => RowsOf[i] \cap RowsOf[j] \subseteq Keyed

LEMMA KeyedStep ==
  ASSUME TypeInv, [Next]_vars, \A r \in Keyed : copies[r] <= 1
  PROVE  \A r \in Keyed : copies'[r] <= 1
<1>1. copies \in [Row -> Nat] BY DEF TypeInv, TypeOK, ImportsTypeOK
<1>2. ASSUME NEW w \in Worker, Insert(w) PROVE \A r \in Keyed : copies'[r] <= 1
  BY <1>1, <1>2, ImportsAssumption DEF Insert, InsertRows, KeyClash, Present
<1>3. copies' = copies \/ \E w \in Worker : Insert(w)
  BY DEF Next, Step, Trouble, vars, Enqueue, Boot, Stop, Exit, Crash, Requeue, GiveUp,
         RecoveryError, StartPoll, SelectCandidate, NothingToClaim, ClaimJob, ClaimError,
         Parse, ImportThrows, Complete, CompleteError, Fail, FailError, Heartbeat,
         HeartbeatLost, Tick
<1>4. QED BY <1>2, <1>3

\* Several replicas neither: a job that is retried, recovered by another replica
\* or in doubt about its commit inserts its rows once.  What is left, and what
\* ImportQueue_race shows, is a row without a unique column in two workbooks.
THEOREM RetriesInsertOnce ==
  ASSUME HeartbeatsSuffice, Unshared
  PROVE  Spec => []NoDuplicateRows
<1> DEFINE Free == Row \ Keyed
           OInv == DeliverInv /\ OnceInv(Free) /\ \A r \in Keyed : copies[r] <= 1
<1>1. Init => OInv
  BY ImportsAssumption DEF Init, ImportsInit, DeliverInv, OnceInv
<1>2. TimedInv /\ OInv /\ [Next]_vars => OInv'
  <2> SUFFICES ASSUME TimedInv, OInv, [Next]_vars PROVE OInv'
    OBVIOUS
  <2>1. ASSUME NEW v \in Worker, NEW w \in Worker,
               phase[v] = "write", phase[w] = "write", v # w
        PROVE  todo[v] \cap todo[w] \cap Free = {}
    <3>1. OneRunner BY DEF TimedInv, RunInv
    <3>2. job[v] # job[w] /\ job[v] \in Job /\ job[w] \in Job
      BY <2>1, <3>1
         DEF OneRunner, TimedInv, TypeInv, ClaimInv, Busy, Running, RunningPhase
    <3>3. RowsOf[job[v]] \cap RowsOf[job[w]] \subseteq Keyed
      BY <3>2 DEF Unshared
    <3>4. QED BY <2>1, <3>3 DEF DeliverInv
  <2>2. TypeInv BY DEF TimedInv
  <2>3. DeliverInv' BY <2>2, DeliverStep
  <2>4. Free \in SUBSET Row OBVIOUS
  <2>5. OnceInv(Free)'
    <3> HIDE DEF Free
    <3>1. \A v, w \in Worker : phase[v] = "write" /\ phase[w] = "write" /\ v # w
            => todo[v] \cap todo[w] \cap Free = {}
      BY <2>1
    <3>2. QED BY <2>2, <2>4, <3>1, OnceStep
  <2>6. \A r \in Keyed : copies'[r] <= 1 BY <2>2, KeyedStep
  <2>7. QED BY <2>3, <2>5, <2>6
<1>3. OInv => NoDuplicateRows
  BY DEF OnceInv, NoDuplicateRows
<1>4. QED BY <1>1, <1>2, <1>3, TimedInvariant, PTL DEF Spec
=============================================================================
