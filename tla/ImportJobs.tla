----------------------------- MODULE ImportJobs -----------------------------
(***************************************************************************)
(* What the import queue promises to whoever submitted a workbook and      *)
(* polls GET /academic/imports/jobs/:id, without replicas, locks, timers   *)
(* or payloads.  delivered[j] says that every row of job j's workbook is   *)
(* in the repository; importing one job may deliver another that shares    *)
(* its rows.                                                               *)
(***************************************************************************)
EXTENDS Naturals

CONSTANTS Jobs, MaxStarts

VARIABLES state, starts, delivered

jobsVars == <<state, starts, delivered>>

JobsInit ==
  /\ state = [j \in Jobs |-> "NONE"]
  /\ starts = [j \in Jobs |-> 0]
  /\ delivered \in [Jobs -> BOOLEAN]

Become(j, s) == state' = [state EXCEPT ![j] = s]

Submit(j) ==
  /\ state[j] = "NONE" /\ Become(j, "QUEUED")
  /\ UNCHANGED <<starts, delivered>>

\* A job is started at most MaxStarts times.
Start(j) ==
  /\ state[j] = "QUEUED" /\ starts[j] < MaxStarts
  /\ Become(j, "PROCESSING")
  /\ starts' = [starts EXCEPT ![j] = @ + 1]
  /\ UNCHANGED delivered

\* Rows only ever arrive, and only while some job is being processed.
Deliver ==
  /\ \E j \in Jobs : state[j] = "PROCESSING"
  /\ delivered' \in [Jobs -> BOOLEAN]
  /\ \A j \in Jobs : delivered[j] => delivered'[j]
  /\ UNCHANGED <<state, starts>>

\* An interrupted start leaves the job waiting for the next one.
Retry(js) ==
  /\ \A j \in js : state[j] = "PROCESSING" /\ starts[j] < MaxStarts
  /\ state' = [j \in Jobs |-> IF j \in js THEN "QUEUED" ELSE state[j]]
  /\ UNCHANGED <<starts, delivered>>

Finish(j) ==
  /\ state[j] = "PROCESSING" /\ delivered[j]
  /\ Become(j, "COMPLETED")
  /\ UNCHANGED <<starts, delivered>>

\* A COMPLETED answer is final unless its own write was not acknowledged to
\* the replica, which then reports the job as FAILED; FAILED is final.
Abandon(js) ==
  /\ \A j \in js : state[j] \in {"PROCESSING", "COMPLETED"}
  /\ state' = [j \in Jobs |-> IF j \in js THEN "FAILED" ELSE state[j]]
  /\ UNCHANGED <<starts, delivered>>

JobsNext ==
  \/ \E j \in Jobs : Submit(j) \/ Start(j) \/ Finish(j)
  \/ Deliver
  \/ \E js \in SUBSET Jobs : Retry(js) \/ Abandon(js)

JobsSpec == JobsInit /\ [][JobsNext]_jobsVars
=============================================================================
