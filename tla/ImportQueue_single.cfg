CONSTANTS
  MaxJobs = 2
  r1 = r1
  r2 = r2
  Row = {r1, r2}
  Keyed = {r1}
  RowsOf <- MixedRows
  Worker = {w1}
  NoWorker = NoWorker
  MAX_ATTEMPTS = 3
  HEARTBEAT = 1
  RECOVERY = 2
  STALE = 2
  MaxLost = 1
  MaxFaults = 3
SPECIFICATION Spec
INVARIANTS
  NoDuplicateRows
PROPERTIES
  EveryJobEnds
  StopEnds
