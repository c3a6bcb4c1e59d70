CONSTANTS
  MaxJobs = 2
  r1 = r1
  r2 = r2
  Row = {r1, r2}
  Keyed = {r1}
  RowsOf <- MixedRows
  Worker = {w1, w2}
  NoWorker = NoWorker
  MAX_ATTEMPTS = 2
  HEARTBEAT = 1
  RECOVERY = 1
  STALE = 2
  MaxLost = 1
  MaxFaults = 2
SPECIFICATION Spec
SYMMETRY Replicas
INVARIANTS
  TypeOK
  PayloadWhileNeeded
  AttemptsBounded
  OneRunner
  StrandedOnlyByFault
  AnswersAreTrue
PROPERTIES
  TerminalIsFinal
  ImplementsImportJobs
