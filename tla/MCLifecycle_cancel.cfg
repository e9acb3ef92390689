\* A manual cancellation against worker crashes, stalls, overruns and
\* failing statements, up to three deliveries of a job with two attempts.
CONSTANTS
  MaxAttempts = 2
  CompletionMaxAttempts = 1
  MaxStalls = 1
  MaxDeliveries = 3
  MaxClaims = 1
  Processors = {p1}
  Cancellers = {c1}
  Dispatchers = {x1}
  Origin = "MANUAL"
  Faults = {"workerCrash", "stall", "workerOverrun", "databaseError", "finalizeError"}
SPECIFICATION Spec
INVARIANT ExperimentSound
INVARIANT AuditNeverRanked
PROPERTY CompletedAttemptIsFinal
PROPERTY OnlyOpenClaimRevives
CHECK_DEADLOCK FALSE
