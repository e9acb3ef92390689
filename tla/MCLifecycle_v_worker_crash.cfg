\* A worker process dies once.
CONSTANTS
  MaxAttempts = 2
  CompletionMaxAttempts = 1
  MaxStalls = 1
  MaxDeliveries = 3
  MaxClaims = 1
  Processors = {p1}
  Cancellers = {}
  Dispatchers = {x1}
  Origin = "MANUAL"
  Faults = {"workerCrash"}
SPECIFICATION FairSpec
PROPERTY EventuallyTerminal
CHECK_DEADLOCK FALSE
