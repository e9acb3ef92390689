\* Without cancellation: the transition contract, how failures are recorded,
\* and what ends, with two dispatches, three deliveries and two claims.
CONSTANTS
  MaxAttempts = 2
  CompletionMaxAttempts = 2
  MaxStalls = 1
  MaxDeliveries = 3
  MaxClaims = 2
  Processors = {p1, p2}
  Cancellers = {}
  Dispatchers = {x1}
  Origin = "MANUAL"
  Faults = {"workerCrash", "workerOverrun", "processorCrash", "processorOverrun", "evaluationError", "enqueueError", "dispatcherCrash"}
SPECIFICATION FairSpec
INVARIANT FailureIsRecorded
PROPERTY ImplementsContract
PROPERTY EndsUnlessStranded
CHECK_DEADLOCK FALSE
