\* A Search cancellation, which removes the job, against two dispatchers
\* and two completion processors that fail, crash and overrun.
CONSTANTS
  MaxAttempts = 1
  CompletionMaxAttempts = 2
  MaxStalls = 0
  MaxDeliveries = 1
  MaxClaims = 3
  Processors = {p1, p2}
  Cancellers = {c1}
  Dispatchers = {x1, x2}
  Origin = "SEARCH"
  Faults = {"enqueueError", "dispatcherCrash", "processorCrash", "processorOverrun", "evaluationError"}
SPECIFICATION Spec
INVARIANT OutboxCoversJob
INVARIANT ClaimsWithinBudget
SYMMETRY ProcessSymmetry
CHECK_DEADLOCK FALSE
