\* A cancellation races a completion processor.
CONSTANTS
  MaxAttempts = 1
  CompletionMaxAttempts = 2
  MaxStalls = 0
  MaxDeliveries = 1
  MaxClaims = 2
  Processors = {p1}
  Cancellers = {c1}
  Dispatchers = {x1}
  Origin = "MANUAL"
  Faults = {}
SPECIFICATION Spec
PROPERTY CancelledIsFinal
CHECK_DEADLOCK FALSE
