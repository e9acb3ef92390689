-------------------------- MODULE CandidateLifecycle --------------------------
(***************************************************************************)
(* The life of a Candidate that nobody cancels, as the rest of the system  *)
(* sees it: the transition contract of its status, with the one side       *)
(* effect that matters, the Experiment that a COMPLETED Candidate has.     *)
(* Queue, leases, fences, claims and crashes are all hidden.               *)
(***************************************************************************)
EXTENDS Naturals

VARIABLES
  status,       \* the public status of the Candidate
  hasResult     \* whether its Experiment exists

candidateVars == <<status, hasResult>>

CanInit == status = "QUEUED" /\ hasResult = FALSE

Move(from, to) ==
  /\ status \in from
  /\ status' = to
  /\ UNCHANGED hasResult

StartAttempt == Move({"QUEUED", "RETRY_WAIT"}, "BACKTESTING")
AttemptRetried == Move({"BACKTESTING"}, "RETRY_WAIT")
AttemptSucceeded == Move({"BACKTESTING"}, "PROCESSING_RESULT")
GiveUp == Move({"QUEUED", "BACKTESTING", "RETRY_WAIT"}, "TERMINAL_FAILURE_PENDING")
FailureFinalized == Move({"TERMINAL_FAILURE_PENDING"}, "FAILED")
CompletionGivenUp == Move({"PROCESSING_RESULT"}, "FAILED")

ResultPublished ==
  /\ status = "PROCESSING_RESULT"
  /\ status' = "COMPLETED"
  /\ hasResult' = TRUE

CanNext ==
  \/ StartAttempt \/ AttemptRetried \/ AttemptSucceeded \/ GiveUp
  \/ FailureFinalized \/ CompletionGivenUp \/ ResultPublished

CanSpec == CanInit /\ [][CanNext]_candidateVars
=============================================================================
