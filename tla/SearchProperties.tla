---------------------------- MODULE SearchProperties ----------------------------
(***************************************************************************)
(* What a Search Run must guarantee.                                       *)
(***************************************************************************)
EXTENDS SearchRun

\* The row, the local rows of fills and commands, and the Candidates stay
\* in their domains.
TypeOK ==
  /\ run \in Row
  /\ cands \in [Iterations -> CandidateStatus]
  /\ lock \in Fillers \cup Users \cup {NoOne}
  /\ fill \in [Fillers -> Fill]
  /\ user \in [Users -> User]
  /\ crashes \in 0 .. MaxCrashes

-----------------------------------------------------------------------------
(* Reservations                                                            *)

\* maxCandidates is a budget of iteration numbers: crashed fills, stale
\* writes of next_iteration and Candidates that no count covers included,
\* no Candidate is reserved beyond it.
BudgetKept ==
  MaxCandidates # 0 =>
    \A k \in Iterations : cands[k] # "NONE" => k <= MaxCandidates

\* next_iteration never runs ahead of the reservations: every number below
\* it has its Candidate, so that no part of the budget is lost to a
\* submission that failed.
NoIterationSkipped ==
  \A k \in Iterations : k < run.next => cands[k] # "NONE"

\* Concurrent triggers never fill a slot twice: the Candidates that have been
\* counted as in flight ever since they were reserved stay within maxInFlight.
\* Those that a failing completion put back into the count come on top: their
\* slots may have been filled again when they were TERMINAL_FAILURE_PENDING or
\* CANCELLED.
CountedInFlightWithinLimit == Cardinality(WithStatus(Steady)) <= MaxInFlight

\* A Candidate is reserved only while the run is RUNNING: a pause or a
\* cancellation that has been accepted is not overtaken by a fill that read
\* the run before it.
ReservedOnlyWhileRunning ==
  [][\A k \in Iterations :
       cands[k] = "NONE" /\ cands'[k] # "NONE" => run.state = "RUNNING"]_vars

\* A run is COMPLETED only after it drained: no Candidate is still queued or
\* running, unless a failing completion put it back under the COMPLETED run.
CompletedRunIsDrained == run.state = "COMPLETED" => WithStatus(Steady) = {}

-----------------------------------------------------------------------------
(* Cancellation                                                            *)

\* A cancelled run is revived only by a copy of the row that pause, resume
\* or the catch of a fill read without the lock.  The save of a fill and
\* another cancellation, which hold the lock, never undo it.
OnlyUnlockedCopyRevives ==
  [][run.state = "CANCELLED" /\ run'.state # "CANCELLED" =>
       \/ \E u \in Users : user[u].pc = "write" /\ run' = user[u].row
       \/ \E f \in Fillers : fill[f].pc = "failWrite" /\ run' = fill[f].row]_vars

-----------------------------------------------------------------------------
(* Liveness                                                                *)

\* A run with a candidate budget does not stay RUNNING for ever, whichever
\* callbacks are lost and wherever its fills crash: it ends, or is paused, or
\* waits for a Candidate in a dead end of the pipeline, which it counts for ever.
RunningRunEnds ==
  run.state = "RUNNING" ~>
    \/ run.state # "RUNNING"
    \/ WithStatus({"STRANDED", "RETURNED_STRANDED"}) # {}
=============================================================================
