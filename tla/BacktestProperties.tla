-------------------------- MODULE BacktestProperties --------------------------
(***************************************************************************)
(* What BacktestLifecycle must guarantee.                                  *)
(***************************************************************************)
EXTENDS BacktestLifecycle

\* Every column, delivery and claim stays within its domain; in particular
\* no delivery carries an attempt number above maxAttempts, the case
\* processQueueJob rejects as INVALID_BACKTEST_QUEUE_JOB.
TypeOK ==
  /\ cand \in Row
  /\ attempts \in [Attempts -> Attempt]
  /\ experiment \in 0 .. MaxAttempts
  /\ dispatch \in {"PENDING", "DISPATCHED", "CANCELLED"}
  /\ job \in Job
  /\ worker \in [Deliveries -> Worker]
  /\ proc \in [Processors -> Proc]
  /\ canceller \in [Cancellers -> Canceller]
  /\ dispatcher \in [Dispatchers -> {"idle", "enqueue", "mark", "markFailed"}]
  /\ claims \in 0 .. MaxClaims
  /\ expiredLeases \subseteq Deliveries
  /\ expiredClaims \subseteq Claims

-----------------------------------------------------------------------------
(* Safety under every interleaving and every fault                         *)

\* An Experiment is built from an Attempt whose success a worker committed,
\* and a COMPLETED Candidate refers to that Experiment: completion never
\* runs ahead of persistWorkerSuccess, whatever redelivery, recovery or
\* cancellation did to the Attempt in between.
ExperimentSound ==
  /\ experiment # 0 => attempts[experiment].status = "COMPLETED"
  /\ cand.status = "COMPLETED" => experiment # 0 /\ cand.result = experiment

\* A successful Attempt is history: redelivery of the same attempt number,
\* which takes over the Attempt row, never reopens or relabels it.
CompletedAttemptIsFinal ==
  [][\A n \in Attempts :
       attempts[n].status = "COMPLETED" => attempts'[n] = attempts[n]]_vars

\* The trades of an Attempt that finished after its Candidate was cancelled
\* are audit data only: no Experiment is built from them.  This needs that
\* cancellations of a Candidate do not overlap: of two that do, the later
\* write can restore a claim that was open before the earlier one.
AuditNeverRanked == experiment # 0 => ~ attempts[experiment].audit

\* A Candidate waiting for its first delivery has a job in BullMQ, or an
\* outbox row that still says to enqueue one: a crash between the commit of
\* the submission, queue.add and markDispatchDispatched loses nothing.
OutboxCoversJob ==
  cand.status = "QUEUED" /\ dispatch = "DISPATCHED" => job.state # "absent"

\* The completion budget is a budget of claims: however many wake-ups,
\* crashes and lease expiries there are, no more than
\* completionMaxAttempts claims are made for one Candidate.
ClaimsWithinBudget == claims <= CompletionMaxAttempts

-----------------------------------------------------------------------------
(* Safety without cancellation                                             *)

\* COMPLETED and FAILED are final: no late delivery, duplicate wake-up,
\* expired claimant or reconciliation leaves them or touches the row again.
TerminalIsFinal ==
  [][cand.status \in Terminal => cand' = cand]_vars

\* The Attempts of a Candidate that failed, or is about to, are closed, and
\* there is at least one: recovery closed the abandoned Attempt, or recorded
\* a synthetic one.
FailureHasAttempts ==
  cand.status \in {"TERMINAL_FAILURE_PENDING", "FAILED"} =>
    /\ \E n \in Attempts : attempts[n].status # "NONE"
    /\ \A n \in Attempts : attempts[n].status # "RUNNING"

\* The failure kind tells the failing half: a simulation failure keeps
\* RETRY_EXHAUSTED or INFRASTRUCTURE through completion processing, and
\* COMPLETION_PROCESSING is kept for Candidates whose simulation succeeded.
FailureKindTruthful ==
  cand.status = "FAILED" =>
    IF \E n \in Attempts : attempts[n].status = "COMPLETED"
    THEN cand.kind = "COMPLETION_PROCESSING"
    ELSE cand.kind \in {"RETRY_EXHAUSTED", "INFRASTRUCTURE"}

\* What a failed Candidate records is what happened: closed Attempts, and the
\* kind of the half that failed, through crashes, takeovers, repairs and
\* completion processors that overlap.  Database errors and spurious stalls
\* are excluded: with either a RUNNING Attempt may be left behind.
FailureIsRecorded == FailureHasAttempts /\ FailureKindTruthful

Public == INSTANCE CandidateLifecycle
            WITH status <- cand.status, hasResult <- experiment # 0

\* Without cancellation the whole machinery behind one Candidate, with its
\* redeliveries, takeovers, expired claims and repairs, implements the
\* normative transition contract: every step is one of its transitions or
\* leaves the public status alone, and the Experiment appears exactly when
\* the Candidate becomes COMPLETED.
ImplementsContract == Public!CanSpec

-----------------------------------------------------------------------------
(* Safety of cancellation                                                  *)

\* A CANCELLED Candidate stays CANCELLED.  The code does not keep this.
CancelledIsFinal ==
  [][cand.status = "CANCELLED" => cand'.status = "CANCELLED"]_vars

\* Only one thing revives a CANCELLED Candidate: the failCompletion of a
\* processor whose claim, made before the cancellation, is still open.  No
\* worker, recovery, repair, dispatcher or successful completion does.
OnlyOpenClaimRevives ==
  [][cand.status = "CANCELLED" /\ cand'.status # "CANCELLED" =>
       \E p \in Processors : proc[p].pc = "failing" /\ HoldsClaim(p)]_vars

-----------------------------------------------------------------------------
(* Liveness                                                                *)

\* Every Candidate reaches an outcome: nothing strands it between the
\* outbox, the queue, the worker and the completion processor.
EventuallyTerminal == <>(cand.status \in Terminal)

\* The three dead ends of the code.  A recovered Candidate waits for a job
\* whose id BullMQ keeps as completed; a job that stalled too often is
\* failed although attempts are left, so no repair accepts its failure; or
\* the last claim of the completion budget died with its holder.
JobSpent == cand.status = "RETRY_WAIT" /\ job.state = "completed"
FailureUnverified ==
  cand.status \in Executing /\ job.state = "failed" /\ job.made < MaxAttempts
LastClaimLost ==
  /\ cand.status \in Pending
  /\ cand.count = CompletionMaxAttempts
  /\ \A p \in Processors : proc[p].token # cand.token
Stranded == JobSpent \/ FailureUnverified \/ LastClaimLost

\* Every Candidate reaches an outcome although enqueues fail, dispatchers,
\* workers and processors die or outlive their leases, unless it ends up in
\* one of the dead ends above; there is no fourth one.
EndsUnlessStranded == <>[](cand.status \in Terminal \/ Stranded)
=============================================================================
