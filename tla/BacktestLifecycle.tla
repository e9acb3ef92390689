--------------------------- MODULE BacktestLifecycle ---------------------------
(***************************************************************************)
(* The life of one backtest Candidate across the asynchronous boundary of  *)
(* Cryptox: the Candidate row and its Attempts in PostgreSQL, the dispatch *)
(* outbox, the BullMQ job, the worker deliveries that simulate it, the     *)
(* completion processors that turn a finished Attempt into an Experiment,  *)
(* the cancellation requests, and the periodic reconciliation.             *)
(*                                                                         *)
(* Every SQL statement of the repository addresses one Candidate by id, so *)
(* one Candidate shows every interleaving on its row.  A transaction under *)
(* SELECT ... FOR UPDATE, and a single UPDATE, is one action; a read       *)
(* through the pool followed by a write is two.                            *)
(*                                                                         *)
(* A definition named Bug... is the plausible slip in the definition that  *)
(* follows it: the mutant with which its properties are tried.             *)
(***************************************************************************)
EXTENDS Integers

CONSTANTS
  MaxAttempts,            \* simulation budget, also the job's BullMQ attempts
  CompletionMaxAttempts,  \* completion budget (5 in the code)
  MaxStalls,              \* BullMQ maxStalledCount (1 in the code)
  MaxDeliveries,          \* bound: deliveries of the job to a worker
  MaxClaims,              \* bound: completion claims
  Processors,             \* concurrent processCompletion calls
  Cancellers,             \* concurrent cancellation requests
  Dispatchers,            \* concurrent dispatchOne calls
  Origin,                 \* "MANUAL" or "SEARCH": which cancellation applies
  Faults                  \* the faults the environment may inject

FaultKinds ==
  { "enqueueError",       \* Redis refuses queue.add
    "dispatcherCrash",    \* the process dies between enqueue and mark
    "workerCrash",        \* the worker process dies
    "stall",              \* BullMQ takes the lock from a worker still alive
    "workerOverrun",      \* the 60 s lease ends while the worker is alive
    "databaseError",      \* a worker's statement fails
    "processorCrash",     \* the backend dies inside processCompletion
    "processorOverrun",   \* the completion lease ends before its writes
    "evaluationError",    \* evaluation, scoring or ranking throws
    "finalizeError" }     \* finalizeTerminalFailure's statement fails

ASSUME BudgetsArePositive ==
  /\ MaxAttempts \in Nat \ {0}
  /\ CompletionMaxAttempts \in Nat \ {0}
ASSUME BoundsAreNatural ==
  /\ MaxStalls \in Nat
  /\ MaxDeliveries \in Nat
  /\ MaxClaims \in Nat
ASSUME OriginIsKnown == Origin \in {"MANUAL", "SEARCH"}
ASSUME FaultsAreKnown == Faults \subseteq FaultKinds

VARIABLES
  cand,           \* the lifecycle columns of the Candidate row
  attempts,       \* the Attempt rows, by attempt number
  experiment,     \* the Attempt the Experiment row was built from, 0 if none
  dispatch,       \* state of the outbox row
  job,            \* the BullMQ job
  worker,         \* each delivery's progress in the worker process
  proc,           \* each processCompletion call
  canceller,      \* each cancellation request
  dispatcher,     \* each dispatchOne call
  claims,         \* completion claim tokens handed out so far
  expiredLeases,  \* deliveries whose worker lease has run out
  expiredClaims   \* claims whose completion lease has run out

execVars == <<attempts, job, worker, expiredLeases>>
complVars == <<experiment, proc, claims, expiredClaims>>
outVars == <<dispatch, dispatcher>>
vars == <<cand, execVars, complVars, outVars, canceller>>

-----------------------------------------------------------------------------
(* Data                                                                    *)

Attempts == 1 .. MaxAttempts
Deliveries == 1 .. MaxDeliveries
Claims == 1 .. MaxClaims

Executing == {"QUEUED", "BACKTESTING", "RETRY_WAIT"}
Pending == {"PROCESSING_RESULT", "TERMINAL_FAILURE_PENDING"}
Terminal == {"COMPLETED", "FAILED", "CANCELLED"}
Status == Executing \cup Pending \cup Terminal
FailureKind == {"NONE", "RETRY_EXHAUSTED", "INFRASTRUCTURE",
                "COMPLETION_PROCESSING"}

\* A fence and a worker lease are named by the delivery that took them, a
\* claim token and its lease by the claim; 0 is NULL.  backoff says that
\* completion_next_retry_at lies in the future.
Row == [ status : Status,
         active : 0 .. MaxAttempts,
         fence : 0 .. MaxDeliveries,
         lease : 0 .. MaxDeliveries,
         count : Nat,
         generation : Nat,
         token : 0 .. MaxClaims,
         claimLease : 0 .. MaxClaims,
         backoff : BOOLEAN,
         kind : FailureKind,
         result : 0 .. MaxAttempts ]

Attempt == [ status : {"NONE", "RUNNING", "COMPLETED", "FAILED"},
             fence : 0 .. MaxDeliveries,
             audit : BOOLEAN ]

Job == [ state : {"absent", "waiting", "delayed", "active", "completed", "failed"},
         made : 0 .. MaxAttempts,
         lock : 0 .. MaxDeliveries,
         stalls : 0 .. MaxStalls ]

Worker == [ pc : {"unused", "fetched", "simulating", "failing", "returned",
                  "threw", "gone"},
            attempt : 0 .. MaxAttempts ]

\* What a completion processor keeps of the row it read after its claim.
Proc == [ pc : {"idle", "claimed", "working", "failing"},
          token : 0 .. MaxClaims,
          status : Status,
          count : Nat,
          generation : Nat,
          kind : FailureKind ]

Canceller == [ pc : {"idle", "write", "dispatch", "remove"}, row : Row ]

QueuedRow ==
  [ status |-> "QUEUED", active |-> 0, fence |-> 0, lease |-> 0,
    count |-> 0, generation |-> 0, token |-> 0, claimLease |-> 0,
    backoff |-> FALSE, kind |-> "NONE", result |-> 0 ]
NoAttempt == [status |-> "NONE", fence |-> 0, audit |-> FALSE]
NoJob == [state |-> "absent", made |-> 0, lock |-> 0, stalls |-> 0]
IdleProc == [ pc |-> "idle", token |-> 0, status |-> "QUEUED", count |-> 0,
              generation |-> 0, kind |-> "NONE" ]
IdleCanceller == [pc |-> "idle", row |-> QueuedRow]

-----------------------------------------------------------------------------
(* Initially createQueuedSubmission has committed: the Candidate is QUEUED *)
(* and its dispatch row PENDING, in one transaction.                       *)

Init ==
  /\ cand = QueuedRow
  /\ attempts = [n \in Attempts |-> NoAttempt]
  /\ experiment = 0
  /\ dispatch = "PENDING"
  /\ job = NoJob
  /\ worker = [d \in Deliveries |-> [pc |-> "unused", attempt |-> 0]]
  /\ proc = [p \in Processors |-> IdleProc]
  /\ canceller = [c \in Cancellers |-> IdleCanceller]
  /\ dispatcher = [x \in Dispatchers |-> "idle"]
  /\ claims = 0
  /\ expiredLeases = {}
  /\ expiredClaims = {}

-----------------------------------------------------------------------------
(* The dispatch outbox.  A dispatcher is the tail of a submission, the     *)
(* backend's reconciliation timer, or a worker process that is starting.   *)

DispatchStep(x, from, to) ==
  /\ dispatcher[x] = from
  /\ dispatcher' = [dispatcher EXCEPT ![x] = to]

ReadPendingDispatch(x) ==
  /\ DispatchStep(x, "idle", "enqueue")
  /\ dispatch = "PENDING"
  /\ UNCHANGED <<cand, execVars, complVars, dispatch, canceller>>

\* queue.add is a no-op while a job with this id exists in any state.
AddJob == job' = IF job.state = "absent" THEN [NoJob EXCEPT !.state = "waiting"] ELSE job

Enqueue(x) ==
  /\ DispatchStep(x, "enqueue", "mark")
  /\ AddJob
  /\ UNCHANGED <<cand, attempts, worker, expiredLeases, complVars, dispatch, canceller>>

\* Redis did not take the job, or took it and the answer was lost; a failing
\* markDispatchDispatched ends in the same catch.
EnqueueError(x) ==
  /\ "enqueueError" \in Faults
  /\ DispatchStep(x, "enqueue", "markFailed")
  /\ AddJob \/ UNCHANGED job
  /\ UNCHANGED <<cand, attempts, worker, expiredLeases, complVars, dispatch, canceller>>

MarkDispatchDispatched(x) ==
  /\ DispatchStep(x, "mark", "idle")
  /\ dispatch' = IF dispatch = "CANCELLED" THEN dispatch ELSE "DISPATCHED"
  /\ UNCHANGED <<cand, execVars, complVars, canceller>>

BugStateAfterFailure == IF dispatch = "CANCELLED" THEN dispatch ELSE "DISPATCHED"
StateAfterFailure == IF dispatch = "CANCELLED" THEN dispatch ELSE "PENDING"

MarkDispatchFailed(x) ==
  /\ DispatchStep(x, "markFailed", "idle")
  /\ dispatch' = StateAfterFailure
  /\ UNCHANGED <<cand, execVars, complVars, canceller>>

DispatcherCrash(x) ==
  /\ "dispatcherCrash" \in Faults
  /\ dispatcher[x] # "idle"
  /\ dispatcher' = [dispatcher EXCEPT ![x] = "idle"]
  /\ UNCHANGED <<cand, execVars, complVars, dispatch, canceller>>

-----------------------------------------------------------------------------
(* BullMQ, as the adapter configures it: exponential backoff, finished     *)
(* jobs are kept, maxStalledCount.  attemptsMade grows when a worker that  *)
(* still holds the lock reports a failure, not when a job stalls.          *)

\* The attempt number the adapter hands to processQueueJob.
DeliveryNumber == job.made + 1

Fetch(d) ==
  /\ job.state = "waiting"
  /\ worker[d].pc = "unused"
  /\ \A e \in Deliveries : e < d => worker[e].pc # "unused"
  /\ job' = [job EXCEPT !.state = "active", !.lock = d]
  /\ worker' = [worker EXCEPT ![d] = [pc |-> "fetched", attempt |-> DeliveryNumber]]
  /\ UNCHANGED <<cand, attempts, expiredLeases, complVars, outVars, canceller>>

HoldsLock(d) == job.state = "active" /\ job.lock = d

AckCompleted(d) ==
  /\ worker[d].pc = "returned"
  /\ worker' = [worker EXCEPT ![d].pc = "gone"]
  /\ job' = IF HoldsLock(d) THEN [job EXCEPT !.state = "completed", !.lock = 0] ELSE job
  /\ UNCHANGED <<cand, attempts, expiredLeases, complVars, outVars, canceller>>

AckFailed(d) ==
  /\ worker[d].pc = "threw"
  /\ worker' = [worker EXCEPT ![d].pc = "gone"]
  /\ job' = IF HoldsLock(d)
            THEN [job EXCEPT !.state = IF job.made + 1 < MaxAttempts THEN "delayed" ELSE "failed",
                             !.made = job.made + 1, !.lock = 0]
            ELSE job
  /\ UNCHANGED <<cand, attempts, expiredLeases, complVars, outVars, canceller>>

BackoffElapsed ==
  /\ job.state = "delayed"
  /\ job' = [job EXCEPT !.state = "waiting"]
  /\ UNCHANGED <<cand, attempts, worker, expiredLeases, complVars, outVars, canceller>>

\* The stalled-job check finds the lock of delivery job.lock expired.
Stall ==
  /\ job.state = "active"
  /\ worker[job.lock].pc = "gone" \/ "stall" \in Faults
  /\ \/ /\ job.stalls < MaxStalls
        /\ job' = [job EXCEPT !.state = "waiting", !.lock = 0, !.stalls = @ + 1]
     \/ /\ job.stalls = MaxStalls
        /\ \E made \in {job.made, job.made + 1} :
             job' = [job EXCEPT !.state = "failed", !.lock = 0, !.made = made]
  /\ UNCHANGED <<cand, attempts, worker, expiredLeases, complVars, outVars, canceller>>

-----------------------------------------------------------------------------
(* Worker deliveries: processQueueJob and runClaimedAttempt.               *)

Goto(d, from, to) ==
  /\ worker[d].pc = from
  /\ worker' = [worker EXCEPT ![d].pc = to]

BugWorkerClaimable ==
  \/ cand.status \in {"QUEUED", "RETRY_WAIT", "PROCESSING_RESULT"}
  \/ cand.status = "BACKTESTING" /\ cand.lease # 0 /\ cand.lease \in expiredLeases
WorkerClaimable ==
  \/ cand.status \in {"QUEUED", "RETRY_WAIT"}
  \/ cand.status = "BACKTESTING" /\ cand.lease # 0 /\ cand.lease \in expiredLeases

\* The Attempt row of this delivery's number is inserted, or taken over.
TakeAttempt(d) ==
  /\ WorkerClaimable
  /\ cand' = [cand EXCEPT !.status = "BACKTESTING", !.active = worker[d].attempt,
                          !.fence = d, !.lease = d]
  /\ attempts' = [attempts EXCEPT ![worker[d].attempt].status = "RUNNING",
                                  ![worker[d].attempt].fence = d]

ClaimWorkerAttempt(d) ==
  /\ Goto(d, "fetched", "simulating")
  /\ TakeAttempt(d)
  /\ UNCHANGED <<job, expiredLeases, complVars, outVars, canceller>>

\* No claim: the delivery returns IGNORED, which completes the BullMQ job.
IgnoreDelivery(d) ==
  /\ Goto(d, "fetched", "returned")
  /\ ~ WorkerClaimable
  /\ UNCHANGED <<cand, attempts, job, expiredLeases, complVars, outVars, canceller>>

\* The claim transaction fails, or commits and the re-read of the row fails.
ClaimError(d) ==
  /\ "databaseError" \in Faults
  /\ Goto(d, "fetched", "threw")
  /\ \/ TakeAttempt(d)
     \/ UNCHANGED <<cand, attempts>>
  /\ UNCHANGED <<job, expiredLeases, complVars, outVars, canceller>>

SimulationError(d) ==
  /\ Goto(d, "simulating", "failing")
  /\ UNCHANGED <<cand, attempts, job, expiredLeases, complVars, outVars, canceller>>

\* The rows that persistWorkerSuccess and failWorkerAttempt must find.
BugHoldsFence(d) == worker[d].attempt # 0
HoldsFence(d) ==
  LET n == worker[d].attempt
  IN  /\ cand.fence = d
      /\ attempts[n].fence = d
      /\ attempts[n].status = "RUNNING"
      /\ cand.status \in {"BACKTESTING", "CANCELLED"}

Unfenced(row) == [row EXCEPT !.active = 0, !.fence = 0, !.lease = 0]

BugStatusAfterSuccess == "PROCESSING_RESULT"
StatusAfterSuccess ==
  IF cand.status = "CANCELLED" THEN "CANCELLED" ELSE "PROCESSING_RESULT"

PersistWorkerSuccess(d) ==
  /\ Goto(d, "simulating", "returned")
  /\ HoldsFence(d)
  /\ attempts' = [attempts EXCEPT ![worker[d].attempt].status = "COMPLETED",
                                  ![worker[d].attempt].audit = cand.status = "CANCELLED"]
  /\ cand' = [Unfenced(cand) EXCEPT !.status = StatusAfterSuccess, !.backoff = FALSE]
  /\ UNCHANGED <<job, expiredLeases, complVars, outVars, canceller>>

\* BACKTEST_FENCE_LOST, or the transaction itself fails: both are caught.
PersistError(d) ==
  /\ Goto(d, "simulating", "failing")
  /\ ~ HoldsFence(d) \/ "databaseError" \in Faults
  /\ UNCHANGED <<cand, attempts, job, expiredLeases, complVars, outVars, canceller>>

FailWorkerAttempt(d) ==
  /\ Goto(d, "failing", "threw")
  /\ HoldsFence(d)
  /\ attempts' = [attempts EXCEPT ![worker[d].attempt].status = "FAILED"]
  /\ LET outcome == IF cand.status = "CANCELLED" THEN "CANCELLED"
                    ELSE IF worker[d].attempt < MaxAttempts THEN "RETRY_WAIT"
                    ELSE "TERMINAL_FAILURE_PENDING"
     IN  cand' = [Unfenced(cand) EXCEPT
                    !.status = outcome,
                    !.kind = IF outcome = "TERMINAL_FAILURE_PENDING"
                             THEN "RETRY_EXHAUSTED" ELSE "NONE"]
  /\ UNCHANGED <<job, expiredLeases, complVars, outVars, canceller>>

FailWorkerAttemptError(d) ==
  /\ Goto(d, "failing", "threw")
  /\ ~ HoldsFence(d) \/ "databaseError" \in Faults
  /\ UNCHANGED <<cand, attempts, job, expiredLeases, complVars, outVars, canceller>>

Alive(d) == worker[d].pc \in {"fetched", "simulating", "failing", "returned", "threw"}

WorkerCrash(d) ==
  /\ "workerCrash" \in Faults
  /\ Alive(d)
  /\ worker' = [worker EXCEPT ![d].pc = "gone"]
  /\ UNCHANGED <<cand, attempts, job, expiredLeases, complVars, outVars, canceller>>

LeaseExpires(d) ==
  /\ cand.lease = d
  /\ d \notin expiredLeases
  /\ ~ Alive(d) \/ "workerOverrun" \in Faults
  /\ expiredLeases' = expiredLeases \cup {d}
  /\ UNCHANGED <<cand, attempts, job, worker, complVars, outVars, canceller>>

-----------------------------------------------------------------------------
(* Reconciliation of the execution half.                                   *)

RunningAttempts == {n \in Attempts : attempts[n].status = "RUNNING"}
LatestRunning(n) == n \in RunningAttempts /\ \A m \in RunningAttempts : m <= n

\* The highest RUNNING Attempt is closed; when the Candidate has no Attempt
\* at all, a failed Attempt 1 is recorded instead.
CloseRunningAttempt ==
  LET NoneYet == \A m \in Attempts : attempts[m].status = "NONE"
  IN  [n \in Attempts |->
         IF LatestRunning(n) \/ (NoneYet /\ n = 1)
         THEN [attempts[n] EXCEPT !.status = "FAILED"] ELSE attempts[n]]

\* reconcileQueue, for a Candidate whose worker lease has expired.
RecoverAbandonedAttempt ==
  /\ cand.status = "BACKTESTING"
  /\ cand.lease # 0 /\ cand.lease \in expiredLeases
  /\ attempts' = CloseRunningAttempt
  /\ LET attemptNumber == IF cand.active # 0 THEN cand.active
                          ELSE IF RunningAttempts = {} THEN MaxAttempts
                          ELSE CHOOSE n \in Attempts : LatestRunning(n)
         retrying == attemptNumber < MaxAttempts
     IN  /\ cand' = [Unfenced(cand) EXCEPT
                       !.status = IF retrying THEN "RETRY_WAIT" ELSE "TERMINAL_FAILURE_PENDING",
                       !.kind = IF retrying THEN "NONE" ELSE "INFRASTRUCTURE"]
         /\ dispatch' = IF retrying /\ dispatch # "CANCELLED" THEN "PENDING" ELSE dispatch
  /\ UNCHANGED <<job, worker, expiredLeases, complVars, dispatcher, canceller>>

\* A verified terminal failure, from the failed event or reconcileTerminalJobs.
RepairTerminalQueueFailure ==
  /\ job.state = "failed" /\ job.made >= MaxAttempts
  /\ cand.status \notin Terminal \cup {"TERMINAL_FAILURE_PENDING"}
  /\ attempts' = CloseRunningAttempt
  /\ cand' = IF cand.status \in Executing
             THEN [Unfenced(cand) EXCEPT !.status = "TERMINAL_FAILURE_PENDING",
                                         !.kind = "INFRASTRUCTURE"]
             ELSE cand
  /\ UNCHANGED <<job, worker, expiredLeases, complVars, outVars, canceller>>

-----------------------------------------------------------------------------
(* Completion: processCompletion, from a terminal signal or from           *)
(* reconcileCompletions.                                                   *)

BugClaimOpen == cand.claimLease = 0
ClaimOpen == cand.claimLease = 0 \/ cand.claimLease \in expiredClaims

BugBudgetLeft == cand.count <= CompletionMaxAttempts
BudgetLeft == cand.count < CompletionMaxAttempts

ClaimCompletion(p) ==
  /\ proc[p].pc = "idle"
  /\ cand.status \in Pending
  /\ BudgetLeft
  /\ ~ cand.backoff
  /\ ClaimOpen
  /\ claims < MaxClaims
  /\ claims' = claims + 1
  /\ cand' = [cand EXCEPT !.count = @ + 1, !.generation = @ + 1, !.token = claims + 1,
                          !.claimLease = claims + 1, !.backoff = FALSE]
  /\ proc' = [proc EXCEPT ![p] = [IdleProc EXCEPT !.pc = "claimed", !.token = claims + 1]]
  /\ UNCHANGED <<experiment, expiredClaims, execVars, outVars, canceller>>

\* The Candidate the rest of processCompletion works on is read after the
\* claim has committed.
ReadClaimed(p) ==
  /\ proc[p].pc = "claimed"
  /\ proc' = [proc EXCEPT ![p] =
       [pc |-> "working", token |-> proc[p].token, status |-> cand.status,
        count |-> cand.count, generation |-> cand.generation, kind |-> cand.kind]]
  /\ UNCHANGED <<cand, experiment, claims, expiredClaims, execVars, outVars, canceller>>

\* The predicate every final completion write carries.
BugHoldsClaim(p) ==
  /\ cand.generation >= proc[p].generation
  /\ cand.claimLease # 0 /\ cand.claimLease \notin expiredClaims
HoldsClaim(p) ==
  /\ cand.token = proc[p].token
  /\ cand.generation = proc[p].generation
  /\ cand.claimLease # 0 /\ cand.claimLease \notin expiredClaims

Released(row) == [row EXCEPT !.token = 0, !.claimLease = 0, !.backoff = FALSE]

FinalizeTerminalFailure(p) ==
  /\ proc[p].pc = "working"
  /\ proc[p].status = "TERMINAL_FAILURE_PENDING"
  /\ HoldsClaim(p) /\ cand.status = "TERMINAL_FAILURE_PENDING"
  /\ cand' = [Released(cand) EXCEPT !.status = "FAILED"]
  /\ proc' = [proc EXCEPT ![p] = IdleProc]
  /\ UNCHANGED <<experiment, claims, expiredClaims, execVars, outVars, canceller>>

LatestCompleted(n) ==
  /\ attempts[n].status = "COMPLETED"
  /\ \A m \in Attempts : attempts[m].status = "COMPLETED" => m <= n

\* The completion unit of work: Experiment, Leaderboard admission and
\* finalizeCompletion commit together; the Experiment is inserted once.
FinalizeCompletion(p) ==
  /\ proc[p].pc = "working"
  /\ proc[p].status # "TERMINAL_FAILURE_PENDING"
  /\ HoldsClaim(p) /\ cand.status = "PROCESSING_RESULT"
  /\ \E n \in Attempts :
       /\ LatestCompleted(n)
       /\ experiment' = IF experiment = 0 THEN n ELSE experiment
  /\ cand' = [Released(cand) EXCEPT !.status = "COMPLETED", !.result = experiment']
  /\ proc' = [proc EXCEPT ![p] = IdleProc]
  /\ UNCHANGED <<claims, expiredClaims, execVars, outVars, canceller>>

CompletionError(p) ==
  /\ proc[p].pc = "working"
  /\ \/ proc[p].status = "TERMINAL_FAILURE_PENDING"
        /\ \/ "finalizeError" \in Faults
           \/ ~ (HoldsClaim(p) /\ cand.status = "TERMINAL_FAILURE_PENDING")
     \/ proc[p].status # "TERMINAL_FAILURE_PENDING"
        /\ \/ "evaluationError" \in Faults
           \/ \A n \in Attempts : attempts[n].status # "COMPLETED"
           \/ ~ (HoldsClaim(p) /\ cand.status = "PROCESSING_RESULT")
  /\ proc' = [proc EXCEPT ![p].pc = "failing"]
  /\ UNCHANGED <<cand, experiment, claims, expiredClaims, execVars, outVars, canceller>>

BugKindAfterFailure(p, exhausted) == proc[p].kind
KindAfterFailure(p, exhausted) ==
  IF exhausted THEN "COMPLETION_PROCESSING" ELSE proc[p].kind

\* failCompletion does not look at the Candidate's status.
FailCompletion(p) ==
  /\ proc[p].pc = "failing"
  /\ HoldsClaim(p)
  /\ LET exhausted == proc[p].count >= CompletionMaxAttempts
     IN  cand' = [Released(cand) EXCEPT
                    !.status = IF exhausted THEN "FAILED" ELSE "PROCESSING_RESULT",
                    !.backoff = ~ exhausted,
                    !.kind = KindAfterFailure(p, exhausted)]
  /\ proc' = [proc EXCEPT ![p] = IdleProc]
  /\ UNCHANGED <<experiment, claims, expiredClaims, execVars, outVars, canceller>>

FailCompletionFenceLost(p) ==
  /\ proc[p].pc = "failing"
  /\ ~ HoldsClaim(p)
  /\ proc' = [proc EXCEPT ![p] = IdleProc]
  /\ UNCHANGED <<cand, experiment, claims, expiredClaims, execVars, outVars, canceller>>

ProcessorCrash(p) ==
  /\ "processorCrash" \in Faults
  /\ proc[p].pc # "idle"
  /\ proc' = [proc EXCEPT ![p] = IdleProc]
  /\ UNCHANGED <<cand, experiment, claims, expiredClaims, execVars, outVars, canceller>>

ClaimLeaseExpires(k) ==
  /\ cand.claimLease = k
  /\ k \notin expiredClaims
  /\ "processorOverrun" \in Faults \/ \A p \in Processors : proc[p].token # k
  /\ expiredClaims' = expiredClaims \cup {k}
  /\ UNCHANGED <<cand, experiment, proc, claims, execVars, outVars, canceller>>

CompletionBackoffElapsed ==
  /\ cand.backoff
  /\ cand' = [cand EXCEPT !.backoff = FALSE]
  /\ UNCHANGED <<execVars, complVars, outVars, canceller>>

-----------------------------------------------------------------------------
(* Cancellation: the row is read through the pool, and every lifecycle     *)
(* column is written back later by an UPDATE on the id alone.              *)

CancelRead(c) ==
  /\ canceller[c].pc = "idle"
  /\ cand.status \notin Terminal
  /\ canceller' = [canceller EXCEPT ![c] = [pc |-> "write", row |-> cand]]
  /\ UNCHANGED <<cand, execVars, complVars, outVars>>

CancelledRow(row) ==
  [row EXCEPT !.status = "CANCELLED", !.lease = 0,
              !.fence = IF row.status = "BACKTESTING" THEN row.fence ELSE 0]

\* A Search cancellation marks the dispatch row in the same transaction.
CancelWrite(c) ==
  /\ canceller[c].pc = "write"
  /\ cand' = CancelledRow(canceller[c].row)
  /\ canceller' = [canceller EXCEPT ![c] =
       [IdleCanceller EXCEPT !.pc = IF Origin = "MANUAL" THEN "dispatch" ELSE "remove"]]
  /\ dispatch' = IF Origin = "MANUAL" THEN dispatch ELSE "CANCELLED"
  /\ UNCHANGED <<dispatcher, execVars, complVars>>

CancelDispatch(c) ==
  /\ canceller[c].pc = "dispatch"
  /\ dispatch' = "CANCELLED"
  /\ canceller' = [canceller EXCEPT ![c] = IdleCanceller]
  /\ UNCHANGED <<cand, dispatcher, execVars, complVars>>

\* BullMQ refuses to remove a job whose lock a worker holds.
RemovePendingJob(c) ==
  /\ canceller[c].pc = "remove"
  /\ job' = IF job.state = "active" THEN job ELSE NoJob
  /\ dispatch' = "CANCELLED"
  /\ canceller' = [canceller EXCEPT ![c] = IdleCanceller]
  /\ UNCHANGED <<cand, attempts, worker, expiredLeases, complVars, dispatcher>>

-----------------------------------------------------------------------------

DispatcherNext(x) ==
  \/ ReadPendingDispatch(x) \/ Enqueue(x) \/ EnqueueError(x)
  \/ MarkDispatchDispatched(x) \/ MarkDispatchFailed(x) \/ DispatcherCrash(x)

QueueNext == BackoffElapsed \/ Stall

\* What a delivery does without a fault.
WorkerStep(d) ==
  \/ Fetch(d) \/ ClaimWorkerAttempt(d) \/ IgnoreDelivery(d)
  \/ PersistWorkerSuccess(d) \/ PersistError(d)
  \/ FailWorkerAttempt(d) \/ FailWorkerAttemptError(d)
  \/ AckCompleted(d) \/ AckFailed(d)

WorkerNext(d) ==
  \/ WorkerStep(d) \/ SimulationError(d) \/ ClaimError(d)
  \/ WorkerCrash(d) \/ LeaseExpires(d)

RecoveryNext == RecoverAbandonedAttempt \/ RepairTerminalQueueFailure

ProcessorStep(p) ==
  \/ ClaimCompletion(p) \/ ReadClaimed(p)
  \/ FinalizeTerminalFailure(p) \/ FinalizeCompletion(p) \/ CompletionError(p)
  \/ FailCompletion(p) \/ FailCompletionFenceLost(p)

CompletionNext ==
  \/ \E p \in Processors : ProcessorStep(p) \/ ProcessorCrash(p)
  \/ \E k \in Claims : ClaimLeaseExpires(k)
  \/ CompletionBackoffElapsed

CancellerNext(c) ==
  CancelRead(c) \/ CancelWrite(c) \/ CancelDispatch(c) \/ RemovePendingJob(c)

Next ==
  \/ \E x \in Dispatchers : DispatcherNext(x)
  \/ QueueNext
  \/ \E d \in Deliveries : WorkerNext(d)
  \/ RecoveryNext
  \/ CompletionNext
  \/ \E c \in Cancellers : CancellerNext(c)

Spec == Init /\ [][Next]_vars

(* Workers, dispatchers and processors run whenever they can; the timers   *)
(* of BullMQ, of the leases and of the reconciliation fire.  A user need   *)
(* not cancel, and nothing has to fail.  An enqueue may fail any number of *)
(* times but not for ever.                                                 *)
Fairness ==
  /\ \A x \in Dispatchers :
       /\ WF_vars(ReadPendingDispatch(x))
       /\ SF_vars(Enqueue(x))
       /\ WF_vars(MarkDispatchDispatched(x))
       /\ WF_vars(MarkDispatchFailed(x))
  /\ WF_vars(QueueNext)
  /\ \A d \in Deliveries : WF_vars(WorkerStep(d)) /\ WF_vars(LeaseExpires(d))
  /\ WF_vars(RecoveryNext)
  /\ \A p \in Processors : WF_vars(ProcessorStep(p))
  /\ \A k \in Claims : WF_vars(ClaimLeaseExpires(k))
  /\ WF_vars(CompletionBackoffElapsed)

FairSpec == Spec /\ Fairness
=============================================================================
