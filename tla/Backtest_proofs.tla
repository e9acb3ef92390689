---------------------------- MODULE Backtest_proofs ----------------------------
(***************************************************************************)
(* Type correctness and safety of the Candidate's life, for every value of *)
(* the constants: any budgets, any number of deliveries, claims,           *)
(* processors, cancellers and dispatchers, and any set of faults; then,    *)
(* without cancellation, that the pipeline implements its contract.  After *)
(* the life of a Candidate, what its result is and where it ends up.       *)
(*                                                                         *)
(* The leaderboard: what a completion read about the board may be out of   *)
(* date when it commits, but it stays true of the Experiments that were    *)
(* ever admitted, whose scores and times never change.  That is why the    *)
(* board is right without a lock on it.                                    *)
(*                                                                         *)
(* The simulation: an invariant that holds between any two statements of   *)
(* the loop, by one lemma per statement.                                   *)
(***************************************************************************)
EXTENDS BacktestProperties, Leaderboard, Simulation, FiniteSetTheorems, FunctionTheorems,
        SequenceTheorems, WellFoundedInduction, TLAPS

\* TypeOK is not inductive by itself: the attempt number of a delivery is the
\* job's attemptsMade + 1, which stays within the budget because BullMQ does
\* not run a job whose budget is spent.
TypeInv ==
  /\ TypeOK
  /\ \A d \in Deliveries : worker[d].pc # "unused" => worker[d].attempt \in Attempts
  /\ job.state \in {"waiting", "delayed", "active"} => job.made < MaxAttempts
  /\ job.state = "active" => job.lock \in Deliveries

\* Zero, the model's NULL, belongs to every range.
LEMMA NullInRange ==
  /\ 0 \in 0 .. MaxAttempts
  /\ 0 \in 0 .. MaxDeliveries
  /\ 0 \in 0 .. MaxClaims
BY BudgetsArePositive, BoundsAreNatural

\* Writing one column, or one field of the job, keeps the record's type;
\* longer updates follow column by column.
LEMMA RowField ==
  ASSUME NEW row \in Row
  PROVE  /\ \A v \in Status : [row EXCEPT !.status = v] \in Row
         /\ \A v \in 0 .. MaxAttempts : [row EXCEPT !.active = v] \in Row
         /\ \A v \in 0 .. MaxDeliveries : [row EXCEPT !.fence = v] \in Row
         /\ \A v \in 0 .. MaxDeliveries : [row EXCEPT !.lease = v] \in Row
         /\ \A v \in Nat : [row EXCEPT !.count = v] \in Row
         /\ \A v \in Nat : [row EXCEPT !.generation = v] \in Row
         /\ \A v \in 0 .. MaxClaims : [row EXCEPT !.token = v] \in Row
         /\ \A v \in 0 .. MaxClaims : [row EXCEPT !.claimLease = v] \in Row
         /\ \A v \in BOOLEAN : [row EXCEPT !.backoff = v] \in Row
         /\ \A v \in FailureKind : [row EXCEPT !.kind = v] \in Row
         /\ \A v \in 0 .. MaxAttempts : [row EXCEPT !.result = v] \in Row
<1>1. /\ \A v \in Status : [row EXCEPT !.status = v] \in Row
      /\ \A v \in BOOLEAN : [row EXCEPT !.backoff = v] \in Row
      /\ \A v \in FailureKind : [row EXCEPT !.kind = v] \in Row
  BY DEF Row
<1>2. /\ \A v \in 0 .. MaxAttempts : [row EXCEPT !.active = v] \in Row
      /\ \A v \in 0 .. MaxAttempts : [row EXCEPT !.result = v] \in Row
      /\ \A v \in Nat : [row EXCEPT !.count = v] \in Row
      /\ \A v \in Nat : [row EXCEPT !.generation = v] \in Row
  BY DEF Row
<1>3. /\ \A v \in 0 .. MaxDeliveries : [row EXCEPT !.fence = v] \in Row
      /\ \A v \in 0 .. MaxDeliveries : [row EXCEPT !.lease = v] \in Row
      /\ \A v \in 0 .. MaxClaims : [row EXCEPT !.token = v] \in Row
      /\ \A v \in 0 .. MaxClaims : [row EXCEPT !.claimLease = v] \in Row
  BY DEF Row
<1>4. QED
  BY <1>1, <1>2, <1>3

LEMMA JobField ==
  ASSUME NEW j \in Job
  PROVE  /\ \A v \in {"absent", "waiting", "delayed", "active", "completed", "failed"} :
              [j EXCEPT !.state = v] \in Job
         /\ \A v \in 0 .. MaxAttempts : [j EXCEPT !.made = v] \in Job
         /\ \A v \in 0 .. MaxDeliveries : [j EXCEPT !.lock = v] \in Job
         /\ \A v \in 0 .. MaxStalls : [j EXCEPT !.stalls = v] \in Job
BY DEF Job

LEMMA RowUpdates ==
  ASSUME NEW row \in Row
  PROVE  /\ Unfenced(row) \in Row
         /\ Released(row) \in Row
         /\ CancelledRow(row) \in Row
<1>1. Unfenced(row) \in Row
  BY RowField, NullInRange, Zenon DEF Unfenced
<1>2. Released(row) \in Row
  BY RowField, NullInRange, Zenon DEF Released
<1>3. CancelledRow(row) \in Row
  <2> DEFINE fence == IF row.status = "BACKTESTING" THEN row.fence ELSE 0
  <2>1. fence \in 0 .. MaxDeliveries
    BY NullInRange DEF Row
  <2>2. "CANCELLED" \in Status
    BY DEF Status, Terminal
  <2> HIDE DEF fence
  <2>3. [row EXCEPT !.status = "CANCELLED", !.lease = 0, !.fence = fence] \in Row
    BY <2>1, <2>2, RowField, NullInRange, Zenon
  <2>4. QED
    BY <2>3, Zenon DEF CancelledRow, fence
<1>4. QED
  BY <1>1, <1>2, <1>3

LEMMA InitTypeInv == Init => TypeInv
BY BudgetsArePositive, BoundsAreNatural
   DEF Init, TypeInv, TypeOK, QueuedRow, NoAttempt, NoJob, IdleProc, IdleCanceller,
       Row, Attempt, Job, Worker, Proc, Canceller, Attempts, Deliveries, Claims,
       Status, Executing, FailureKind

\* The outbox and BullMQ.
LEMMA DispatcherTypeInv ==
  ASSUME TypeInv, NEW x \in Dispatchers, DispatcherNext(x)
  PROVE  TypeInv'
<1> USE BudgetsArePositive, BoundsAreNatural
    DEF TypeInv, TypeOK, execVars, complVars, outVars, DispatchStep, AddJob, StateAfterFailure, NoJob, Job
<1>1. CASE ReadPendingDispatch(x)
  BY <1>1 DEF ReadPendingDispatch
<1>2. CASE Enqueue(x)
  BY <1>2 DEF Enqueue
<1>3. CASE EnqueueError(x)
  BY <1>3 DEF EnqueueError
<1>4. CASE MarkDispatchDispatched(x)
  BY <1>4 DEF MarkDispatchDispatched
<1>5. CASE MarkDispatchFailed(x)
  BY <1>5 DEF MarkDispatchFailed
<1>6. CASE DispatcherCrash(x)
  BY <1>6 DEF DispatcherCrash
<1>7. QED
  BY <1>1, <1>2, <1>3, <1>4, <1>5, <1>6 DEF DispatcherNext

LEMMA QueueTypeInv ==
  ASSUME TypeInv, QueueNext
  PROVE  TypeInv'
<1> USE BudgetsArePositive, BoundsAreNatural
    DEF TypeInv, TypeOK, execVars, complVars, outVars
<1>1. CASE BackoffElapsed
  BY <1>1 DEF BackoffElapsed, Job
<1>2. CASE Stall
  <2>1. job.stalls \in 0 .. MaxStalls /\ job.made \in 0 .. MaxAttempts /\ job.made < MaxAttempts
    BY <1>2 DEF Stall, Job
  <2>2. CASE job.stalls < MaxStalls
    <3>1. job.stalls + 1 \in 0 .. MaxStalls
      BY <2>1, <2>2
    <3>2. job' = [job EXCEPT !.state = "waiting", !.lock = 0, !.stalls = job.stalls + 1]
      BY <1>2, <2>1, <2>2 DEF Stall
    <3>3. job' \in Job
      BY <3>1, <3>2, JobField, NullInRange, Zenon
    <3>4. job'.state = "waiting" /\ job'.made = job.made
      BY <3>2 DEF Job
    <3>5. QED
      BY <1>2, <2>1, <3>3, <3>4 DEF Stall
  <2>3. ASSUME job.stalls = MaxStalls, NEW made \in {job.made, job.made + 1},
               job' = [job EXCEPT !.state = "failed", !.lock = 0, !.made = made]
        PROVE  TypeInv'
    <3>1. made \in 0 .. MaxAttempts
      BY <2>1
    <3>2. job' \in Job
      BY <2>3, <3>1, JobField, NullInRange, Zenon
    <3>3. job'.state = "failed"
      BY <2>3 DEF Job
    <3>4. QED
      BY <1>2, <3>2, <3>3 DEF Stall
  <2>4. QED
    BY <1>2, <2>2, <2>3 DEF Stall
<1>3. QED
  BY <1>1, <1>2 DEF QueueNext

LEMMA WorkerTypeInv ==
  ASSUME TypeInv, NEW d \in Deliveries, WorkerNext(d)
  PROVE  TypeInv'
<1> USE BudgetsArePositive, BoundsAreNatural
    DEF TypeInv, TypeOK, execVars, complVars, outVars, Goto
<1>1. CASE Fetch(d)
  <2>1. job.made + 1 \in Attempts /\ job.made + 1 \in 0 .. MaxAttempts /\ d \in 0 .. MaxDeliveries
    BY <1>1 DEF Fetch, Job, Attempts, Deliveries
  <2>2. job' \in Job
    BY <1>1, <2>1, JobField, Zenon DEF Fetch
  <2>3. job'.state = "active" /\ job'.lock = d /\ job'.made = job.made
    BY <1>1 DEF Fetch, Job
  <2>4. worker' \in [Deliveries -> Worker]
    BY <1>1, <2>1 DEF Fetch, DeliveryNumber, Worker
  <2>5. \A e \in Deliveries : worker'[e].pc # "unused" => worker'[e].attempt \in Attempts
    BY <1>1, <2>1 DEF Fetch, DeliveryNumber
  <2>6. QED
    BY <1>1, <2>2, <2>3, <2>4, <2>5 DEF Fetch
<1>2. ASSUME TakeAttempt(d), worker[d].pc = "fetched"
      PROVE  cand' \in Row /\ attempts' \in [Attempts -> Attempt]
  <2>1. worker[d].attempt \in 0 .. MaxAttempts /\ worker[d].attempt \in Attempts
    BY <1>2 DEF Worker
  <2>2. d \in 0 .. MaxDeliveries /\ "BACKTESTING" \in Status
    BY DEF Deliveries, Status, Executing
  <2>3. cand' \in Row
    BY <1>2, <2>1, <2>2, RowField, Zenon DEF TakeAttempt
  <2>4. attempts' \in [Attempts -> Attempt]
    BY <1>2, <2>1, <2>2 DEF TakeAttempt, Attempt
  <2>5. QED
    BY <2>3, <2>4
<1>3. CASE ClaimWorkerAttempt(d)
  BY <1>3, <1>2 DEF ClaimWorkerAttempt, Worker
<1>4. CASE ClaimError(d)
  BY <1>4, <1>2 DEF ClaimError, Worker
<1>5. CASE IgnoreDelivery(d)
  BY <1>5 DEF IgnoreDelivery, Worker
<1>6. CASE SimulationError(d)
  BY <1>6 DEF SimulationError, Worker
<1>7. CASE PersistWorkerSuccess(d)
  <2>1. cand' \in Row
    <3>1. StatusAfterSuccess \in Status
      BY DEF StatusAfterSuccess, Status, Pending, Terminal
    <3>2. QED
      BY <1>7, <3>1, RowUpdates, RowField, Zenon DEF PersistWorkerSuccess
  <2>2. attempts' \in [Attempts -> Attempt]
    BY <1>7 DEF PersistWorkerSuccess, Attempt, HoldsFence
  <2>3. QED
    BY <1>7, <2>1, <2>2 DEF PersistWorkerSuccess, Worker
<1>8. CASE PersistError(d)
  BY <1>8 DEF PersistError, Worker
<1>9. CASE FailWorkerAttempt(d)
  <2>1. cand' \in Row
    <3> DEFINE outcome == IF cand.status = "CANCELLED" THEN "CANCELLED"
                          ELSE IF worker[d].attempt < MaxAttempts THEN "RETRY_WAIT"
                          ELSE "TERMINAL_FAILURE_PENDING"
               kind == IF outcome = "TERMINAL_FAILURE_PENDING" THEN "RETRY_EXHAUSTED" ELSE "NONE"
    <3>1. outcome \in Status /\ kind \in FailureKind
      BY DEF Status, Pending, Terminal, Executing, FailureKind
    <3>2. cand' = [Unfenced(cand) EXCEPT !.status = outcome, !.kind = kind]
      BY <1>9, Zenon DEF FailWorkerAttempt
    <3>3. Unfenced(cand) \in Row
      BY RowUpdates
    <3> HIDE DEF outcome, kind
    <3>4. QED
      BY <3>1, <3>2, <3>3, RowField, Zenon
  <2>2. attempts' \in [Attempts -> Attempt]
    BY <1>9 DEF FailWorkerAttempt, Attempt
  <2>3. QED
    BY <1>9, <2>1, <2>2 DEF FailWorkerAttempt, Worker
<1>10. CASE FailWorkerAttemptError(d)
  BY <1>10 DEF FailWorkerAttemptError, Worker
<1>11. CASE AckCompleted(d)
  <2>1. job' \in Job /\ (job' = job \/ job'.state = "completed")
    <3>1. CASE HoldsLock(d)
      <4>1. job' = [job EXCEPT !.state = "completed", !.lock = 0]
        BY <1>11, <3>1 DEF AckCompleted
      <4>2. job' \in Job
        BY <4>1, JobField, NullInRange, Zenon
      <4>3. QED
        BY <4>1, <4>2
    <3>2. CASE ~ HoldsLock(d)
      BY <1>11, <3>2 DEF AckCompleted
    <3>3. QED
      BY <3>1, <3>2
  <2>2. QED
    BY <1>11, <2>1 DEF AckCompleted, Worker
<1>12. CASE AckFailed(d)
  <2>1. /\ job' \in Job
        /\ \/ job' = job
           \/ job'.state = "failed"
           \/ job'.state = "delayed" /\ job'.made < MaxAttempts
    <3>1. CASE HoldsLock(d)
      <4> DEFINE state == IF job.made + 1 < MaxAttempts THEN "delayed" ELSE "failed"
      <4>1. job.made + 1 \in 0 .. MaxAttempts
        BY <3>1 DEF HoldsLock, Job
      <4>2. job' = [job EXCEPT !.state = state, !.made = job.made + 1, !.lock = 0]
        BY <1>12, <3>1, Zenon DEF AckFailed
      <4>3. state \in {"absent", "waiting", "delayed", "active", "completed", "failed"}
        OBVIOUS
      <4>4. state = "failed" \/ (state = "delayed" /\ job.made + 1 < MaxAttempts)
        OBVIOUS
      <4> HIDE DEF state
      <4>5. job' \in Job
        BY <4>1, <4>2, <4>3, JobField, NullInRange, Zenon
      <4>6. job'.state = state /\ job'.made = job.made + 1
        BY <4>2 DEF Job
      <4>7. QED
        BY <4>4, <4>5, <4>6
    <3>2. CASE ~ HoldsLock(d)
      BY <1>12, <3>2 DEF AckFailed
    <3>3. QED
      BY <3>1, <3>2
  <2>2. QED
    BY <1>12, <2>1 DEF AckFailed, Worker
<1>13. CASE WorkerCrash(d)
  BY <1>13 DEF WorkerCrash, Worker, Alive
<1>14. CASE LeaseExpires(d)
  BY <1>14 DEF LeaseExpires
<1>15. QED
  BY <1>1, <1>3, <1>4, <1>5, <1>6, <1>7, <1>8, <1>9, <1>10, <1>11, <1>12, <1>13, <1>14
     DEF WorkerNext, WorkerStep

\* Reconciliation of the execution half.
LEMMA CloseAttemptsType ==
  ASSUME attempts \in [Attempts -> Attempt]
  PROVE  CloseRunningAttempt \in [Attempts -> Attempt]
BY DEF CloseRunningAttempt, Attempt

LEMMA RecoveryTypeInv ==
  ASSUME TypeInv, RecoveryNext
  PROVE  TypeInv'
<1> USE DEF TypeInv, TypeOK, execVars, complVars, outVars
<1>1. Unfenced(cand) \in Row
  BY RowUpdates
<1>2. CASE RecoverAbandonedAttempt
  <2> DEFINE attemptNumber == IF cand.active # 0 THEN cand.active
                              ELSE IF RunningAttempts = {} THEN MaxAttempts
                              ELSE CHOOSE n \in Attempts : LatestRunning(n)
             retrying == attemptNumber < MaxAttempts
             status == IF retrying THEN "RETRY_WAIT" ELSE "TERMINAL_FAILURE_PENDING"
             kind == IF retrying THEN "NONE" ELSE "INFRASTRUCTURE"
  <2>1. status \in Status /\ kind \in FailureKind
    BY DEF Status, Executing, Pending, FailureKind
  <2>2. cand' = [Unfenced(cand) EXCEPT !.status = status, !.kind = kind]
    BY <1>2, Zenon DEF RecoverAbandonedAttempt
  <2> HIDE DEF attemptNumber, retrying, status, kind
  <2>3. cand' \in Row
    BY <1>1, <2>1, <2>2, RowField, Zenon
  <2>4. QED
    BY <1>2, <2>3, CloseAttemptsType DEF RecoverAbandonedAttempt
<1>3. CASE RepairTerminalQueueFailure
  <2>1. "TERMINAL_FAILURE_PENDING" \in Status /\ "INFRASTRUCTURE" \in FailureKind
    BY DEF Status, Pending, FailureKind
  <2>2. [Unfenced(cand) EXCEPT !.status = "TERMINAL_FAILURE_PENDING", !.kind = "INFRASTRUCTURE"]
          \in Row
    BY <1>1, <2>1, RowField, Zenon
  <2>3. cand' \in Row
    BY <1>3, <2>2, Zenon DEF RepairTerminalQueueFailure
  <2>4. QED
    BY <1>3, <2>3, CloseAttemptsType DEF RepairTerminalQueueFailure
<1>4. QED
  BY <1>2, <1>3 DEF RecoveryNext

\* The completion half.
LEMMA ProcessorTypeInv ==
  ASSUME TypeInv, NEW p \in Processors, ProcessorStep(p) \/ ProcessorCrash(p)
  PROVE  TypeInv'
<1> USE DEF TypeInv, TypeOK, execVars, complVars, outVars
<1>1. IdleProc \in Proc
  BY NullInRange DEF IdleProc, Proc, Status, Executing, FailureKind
<1>2. Released(cand) \in Row
  BY RowUpdates
<1>3. CASE ClaimCompletion(p)
  <2>1. /\ claims + 1 \in 0 .. MaxClaims
        /\ cand.count + 1 \in Nat
        /\ cand.generation + 1 \in Nat
    BY <1>3, BoundsAreNatural DEF ClaimCompletion, Row
  <2>2. cand' \in Row
    BY <1>3, <2>1, RowField, Zenon DEF ClaimCompletion
  <2>3. proc' \in [Processors -> Proc]
    BY <1>1, <1>3, <2>1 DEF ClaimCompletion, Proc
  <2>4. QED
    BY <1>3, <2>1, <2>2, <2>3 DEF ClaimCompletion
<1>4. CASE ReadClaimed(p)
  <2>1. proc' \in [Processors -> Proc]
    BY <1>4 DEF ReadClaimed, Proc, Row
  <2>2. QED
    BY <1>4, <2>1 DEF ReadClaimed
<1>5. CASE FinalizeTerminalFailure(p)
  <2>1. "FAILED" \in Status
    BY DEF Status, Terminal
  <2>2. cand' \in Row
    BY <1>2, <1>5, <2>1, RowField, Zenon DEF FinalizeTerminalFailure
  <2>3. QED
    BY <1>1, <1>5, <2>2 DEF FinalizeTerminalFailure
<1>6. CASE FinalizeCompletion(p)
  <2>1. "COMPLETED" \in Status
    BY DEF Status, Terminal
  <2>2. experiment' \in 0 .. MaxAttempts
    BY <1>6, BudgetsArePositive DEF FinalizeCompletion, Attempts
  <2>3. cand' \in Row
    BY <1>2, <1>6, <2>1, <2>2, RowField, Zenon DEF FinalizeCompletion
  <2>4. QED
    BY <1>1, <1>6, <2>2, <2>3 DEF FinalizeCompletion
<1>7. CASE CompletionError(p)
  BY <1>7 DEF CompletionError, Proc
<1>8. CASE FailCompletion(p)
  <2> DEFINE exhausted == proc[p].count >= CompletionMaxAttempts
             status == IF exhausted THEN "FAILED" ELSE "PROCESSING_RESULT"
             backoff == ~ exhausted
             kind == KindAfterFailure(p, exhausted)
  <2>1. status \in Status /\ kind \in FailureKind
    BY DEF KindAfterFailure, Status, Pending, Terminal, FailureKind, Proc
  <2>2. backoff \in BOOLEAN
    BY DEF Proc
  <2>3. cand' = [Released(cand) EXCEPT !.status = status, !.backoff = backoff, !.kind = kind]
    BY <1>8, Zenon DEF FailCompletion
  <2> HIDE DEF exhausted, status, backoff, kind
  <2>4. cand' \in Row
    BY <1>2, <2>1, <2>2, <2>3, RowField, Zenon
  <2>5. QED
    BY <1>1, <1>8, <2>4 DEF FailCompletion
<1>9. CASE FailCompletionFenceLost(p)
  BY <1>1, <1>9 DEF FailCompletionFenceLost
<1>10. CASE ProcessorCrash(p)
  BY <1>1, <1>10 DEF ProcessorCrash
<1>11. QED
  BY <1>3, <1>4, <1>5, <1>6, <1>7, <1>8, <1>9, <1>10 DEF ProcessorStep

LEMMA CompletionTypeInv ==
  ASSUME TypeInv, CompletionNext
  PROVE  TypeInv'
<1> USE DEF TypeInv, TypeOK, execVars, complVars, outVars
<1>1. ASSUME NEW k \in Claims, ClaimLeaseExpires(k)
      PROVE  TypeInv'
  BY <1>1 DEF ClaimLeaseExpires
<1>2. CASE CompletionBackoffElapsed
  <2>1. cand' \in Row
    BY <1>2, RowField, Zenon DEF CompletionBackoffElapsed
  <2>2. QED
    BY <1>2, <2>1 DEF CompletionBackoffElapsed
<1>3. QED
  BY <1>1, <1>2, ProcessorTypeInv DEF CompletionNext

\* Cancellation.
LEMMA CancellerTypeInv ==
  ASSUME TypeInv, NEW c \in Cancellers, CancellerNext(c)
  PROVE  TypeInv'
<1> USE DEF TypeInv, TypeOK, execVars, complVars, outVars
<1>1. QueuedRow \in Row
  BY NullInRange DEF QueuedRow, Row, Status, Executing, FailureKind
<1>2. IdleCanceller \in Canceller
  BY <1>1 DEF IdleCanceller, Canceller
<1>3. CASE CancelRead(c)
  BY <1>3 DEF CancelRead, Canceller
<1>4. CASE CancelWrite(c)
  <2>1. canceller[c].row \in Row
    BY DEF Canceller
  <2>2. cand' \in Row
    BY <1>4, <2>1, RowUpdates, Zenon DEF CancelWrite
  <2>3. canceller' \in [Cancellers -> Canceller]
    BY <1>1, <1>4 DEF CancelWrite, Canceller, IdleCanceller
  <2>4. QED
    BY <1>4, <2>2, <2>3 DEF CancelWrite
<1>5. CASE CancelDispatch(c)
  BY <1>2, <1>5 DEF CancelDispatch
<1>6. CASE RemovePendingJob(c)
  <2>1. job' \in Job /\ (job' = job \/ job'.state = "absent")
    BY <1>6, BudgetsArePositive, BoundsAreNatural DEF RemovePendingJob, NoJob, Job
  <2>2. QED
    BY <1>2, <1>6, <2>1 DEF RemovePendingJob
<1>7. QED
  BY <1>3, <1>4, <1>5, <1>6 DEF CancellerNext

-----------------------------------------------------------------------------

LEMMA NextTypeInv == TypeInv /\ [Next]_vars => TypeInv'
<1>1. TypeInv /\ Next => TypeInv'
  BY DispatcherTypeInv, QueueTypeInv, WorkerTypeInv, RecoveryTypeInv, CompletionTypeInv,
     CancellerTypeInv DEF Next
<1>2. TypeInv /\ UNCHANGED vars => TypeInv'
  BY DEF TypeInv, TypeOK, vars, execVars, complVars, outVars
<1>3. QED
  BY <1>1, <1>2

LEMMA TypeInvariant == Spec => []TypeInv
BY InitTypeInv, NextTypeInv, PTL DEF Spec

\* The lifecycle columns, the job and every process of the pipeline stay
\* within their domains; no delivery is ever numbered above maxAttempts, so
\* processQueueJob's budget check never rejects a job BullMQ delivers.
THEOREM TypeCorrect == Spec => []TypeOK
<1>1. TypeInv => TypeOK
  BY DEF TypeInv
<1>2. QED
  BY <1>1, TypeInvariant, PTL

-----------------------------------------------------------------------------
(* Safety                                                                  *)

(* The steps that matter: all others leave the Candidate row, the Attempts *)
(* and the Experiment alone.                                               *)

ExecutionWrite ==
  /\ UNCHANGED <<experiment, claims, proc, expiredClaims>>
  /\ \/ \E d \in Deliveries :
          \/ worker[d].pc = "fetched" /\ TakeAttempt(d)
          \/ PersistWorkerSuccess(d)
          \/ FailWorkerAttempt(d)
     \/ RecoverAbandonedAttempt
     \/ RepairTerminalQueueFailure

CompletionWrite ==
  /\ UNCHANGED <<attempts, expiredClaims>>
  /\ \/ \E p \in Processors :
          \/ ClaimCompletion(p) \/ FinalizeTerminalFailure(p)
          \/ FinalizeCompletion(p) \/ FailCompletion(p)
     \/ CompletionBackoffElapsed

CancellationWrite ==
  /\ UNCHANGED <<attempts, experiment, claims, proc, expiredClaims>>
  /\ \E c \in Cancellers : CancelWrite(c)

\* Steps of completion processors, and of their leases, that write no row.
CompletionMove ==
  /\ UNCHANGED <<cand, attempts, experiment, claims>>
  /\ \/ \E p \in Processors :
          \/ ReadClaimed(p) \/ CompletionError(p)
          \/ FailCompletionFenceLost(p) \/ ProcessorCrash(p)
     \/ \E k \in Claims : ClaimLeaseExpires(k)

Elsewhere == UNCHANGED <<cand, attempts, experiment, claims, proc, expiredClaims>>

LEMMA StepKinds ==
  ASSUME Next
  PROVE  ExecutionWrite \/ CompletionWrite \/ CancellationWrite \/ CompletionMove \/ Elsewhere
<1> USE DEF execVars, complVars, outVars
<1>1. ASSUME NEW x \in Dispatchers, DispatcherNext(x)
      PROVE  Elsewhere
  BY <1>1 DEF DispatcherNext, ReadPendingDispatch, Enqueue, EnqueueError,
     MarkDispatchDispatched, MarkDispatchFailed, DispatcherCrash, Elsewhere
<1>2. ASSUME QueueNext
      PROVE  Elsewhere
  BY <1>2 DEF QueueNext, BackoffElapsed, Stall, Elsewhere
<1>3. ASSUME NEW d \in Deliveries, WorkerNext(d)
      PROVE  ExecutionWrite \/ Elsewhere
  <2>1. CASE ClaimWorkerAttempt(d) \/ ClaimError(d)
    BY <2>1 DEF ClaimWorkerAttempt, ClaimError, Goto, ExecutionWrite, Elsewhere
  <2>2. CASE PersistWorkerSuccess(d)
    <3>1. UNCHANGED <<experiment, claims, proc, expiredClaims>>
      BY <2>2 DEF PersistWorkerSuccess
    <3>2. QED
      BY <2>2, <3>1 DEF ExecutionWrite
  <2>3. CASE FailWorkerAttempt(d)
    <3>1. UNCHANGED <<experiment, claims, proc, expiredClaims>>
      BY <2>3 DEF FailWorkerAttempt
    <3>2. QED
      BY <2>3, <3>1 DEF ExecutionWrite
  <2>4. CASE Fetch(d) \/ IgnoreDelivery(d) \/ PersistError(d) \/ FailWorkerAttemptError(d)
    BY <2>4 DEF Fetch, IgnoreDelivery, PersistError, FailWorkerAttemptError, Elsewhere
  <2>5. CASE AckCompleted(d) \/ AckFailed(d)
    BY <2>5 DEF AckCompleted, AckFailed, Elsewhere
  <2>6. CASE SimulationError(d) \/ WorkerCrash(d) \/ LeaseExpires(d)
    BY <2>6 DEF SimulationError, WorkerCrash, LeaseExpires, Elsewhere
  <2>7. QED
    BY <1>3, <2>1, <2>2, <2>3, <2>4, <2>5, <2>6 DEF WorkerNext, WorkerStep
<1>4. ASSUME RecoveryNext
      PROVE  ExecutionWrite
  <2>1. UNCHANGED <<experiment, claims, proc, expiredClaims>>
    BY <1>4 DEF RecoveryNext, RecoverAbandonedAttempt, RepairTerminalQueueFailure
  <2>2. QED
    BY <1>4, <2>1 DEF RecoveryNext, ExecutionWrite
<1>5. ASSUME CompletionNext
      PROVE  CompletionWrite \/ CompletionMove
  <2>1. ASSUME NEW p \in Processors, ProcessorStep(p) \/ ProcessorCrash(p)
        PROVE  CompletionWrite \/ CompletionMove
    <3>1. CASE \/ ClaimCompletion(p) \/ FinalizeTerminalFailure(p)
               \/ FinalizeCompletion(p) \/ FailCompletion(p)
      <4>1. UNCHANGED <<attempts, expiredClaims>>
        BY <3>1 DEF ClaimCompletion, FinalizeTerminalFailure, FinalizeCompletion, FailCompletion
      <4>2. QED
        BY <3>1, <4>1 DEF CompletionWrite
    <3>2. CASE \/ ReadClaimed(p) \/ CompletionError(p)
               \/ FailCompletionFenceLost(p) \/ ProcessorCrash(p)
      <4>1. UNCHANGED <<cand, attempts, experiment, claims>>
        BY <3>2 DEF ReadClaimed, CompletionError, FailCompletionFenceLost, ProcessorCrash
      <4>2. QED
        BY <3>2, <4>1 DEF CompletionMove
    <3>3. QED
      BY <2>1, <3>1, <3>2 DEF ProcessorStep
  <2>2. ASSUME NEW k \in Claims, ClaimLeaseExpires(k)
        PROVE  CompletionMove
    <3>1. UNCHANGED <<cand, attempts, experiment, claims>>
      BY <2>2 DEF ClaimLeaseExpires
    <3>2. QED
      BY <2>2, <3>1 DEF CompletionMove
  <2>3. CASE CompletionBackoffElapsed
    BY <2>3 DEF CompletionBackoffElapsed, CompletionWrite
  <2>4. QED
    BY <1>5, <2>1, <2>2, <2>3 DEF CompletionNext
<1>6. ASSUME NEW c \in Cancellers, CancellerNext(c)
      PROVE  CancellationWrite \/ Elsewhere
  <2>1. CASE CancelWrite(c)
    <3>1. UNCHANGED <<attempts, experiment, claims, proc, expiredClaims>>
      BY <2>1 DEF CancelWrite
    <3>2. QED
      BY <2>1, <3>1 DEF CancellationWrite
  <2>2. CASE CancelRead(c) \/ CancelDispatch(c) \/ RemovePendingJob(c)
    BY <2>2 DEF CancelRead, CancelDispatch, RemovePendingJob, Elsewhere
  <2>3. QED
    BY <1>6, <2>1, <2>2 DEF CancellerNext
<1>7. QED
  BY <1>1, <1>2, <1>3, <1>4, <1>5, <1>6 DEF Next

-----------------------------------------------------------------------------
(* What each write does to the row.                                        *)

KeepsClaim ==
  /\ cand'.count = cand.count
  /\ cand'.generation = cand.generation
  /\ cand'.token = cand.token
  /\ cand'.claimLease = cand.claimLease

Unfences == cand'.active = 0 /\ cand'.fence = 0 /\ cand'.lease = 0
Releases == cand'.token = 0 /\ cand'.claimLease = 0
KeepsWorker == cand'.fence = cand.fence /\ cand'.lease = cand.lease

LEMMA UnfencedFields ==
  ASSUME NEW row \in Row
  PROVE  /\ Unfenced(row).status = row.status
         /\ Unfenced(row).active = 0 /\ Unfenced(row).fence = 0 /\ Unfenced(row).lease = 0
         /\ Unfenced(row).count = row.count /\ Unfenced(row).generation = row.generation
         /\ Unfenced(row).token = row.token /\ Unfenced(row).claimLease = row.claimLease
         /\ Unfenced(row).backoff = row.backoff
BY DEF Unfenced, Row

LEMMA ReleasedFields ==
  ASSUME NEW row \in Row
  PROVE  /\ Released(row).status = row.status
         /\ Released(row).fence = row.fence /\ Released(row).lease = row.lease
         /\ Released(row).count = row.count /\ Released(row).generation = row.generation
         /\ Released(row).token = 0 /\ Released(row).claimLease = 0
         /\ Released(row).backoff = FALSE /\ Released(row).kind = row.kind
BY DEF Released, Row

LEMMA TakeAttemptRow ==
  ASSUME TypeInv, NEW d \in Deliveries, TakeAttempt(d)
  PROVE  /\ cand.status \in Executing
         /\ cand'.status = "BACKTESTING"
         /\ cand'.fence = d /\ cand'.lease = d
         /\ cand'.backoff = cand.backoff
         /\ KeepsClaim
BY DEF TypeInv, TypeOK, TakeAttempt, WorkerClaimable, Executing, Row, KeepsClaim

LEMMA PersistWorkerSuccessRow ==
  ASSUME TypeInv, NEW d \in Deliveries, PersistWorkerSuccess(d)
  PROVE  /\ cand.fence # 0
         /\ \/ cand.status = "CANCELLED" /\ cand'.status = "CANCELLED"
            \/ cand.status = "BACKTESTING" /\ cand'.status = "PROCESSING_RESULT"
         /\ cand'.backoff = FALSE
         /\ Unfences /\ KeepsClaim
<1>1. cand \in Row /\ Unfenced(cand) \in Row
  BY RowUpdates DEF TypeInv, TypeOK
<1>2. cand.fence # 0 /\ cand.status \in {"BACKTESTING", "CANCELLED"}
  BY DEF PersistWorkerSuccess, HoldsFence, Deliveries
<1>3. cand' = [Unfenced(cand) EXCEPT !.status = StatusAfterSuccess, !.backoff = FALSE]
  BY Zenon DEF PersistWorkerSuccess
<1>4. /\ cand'.status = StatusAfterSuccess
      /\ cand'.backoff = FALSE
      /\ Unfences /\ KeepsClaim
  BY <1>1, <1>3, UnfencedFields DEF Row, Unfences, KeepsClaim
<1>5. QED
  BY <1>2, <1>4 DEF StatusAfterSuccess

LEMMA FailWorkerAttemptRow ==
  ASSUME TypeInv, NEW d \in Deliveries, FailWorkerAttempt(d)
  PROVE  /\ cand.fence # 0
         /\ \/ cand.status = "CANCELLED" /\ cand'.status = "CANCELLED"
            \/ /\ cand.status = "BACKTESTING"
               /\ cand'.status \in {"RETRY_WAIT", "TERMINAL_FAILURE_PENDING"}
         /\ cand'.status = "TERMINAL_FAILURE_PENDING" => cand'.kind = "RETRY_EXHAUSTED"
         /\ cand'.backoff = cand.backoff
         /\ Unfences /\ KeepsClaim
<1>1. cand \in Row /\ Unfenced(cand) \in Row
  BY RowUpdates DEF TypeInv, TypeOK
<1>2. cand.fence # 0 /\ cand.status \in {"BACKTESTING", "CANCELLED"}
  BY DEF FailWorkerAttempt, HoldsFence, Deliveries
<1> DEFINE outcome == IF cand.status = "CANCELLED" THEN "CANCELLED"
                      ELSE IF worker[d].attempt < MaxAttempts THEN "RETRY_WAIT"
                      ELSE "TERMINAL_FAILURE_PENDING"
           kind == IF outcome = "TERMINAL_FAILURE_PENDING" THEN "RETRY_EXHAUSTED" ELSE "NONE"
<1>3. cand' = [Unfenced(cand) EXCEPT !.status = outcome, !.kind = kind]
  BY Zenon DEF FailWorkerAttempt
<1>4. /\ cand'.status = outcome /\ cand'.kind = kind
      /\ cand'.backoff = cand.backoff
      /\ Unfences /\ KeepsClaim
  <2> HIDE DEF outcome, kind
  <2>1. QED
    BY <1>1, <1>3, UnfencedFields DEF Row, Unfences, KeepsClaim
<1>5. QED
  BY <1>2, <1>4

LEMMA RecoverRow ==
  ASSUME TypeInv, RecoverAbandonedAttempt
  PROVE  /\ cand.status = "BACKTESTING"
         /\ cand'.status \in {"RETRY_WAIT", "TERMINAL_FAILURE_PENDING"}
         /\ cand'.status = "TERMINAL_FAILURE_PENDING" => cand'.kind = "INFRASTRUCTURE"
         /\ cand'.backoff = cand.backoff
         /\ Unfences /\ KeepsClaim
<1>1. cand \in Row /\ Unfenced(cand) \in Row
  BY RowUpdates DEF TypeInv, TypeOK
<1> DEFINE attemptNumber == IF cand.active # 0 THEN cand.active
                           ELSE IF RunningAttempts = {} THEN MaxAttempts
                           ELSE CHOOSE n \in Attempts : LatestRunning(n)
           retrying == attemptNumber < MaxAttempts
           status == IF retrying THEN "RETRY_WAIT" ELSE "TERMINAL_FAILURE_PENDING"
           kind == IF retrying THEN "NONE" ELSE "INFRASTRUCTURE"
<1>2. cand' = [Unfenced(cand) EXCEPT !.status = status, !.kind = kind]
  BY Zenon DEF RecoverAbandonedAttempt
<1>3. status \in {"RETRY_WAIT", "TERMINAL_FAILURE_PENDING"}
  OBVIOUS
<1>4. /\ cand'.status = status /\ cand'.kind = kind
      /\ cand'.backoff = cand.backoff
      /\ Unfences /\ KeepsClaim
  <2> HIDE DEF status, kind
  <2>1. QED
    BY <1>1, <1>2, UnfencedFields DEF Row, Unfences, KeepsClaim
<1>5. QED
  BY <1>3, <1>4 DEF RecoverAbandonedAttempt

LEMMA RepairRow ==
  ASSUME TypeInv, RepairTerminalQueueFailure
  PROVE  \/ cand' = cand /\ cand.status \in {"PROCESSING_RESULT"}
         \/ /\ cand.status \in Executing
            /\ cand'.status = "TERMINAL_FAILURE_PENDING" /\ cand'.kind = "INFRASTRUCTURE"
            /\ cand'.backoff = cand.backoff
            /\ Unfences /\ KeepsClaim
<1>1. cand \in Row /\ Unfenced(cand) \in Row
  BY RowUpdates DEF TypeInv, TypeOK
<1>2. CASE cand.status \in Executing
  <2>1. cand' = [Unfenced(cand) EXCEPT !.status = "TERMINAL_FAILURE_PENDING",
                                       !.kind = "INFRASTRUCTURE"]
    BY <1>2, Zenon DEF RepairTerminalQueueFailure
  <2>2. QED
    BY <1>1, <1>2, <2>1, UnfencedFields DEF Row, Unfences, KeepsClaim
<1>3. CASE cand.status \notin Executing
  BY <1>1, <1>3 DEF RepairTerminalQueueFailure, Row, Status, Terminal, Pending
<1>4. QED
  BY <1>2, <1>3

LEMMA ClaimCompletionRow ==
  ASSUME TypeInv, NEW p \in Processors, ClaimCompletion(p)
  PROVE  /\ cand.status \in Pending /\ cand'.status = cand.status /\ cand'.kind = cand.kind
         /\ cand.backoff = FALSE /\ cand'.backoff = FALSE
         /\ cand'.count = cand.count + 1 /\ cand.count < CompletionMaxAttempts
         /\ cand'.generation = cand.generation + 1
         /\ claims' = claims + 1
         /\ cand'.token = claims + 1 /\ cand'.claimLease = claims + 1
         /\ KeepsWorker
BY DEF TypeInv, TypeOK, ClaimCompletion, BudgetLeft, Row, KeepsWorker

LEMMA FinalizeTerminalFailureRow ==
  ASSUME TypeInv, NEW p \in Processors, FinalizeTerminalFailure(p)
  PROVE  /\ cand.status = "TERMINAL_FAILURE_PENDING" /\ cand'.status = "FAILED"
         /\ cand'.backoff = FALSE /\ cand'.count = cand.count /\ cand'.kind = cand.kind
         /\ Releases /\ KeepsWorker
<1>1. cand \in Row /\ Released(cand) \in Row
  BY RowUpdates DEF TypeInv, TypeOK
<1>2. QED
  BY <1>1, ReleasedFields DEF FinalizeTerminalFailure, Row, Releases, KeepsWorker

LEMMA FinalizeCompletionRow ==
  ASSUME TypeInv, NEW p \in Processors, FinalizeCompletion(p)
  PROVE  /\ cand.status = "PROCESSING_RESULT" /\ cand'.status = "COMPLETED"
         /\ cand'.backoff = FALSE /\ cand'.count = cand.count
         /\ cand'.result = experiment'
         /\ Releases /\ KeepsWorker
<1>1. cand \in Row /\ Released(cand) \in Row
  BY RowUpdates DEF TypeInv, TypeOK
<1>2. cand' = [Released(cand) EXCEPT !.status = "COMPLETED", !.result = experiment']
  BY DEF FinalizeCompletion
<1>3. PICK row \in Row : row = Released(cand)
  BY <1>1
<1>4. /\ row.count = cand.count /\ row.fence = cand.fence /\ row.lease = cand.lease
      /\ row.token = 0 /\ row.claimLease = 0 /\ row.backoff = FALSE
  BY <1>1, <1>3, ReleasedFields
<1>5. /\ cand'.status = "COMPLETED" /\ cand'.result = experiment' /\ cand'.count = row.count
      /\ cand'.fence = row.fence /\ cand'.lease = row.lease /\ cand'.token = row.token
      /\ cand'.claimLease = row.claimLease /\ cand'.backoff = row.backoff
  BY <1>2, <1>3 DEF Row
<1>6. cand.status = "PROCESSING_RESULT"
  BY DEF FinalizeCompletion
<1>7. QED
  BY <1>4, <1>5, <1>6 DEF Releases, KeepsWorker

LEMMA FailCompletionRow ==
  ASSUME TypeInv, NEW p \in Processors, FailCompletion(p)
  PROVE  /\ HoldsClaim(p)
         /\ \/ /\ cand'.status = "FAILED" /\ cand'.backoff = FALSE
               /\ cand'.kind = "COMPLETION_PROCESSING"
            \/ cand'.status = "PROCESSING_RESULT" /\ cand'.backoff = TRUE
         /\ cand'.count = cand.count
         /\ Releases /\ KeepsWorker
<1>1. cand \in Row /\ Released(cand) \in Row
  BY RowUpdates DEF TypeInv, TypeOK
<1> DEFINE exhausted == proc[p].count >= CompletionMaxAttempts
           status == IF exhausted THEN "FAILED" ELSE "PROCESSING_RESULT"
           backoff == ~ exhausted
           kind == KindAfterFailure(p, exhausted)
<1>2. cand' = [Released(cand) EXCEPT !.status = status, !.backoff = backoff, !.kind = kind]
  BY Zenon DEF FailCompletion
<1>3. \/ status = "FAILED" /\ backoff = FALSE /\ kind = "COMPLETION_PROCESSING"
      \/ status = "PROCESSING_RESULT" /\ backoff = TRUE
  BY DEF TypeInv, TypeOK, Proc, KindAfterFailure
<1>4. /\ cand'.status = status /\ cand'.backoff = backoff /\ cand'.kind = kind
      /\ cand'.count = cand.count
      /\ Releases /\ KeepsWorker
  <2> HIDE DEF exhausted, status, backoff, kind
  <2>1. QED
    BY <1>1, <1>2, ReleasedFields DEF Row, Releases, KeepsWorker
<1>5. QED
  BY <1>3, <1>4 DEF FailCompletion

LEMMA BackoffElapsedRow ==
  ASSUME TypeInv, CompletionBackoffElapsed
  PROVE  /\ cand.backoff = TRUE /\ cand'.backoff = FALSE
         /\ cand'.status = cand.status /\ cand'.kind = cand.kind /\ cand'.result = cand.result
         /\ KeepsClaim /\ KeepsWorker
BY DEF TypeInv, TypeOK, CompletionBackoffElapsed, Row, KeepsClaim, KeepsWorker

LEMMA CancelWriteRow ==
  ASSUME TypeInv, NEW c \in Cancellers, CancelWrite(c)
  PROVE  cand'.status = "CANCELLED"
BY DEF TypeInv, TypeOK, CancelWrite, CancelledRow, Canceller, Row

-----------------------------------------------------------------------------
(* Experiments are sound, whatever fails and whoever cancels.              *)

\* Once an Attempt has succeeded the Candidate has left the states in which
\* deliveries are served, so no later delivery takes the Attempt over.
SoundInv ==
  /\ ExperimentSound
  /\ \A n \in Attempts : attempts[n].status = "COMPLETED" => cand.status \notin Executing

Succeeded(n) == attempts[n].status = "COMPLETED"

LEMMA ClosingKeepsSuccess ==
  ASSUME TypeInv, attempts' = CloseRunningAttempt, NEW n \in Attempts
  PROVE  /\ Succeeded(n) => attempts'[n] = attempts[n]
         /\ Succeeded(n)' => Succeeded(n)
BY DEF TypeInv, TypeOK, CloseRunningAttempt, LatestRunning, RunningAttempts, Attempt, Succeeded

\* What any step does to an Attempt that has succeeded, or is about to.
LEMMA SuccessStep ==
  ASSUME TypeInv, SoundInv, Next, NEW n \in Attempts
  PROVE  /\ Succeeded(n) => attempts'[n] = attempts[n]
         /\ Succeeded(n)' => Succeeded(n) \/ cand'.status \notin Executing
<1> USE DEF Succeeded
<1>1. CASE UNCHANGED attempts
  BY <1>1
<1>2. ASSUME NEW d \in Deliveries, TakeAttempt(d), worker[d].pc = "fetched"
      PROVE  /\ Succeeded(n) => attempts'[n] = attempts[n]
             /\ Succeeded(n)' => Succeeded(n)
  <2>1. cand.status \in Executing
    BY <1>2, TakeAttemptRow
  <2>2. QED
    BY <1>2, <2>1 DEF SoundInv, TakeAttempt, TypeInv, TypeOK, Attempt
<1>3. ASSUME NEW d \in Deliveries, PersistWorkerSuccess(d)
      PROVE  /\ Succeeded(n) => attempts'[n] = attempts[n]
             /\ cand'.status \notin Executing
  <2>1. attempts[worker[d].attempt].status = "RUNNING"
    BY <1>3 DEF PersistWorkerSuccess, HoldsFence
  <2>2. Succeeded(n) => attempts'[n] = attempts[n]
    BY <1>3, <2>1 DEF PersistWorkerSuccess, TypeInv, TypeOK
  <2>3. cand'.status \notin Executing
    BY <1>3, PersistWorkerSuccessRow DEF Executing
  <2>4. QED
    BY <2>2, <2>3
<1>4. ASSUME NEW d \in Deliveries, FailWorkerAttempt(d)
      PROVE  /\ Succeeded(n) => attempts'[n] = attempts[n]
             /\ Succeeded(n)' => Succeeded(n)
  <2>1. attempts[worker[d].attempt].status = "RUNNING"
    BY <1>4 DEF FailWorkerAttempt, HoldsFence
  <2>2. QED
    BY <1>4, <2>1 DEF FailWorkerAttempt, TypeInv, TypeOK, Attempt
<1>5. CASE RecoverAbandonedAttempt \/ RepairTerminalQueueFailure
  BY <1>5, ClosingKeepsSuccess DEF RecoverAbandonedAttempt, RepairTerminalQueueFailure
<1>6. QED
  BY <1>1, <1>2, <1>3, <1>4, <1>5, StepKinds
     DEF ExecutionWrite, CompletionWrite, CancellationWrite, CompletionMove, Elsewhere

\* No step returns the Candidate to execution.
LEMMA NeverReopened ==
  ASSUME TypeInv, Next, cand.status \notin Executing
  PROVE  cand'.status \notin Executing
<1> USE DEF Executing
<1>1. CASE ExecutionWrite
  BY <1>1, TakeAttemptRow, PersistWorkerSuccessRow, FailWorkerAttemptRow, RecoverRow, RepairRow
     DEF ExecutionWrite
<1>2. CASE CompletionWrite
  BY <1>2, ClaimCompletionRow, FinalizeTerminalFailureRow, FinalizeCompletionRow,
     FailCompletionRow, BackoffElapsedRow DEF CompletionWrite
<1>3. CASE CancellationWrite
  BY <1>3, CancelWriteRow DEF CancellationWrite
<1>4. CASE CompletionMove \/ Elsewhere
  BY <1>4 DEF CompletionMove, Elsewhere
<1>5. QED
  BY <1>1, <1>2, <1>3, <1>4, StepKinds

\* The Candidate becomes COMPLETED, and the Experiment appears, in one step.
LEMMA ResultStep ==
  ASSUME TypeInv, SoundInv, Next
  PROVE  /\ cand'.status = "COMPLETED" => experiment' # 0 /\ cand'.result = experiment'
         /\ experiment' # experiment => experiment' \in Attempts /\ Succeeded(experiment')
<1>1. CASE ExecutionWrite
  <2>1. experiment' = experiment
    BY <1>1 DEF ExecutionWrite
  <2>2. cand'.status = "COMPLETED" => cand' = cand
    BY <1>1, TakeAttemptRow, PersistWorkerSuccessRow, FailWorkerAttemptRow, RecoverRow, RepairRow
       DEF ExecutionWrite
  <2>3. QED
    BY <2>1, <2>2 DEF SoundInv, ExperimentSound
<1>2. ASSUME NEW p \in Processors, FinalizeCompletion(p)
      PROVE  /\ experiment' # 0 /\ cand'.result = experiment'
             /\ experiment' # experiment => experiment' \in Attempts /\ Succeeded(experiment')
  <2>1. cand'.result = experiment'
    BY <1>2, FinalizeCompletionRow
  <2>2. QED
    BY <1>2, <2>1 DEF FinalizeCompletion, LatestCompleted, Succeeded, Attempts
<1>3. ASSUME CompletionWrite, \A p \in Processors : ~ FinalizeCompletion(p)
      PROVE  /\ experiment' = experiment
             /\ cand'.status = "COMPLETED" => cand'.result = cand.result /\ cand.status = "COMPLETED"
  <2>1. ASSUME NEW p \in Processors, ClaimCompletion(p)
        PROVE  experiment' = experiment /\ cand'.status # "COMPLETED"
    BY <2>1, ClaimCompletionRow DEF ClaimCompletion, Pending
  <2>2. ASSUME NEW p \in Processors, FinalizeTerminalFailure(p)
        PROVE  experiment' = experiment /\ cand'.status # "COMPLETED"
    BY <2>2, FinalizeTerminalFailureRow DEF FinalizeTerminalFailure
  <2>3. ASSUME NEW p \in Processors, FailCompletion(p)
        PROVE  experiment' = experiment /\ cand'.status # "COMPLETED"
    BY <2>3, FailCompletionRow DEF FailCompletion
  <2>4. CASE CompletionBackoffElapsed
    BY <2>4, BackoffElapsedRow DEF CompletionBackoffElapsed, complVars
  <2>5. QED
    BY <1>3, <2>1, <2>2, <2>3, <2>4 DEF CompletionWrite
<1>4. CASE CancellationWrite
  BY <1>4, CancelWriteRow DEF CancellationWrite
<1>5. CASE CompletionMove \/ Elsewhere
  BY <1>5 DEF CompletionMove, Elsewhere, SoundInv, ExperimentSound
<1>6. QED
  BY <1>1, <1>2, <1>3, <1>4, <1>5, StepKinds DEF SoundInv, ExperimentSound

LEMMA SoundInvariant == Spec => []SoundInv
<1>1. Init => SoundInv
  BY DEF Init, SoundInv, ExperimentSound, QueuedRow, NoAttempt
<1>2. TypeInv /\ SoundInv /\ [Next]_vars => SoundInv'
  <2>1. ASSUME TypeInv, SoundInv, TypeInv', Next
        PROVE  SoundInv'
    <3>1. \A n \in Attempts : attempts'[n].status = "COMPLETED" => cand'.status \notin Executing
      BY <2>1, SuccessStep, NeverReopened DEF SoundInv, Succeeded
    <3>2. experiment' # 0 => attempts'[experiment'].status = "COMPLETED"
      <4>1. ASSUME experiment' # 0
            PROVE  experiment' \in Attempts /\ Succeeded(experiment')
        <5>1. CASE experiment' = experiment
          <6>1. experiment \in Attempts
            BY <4>1, <5>1, <2>1 DEF TypeInv, TypeOK, Attempts
          <6>2. QED
            BY <4>1, <5>1, <6>1, <2>1 DEF SoundInv, ExperimentSound, Succeeded
        <5>2. CASE experiment' # experiment
          BY <5>2, <2>1, ResultStep
        <5>3. QED
          BY <5>1, <5>2
      <4>2. QED
        BY <2>1, <4>1, SuccessStep DEF Succeeded
    <3>3. cand'.status = "COMPLETED" => experiment' # 0 /\ cand'.result = experiment'
      BY <2>1, ResultStep
    <3>4. QED
      BY <3>1, <3>2, <3>3 DEF SoundInv, ExperimentSound
  <2>2. ASSUME SoundInv, UNCHANGED vars
        PROVE  SoundInv'
    BY <2>2 DEF SoundInv, ExperimentSound, vars, execVars, complVars
  <2>3. QED
    BY <2>1, <2>2, NextTypeInv
<1>3. QED
  BY <1>1, <1>2, TypeInvariant, PTL DEF Spec

\* An Experiment is always built from an Attempt that a worker completed, and
\* a COMPLETED Candidate refers to it, under every fault and cancellation.
THEOREM ExperimentsAreSound == Spec => []ExperimentSound
<1>1. SoundInv => ExperimentSound
  BY DEF SoundInv
<1>2. QED
  BY <1>1, SoundInvariant, PTL

\* No redelivery, recovery or cancellation changes an Attempt that succeeded.
THEOREM SuccessIsFinal == Spec => CompletedAttemptIsFinal
<1>1. TypeInv /\ SoundInv /\ [Next]_vars =>
        [\A n \in Attempts : attempts[n].status = "COMPLETED" => attempts'[n] = attempts[n]]_vars
  BY SuccessStep DEF Succeeded
<1>2. QED
  BY <1>1, TypeInvariant, SoundInvariant, PTL DEF Spec, CompletedAttemptIsFinal

-----------------------------------------------------------------------------
(* A cancelled Candidate comes back only through a claim that was open.    *)

LEMMA RevivalStep ==
  ASSUME TypeInv, Next, cand.status = "CANCELLED", cand'.status # "CANCELLED"
  PROVE  \E p \in Processors : proc[p].pc = "failing" /\ HoldsClaim(p)
<1>1. ~ ExecutionWrite
  BY TakeAttemptRow, PersistWorkerSuccessRow, FailWorkerAttemptRow, RecoverRow, RepairRow
     DEF ExecutionWrite, Executing
<1>2. ASSUME CompletionWrite
      PROVE  \E p \in Processors : FailCompletion(p)
  BY <1>2, ClaimCompletionRow, FinalizeTerminalFailureRow, FinalizeCompletionRow,
     BackoffElapsedRow DEF CompletionWrite, Pending
<1>3. ~ CancellationWrite
  BY CancelWriteRow DEF CancellationWrite
<1>4. ~ CompletionMove /\ ~ Elsewhere
  BY DEF CompletionMove, Elsewhere
<1>5. QED
  BY <1>1, <1>2, <1>3, <1>4, StepKinds, FailCompletionRow DEF FailCompletion

\* No worker, recovery, repair, dispatcher or successful completion revives a
\* CANCELLED Candidate: only failCompletion does, under a claim still open.
THEOREM RevivalNeedsOpenClaim == Spec => OnlyOpenClaimRevives
<1>1. TypeInv /\ [Next]_vars =>
        [cand.status = "CANCELLED" /\ cand'.status # "CANCELLED" =>
           \E p \in Processors : proc[p].pc = "failing" /\ HoldsClaim(p)]_vars
  BY RevivalStep
<1>2. QED
  BY <1>1, TypeInvariant, PTL DEF Spec, OnlyOpenClaimRevives

-----------------------------------------------------------------------------
(* The outbox covers the queue.                                            *)

\* OutboxCoversJob is inductive with two facts about the calls in flight: a
\* dispatcher that is about to mark the row has enqueued the job, and only a
\* cancellation whose write is done, which leaves no QUEUED row, removes it.
CoverInv ==
  cand.status = "QUEUED" =>
    /\ dispatch = "DISPATCHED" => job.state # "absent"
    /\ \A x \in Dispatchers : dispatcher[x] = "mark" => job.state # "absent"
    /\ \A c \in Cancellers : canceller[c].pc \notin {"dispatch", "remove"}

\* No step returns a Candidate to QUEUED.
LEMMA QueuedComesFirst ==
  ASSUME TypeInv, Next, cand'.status = "QUEUED"
  PROVE  cand.status = "QUEUED"
<1>1. ~ ExecutionWrite
  BY TakeAttemptRow, PersistWorkerSuccessRow, FailWorkerAttemptRow, RecoverRow, RepairRow
     DEF ExecutionWrite
<1>2. CASE CompletionWrite
  BY <1>2, ClaimCompletionRow, FinalizeTerminalFailureRow, FinalizeCompletionRow,
     FailCompletionRow, BackoffElapsedRow DEF CompletionWrite
<1>3. ~ CancellationWrite
  BY CancelWriteRow DEF CancellationWrite
<1>4. CASE CompletionMove \/ Elsewhere
  BY <1>4 DEF CompletionMove, Elsewhere
<1>5. QED
  BY <1>1, <1>2, <1>3, <1>4, StepKinds

LEMMA CoverStep ==
  ASSUME TypeInv, CoverInv, Next, cand.status = "QUEUED", cand'.status = "QUEUED"
  PROVE  CoverInv'
<1> USE DEF CoverInv, TypeInv, TypeOK, Job
<1>1. ASSUME NEW x \in Dispatchers, DispatcherNext(x)
      PROVE  CoverInv'
  <2> USE DEF DispatchStep, AddJob, NoJob, StateAfterFailure, execVars
  <2>1. CASE Enqueue(x) \/ EnqueueError(x)
    BY <2>1 DEF Enqueue, EnqueueError
  <2>2. CASE MarkDispatchDispatched(x) \/ MarkDispatchFailed(x)
    BY <2>2 DEF MarkDispatchDispatched, MarkDispatchFailed
  <2>3. CASE ReadPendingDispatch(x) \/ DispatcherCrash(x)
    BY <2>3 DEF ReadPendingDispatch, DispatcherCrash
  <2>4. QED
    BY <1>1, <2>1, <2>2, <2>3 DEF DispatcherNext
<1>2. CASE QueueNext
  BY <1>2 DEF QueueNext, BackoffElapsed, Stall, outVars
<1>3. ASSUME NEW d \in Deliveries, WorkerNext(d)
      PROVE  CoverInv'
  <2> USE DEF outVars
  <2>1. UNCHANGED <<dispatch, dispatcher, canceller>>
    BY <1>3 DEF WorkerNext, WorkerStep, Fetch, ClaimWorkerAttempt, IgnoreDelivery,
       PersistWorkerSuccess, PersistError, FailWorkerAttempt, FailWorkerAttemptError,
       AckCompleted, AckFailed, SimulationError, ClaimError, WorkerCrash, LeaseExpires
  <2>2. job.state # "absent" => job'.state # "absent"
    BY <1>3 DEF WorkerNext, WorkerStep, Fetch, ClaimWorkerAttempt, IgnoreDelivery,
       PersistWorkerSuccess, PersistError, FailWorkerAttempt, FailWorkerAttemptError,
       AckCompleted, AckFailed, SimulationError, ClaimError, WorkerCrash, LeaseExpires
  <2>3. QED
    BY <2>1, <2>2
<1>4. CASE RecoveryNext
  BY <1>4 DEF RecoveryNext, RecoverAbandonedAttempt, RepairTerminalQueueFailure, outVars, Terminal
<1>5. CASE CompletionNext
  <2>1. UNCHANGED <<job, dispatch, dispatcher, canceller>>
    BY <1>5 DEF CompletionNext, ProcessorStep, ClaimCompletion, ReadClaimed,
       FinalizeTerminalFailure, FinalizeCompletion, CompletionError, FailCompletion,
       FailCompletionFenceLost, ProcessorCrash, ClaimLeaseExpires, CompletionBackoffElapsed,
       execVars, outVars
  <2>2. QED
    BY <2>1
<1>6. ASSUME NEW c \in Cancellers, CancellerNext(c)
      PROVE  CoverInv'
  <2>1. CASE CancelRead(c)
    BY <2>1 DEF CancelRead, execVars, outVars
  <2>2. ~ CancelWrite(c)
    BY CancelWriteRow
  <2>3. ~ CancelDispatch(c) /\ ~ RemovePendingJob(c)
    BY DEF CancelDispatch, RemovePendingJob
  <2>4. QED
    BY <1>6, <2>1, <2>2, <2>3 DEF CancellerNext
<1>7. QED
  BY <1>1, <1>2, <1>3, <1>4, <1>5, <1>6 DEF Next

\* A crash between the commit of a submission, queue.add and the mark of the
\* outbox row loses no Candidate: a QUEUED one has a job or a pending row.
THEOREM OutboxCovers == Spec => []OutboxCoversJob
<1>1. Init => CoverInv
  BY DEF Init, CoverInv, QueuedRow, IdleCanceller
<1>2. TypeInv /\ CoverInv /\ [Next]_vars => CoverInv'
  <2>1. ASSUME TypeInv, CoverInv, Next
        PROVE  CoverInv'
    <3>1. CASE cand'.status = "QUEUED"
      BY <2>1, <3>1, QueuedComesFirst, CoverStep
    <3>2. CASE cand'.status # "QUEUED"
      BY <3>2 DEF CoverInv
    <3>3. QED
      BY <3>1, <3>2
  <2>2. ASSUME CoverInv, UNCHANGED vars
        PROVE  CoverInv'
    BY <2>2 DEF CoverInv, vars, execVars, complVars, outVars
  <2>3. QED
    BY <2>1, <2>2
<1>3. CoverInv => OutboxCoversJob
  BY DEF CoverInv, OutboxCoversJob
<1>4. QED
  BY <1>1, <1>2, <1>3, TypeInvariant, PTL DEF Spec

-----------------------------------------------------------------------------
(* Audit data is never ranked when cancellations of one Candidate do not   *)
(* overlap.  Two that do can put an open claim back on the row after a     *)
(* cancelled Attempt has succeeded for the audit: the one that read the    *)
(* row BACKTESTING writes first and lets that Attempt finish, the one that *)
(* read it with the claim writes last, and failCompletion then revives it. *)

OneAtATime == \A c1, c2 \in Cancellers : c1 = c2

Audited(n) == attempts[n].status = "COMPLETED" /\ attempts[n].audit

\* A row that a worker may still write carries no claim.
FencedRow(row) ==
  /\ row.status \in Executing => row.claimLease = 0
  /\ row.fence # 0 => row.claimLease = 0 /\ row.status \in {"BACKTESTING", "CANCELLED"}

\* Once an Attempt has succeeded for the audit nothing moves any more: the row
\* is CANCELLED, without a claim, and no cancellation holds another copy of it.
AuditInv ==
  /\ AuditNeverRanked
  /\ FencedRow(cand)
  /\ \A c \in Cancellers : canceller[c].pc = "write" =>
       cand.status # "CANCELLED" /\ FencedRow(canceller[c].row)
  /\ (\E n \in Attempts : Audited(n)) => cand.status = "CANCELLED" /\ cand.claimLease = 0

LEMMA CancelledRowFields ==
  ASSUME NEW row \in Row
  PROVE  /\ CancelledRow(row).status = "CANCELLED"
         /\ CancelledRow(row).claimLease = row.claimLease
         /\ CancelledRow(row).fence = IF row.status = "BACKTESTING" THEN row.fence ELSE 0
BY DEF CancelledRow, Row

LEMMA CancellerStep ==
  ASSUME Next
  PROVE  UNCHANGED canceller \/ \E c \in Cancellers : CancellerNext(c)
<1>1. ASSUME NEW x \in Dispatchers, DispatcherNext(x)
      PROVE  UNCHANGED canceller
  BY <1>1 DEF DispatcherNext, ReadPendingDispatch, Enqueue, EnqueueError,
     MarkDispatchDispatched, MarkDispatchFailed, DispatcherCrash
<1>2. CASE QueueNext
  BY <1>2 DEF QueueNext, BackoffElapsed, Stall
<1>3. ASSUME NEW d \in Deliveries, WorkerNext(d)
      PROVE  UNCHANGED canceller
  BY <1>3 DEF WorkerNext, WorkerStep, Fetch, ClaimWorkerAttempt, IgnoreDelivery,
     PersistWorkerSuccess, PersistError, FailWorkerAttempt, FailWorkerAttemptError,
     AckCompleted, AckFailed, SimulationError, ClaimError, WorkerCrash, LeaseExpires
<1>4. CASE RecoveryNext
  BY <1>4 DEF RecoveryNext, RecoverAbandonedAttempt, RepairTerminalQueueFailure
<1>5. CASE CompletionNext
  BY <1>5 DEF CompletionNext, ProcessorStep, ClaimCompletion, ReadClaimed,
     FinalizeTerminalFailure, FinalizeCompletion, CompletionError, FailCompletion,
     FailCompletionFenceLost, ProcessorCrash, ClaimLeaseExpires, CompletionBackoffElapsed
<1>6. QED
  BY <1>1, <1>2, <1>3, <1>4, <1>5 DEF Next

\* The row stays fenced, by whichever write.
LEMMA FencedStep ==
  ASSUME TypeInv, AuditInv, Next
  PROVE  FencedRow(cand)'
<1> USE DEF FencedRow, Executing, Pending, AuditInv
<1>1. CASE ExecutionWrite
  BY <1>1, TakeAttemptRow, PersistWorkerSuccessRow, FailWorkerAttemptRow, RecoverRow, RepairRow
     DEF ExecutionWrite, KeepsClaim, Unfences
<1>2. CASE CompletionWrite
  <2>1. ASSUME NEW p \in Processors, ClaimCompletion(p)
        PROVE  FencedRow(cand)'
    BY <2>1, ClaimCompletionRow DEF KeepsWorker
  <2>2. ASSUME NEW p \in Processors, FinalizeTerminalFailure(p) \/ FinalizeCompletion(p)
        PROVE  FencedRow(cand)'
    BY <2>2, FinalizeTerminalFailureRow, FinalizeCompletionRow DEF KeepsWorker
  <2>3. ASSUME NEW p \in Processors, FailCompletion(p)
        PROVE  FencedRow(cand)'
    <3>1. cand.claimLease # 0
      BY <2>3, FailCompletionRow DEF HoldsClaim
    <3>2. cand'.fence = 0 /\ cand'.status \in {"FAILED", "PROCESSING_RESULT"}
      BY <2>3, <3>1, FailCompletionRow DEF KeepsWorker
    <3>3. QED
      BY <3>2
  <2>4. CASE CompletionBackoffElapsed
    BY <2>4, BackoffElapsedRow DEF KeepsClaim, KeepsWorker
  <2>5. QED
    BY <1>2, <2>1, <2>2, <2>3, <2>4 DEF CompletionWrite
<1>3. CASE CancellationWrite
  <2>1. PICK c \in Cancellers : CancelWrite(c)
    BY <1>3 DEF CancellationWrite
  <2>2. canceller[c].row \in Row /\ canceller[c].pc = "write"
    BY <2>1 DEF TypeInv, TypeOK, Canceller, CancelWrite
  <2>3. cand' = CancelledRow(canceller[c].row)
    BY <2>1 DEF CancelWrite
  <2>4. QED
    BY <2>2, <2>3, CancelledRowFields
<1>4. CASE CompletionMove \/ Elsewhere
  BY <1>4 DEF CompletionMove, Elsewhere
<1>5. QED
  BY <1>1, <1>2, <1>3, <1>4, StepKinds

\* A row becomes CANCELLED by the write of a cancellation only.
LEMMA OnlyWritesCancel ==
  ASSUME TypeInv, Next, cand.status # "CANCELLED", cand'.status = "CANCELLED"
  PROVE  \E c \in Cancellers : CancelWrite(c)
<1>1. ~ ExecutionWrite
  BY TakeAttemptRow, PersistWorkerSuccessRow, FailWorkerAttemptRow, RecoverRow, RepairRow
     DEF ExecutionWrite
<1>2. ~ CompletionWrite
  BY ClaimCompletionRow, FinalizeTerminalFailureRow, FinalizeCompletionRow,
     FailCompletionRow, BackoffElapsedRow DEF CompletionWrite
<1>3. ~ CompletionMove /\ ~ Elsewhere
  BY DEF CompletionMove, Elsewhere
<1>4. QED
  BY <1>1, <1>2, <1>3, StepKinds DEF CancellationWrite

LEMMA CopyStep ==
  ASSUME OneAtATime, TypeInv, AuditInv, Next, NEW c \in Cancellers, canceller'[c].pc = "write"
  PROVE  cand'.status # "CANCELLED" /\ FencedRow(canceller'[c].row)
<1>1. CASE UNCHANGED canceller
  <2>1. ~ \E b \in Cancellers : CancelWrite(b)
    <3>1. ASSUME NEW b \in Cancellers, CancelWrite(b)
          PROVE  FALSE
      BY <1>1, <3>1 DEF CancelWrite, TypeInv, TypeOK, IdleCanceller
    <3>2. QED
      BY <3>1
  <2>2. QED
    BY <1>1, <2>1, OnlyWritesCancel DEF AuditInv
<1>2. ASSUME NEW b \in Cancellers, CancellerNext(b)
      PROVE  cand'.status # "CANCELLED" /\ FencedRow(canceller'[c].row)
  <2>1. b = c
    BY OneAtATime DEF OneAtATime
  <2>2. CASE CancelRead(c)
    BY <2>2 DEF CancelRead, AuditInv, TypeInv, TypeOK, Terminal
  <2>3. CASE CancelWrite(c) \/ CancelDispatch(c) \/ RemovePendingJob(c)
    BY <2>3 DEF CancelWrite, CancelDispatch, RemovePendingJob, TypeInv, TypeOK, IdleCanceller
  <2>4. QED
    BY <1>2, <2>1, <2>2, <2>3 DEF CancellerNext
<1>3. QED
  BY <1>1, <1>2, CancellerStep

\* A success for the audit is written over a fenced row that is CANCELLED.
LEMMA AuditedStep ==
  ASSUME TypeInv, AuditInv, SoundInv, Next, NEW n \in Attempts, Audited(n)', ~ Audited(n)
  PROVE  cand'.status = "CANCELLED" /\ cand'.claimLease = 0
<1> USE DEF Audited
<1>1. \A d \in Deliveries : ~ (worker[d].pc = "fetched" /\ TakeAttempt(d))
  BY DEF TakeAttempt, TypeInv, TypeOK, Attempt
<1>2. \A d \in Deliveries : ~ FailWorkerAttempt(d)
  BY DEF FailWorkerAttempt, TypeInv, TypeOK, Attempt
<1>3. ~ RecoverAbandonedAttempt /\ ~ RepairTerminalQueueFailure
  BY ClosingKeepsSuccess DEF RecoverAbandonedAttempt, RepairTerminalQueueFailure, Succeeded
<1>4. ASSUME NEW d \in Deliveries, PersistWorkerSuccess(d)
      PROVE  cand'.status = "CANCELLED" /\ cand'.claimLease = 0
  <2>1. cand.status = "CANCELLED"
    BY <1>4 DEF PersistWorkerSuccess, TypeInv, TypeOK, Attempt
  <2>2. QED
    BY <1>4, <2>1, PersistWorkerSuccessRow DEF AuditInv, FencedRow, KeepsClaim
<1>5. attempts' # attempts
  OBVIOUS
<1>6. QED
  BY <1>1, <1>2, <1>3, <1>4, <1>5, StepKinds
     DEF ExecutionWrite, CompletionWrite, CancellationWrite, CompletionMove, Elsewhere

LEMMA AuditIsTheEnd ==
  ASSUME TypeInv, AuditInv, Next, cand.status = "CANCELLED", cand.claimLease = 0
  PROVE  cand'.status = "CANCELLED" /\ cand'.claimLease = 0
<1>1. cand'.status = "CANCELLED"
  BY RevivalStep DEF HoldsClaim
<1>2. ~ CancellationWrite
  BY DEF CancellationWrite, CancelWrite, AuditInv
<1>3. CASE ExecutionWrite
  BY <1>1, <1>3, TakeAttemptRow, PersistWorkerSuccessRow, FailWorkerAttemptRow, RecoverRow, RepairRow
     DEF ExecutionWrite, KeepsClaim, Executing
<1>4. CASE CompletionWrite
  BY <1>1, <1>4, ClaimCompletionRow, FinalizeTerminalFailureRow, FinalizeCompletionRow,
     FailCompletionRow, BackoffElapsedRow DEF CompletionWrite, KeepsClaim, Releases, Pending
<1>5. CASE CompletionMove \/ Elsewhere
  BY <1>5 DEF CompletionMove, Elsewhere
<1>6. QED
  BY <1>1, <1>2, <1>3, <1>4, <1>5, StepKinds

LEMMA RankedStep ==
  ASSUME TypeInv, AuditInv, SoundInv, Next
  PROVE  AuditNeverRanked'
<1>1. CASE experiment' = experiment
  <2>1. ASSUME experiment # 0
        PROVE  ~ attempts'[experiment].audit
    <3>1. experiment \in Attempts /\ Succeeded(experiment)
      BY <2>1 DEF TypeInv, TypeOK, Attempts, SoundInv, ExperimentSound, Succeeded
    <3>2. attempts'[experiment] = attempts[experiment]
      BY <3>1, SuccessStep
    <3>3. QED
      BY <2>1, <3>2 DEF AuditInv, AuditNeverRanked
  <2>2. QED
    BY <1>1, <2>1 DEF AuditNeverRanked
<1>2. CASE experiment' # experiment
  <2>1. PICK p \in Processors : FinalizeCompletion(p)
    BY <1>2, StepKinds DEF ExecutionWrite, CompletionWrite, CancellationWrite, CompletionMove,
       Elsewhere, ClaimCompletion, FinalizeTerminalFailure, FailCompletion,
       CompletionBackoffElapsed, complVars
  <2>2. attempts' = attempts /\ cand.status = "PROCESSING_RESULT"
    BY <2>1 DEF FinalizeCompletion, execVars
  <2>3. experiment' \in Attempts /\ attempts[experiment'].status = "COMPLETED"
    BY <1>2, <2>1 DEF FinalizeCompletion, LatestCompleted
  <2>4. QED
    BY <2>2, <2>3 DEF AuditInv, Audited, AuditNeverRanked
<1>3. QED
  BY <1>1, <1>2

\* While cancellations of a Candidate do not overlap, no Experiment is built
\* from an Attempt that finished after its Candidate was cancelled.
THEOREM AuditsAreNeverRanked ==
  ASSUME OneAtATime
  PROVE  Spec => []AuditNeverRanked
<1>1. Init => AuditInv
  BY DEF Init, AuditInv, AuditNeverRanked, FencedRow, Audited, QueuedRow, NoAttempt, IdleCanceller
<1>2. TypeInv /\ SoundInv /\ AuditInv /\ [Next]_vars => AuditInv'
  <2>1. ASSUME TypeInv, SoundInv, AuditInv, Next
        PROVE  AuditInv'
    <3>1. ASSUME NEW n \in Attempts, Audited(n)'
          PROVE  cand'.status = "CANCELLED" /\ cand'.claimLease = 0
      <4>1. CASE Audited(n)
        BY <2>1, <4>1, AuditIsTheEnd DEF AuditInv
      <4>2. CASE ~ Audited(n)
        BY <2>1, <3>1, <4>2, AuditedStep
      <4>3. QED
        BY <4>1, <4>2
    <3>2. QED
      BY <2>1, <3>1, FencedStep, CopyStep, RankedStep DEF AuditInv
  <2>2. ASSUME AuditInv, UNCHANGED vars
        PROVE  AuditInv'
    BY <2>2 DEF AuditInv, AuditNeverRanked, FencedRow, Audited, vars, execVars, complVars
  <2>3. QED
    BY <2>1, <2>2
<1>3. AuditInv => AuditNeverRanked
  BY DEF AuditInv
<1>4. QED
  BY <1>1, <1>2, <1>3, TypeInvariant, SoundInvariant, PTL DEF Spec

-----------------------------------------------------------------------------
(* The completion budget.  A cancellation may put an old count back on the *)
(* row, but a claim that is made afterwards needs a row that was revived,  *)
(* and what revives it holds the newest claim, whose number is the count.  *)

Holding(p) == proc[p].pc # "idle" /\ proc[p].token \notin expiredClaims
Numbered(row) == row.token = row.claimLease /\ (row.token # 0 => row.count = row.token)

\* Rows and their copies carry the count of the claim they name; tokens are
\* given out once, and only the newest may still be held.  A row that is not
\* at an end counts all claims and names the one that is held.
ProcsNumbered ==
  /\ \A p \in Processors : proc[p].pc # "idle" => proc[p].token \in 1 .. claims
  /\ \A p, q \in Processors :
       proc[p].pc # "idle" /\ proc[q].pc # "idle" /\ proc[p].token = proc[q].token => p = q
  /\ \A p \in Processors : Holding(p) => proc[p].token = claims
RowCounts ==
  cand.status \notin Terminal =>
    cand.count = claims /\ \A p \in Processors : Holding(p) => cand.claimLease = proc[p].token
CopiesNumbered == \A c \in Cancellers : canceller[c].pc = "write" => Numbered(canceller[c].row)
CountInv == Numbered(cand) /\ CopiesNumbered /\ ProcsNumbered /\ RowCounts /\ ClaimsWithinBudget

LEMMA InitCount == Init => CountInv
BY BudgetsArePositive DEF Init, CountInv, Numbered, CopiesNumbered, ProcsNumbered, RowCounts,
   Holding, QueuedRow, IdleProc, IdleCanceller, ClaimsWithinBudget

LEMMA CopiesStep ==
  ASSUME TypeInv, CountInv, Next
  PROVE  CopiesNumbered'
<1>1. CASE UNCHANGED canceller BY <1>1 DEF CountInv, CopiesNumbered, Numbered
<1>2. ASSUME NEW c \in Cancellers, CancellerNext(c) PROVE CopiesNumbered'
  <2>1. \/ canceller' = [canceller EXCEPT ![c] = [pc |-> "write", row |-> cand]]
        \/ \E v : canceller' = [canceller EXCEPT ![c] = v] /\ v.pc # "write"
    BY <1>2 DEF CancellerNext, CancelRead, CancelWrite, CancelDispatch, RemovePendingJob, IdleCanceller
  <2>2. canceller \in [Cancellers -> Canceller] BY DEF TypeInv, TypeOK
  <2> QED BY <2>1, <2>2 DEF CountInv, CopiesNumbered, Numbered
<1> QED BY <1>1, <1>2, CancellerStep

\* A write that leaves the claims alone, and revives nothing.
LEMMA ClaimsAlone ==
  ASSUME CountInv, UNCHANGED <<proc, claims, expiredClaims>>, KeepsClaim,
         cand'.status \notin Terminal => cand.status \notin Terminal
  PROVE  Numbered(cand)' /\ ProcsNumbered' /\ RowCounts' /\ ClaimsWithinBudget'
BY DEF CountInv, Numbered, ProcsNumbered, RowCounts, Holding, ClaimsWithinBudget, KeepsClaim

\* A processor that goes idle, or to another step, with the row as it is.
LEMMA MoveCounts ==
  ASSUME TypeInv, CountInv, CompletionMove
  PROVE  Numbered(cand)' /\ ProcsNumbered' /\ RowCounts' /\ ClaimsWithinBudget'
<1>1. proc \in [Processors -> Proc] BY DEF TypeInv, TypeOK
<1>2. UNCHANGED <<cand, claims>> BY DEF CompletionMove
<1>3. /\ expiredClaims \subseteq expiredClaims'
      /\ \A p \in Processors : proc'[p].pc # "idle" => proc[p].pc # "idle" /\ proc'[p].token = proc[p].token
  <2>1. ASSUME NEW p \in Processors,
               ReadClaimed(p) \/ CompletionError(p) \/ FailCompletionFenceLost(p) \/ ProcessorCrash(p)
        PROVE  /\ expiredClaims' = expiredClaims
               /\ \A q \in Processors : proc'[q].pc # "idle" => proc[q].pc # "idle" /\ proc'[q].token = proc[q].token
    <3>1. \/ proc' = [proc EXCEPT ![p] = IdleProc]
          \/ proc[p].pc # "idle" /\ \E v : proc' = [proc EXCEPT ![p] = v] /\ v.token = proc[p].token
      BY <1>1, <2>1 DEF ReadClaimed, CompletionError, FailCompletionFenceLost, ProcessorCrash, Proc
    <3>2. expiredClaims' = expiredClaims
      BY <2>1 DEF ReadClaimed, CompletionError, FailCompletionFenceLost, ProcessorCrash
    <3>3. IdleProc.pc = "idle" BY DEF IdleProc
    <3> QED BY <1>1, <3>1, <3>2, <3>3
  <2>2. ASSUME NEW k \in Claims, ClaimLeaseExpires(k)
        PROVE  expiredClaims \subseteq expiredClaims' /\ proc' = proc
    BY <2>2 DEF ClaimLeaseExpires
  <2> QED BY <2>1, <2>2 DEF CompletionMove
<1>4. \A p \in Processors : Holding(p)' => Holding(p) /\ proc'[p].token = proc[p].token
  BY <1>3 DEF Holding
<1>5. Numbered(cand)' /\ ClaimsWithinBudget' BY <1>2 DEF CountInv, Numbered, ClaimsWithinBudget
<1>6. ProcsNumbered'
  <2>1. \A p \in Processors : proc'[p].pc # "idle" => proc'[p].token \in 1 .. claims'
    BY <1>2, <1>3 DEF CountInv, ProcsNumbered
  <2>2. \A p \in Processors : Holding(p)' => proc'[p].token = claims'
    BY <1>2, <1>4 DEF CountInv, ProcsNumbered
  <2>3. \A p, q \in Processors :
          proc'[p].pc # "idle" /\ proc'[q].pc # "idle" /\ proc'[p].token = proc'[q].token => p = q
    BY <1>3 DEF CountInv, ProcsNumbered
  <2> QED BY <2>1, <2>2, <2>3 DEF ProcsNumbered
<1>7. RowCounts' BY <1>2, <1>4 DEF CountInv, RowCounts
<1> QED BY <1>5, <1>6, <1>7

\* What closes the claim it holds leaves none held, and a row that counts all.
LEMMA ClosingCounts ==
  ASSUME TypeInv, CountInv, NEW p \in Processors, proc[p].pc # "idle", HoldsClaim(p),
         proc' = [proc EXCEPT ![p] = IdleProc], UNCHANGED <<claims, expiredClaims>>,
         cand'.count = cand.count, Releases
  PROVE  Numbered(cand)' /\ ProcsNumbered' /\ RowCounts' /\ ClaimsWithinBudget'
<1>1. proc \in [Processors -> Proc] BY DEF TypeInv, TypeOK
<1>2. proc[p].token = claims /\ cand.count = claims
  BY DEF CountInv, ProcsNumbered, Holding, HoldsClaim, Numbered
<1>3. \A q \in Processors : proc'[q].pc # "idle" => q # p /\ proc'[q] = proc[q]
  BY <1>1 DEF IdleProc
<1>4. \A q \in Processors : ~ Holding(q)'
  BY <1>2, <1>3 DEF CountInv, ProcsNumbered, Holding
<1>5. ProcsNumbered' BY <1>3, <1>4 DEF CountInv, ProcsNumbered
<1> QED BY <1>2, <1>4, <1>5 DEF CountInv, RowCounts, Numbered, Releases, ClaimsWithinBudget

\* A claim is made when none is held.
LEMMA ClaimingCounts ==
  ASSUME TypeInv, CountInv, NEW p \in Processors, ClaimCompletion(p)
  PROVE  Numbered(cand)' /\ ProcsNumbered' /\ RowCounts' /\ ClaimsWithinBudget'
<1>1. proc \in [Processors -> Proc] /\ claims \in Nat
  BY BoundsAreNatural DEF TypeInv, TypeOK
<1>2. /\ cand.status \in Pending /\ cand'.count = cand.count + 1 /\ cand.count < CompletionMaxAttempts
      /\ claims' = claims + 1 /\ cand'.token = claims + 1 /\ cand'.claimLease = claims + 1
  BY ClaimCompletionRow
<1>3. cand.count = claims BY <1>2 DEF CountInv, RowCounts, Pending, Terminal
<1>4. \A q \in Processors : ~ Holding(q)
  <2>1. ClaimOpen BY DEF ClaimCompletion
  <2>2. \A q \in Processors : Holding(q) => proc[q].token \in 1 .. claims /\ cand.claimLease = proc[q].token
    BY <1>2 DEF CountInv, RowCounts, ProcsNumbered, Pending, Terminal, Holding
  <2> QED BY <1>1, <2>1, <2>2 DEF ClaimOpen, Holding
<1>5. /\ proc' = [proc EXCEPT ![p] = [IdleProc EXCEPT !.pc = "claimed", !.token = claims + 1]]
      /\ expiredClaims' = expiredClaims /\ proc[p].pc = "idle"
  BY DEF ClaimCompletion
<1>6. /\ proc'[p].token = claims + 1
      /\ \A q \in Processors : q # p => proc'[q] = proc[q]
  BY <1>1, <1>5 DEF IdleProc
<1>7. \A q \in Processors : Holding(q)' => q = p BY <1>4, <1>5, <1>6 DEF Holding
<1>8. ProcsNumbered'
  <2>1. \A q \in Processors : proc'[q].pc # "idle" => proc'[q].token \in 1 .. claims'
    BY <1>1, <1>2, <1>6 DEF CountInv, ProcsNumbered
  <2>2. \A q \in Processors : proc[q].pc # "idle" => proc[q].token # claims + 1
    BY <1>1 DEF CountInv, ProcsNumbered
  <2> QED BY <1>2, <1>6, <1>7, <2>1, <2>2 DEF CountInv, ProcsNumbered
<1>9. ClaimsWithinBudget'
  BY <1>1, <1>2, <1>3, BudgetsArePositive DEF ClaimsWithinBudget
<1> QED BY <1>1, <1>2, <1>3, <1>6, <1>7, <1>8, <1>9 DEF RowCounts, Numbered

LEMMA CountStep ==
  ASSUME TypeInv, CountInv, Next
  PROVE  CountInv'
<1> SUFFICES Numbered(cand)' /\ ProcsNumbered' /\ RowCounts' /\ ClaimsWithinBudget'
  BY CopiesStep DEF CountInv
<1>1. CASE ExecutionWrite
  <2>1. /\ KeepsClaim
        /\ cand'.status \notin Terminal => cand.status \notin Terminal
    BY <1>1, TakeAttemptRow, PersistWorkerSuccessRow, FailWorkerAttemptRow, RecoverRow, RepairRow
       DEF ExecutionWrite, Executing, Terminal, KeepsClaim
  <2> QED BY <1>1, <2>1, ClaimsAlone DEF ExecutionWrite
<1>2. CASE CompletionWrite
  <2>1. ASSUME NEW p \in Processors, FinalizeTerminalFailure(p)
        PROVE  Numbered(cand)' /\ ProcsNumbered' /\ RowCounts' /\ ClaimsWithinBudget'
    <3>1. /\ proc[p].pc # "idle" /\ HoldsClaim(p) /\ proc' = [proc EXCEPT ![p] = IdleProc]
          /\ UNCHANGED <<claims, expiredClaims>>
      BY <2>1 DEF FinalizeTerminalFailure
    <3> QED BY <2>1, <3>1, FinalizeTerminalFailureRow, ClosingCounts
  <2>2. ASSUME NEW p \in Processors, FinalizeCompletion(p)
        PROVE  Numbered(cand)' /\ ProcsNumbered' /\ RowCounts' /\ ClaimsWithinBudget'
    <3>1. /\ proc[p].pc # "idle" /\ HoldsClaim(p) /\ proc' = [proc EXCEPT ![p] = IdleProc]
          /\ UNCHANGED <<claims, expiredClaims>>
      BY <2>2 DEF FinalizeCompletion
    <3> QED BY <2>2, <3>1, FinalizeCompletionRow, ClosingCounts
  <2>3. ASSUME NEW p \in Processors, FailCompletion(p)
        PROVE  Numbered(cand)' /\ ProcsNumbered' /\ RowCounts' /\ ClaimsWithinBudget'
    <3>1. /\ proc[p].pc # "idle" /\ HoldsClaim(p) /\ proc' = [proc EXCEPT ![p] = IdleProc]
          /\ UNCHANGED <<claims, expiredClaims>>
      BY <2>3 DEF FailCompletion
    <3> QED BY <2>3, <3>1, FailCompletionRow, ClosingCounts
  <2>4. CASE CompletionBackoffElapsed
    <3>1. UNCHANGED <<proc, claims, expiredClaims>>
      BY <2>4 DEF CompletionBackoffElapsed, complVars
    <3> QED BY <2>4, <3>1, BackoffElapsedRow, ClaimsAlone
  <2> QED BY <1>2, <2>1, <2>2, <2>3, <2>4, ClaimingCounts DEF CompletionWrite
<1>3. CASE CancellationWrite
  <2>1. PICK c \in Cancellers : CancelWrite(c) BY <1>3 DEF CancellationWrite
  <2>2. PICK row \in Row : row = canceller[c].row BY <2>1 DEF TypeInv, TypeOK, Canceller
  <2>3. Numbered(row) BY <2>1, <2>2 DEF CountInv, CopiesNumbered, CancelWrite
  <2>4. cand' = CancelledRow(row) BY <2>1, <2>2 DEF CancelWrite
  <2>5. /\ cand'.token = row.token /\ cand'.claimLease = row.claimLease /\ cand'.count = row.count
        /\ cand'.status = "CANCELLED"
    BY <2>2, <2>4 DEF CancelledRow, Row
  <2>6. UNCHANGED <<proc, claims, expiredClaims>> BY <1>3 DEF CancellationWrite
  <2> QED BY <2>3, <2>5, <2>6
          DEF CountInv, Numbered, ProcsNumbered, RowCounts, Holding, Terminal, ClaimsWithinBudget
<1>4. CASE CompletionMove BY <1>4, MoveCounts
<1>5. CASE Elsewhere
  BY <1>5 DEF Elsewhere, CountInv, Numbered, ProcsNumbered, RowCounts, Holding, ClaimsWithinBudget
<1> QED BY <1>1, <1>2, <1>3, <1>4, <1>5, StepKinds

\* No more than completionMaxAttempts claims are made for one Candidate, for
\* any number of processors, crashes, lease expiries and cancellations, which
\* may overlap and write counts back that are out of date (the budget check of
\* claimCompletion, failCompletion after a cancellation).
THEOREM CompletionBudgetKept == Spec => []ClaimsWithinBudget
<1>1. TypeInv /\ CountInv /\ [Next]_vars => CountInv'
  <2>1. ASSUME CountInv, UNCHANGED vars PROVE CountInv'
    BY <2>1 DEF CountInv, Numbered, CopiesNumbered, ProcsNumbered, RowCounts, Holding,
            ClaimsWithinBudget, vars, execVars, complVars
  <2> QED BY <2>1, CountStep
<1>2. CountInv => ClaimsWithinBudget BY DEF CountInv
<1> QED BY <1>1, <1>2, InitCount, TypeInvariant, PTL DEF Spec

--------------------------------------------------------------------------------
(***************************************************************************)
(* The Candidate that nobody cancels: its outcome is final, its life       *)
(* implements the contract CandidateLifecycle and a failure records what   *)
(* happened, for every budget, every number of processes and, where a      *)
(* theorem names no exception, every set of faults.                        *)
(***************************************************************************)

\* Nobody cancels.  CancelWrite overwrites every column from a stale read,
\* and none of the theorems below survives it.
Uncancelled == Cancellers = {}

\* A fence is held only while BACKTESTING, a claim only while completion is
\* pending; the claims counted on the row are the claims made.
HeldInv ==
  /\ cand.status # "CANCELLED"
  /\ cand.fence # 0 => cand.status = "BACKTESTING"
  /\ cand.claimLease # 0 => cand.status \in Pending
  /\ cand.token = cand.claimLease
  /\ cand.backoff => cand.status = "PROCESSING_RESULT"
  /\ cand.count = claims

LEMMA InitHeld == Init => HeldInv
BY DEF Init, HeldInv, QueuedRow

LEMMA ExecutionHeld ==
  ASSUME TypeInv, HeldInv, ExecutionWrite
  PROVE  /\ HeldInv'
         /\ cand.status \in Terminal => cand' = cand
         /\ cand.claimLease # 0 => cand' = cand
<1> USE DEF HeldInv, Executing, Pending, Terminal
<1>1. claims' = claims
  BY DEF ExecutionWrite
<1>2. ASSUME NEW d \in Deliveries, TakeAttempt(d)
      PROVE  HeldInv' /\ cand.status \in Executing
  BY <1>1, <1>2, TakeAttemptRow DEF KeepsClaim, TypeInv, TypeOK, Row
<1>3. ASSUME NEW d \in Deliveries, PersistWorkerSuccess(d)
      PROVE  HeldInv' /\ cand.status \in Executing
  BY <1>1, <1>3, PersistWorkerSuccessRow DEF KeepsClaim, Unfences
<1>4. ASSUME NEW d \in Deliveries, FailWorkerAttempt(d)
      PROVE  HeldInv' /\ cand.status \in Executing
  BY <1>1, <1>4, FailWorkerAttemptRow DEF KeepsClaim, Unfences
<1>5. CASE RecoverAbandonedAttempt
  BY <1>1, <1>5, RecoverRow DEF KeepsClaim, Unfences
<1>6. CASE RepairTerminalQueueFailure
  BY <1>1, <1>6, RepairRow DEF KeepsClaim, Unfences
<1>7. QED
  BY <1>2, <1>3, <1>4, <1>5, <1>6 DEF ExecutionWrite

LEMMA CompletionHeld ==
  ASSUME TypeInv, HeldInv, CompletionWrite
  PROVE  /\ HeldInv'
         /\ cand.status \notin Terminal
<1> USE DEF HeldInv, Executing, Pending, Terminal
<1>1. ASSUME NEW p \in Processors, ClaimCompletion(p)
      PROVE  HeldInv' /\ cand.status \in Pending
  <2>1. cand'.count = claims'
    BY <1>1, ClaimCompletionRow
  <2>2. QED
    BY <1>1, <2>1, ClaimCompletionRow DEF KeepsWorker
<1>2. ASSUME NEW p \in Processors, FinalizeTerminalFailure(p)
      PROVE  HeldInv' /\ cand.status \in Pending
  <2>1. claims' = claims
    BY <1>2 DEF FinalizeTerminalFailure
  <2>2. QED
    BY <1>2, <2>1, FinalizeTerminalFailureRow DEF Releases, KeepsWorker
<1>3. ASSUME NEW p \in Processors, FinalizeCompletion(p)
      PROVE  HeldInv' /\ cand.status \in Pending
  <2>1. claims' = claims
    BY <1>3 DEF FinalizeCompletion
  <2>2. QED
    BY <1>3, <2>1, FinalizeCompletionRow DEF Releases, KeepsWorker
<1>4. ASSUME NEW p \in Processors, FailCompletion(p)
      PROVE  HeldInv' /\ cand.status \in Pending
  <2>1. claims' = claims
    BY <1>4 DEF FailCompletion
  <2>2. cand.status \in Pending
    BY <1>4 DEF FailCompletion, HoldsClaim
  <2>3. QED
    BY <1>4, <2>1, <2>2, FailCompletionRow DEF Releases, KeepsWorker
<1>5. CASE CompletionBackoffElapsed
  <2>1. claims' = claims
    BY <1>5 DEF CompletionBackoffElapsed, complVars
  <2>2. QED
    BY <1>5, <2>1, BackoffElapsedRow DEF KeepsClaim, KeepsWorker
<1>6. QED
  BY <1>1, <1>2, <1>3, <1>4, <1>5 DEF CompletionWrite

\* One step of an uncancelled Candidate.
LEMMA HeldStep ==
  ASSUME Uncancelled, TypeInv, HeldInv, Next
  PROVE  /\ HeldInv'
         /\ cand.status \in Terminal => cand' = cand
<1>1. ~ CancellationWrite
  BY DEF CancellationWrite, Uncancelled
<1>2. CASE CompletionMove \/ Elsewhere
  BY <1>2 DEF CompletionMove, Elsewhere, HeldInv
<1>3. QED
  BY <1>1, <1>2, StepKinds, ExecutionHeld, CompletionHeld

LEMMA HeldInvariant ==
  ASSUME Uncancelled
  PROVE  Spec => []HeldInv
<1>1. TypeInv /\ HeldInv /\ [Next]_vars => HeldInv'
  <2>1. ASSUME HeldInv, UNCHANGED vars
        PROVE  HeldInv'
    BY <2>1 DEF HeldInv, vars, complVars
  <2>2. QED
    BY <2>1, HeldStep
<1>2. QED
  BY <1>1, InitHeld, TypeInvariant, PTL DEF Spec

\* Without cancellation COMPLETED and FAILED are final and their row is never
\* written again, whatever crashes, stalls or expires.
THEOREM OutcomeIsFinal ==
  ASSUME Uncancelled
  PROVE  Spec => TerminalIsFinal
<1>1. TypeInv /\ HeldInv /\ [Next]_vars => [cand.status \in Terminal => cand' = cand]_vars
  BY HeldStep
<1>2. QED
  BY <1>1, TypeInvariant, HeldInvariant, PTL DEF Spec, TerminalIsFinal

-----------------------------------------------------------------------------
(* Claims.  A processor that has read its row and still holds the current  *)
(* claim saw the status the row still has.  A processor on its way to      *)
(* failCompletion with a simulation failure in hand has lost its claim,    *)
(* unless finalizeTerminalFailure itself failed.                           *)

Lost(p) == cand.token # proc[p].token \/ cand.claimLease \in expiredClaims

ClaimInv ==
  /\ cand.token <= claims
  /\ \A p \in Processors : proc[p].pc # "idle" => proc[p].token \in 1 .. claims
  /\ \A p \in Processors :
       proc[p].pc \in {"working", "failing"} /\ proc[p].token = cand.token =>
         proc[p].generation = cand.generation /\ proc[p].status = cand.status
  /\ \A p \in Processors :
       proc[p].pc = "failing" /\ proc[p].status = "TERMINAL_FAILURE_PENDING" => Lost(p)

LEMMA InitClaim == Init => ClaimInv
BY DEF Init, ClaimInv, QueuedRow, IdleProc

\* A write that leaves the processors alone and the claim either alone,
\* with the status, or closed.
LEMMA ClaimKept ==
  ASSUME ClaimInv, UNCHANGED <<proc, claims, expiredClaims>>, claims \in Nat,
         \/ cand' = cand
         \/ cand'.token = 0
         \/ KeepsClaim /\ cand'.status = cand.status
  PROVE  ClaimInv'
BY DEF ClaimInv, Lost, KeepsClaim

\* The write of a processor that closes its claim and goes idle.
LEMMA ClaimClosed ==
  ASSUME ClaimInv, TypeInv, NEW p \in Processors, cand'.token = 0,
         UNCHANGED <<claims, expiredClaims>>, proc' = [proc EXCEPT ![p] = IdleProc]
  PROVE  ClaimInv'
<1>1. claims \in Nat
  BY BoundsAreNatural DEF TypeInv, TypeOK
<1>2. \A q \in Processors : proc'[q].pc # "idle" => proc'[q] = proc[q]
  BY DEF TypeInv, TypeOK, IdleProc
<1>3. QED
  BY <1>1, <1>2 DEF ClaimInv, Lost

\* An execution write happens while no claim is open, or changes nothing.
LEMMA ExecutionToken ==
  ASSUME TypeInv, HeldInv, ExecutionWrite
  PROVE  cand' = cand \/ cand'.token = 0
<1>1. CASE cand.claimLease # 0
  BY <1>1, ExecutionHeld
<1>2. CASE cand.claimLease = 0
  <2>1. cand'.claimLease = 0
    BY <1>2, TakeAttemptRow, PersistWorkerSuccessRow, FailWorkerAttemptRow, RecoverRow, RepairRow
       DEF ExecutionWrite, KeepsClaim
  <2>2. QED
    BY <2>1, ExecutionHeld DEF HeldInv
<1>3. QED
  BY <1>1, <1>2

LEMMA ClaimStep ==
  ASSUME Uncancelled, TypeInv, HeldInv, ClaimInv, "finalizeError" \notin Faults, Next
  PROVE  ClaimInv'
<1>1. claims \in Nat /\ proc \in [Processors -> Proc]
  BY BoundsAreNatural DEF TypeInv, TypeOK
<1>2. CASE ExecutionWrite
  <2>1. UNCHANGED <<proc, claims, expiredClaims>> /\ (cand' = cand \/ cand'.token = 0)
    BY <1>2, ExecutionHeld, ExecutionToken DEF ExecutionWrite, HeldInv
  <2>2. QED
    BY <1>1, <2>1, ClaimKept
<1>3. CASE CompletionWrite
  <2>1. ASSUME NEW p \in Processors, ClaimCompletion(p)
        PROVE  ClaimInv'
    <3>1. /\ cand'.token = claims + 1 /\ claims' = claims + 1
          /\ expiredClaims' = expiredClaims
      BY <1>3, <2>1, ClaimCompletionRow DEF CompletionWrite
    <3>2. proc'[p].pc = "claimed" /\ proc'[p].token = claims + 1
      BY <1>1, <2>1 DEF ClaimCompletion, IdleProc
    <3>3. \A q \in Processors : q # p => proc'[q] = proc[q]
      BY <1>1, <2>1 DEF ClaimCompletion
    <3>4. QED
      BY <1>1, <3>1, <3>2, <3>3 DEF ClaimInv, Lost
  <2>2. ASSUME NEW p \in Processors,
               FinalizeTerminalFailure(p) \/ FinalizeCompletion(p) \/ FailCompletion(p)
        PROVE  ClaimInv'
    <3>1. cand'.token = 0
      BY <2>2, FinalizeTerminalFailureRow, FinalizeCompletionRow, FailCompletionRow DEF Releases
    <3>2. claims' = claims /\ proc' = [proc EXCEPT ![p] = IdleProc]
      BY <2>2 DEF FinalizeTerminalFailure, FinalizeCompletion, FailCompletion
    <3>3. QED
      BY <1>3, <3>1, <3>2, ClaimClosed DEF CompletionWrite
  <2>3. CASE CompletionBackoffElapsed
    BY <1>1, <1>3, <2>3, BackoffElapsedRow, ClaimKept
       DEF CompletionBackoffElapsed, complVars, CompletionWrite
  <2>4. QED
    BY <1>3, <2>1, <2>2, <2>3 DEF CompletionWrite
<1>4. ASSUME NEW p \in Processors, ReadClaimed(p)
      PROVE  ClaimInv'
  <2>1. UNCHANGED <<cand, claims, expiredClaims>>
    BY <1>4 DEF ReadClaimed
  <2>2. /\ proc'[p].token = proc[p].token /\ proc[p].token \in 1 .. claims
        /\ proc'[p].pc = "working"
        /\ proc'[p].generation = cand.generation /\ proc'[p].status = cand.status
    BY <1>1, <1>4 DEF ReadClaimed, ClaimInv
  <2>3. \A q \in Processors : q # p => proc'[q] = proc[q]
    BY <1>1, <1>4 DEF ReadClaimed
  <2>4. QED
    BY <2>1, <2>2, <2>3 DEF ClaimInv, Lost
<1>5. ASSUME NEW p \in Processors, CompletionError(p)
      PROVE  ClaimInv'
  <2>1. UNCHANGED <<cand, claims, expiredClaims>>
    BY <1>5 DEF CompletionError
  <2>2. /\ proc'[p].pc = "failing" /\ proc[p].pc = "working"
        /\ proc'[p].token = proc[p].token /\ proc'[p].status = proc[p].status
        /\ proc'[p].generation = proc[p].generation
    BY <1>1, <1>5 DEF CompletionError, Proc
  <2>3. \A q \in Processors : q # p => proc'[q] = proc[q]
    BY <1>1, <1>5 DEF CompletionError
  <2>4. ASSUME proc[p].status = "TERMINAL_FAILURE_PENDING", cand.token = proc[p].token
        PROVE  cand.claimLease \in expiredClaims
    <3>1. /\ cand.status = "TERMINAL_FAILURE_PENDING"
          /\ cand.generation = proc[p].generation
          /\ cand.token # 0 /\ cand.claimLease = cand.token
      BY <1>1, <2>2, <2>4 DEF ClaimInv, HeldInv
    <3>2. ~ HoldsClaim(p)
      BY <1>5, <2>4, <3>1, "finalizeError" \notin Faults DEF CompletionError
    <3>3. QED
      BY <2>4, <3>1, <3>2 DEF HoldsClaim
  <2>5. QED
    BY <2>1, <2>2, <2>3, <2>4 DEF ClaimInv, Lost
<1>6. ASSUME NEW p \in Processors, FailCompletionFenceLost(p) \/ ProcessorCrash(p)
      PROVE  ClaimInv'
  <2>1. UNCHANGED <<cand, claims, expiredClaims>> /\ proc' = [proc EXCEPT ![p] = IdleProc]
    BY <1>6 DEF FailCompletionFenceLost, ProcessorCrash
  <2>2. \A q \in Processors : proc'[q].pc # "idle" => proc'[q] = proc[q]
    BY <1>1, <2>1 DEF IdleProc
  <2>3. QED
    BY <2>1, <2>2 DEF ClaimInv, Lost
<1>7. ASSUME NEW k \in Claims, ClaimLeaseExpires(k)
      PROVE  ClaimInv'
  BY <1>7 DEF ClaimLeaseExpires, ClaimInv, Lost
<1>8. CASE Elsewhere
  BY <1>1, <1>8, ClaimKept DEF Elsewhere
<1>9. ~ CancellationWrite
  BY DEF CancellationWrite, Uncancelled
<1>10. QED
  BY <1>2, <1>3, <1>4, <1>5, <1>6, <1>7, <1>8, <1>9, StepKinds DEF CompletionMove

LEMMA ClaimInvariant ==
  ASSUME Uncancelled, "finalizeError" \notin Faults
  PROVE  Spec => []ClaimInv
<1>1. TypeInv /\ HeldInv /\ ClaimInv /\ [Next]_vars => ClaimInv'
  <2>1. ASSUME ClaimInv, UNCHANGED vars
        PROVE  ClaimInv'
    BY <2>1 DEF ClaimInv, Lost, vars, complVars
  <2>2. QED
    BY <2>1, ClaimStep
<1>2. QED
  BY <1>1, InitClaim, TypeInvariant, HeldInvariant, PTL DEF Spec

\* failCompletion writes only over PROCESSING_RESULT, though it does not ask.
LEMMA FailCompletionStatus ==
  ASSUME TypeInv, HeldInv, ClaimInv, NEW p \in Processors, FailCompletion(p)
  PROVE  cand.status = "PROCESSING_RESULT"
<1>1. /\ cand.token = proc[p].token /\ cand.claimLease # 0
      /\ cand.claimLease \notin expiredClaims /\ proc[p].pc = "failing"
  BY DEF FailCompletion, HoldsClaim
<1>2. cand.status \in Pending /\ proc[p].status = cand.status
  BY <1>1 DEF HeldInv, ClaimInv
<1>3. cand.status # "TERMINAL_FAILURE_PENDING"
  BY <1>1, <1>2 DEF ClaimInv, Lost
<1>4. QED
  BY <1>2, <1>3 DEF Pending

LEMMA ContractStep ==
  ASSUME Uncancelled, TypeInv, HeldInv, ClaimInv, Next
  PROVE  \/ Public!CanNext
         \/ UNCHANGED <<cand.status, experiment # 0>>
<1> USE DEF Public!CanNext, Public!Move
<1>1. CASE ExecutionWrite
  <2>1. experiment' = experiment
    BY <1>1 DEF ExecutionWrite
  <2>2. \/ /\ cand.status \in {"QUEUED", "RETRY_WAIT"}
           /\ cand'.status = "BACKTESTING"
        \/ cand.status = "BACKTESTING" /\ cand'.status = "PROCESSING_RESULT"
        \/ cand.status = "BACKTESTING" /\ cand'.status = "RETRY_WAIT"
        \/ cand.status \in Executing /\ cand'.status = "TERMINAL_FAILURE_PENDING"
        \/ cand'.status = cand.status
    BY <1>1, TakeAttemptRow, PersistWorkerSuccessRow, FailWorkerAttemptRow, RecoverRow, RepairRow
       DEF ExecutionWrite, HeldInv, Executing
  <2>3. QED
    BY <2>1, <2>2 DEF Public!StartAttempt, Public!AttemptRetried, Public!AttemptSucceeded,
       Public!GiveUp, Executing
<1>2. CASE CompletionWrite
  <2>1. ASSUME NEW p \in Processors, ClaimCompletion(p)
        PROVE  UNCHANGED <<cand.status, experiment # 0>>
    BY <2>1, ClaimCompletionRow DEF ClaimCompletion
  <2>2. ASSUME NEW p \in Processors, FinalizeTerminalFailure(p)
        PROVE  Public!FailureFinalized
    BY <2>2, FinalizeTerminalFailureRow DEF FinalizeTerminalFailure, Public!FailureFinalized
  <2>3. ASSUME NEW p \in Processors, FinalizeCompletion(p)
        PROVE  Public!ResultPublished
    <3>1. experiment' # 0
      BY <2>3 DEF FinalizeCompletion, Attempts
    <3>2. QED
      BY <2>3, <3>1, FinalizeCompletionRow DEF Public!ResultPublished
  <2>4. ASSUME NEW p \in Processors, FailCompletion(p)
        PROVE  Public!CompletionGivenUp \/ UNCHANGED <<cand.status, experiment # 0>>
    <3>1. experiment' = experiment
      BY <2>4 DEF FailCompletion
    <3>2. cand.status = "PROCESSING_RESULT"
      BY <2>4, FailCompletionStatus
    <3>3. QED
      BY <2>4, <3>1, <3>2, FailCompletionRow DEF Public!CompletionGivenUp
  <2>5. CASE CompletionBackoffElapsed
    BY <2>5, BackoffElapsedRow DEF CompletionBackoffElapsed, complVars
  <2>6. QED
    BY <1>2, <2>1, <2>2, <2>3, <2>4, <2>5 DEF CompletionWrite
<1>3. CASE CompletionMove \/ Elsewhere
  BY <1>3 DEF CompletionMove, Elsewhere
<1>4. ~ CancellationWrite
  BY DEF CancellationWrite, Uncancelled
<1>5. QED
  BY <1>1, <1>2, <1>3, <1>4, StepKinds

\* Without cancellation, and when finalizeTerminalFailure's own statement
\* does not fail, the pipeline implements the transition contract.
THEOREM LifecycleImplementsContract ==
  ASSUME Uncancelled, "finalizeError" \notin Faults
  PROVE  Spec => ImplementsContract
<1>1. Init => Public!CanInit
  BY DEF Init, QueuedRow, Public!CanInit
<1>2. TypeInv /\ HeldInv /\ ClaimInv /\ [Next]_vars
        => [Public!CanNext]_(Public!candidateVars)
  <2>1. ASSUME UNCHANGED vars
        PROVE  UNCHANGED <<cand.status, experiment # 0>>
    BY <2>1 DEF vars, complVars
  <2>2. QED
    BY <2>1, ContractStep DEF Public!candidateVars
<1>3. QED
  BY <1>1, <1>2, TypeInvariant, HeldInvariant, ClaimInvariant, PTL
     DEF Spec, ImplementsContract, Public!CanSpec
-----------------------------------------------------------------------------
(* What a failed Candidate records.  Its kind names the half that failed,  *)
(* and there is an Attempt to show for it.                                 *)

KindInv ==
  /\ cand.status \in {"TERMINAL_FAILURE_PENDING", "FAILED"} =>
       \E n \in Attempts : attempts[n].status # "NONE"
  /\ cand.status = "TERMINAL_FAILURE_PENDING" =>
       /\ \A n \in Attempts : ~ Succeeded(n)
       /\ cand.kind \in {"RETRY_EXHAUSTED", "INFRASTRUCTURE"}
  /\ cand.status = "PROCESSING_RESULT" => \E n \in Attempts : Succeeded(n)
  /\ FailureKindTruthful

\* Closing leaves an Attempt behind, a synthetic one if there was none.
LEMMA ClosingLeavesAttempt ==
  ASSUME TypeInv, attempts' = CloseRunningAttempt
  PROVE  /\ \E n \in Attempts : attempts'[n].status # "NONE"
         /\ \A n \in Attempts : attempts[n].status # "NONE" => attempts'[n].status # "NONE"
<1>1. 1 \in Attempts
  BY BudgetsArePositive DEF Attempts
<1>2. QED
  BY <1>1 DEF TypeInv, TypeOK, CloseRunningAttempt, Attempt

\* No Attempt is forgotten, and one succeeds only while BACKTESTING.
LEMMA AttemptStep ==
  ASSUME Uncancelled, TypeInv, HeldInv, Next, NEW n \in Attempts
  PROVE  /\ attempts[n].status # "NONE" => attempts'[n].status # "NONE"
         /\ Succeeded(n)' => Succeeded(n) \/ cand'.status = "PROCESSING_RESULT"
<1> USE DEF Succeeded
<1>1. CASE UNCHANGED attempts
  BY <1>1
<1>2. ASSUME NEW d \in Deliveries, TakeAttempt(d)
      PROVE  attempts'[n].status \in {attempts[n].status, "RUNNING"}
  BY <1>2 DEF TakeAttempt, TypeInv, TypeOK, Attempt
<1>3. ASSUME NEW d \in Deliveries, PersistWorkerSuccess(d)
      PROVE  /\ attempts'[n].status \in {attempts[n].status, "COMPLETED"}
             /\ cand'.status = "PROCESSING_RESULT"
  <2>1. attempts' = [attempts EXCEPT ![worker[d].attempt].status = "COMPLETED",
                                     ![worker[d].attempt].audit = cand.status = "CANCELLED"]
    BY <1>3, Zenon DEF PersistWorkerSuccess
  <2>2. attempts'[n].status \in {attempts[n].status, "COMPLETED"}
    BY <2>1 DEF TypeInv, TypeOK, Attempt
  <2>3. QED
    BY <1>3, <2>2, PersistWorkerSuccessRow DEF HeldInv
<1>4. ASSUME NEW d \in Deliveries, FailWorkerAttempt(d)
      PROVE  attempts'[n].status \in {attempts[n].status, "FAILED"}
  BY <1>4 DEF FailWorkerAttempt, TypeInv, TypeOK, Attempt
<1>5. CASE RecoverAbandonedAttempt \/ RepairTerminalQueueFailure
  BY <1>5, ClosingLeavesAttempt, ClosingKeepsSuccess
     DEF RecoverAbandonedAttempt, RepairTerminalQueueFailure
<1>6. CASE ExecutionWrite
  BY <1>2, <1>3, <1>4, <1>5, <1>6 DEF ExecutionWrite
<1>7. QED
  BY <1>1, <1>6, StepKinds
     DEF CompletionWrite, CancellationWrite, CompletionMove, Elsewhere

LEMMA KindExecution ==
  ASSUME TypeInv, SoundInv, HeldInv, KindInv, ExecutionWrite
  PROVE  \/ cand' = cand
         \/ cand'.status \in {"BACKTESTING", "RETRY_WAIT"}
         \/ /\ cand'.status = "TERMINAL_FAILURE_PENDING" /\ cand.status \in Executing
            /\ cand'.kind \in {"RETRY_EXHAUSTED", "INFRASTRUCTURE"}
            /\ \E n \in Attempts : attempts'[n].status # "NONE"
         \/ /\ cand'.status = "PROCESSING_RESULT"
            /\ \E n \in Attempts : Succeeded(n)'
<1>1. ASSUME NEW d \in Deliveries, TakeAttempt(d)
      PROVE  cand'.status = "BACKTESTING"
  BY <1>1, TakeAttemptRow
<1>2. ASSUME NEW d \in Deliveries, PersistWorkerSuccess(d)
      PROVE  /\ cand'.status = "PROCESSING_RESULT"
             /\ \E n \in Attempts : Succeeded(n)'
  <2>1. cand'.status = "PROCESSING_RESULT"
    BY <1>2, PersistWorkerSuccessRow DEF HeldInv
  <2>2. PICK n \in Attempts : n = worker[d].attempt
    BY <1>2 DEF PersistWorkerSuccess, Goto, TypeInv, TypeOK
  <2>3. attempts' = [attempts EXCEPT ![n].status = "COMPLETED",
                                     ![n].audit = cand.status = "CANCELLED"]
    BY <1>2, <2>2, Zenon DEF PersistWorkerSuccess
  <2>4. Succeeded(n)'
    BY <2>3 DEF TypeInv, TypeOK, Attempt, Succeeded
  <2>5. QED
    BY <2>1, <2>4
<1>3. ASSUME NEW d \in Deliveries, FailWorkerAttempt(d)
      PROVE  /\ cand.status = "BACKTESTING"
             /\ cand'.status \in {"RETRY_WAIT", "TERMINAL_FAILURE_PENDING"}
             /\ cand'.status = "TERMINAL_FAILURE_PENDING" => cand'.kind = "RETRY_EXHAUSTED"
             /\ \E n \in Attempts : attempts'[n].status # "NONE"
  <2>1. worker[d].attempt \in Attempts /\ attempts'[worker[d].attempt].status = "FAILED"
    BY <1>3 DEF FailWorkerAttempt, Goto, TypeInv, TypeOK
  <2>2. QED
    BY <1>3, <2>1, FailWorkerAttemptRow DEF HeldInv
<1>4. CASE RecoverAbandonedAttempt
  <2>1. \E n \in Attempts : attempts'[n].status # "NONE"
    BY <1>4, ClosingLeavesAttempt DEF RecoverAbandonedAttempt
  <2>2. QED
    BY <1>4, <2>1, RecoverRow DEF Executing
<1>5. CASE RepairTerminalQueueFailure
  <2>1. \E n \in Attempts : attempts'[n].status # "NONE"
    BY <1>5, ClosingLeavesAttempt DEF RepairTerminalQueueFailure
  <2>2. QED
    BY <1>5, <2>1, RepairRow
<1>6. QED
  BY <1>1, <1>2, <1>3, <1>4, <1>5 DEF ExecutionWrite, Executing

LEMMA KindStep ==
  ASSUME Uncancelled, TypeInv, SoundInv, HeldInv, ClaimInv, KindInv, Next
  PROVE  KindInv'
<1>1. \A n \in Attempts : attempts[n].status # "NONE" => attempts'[n].status # "NONE"
  BY AttemptStep
<1>2. \A n \in Attempts : Succeeded(n) => Succeeded(n)'
  BY SuccessStep DEF Succeeded
<1>3. \A n \in Attempts : Succeeded(n)' /\ cand'.status # "PROCESSING_RESULT" => Succeeded(n)
  BY AttemptStep
<1>4. \A n \in Attempts : cand.status \in Executing => ~ Succeeded(n)
  BY DEF SoundInv, Succeeded
<1> USE DEF KindInv, FailureKindTruthful, Executing, Pending
<1>5. ASSUME cand'.status = cand.status, cand'.kind = cand.kind
      PROVE  KindInv'
  BY <1>1, <1>2, <1>3, <1>5 DEF Succeeded
<1>6. CASE ExecutionWrite
  <2>1. CASE cand' = cand
    BY <1>5, <2>1
  <2>2. CASE cand'.status \in {"BACKTESTING", "RETRY_WAIT"}
    BY <2>2
  <2>3. CASE /\ cand'.status = "TERMINAL_FAILURE_PENDING" /\ cand.status \in Executing
             /\ cand'.kind \in {"RETRY_EXHAUSTED", "INFRASTRUCTURE"}
             /\ \E n \in Attempts : attempts'[n].status # "NONE"
    BY <1>3, <1>4, <2>3
  <2>4. CASE cand'.status = "PROCESSING_RESULT" /\ \E n \in Attempts : Succeeded(n)'
    BY <2>4
  <2>5. QED
    BY <1>6, <2>1, <2>2, <2>3, <2>4, KindExecution
<1>7. CASE CompletionWrite
  <2>1. ASSUME NEW p \in Processors, ClaimCompletion(p)
        PROVE  KindInv'
    BY <1>5, <2>1, ClaimCompletionRow
  <2>2. ASSUME NEW p \in Processors, FinalizeTerminalFailure(p)
        PROVE  KindInv'
    BY <1>1, <1>3, <2>2, FinalizeTerminalFailureRow DEF Succeeded
  <2>3. ASSUME NEW p \in Processors, FinalizeCompletion(p)
        PROVE  KindInv'
    BY <2>3, FinalizeCompletionRow
  <2>4. ASSUME NEW p \in Processors, FailCompletion(p)
        PROVE  KindInv'
    <3>1. PICK n \in Attempts : Succeeded(n)
      BY <2>4, FailCompletionStatus
    <3>2. Succeeded(n)' /\ attempts'[n].status # "NONE"
      BY <1>2, <3>1 DEF Succeeded
    <3>3. QED
      BY <2>4, <3>2, FailCompletionRow DEF Succeeded
  <2>5. CASE CompletionBackoffElapsed
    BY <1>5, <2>5, BackoffElapsedRow
  <2>6. QED
    BY <1>7, <2>1, <2>2, <2>3, <2>4, <2>5 DEF CompletionWrite
<1>8. CASE CompletionMove \/ Elsewhere
  BY <1>5, <1>8 DEF CompletionMove, Elsewhere
<1>9. ~ CancellationWrite
  BY DEF CancellationWrite, Uncancelled
<1>10. QED
  BY <1>6, <1>7, <1>8, <1>9, StepKinds

LEMMA KindInvariant ==
  ASSUME Uncancelled, "finalizeError" \notin Faults
  PROVE  Spec => []KindInv
<1>1. Init => KindInv
  BY DEF Init, QueuedRow, KindInv, FailureKindTruthful
<1>2. TypeInv /\ SoundInv /\ HeldInv /\ ClaimInv /\ KindInv /\ [Next]_vars => KindInv'
  <2>1. ASSUME KindInv, UNCHANGED vars
        PROVE  KindInv'
    BY <2>1 DEF KindInv, FailureKindTruthful, Succeeded, vars, execVars
  <2>2. QED
    BY <2>1, KindStep
<1>3. QED
  BY <1>1, <1>2, TypeInvariant, SoundInvariant, HeldInvariant, ClaimInvariant, PTL DEF Spec

\* COMPLETION_PROCESSING is recorded for Candidates whose simulation
\* succeeded, and a simulation failure keeps its kind through completion,
\* also when workers stall and their database statements fail.
THEOREM FailureKindIsTruthful ==
  ASSUME Uncancelled, "finalizeError" \notin Faults
  PROVE  Spec => []FailureKindTruthful
<1>1. KindInv => FailureKindTruthful
  BY DEF KindInv
<1>2. QED
  BY <1>1, KindInvariant, PTL
-----------------------------------------------------------------------------
(* The Attempts of a failed Candidate are closed.  This needs BullMQ and   *)
(* the database to do their part.  A worker that loses its job to the      *)
(* stalled-job check while it is alive may claim after the next delivery,  *)
(* and a claim or failWorkerAttempt that fails leaves its Attempt RUNNING  *)
(* when the job goes on to the next attempt number.  Then a later Attempt  *)
(* fails the Candidate beside a RUNNING one.                               *)

Dependable == Faults \cap {"databaseError", "stall"} = {}

\* Without spurious stalls at most one delivery is alive, the job's.
AloneInv ==
  \A d \in Deliveries : Alive(d) => HoldsLock(d) /\ worker[d].attempt = job.made + 1

LEMMA AloneStep ==
  ASSUME Uncancelled, Dependable, TypeInv, AloneInv, Next
  PROVE  AloneInv'
<1> USE DEF AloneInv, Alive, HoldsLock, TypeInv, TypeOK
<1>1. CASE UNCHANGED <<job, worker>>
  BY <1>1
<1>2. ASSUME NEW x \in Dispatchers, DispatcherNext(x)
      PROVE  worker' = worker /\ (job' = job \/ job.state = "absent")
  BY <1>2 DEF DispatcherNext, ReadPendingDispatch, Enqueue, EnqueueError, AddJob,
     MarkDispatchDispatched, MarkDispatchFailed, DispatcherCrash, execVars
<1>3. CASE BackoffElapsed
  BY <1>3 DEF BackoffElapsed
<1>4. CASE Stall
  BY <1>4 DEF Stall, Dependable
<1>5. ASSUME NEW d \in Deliveries, WorkerNext(d)
      PROVE  AloneInv'
  <2>1. CASE Fetch(d)
    <3>1. /\ job'.state = "active" /\ job'.lock = d /\ job'.made = job.made
          /\ worker' = [worker EXCEPT ![d] = [pc |-> "fetched", attempt |-> job.made + 1]]
      BY <2>1 DEF Fetch, DeliveryNumber, Job
    <3>2. \A e \in Deliveries : ~ Alive(e)
      BY <2>1 DEF Fetch
    <3>3. QED
      BY <3>1, <3>2
  <2>2. CASE AckCompleted(d) \/ AckFailed(d)
    <3>1. /\ worker[d].pc \in {"returned", "threw"}
          /\ worker' = [worker EXCEPT ![d].pc = "gone"]
      BY <2>2 DEF AckCompleted, AckFailed
    <3>2. \A e \in Deliveries : Alive(e) => e = d
      BY <3>1
    <3>3. QED
      BY <3>1, <3>2
  <2>3. CASE job' = job /\ \E to : worker' = [worker EXCEPT ![d].pc = to] /\ Alive(d)
    BY <2>3
  <2>4. CASE ClaimWorkerAttempt(d) \/ IgnoreDelivery(d) \/ ClaimError(d)
    BY <2>3, <2>4 DEF ClaimWorkerAttempt, IgnoreDelivery, ClaimError, Goto
  <2>5. CASE SimulationError(d) \/ PersistWorkerSuccess(d) \/ PersistError(d)
    BY <2>3, <2>5 DEF SimulationError, PersistWorkerSuccess, PersistError, Goto
  <2>6. CASE FailWorkerAttempt(d) \/ FailWorkerAttemptError(d) \/ WorkerCrash(d)
    BY <2>3, <2>6 DEF FailWorkerAttempt, FailWorkerAttemptError, WorkerCrash, Goto
  <2>7. CASE LeaseExpires(d)
    BY <1>1, <2>7 DEF LeaseExpires
  <2>8. QED
    BY <1>5, <2>1, <2>2, <2>4, <2>5, <2>6, <2>7 DEF WorkerNext, WorkerStep
<1>6. CASE RecoveryNext
  BY <1>1, <1>6 DEF RecoveryNext, RecoverAbandonedAttempt, RepairTerminalQueueFailure
<1>7. CASE CompletionNext
  <2>1. UNCHANGED execVars
    BY <1>7 DEF CompletionNext, ProcessorStep, ClaimCompletion, ReadClaimed,
       FinalizeTerminalFailure, FinalizeCompletion, CompletionError, FailCompletion,
       FailCompletionFenceLost, ProcessorCrash, ClaimLeaseExpires, CompletionBackoffElapsed
  <2>2. QED
    BY <1>1, <2>1 DEF execVars
<1>8. QED
  BY <1>2, <1>3, <1>4, <1>5, <1>6, <1>7 DEF Next, QueueNext, Uncancelled
NoneRunning == \A n \in Attempts : attempts[n].status # "RUNNING"

\* Only the Attempt that the Candidate names is RUNNING.  It is the Attempt
\* of the delivery that holds the fence, and the number the job is at.
OwnerInv ==
  /\ cand.status = "BACKTESTING" =>
       /\ cand.active \in Attempts /\ cand.fence \in Deliveries
       /\ \A n \in Attempts : attempts[n].status = "RUNNING" <=> n = cand.active
       /\ worker[cand.fence].pc # "unused" /\ worker[cand.fence].attempt = cand.active
       /\ attempts[cand.active].fence = cand.fence
       /\ job.state \notin {"absent", "delayed"}
       /\ job.state \in {"waiting", "active"} => cand.active = job.made + 1
  /\ cand.status # "BACKTESTING" => NoneRunning
  /\ \A d \in Deliveries :
       /\ worker[d].pc \in {"simulating", "failing"} /\ cand.status = "BACKTESTING" =>
            cand.fence = d
       /\ worker[d].pc = "threw" => cand.status # "BACKTESTING"

LEMMA OwnerReleased ==
  ASSUME cand'.status # "BACKTESTING", NoneRunning'
  PROVE  OwnerInv'
BY DEF OwnerInv

LEMMA OwnerClosed ==
  ASSUME TypeInv, OwnerInv, attempts' = CloseRunningAttempt
  PROVE  NoneRunning'
<1> USE DEF TypeInv, TypeOK, OwnerInv, NoneRunning, CloseRunningAttempt, LatestRunning, RunningAttempts
<1>1. CASE cand.status = "BACKTESTING"
  <2>1. LatestRunning(cand.active)
    BY <1>1 DEF Attempts
  <2>2. \A n \in Attempts : n # cand.active => attempts[n].status # "RUNNING"
    BY <1>1
  <2>3. QED
    BY <2>1, <2>2 DEF Attempt
<1>2. CASE cand.status # "BACKTESTING"
  BY <1>2 DEF Attempt
<1>3. QED
  BY <1>1, <1>2

\* A claim takes the attempt number the job is at, so a RUNNING Attempt that
\* is still there is the one it takes over.
LEMMA OwnerClaims ==
  ASSUME TypeInv, AloneInv, OwnerInv, NEW d \in Deliveries, ClaimWorkerAttempt(d)
  PROVE  OwnerInv'
<1> DEFINE n == worker[d].attempt
<1>1. /\ worker[d].pc = "fetched" /\ job' = job
      /\ worker' = [worker EXCEPT ![d].pc = "simulating"]
      /\ cand' = [cand EXCEPT !.status = "BACKTESTING", !.active = n, !.fence = d, !.lease = d]
      /\ attempts' = [attempts EXCEPT ![n].status = "RUNNING", ![n].fence = d]
  BY DEF ClaimWorkerAttempt, Goto, TakeAttempt
<1>2. n \in Attempts /\ job.state = "active" /\ n = job.made + 1
  BY <1>1 DEF TypeInv, AloneInv, Alive, HoldsLock
<1>3. \A e \in Deliveries : e # d => ~ Alive(e)
  BY <1>1 DEF AloneInv, HoldsLock, Alive
<1>4. \A m \in Attempts : attempts[m].status = "RUNNING" => m = n
  BY <1>2 DEF OwnerInv, NoneRunning
<1>5. cand'.status = "BACKTESTING" /\ cand'.active = n /\ cand'.fence = d
  BY <1>1 DEF TypeInv, TypeOK, Row
<1>6. /\ \A m \in Attempts : attempts'[m].status = "RUNNING" <=> m = n
      /\ attempts'[n].fence = d
  BY <1>1, <1>2, <1>4 DEF TypeInv, TypeOK, Attempt
<1>7. /\ worker'[d].pc = "simulating" /\ worker'[d].attempt = n
      /\ \A e \in Deliveries : e # d => worker'[e] = worker[e]
  BY <1>1 DEF TypeInv, TypeOK, Worker
<1> HIDE DEF n
<1>8. /\ n \in Attempts /\ job'.state \notin {"absent", "delayed"} /\ n = job'.made + 1
      /\ worker'[d].pc # "unused"
  BY <1>1, <1>2, <1>7
<1>9. \A e \in Deliveries : worker'[e].pc \in {"simulating", "failing", "threw"} => e = d
  BY <1>3, <1>7 DEF Alive
<1>10. worker'[d].pc # "threw"
  BY <1>7
<1>11. QED
  BY <1>5, <1>6, <1>7, <1>8, <1>9, <1>10 DEF OwnerInv

\* Steps of the queue and of deliveries that write no row.
LEMMA OwnerMoves ==
  ASSUME Dependable, TypeInv, HeldInv, AloneInv, OwnerInv, UNCHANGED <<cand, attempts>>,
         \/ \E x \in Dispatchers : DispatcherNext(x)
         \/ QueueNext
         \/ \E d \in Deliveries : WorkerNext(d)
  PROVE  OwnerInv'
<1> USE DEF OwnerInv, NoneRunning, TypeInv, TypeOK
<1>1. CASE UNCHANGED <<job, worker>>
  BY <1>1
<1>2. ASSUME NEW x \in Dispatchers, DispatcherNext(x)
      PROVE  OwnerInv'
  <2>1. worker' = worker /\ (job' = job \/ job.state = "absent")
    BY <1>2 DEF DispatcherNext, ReadPendingDispatch, Enqueue, EnqueueError, AddJob,
       MarkDispatchDispatched, MarkDispatchFailed, DispatcherCrash, execVars
  <2>2. QED
    BY <2>1
<1>3. CASE BackoffElapsed
  BY <1>3 DEF BackoffElapsed
<1>4. CASE Stall
  <2>1. worker' = worker /\ job.state = "active"
    BY <1>4 DEF Stall
  <2>2. job'.state = "failed" \/ (job'.state = "waiting" /\ job'.made = job.made)
    BY <1>4 DEF Stall, Job
  <2>3. QED
    BY <2>1, <2>2
<1>5. ASSUME NEW d \in Deliveries, WorkerNext(d)
      PROVE  OwnerInv'
  <2>1. CASE Fetch(d)
    <3>1. /\ job.state = "waiting" /\ job'.state = "active" /\ job'.made = job.made
          /\ worker[d].pc = "unused"
          /\ worker' = [worker EXCEPT ![d] = [pc |-> "fetched", attempt |-> job.made + 1]]
      BY <2>1 DEF Fetch, DeliveryNumber, Job
    <3>2. QED
      BY <3>1
  <2>2. CASE AckCompleted(d)
    <3>1. /\ worker' = [worker EXCEPT ![d].pc = "gone"]
          /\ job' = job \/ job'.state = "completed"
      BY <2>2 DEF AckCompleted, Job
    <3>2. QED
      BY <3>1 DEF Worker
  <2>3. CASE AckFailed(d)
    <3>1. worker' = [worker EXCEPT ![d].pc = "gone"] /\ cand.status # "BACKTESTING"
      BY <2>3 DEF AckFailed
    <3>2. QED
      BY <3>1 DEF Worker
  <2>4. ASSUME job' = job, NEW to \in {"returned", "gone"}, worker[d].pc # "unused",
               worker' = [worker EXCEPT ![d].pc = to]
        PROVE  OwnerInv'
    BY <2>4 DEF Worker
  <2>5. CASE IgnoreDelivery(d) \/ WorkerCrash(d)
    BY <2>4, <2>5 DEF IgnoreDelivery, WorkerCrash, Goto, Alive
  <2>6. CASE SimulationError(d) \/ PersistError(d)
    <3>1. /\ job' = job /\ worker[d].pc = "simulating"
          /\ worker' = [worker EXCEPT ![d].pc = "failing"]
      BY <2>6 DEF SimulationError, PersistError, Goto
    <3>2. QED
      BY <3>1 DEF Worker
  <2>7. CASE FailWorkerAttemptError(d)
    <3>1. /\ job' = job /\ worker[d].pc = "failing" /\ ~ HoldsFence(d)
          /\ worker' = [worker EXCEPT ![d].pc = "threw"]
      BY <2>7 DEF FailWorkerAttemptError, Goto, Dependable
    <3>2. cand.status # "BACKTESTING"
      BY <3>1 DEF HoldsFence
    <3>3. QED
      BY <3>1, <3>2 DEF Worker
  <2>8. CASE LeaseExpires(d)
    BY <1>1, <2>8 DEF LeaseExpires
  <2>9. CASE ClaimError(d)
    BY <2>9 DEF ClaimError, Dependable
  <2>10. CASE ClaimWorkerAttempt(d)
    BY <2>10, OwnerClaims
  <2>11. CASE PersistWorkerSuccess(d)
    BY <2>11, PersistWorkerSuccessRow DEF HeldInv
  <2>12. CASE FailWorkerAttempt(d)
    BY <2>12, FailWorkerAttemptRow DEF HeldInv
  <2>13. QED
    BY <1>5, <2>1, <2>2, <2>3, <2>5, <2>6, <2>7, <2>8, <2>9, <2>10, <2>11, <2>12
       DEF WorkerNext, WorkerStep
<1>6. QED
  BY <1>2, <1>3, <1>4, <1>5 DEF QueueNext

LEMMA OwnerStep ==
  ASSUME Uncancelled, Dependable, TypeInv, HeldInv, AloneInv, OwnerInv, Next
  PROVE  OwnerInv'
<1>1. CASE UNCHANGED <<cand, attempts, job, worker>>
  BY <1>1 DEF OwnerInv, NoneRunning
<1>2. ASSUME NEW d \in Deliveries, PersistWorkerSuccess(d) \/ FailWorkerAttempt(d)
      PROVE  OwnerInv'
  <2>1. cand.status = "BACKTESTING" /\ cand'.status # "BACKTESTING"
    BY <1>2, PersistWorkerSuccessRow, FailWorkerAttemptRow DEF HeldInv
  <2>2. HoldsFence(d)
    BY <1>2 DEF PersistWorkerSuccess, FailWorkerAttempt
  <2>3. worker[d].attempt = cand.active
    BY <2>1, <2>2 DEF HoldsFence, OwnerInv
  <2>4. \/ attempts' = [attempts EXCEPT ![cand.active].status = "COMPLETED",
                                        ![cand.active].audit = cand.status = "CANCELLED"]
        \/ attempts' = [attempts EXCEPT ![cand.active].status = "FAILED"]
    BY <1>2, <2>3, Zenon DEF PersistWorkerSuccess, FailWorkerAttempt
  <2>5. NoneRunning'
    BY <2>1, <2>4 DEF OwnerInv, NoneRunning, TypeInv, TypeOK, Attempt
  <2>6. QED
    BY <2>1, <2>5, OwnerReleased
<1>3. CASE RecoverAbandonedAttempt \/ RepairTerminalQueueFailure
  <2>1. NoneRunning'
    BY <1>3, OwnerClosed DEF RecoverAbandonedAttempt, RepairTerminalQueueFailure
  <2>2. cand'.status # "BACKTESTING"
    BY <1>3, RecoverRow, RepairRow
  <2>3. QED
    BY <2>1, <2>2, OwnerReleased
<1>4. CASE CompletionWrite
  <2>1. cand.status \in Pending \cup {"PROCESSING_RESULT"} /\ cand'.status # "BACKTESTING"
    BY <1>4, ClaimCompletionRow, FinalizeTerminalFailureRow, FinalizeCompletionRow,
       FailCompletionRow, BackoffElapsedRow
       DEF CompletionWrite, HeldInv, HoldsClaim, Pending
  <2>2. NoneRunning'
    BY <1>4, <2>1 DEF OwnerInv, NoneRunning, CompletionWrite, Pending
  <2>3. QED
    BY <2>1, <2>2, OwnerReleased
<1>5. ASSUME NEW d \in Deliveries, WorkerNext(d)
      PROVE  OwnerInv'
  <2>1. CASE ClaimWorkerAttempt(d)
    BY <2>1, OwnerClaims
  <2>2. CASE PersistWorkerSuccess(d) \/ FailWorkerAttempt(d)
    BY <1>2, <2>2
  <2>3. CASE UNCHANGED <<cand, attempts>>
    BY <1>5, <2>3, OwnerMoves
  <2>4. QED
    BY <1>5, <2>1, <2>2, <2>3
       DEF WorkerNext, WorkerStep, Fetch, IgnoreDelivery, PersistError, FailWorkerAttemptError,
           AckCompleted, AckFailed, SimulationError, ClaimError, WorkerCrash, LeaseExpires,
           Dependable
<1>6. CASE RecoveryNext
  BY <1>3, <1>6 DEF RecoveryNext
<1>7. ASSUME NEW x \in Dispatchers, DispatcherNext(x)
      PROVE  OwnerInv'
  <2>1. UNCHANGED <<cand, attempts>>
    BY <1>7 DEF DispatcherNext, ReadPendingDispatch, Enqueue, EnqueueError,
       MarkDispatchDispatched, MarkDispatchFailed, DispatcherCrash, execVars
  <2>2. QED
    BY <1>7, <2>1, OwnerMoves
<1>8. CASE QueueNext
  <2>1. UNCHANGED <<cand, attempts>>
    BY <1>8 DEF QueueNext, BackoffElapsed, Stall
  <2>2. QED
    BY <1>8, <2>1, OwnerMoves
<1>9. CASE CompletionNext
  <2>1. CompletionWrite \/ UNCHANGED cand
    <3>1. ASSUME NEW p \in Processors, ProcessorStep(p) \/ ProcessorCrash(p)
          PROVE  \/ /\ UNCHANGED <<attempts, expiredClaims>>
                    /\ \/ ClaimCompletion(p) \/ FinalizeTerminalFailure(p)
                       \/ FinalizeCompletion(p) \/ FailCompletion(p)
                 \/ UNCHANGED cand
      <4>1. CASE \/ ClaimCompletion(p) \/ FinalizeTerminalFailure(p)
                 \/ FinalizeCompletion(p) \/ FailCompletion(p)
        <5>1. UNCHANGED <<attempts, expiredClaims>>
          BY <4>1 DEF ClaimCompletion, FinalizeTerminalFailure, FinalizeCompletion,
             FailCompletion, execVars
        <5>2. QED
          BY <4>1, <5>1
      <4>2. CASE \/ ReadClaimed(p) \/ CompletionError(p)
                 \/ FailCompletionFenceLost(p) \/ ProcessorCrash(p)
        BY <4>2 DEF ReadClaimed, CompletionError, FailCompletionFenceLost, ProcessorCrash
      <4>3. QED
        BY <3>1, <4>1, <4>2 DEF ProcessorStep
    <3>2. CompletionBackoffElapsed => UNCHANGED <<attempts, expiredClaims>>
      BY DEF CompletionBackoffElapsed, execVars, complVars
    <3>3. (\E k \in Claims : ClaimLeaseExpires(k)) => UNCHANGED cand
      BY DEF ClaimLeaseExpires
    <3>4. QED
      BY <1>9, <3>1, <3>2, <3>3 DEF CompletionNext, CompletionWrite
  <2>2. UNCHANGED execVars
    BY <1>9 DEF CompletionNext, ProcessorStep, ClaimCompletion, ReadClaimed,
       FinalizeTerminalFailure, FinalizeCompletion, CompletionError, FailCompletion,
       FailCompletionFenceLost, ProcessorCrash, ClaimLeaseExpires, CompletionBackoffElapsed
  <2>3. QED
    BY <1>1, <1>4, <2>1, <2>2 DEF execVars
<1>10. QED
  BY <1>5, <1>6, <1>7, <1>8, <1>9 DEF Next, Uncancelled

LEMMA OwnerInvariant ==
  ASSUME Uncancelled, Dependable
  PROVE  Spec => []OwnerInv
<1>1. Init => AloneInv /\ OwnerInv
  BY DEF Init, QueuedRow, NoAttempt, NoJob, AloneInv, Alive, OwnerInv, NoneRunning
<1>2. TypeInv /\ HeldInv /\ AloneInv /\ OwnerInv /\ [Next]_vars => AloneInv' /\ OwnerInv'
  <2>1. ASSUME AloneInv, OwnerInv, UNCHANGED vars
        PROVE  AloneInv' /\ OwnerInv'
    BY <2>1 DEF AloneInv, Alive, HoldsLock, OwnerInv, NoneRunning, vars, execVars
  <2>2. QED
    BY <2>1, AloneStep, OwnerStep
<1>3. QED
  BY <1>1, <1>2, TypeInvariant, HeldInvariant, PTL DEF Spec

\* What a failed Candidate records is what happened: closed Attempts, and the
\* kind of the half that failed.
THEOREM FailuresAreRecorded ==
  ASSUME Uncancelled, Dependable, "finalizeError" \notin Faults
  PROVE  Spec => []FailureIsRecorded
<1>1. KindInv /\ OwnerInv => FailureIsRecorded
  BY DEF KindInv, OwnerInv, NoneRunning, FailureIsRecorded, FailureHasAttempts
<1>2. QED
  BY <1>1, KindInvariant, OwnerInvariant, PTL

-----------------------------------------------------------------------------
(* The leaderboard: order and rank                                         *)

\* Experiments whose times of admission differ.
Ordered(S) ==
  /\ S \subseteq Experiments
  /\ \A x \in S : added[x] \in Nat
  /\ \A x, y \in S : x # y => added[x] # added[y]

Ranked(S, y) == {x \in S : Before(x, y)}

LEMMA OrderedIsFinite ==
  ASSUME NEW S, S \subseteq Experiments
  PROVE  IsFiniteSet(S) /\ Cardinality(S) \in Nat
<1>1. IsFiniteSet(S) BY BoardAssumption, FS_Subset
<1> QED BY <1>1, FS_CardinalityType

\* rankEntries is a strict total order of them.
LEMMA BeforeIsTotal ==
  ASSUME NEW S, Ordered(S), NEW x \in S, NEW y \in S
  PROVE  /\ ~Before(x, x)
         /\ x # y => Before(x, y) \/ Before(y, x)
         /\ ~(Before(x, y) /\ Before(y, x))
         /\ \A z \in S : Before(x, y) /\ Before(y, z) => Before(x, z)
<1>1. \A z \in S : Score[z] \in Int /\ added[z] \in Nat BY BoardAssumption DEF Ordered
<1>2. x # y => added[x] # added[y] BY DEF Ordered
<1> QED BY <1>1, <1>2 DEF Before

LEMMA RanksDiffer ==
  ASSUME NEW S, Ordered(S), NEW x \in S, NEW y \in S, Before(x, y)
  PROVE  Cardinality(Ranked(S, x)) < Cardinality(Ranked(S, y))
<1>1. Ranked(S, y) \subseteq S /\ Ranked(S, x) \subseteq Ranked(S, y)
  BY BeforeIsTotal DEF Ranked
<1>2. x \in Ranked(S, y) /\ x \notin Ranked(S, x) BY BeforeIsTotal DEF Ranked
<1>3. IsFiniteSet(Ranked(S, y)) /\ Cardinality(Ranked(S, y)) \in Nat /\ Cardinality(Ranked(S, x)) \in Nat
  BY <1>1, OrderedIsFinite DEF Ordered
<1>4. /\ Cardinality(Ranked(S, x)) <= Cardinality(Ranked(S, y))
      /\ Cardinality(Ranked(S, y)) = Cardinality(Ranked(S, x)) => Ranked(S, y) = Ranked(S, x)
  BY <1>1, <1>3, FS_Subset
<1> QED BY <1>2, <1>3, <1>4

\* Each rank from 0 is the rank of one of them.
LEMMA RanksAreTaken ==
  ASSUME NEW S, Ordered(S)
  PROVE  [y \in S |-> Cardinality(Ranked(S, y))] \in Bijection(S, 0 .. Cardinality(S) - 1)
<1> DEFINE n == Cardinality(S)
<1> DEFINE rank == [y \in S |-> Cardinality(Ranked(S, y))]
<1>1. n \in Nat /\ IsFiniteSet(S) BY OrderedIsFinite DEF Ordered
<1>2. ASSUME NEW y \in S PROVE rank[y] \in 0 .. n - 1
  <2>1. Ranked(S, y) \subseteq S \ {y} BY BeforeIsTotal DEF Ranked
  <2>2. IsFiniteSet(S \ {y}) /\ Cardinality(S \ {y}) = n - 1 BY <1>1, FS_RemoveElement
  <2>3. Cardinality(Ranked(S, y)) <= n - 1 BY <2>1, <2>2, FS_Subset
  <2>4. Cardinality(Ranked(S, y)) \in Nat BY <2>1, OrderedIsFinite DEF Ordered
  <2> QED BY <1>1, <2>3, <2>4
<1>3. ASSUME NEW x \in S, NEW y \in S, rank[x] = rank[y] PROVE x = y
  <2>1. CASE Before(x, y)
    <3>1. rank[x] < rank[y] BY <2>1, RanksDiffer
    <3>2. rank[x] \in Int /\ rank[y] \in Int BY <1>1, <1>2
    <3> QED BY <1>3, <3>1, <3>2
  <2>2. CASE Before(y, x)
    <3>1. rank[y] < rank[x] BY <2>2, RanksDiffer
    <3>2. rank[x] \in Int /\ rank[y] \in Int BY <1>1, <1>2
    <3> QED BY <1>3, <3>1, <3>2
  <2> QED BY <2>1, <2>2, BeforeIsTotal
<1>4. rank \in [S -> 0 .. n - 1] BY <1>2
<1>5. rank \in Injection(S, 0 .. n - 1)
  <2> HIDE DEF rank, n
  <2> QED BY <1>3, <1>4 DEF Injection, IsInjective
<1>6. IsFiniteSet(0 .. n - 1) /\ Cardinality(0 .. n - 1) = n
  <2> HIDE DEF n
  <2>1. PICK m \in Int : m = n - 1 BY <1>1
  <2>2. IsFiniteSet(0 .. m) /\ Cardinality(0 .. m) = IF 0 > m THEN 0 ELSE m - 0 + 1
    BY FS_Interval
  <2> QED BY <1>1, <2>1, <2>2
<1>7. rank \in Surjection(S, 0 .. n - 1)
  <2> HIDE DEF rank
  <2> QED BY <1>5, <1>6, FS_Injection
<1> HIDE DEF rank
<1>8. rank \in Bijection(S, 0 .. n - 1) BY <1>5, <1>7 DEF Bijection
<1> QED BY <1>8 DEF rank

\* The lowest of a board is behind all others.
LEMMA LowestIsLast ==
  ASSUME NEW S, Ordered(S), S # {}
  PROVE  Lowest(S) \in S /\ \A x \in S \ {Lowest(S)} : Before(x, Lowest(S))
<1> DEFINE n == Cardinality(S)
<1> DEFINE rank == [y \in S |-> Cardinality(Ranked(S, y))]
<1>1. n \in Nat /\ IsFiniteSet(S) /\ n # 0 BY OrderedIsFinite, FS_EmptySet DEF Ordered
<1>2. rank \in Surjection(S, 0 .. n - 1) BY RanksAreTaken DEF Bijection
<1>3. n - 1 \in 0 .. n - 1 BY <1>1
<1>4. \E y \in S : rank[y] = n - 1
  <2> HIDE DEF rank
  <2> QED BY <1>2, <1>3 DEF Surjection
<1>5. PICK y \in S : Cardinality(Ranked(S, y)) = n - 1 BY <1>4
<1>6. Ranked(S, y) \in SUBSET (S \ {y}) BY BeforeIsTotal DEF Ranked
<1>7. IsFiniteSet(S \ {y}) /\ Cardinality(S \ {y}) = n - 1 BY <1>1, FS_RemoveElement
<1>8. Ranked(S, y) = S \ {y} BY <1>5, <1>6, <1>7, FS_Subset
<1>9. \A x \in S \ {y} : Before(x, y) BY <1>8 DEF Ranked
<1> QED BY <1>9 DEF Lowest

\* getActiveTopK answers K rows, or all there are.
LEMMA TopSize ==
  ASSUME NEW S, Ordered(S)
  PROVE  /\ TopOf(S) \subseteq S /\ Ordered(TopOf(S))
         /\ Cardinality(TopOf(S)) = IF Cardinality(S) < K THEN Cardinality(S) ELSE K
<1> DEFINE n == Cardinality(S)
<1> DEFINE m == IF n < K THEN n ELSE K
<1> DEFINE rank == [y \in S |-> Cardinality(Ranked(S, y))]
<1> DEFINE T == TopOf(S)
<1> DEFINE top == [y \in T |-> rank[y]]
<1>1. n \in Nat /\ K \in Nat \ {0} /\ m \in Nat BY OrderedIsFinite, BoardAssumption DEF Ordered
<1>2. rank \in Bijection(S, 0 .. n - 1) BY RanksAreTaken
<1>3. T = {y \in S : rank[y] < K} BY DEF TopOf, Ranked
<1> HIDE DEF rank, T
<1>4. T \subseteq S BY <1>3
<1>5. /\ rank \in [S -> 0 .. n - 1]
      /\ \A x, y \in S : rank[x] = rank[y] => x = y
      /\ \A i \in 0 .. n - 1 : \E y \in S : rank[y] = i
  BY <1>2 DEF Bijection, Injection, Surjection, IsInjective
<1>6. \A y \in T : rank[y] \in 0 .. m - 1
  <2> SUFFICES ASSUME NEW y \in T PROVE rank[y] \in 0 .. m - 1 OBVIOUS
  <2>1. rank[y] \in 0 .. n - 1 /\ rank[y] < K BY <1>3, <1>5
  <2> QED BY <1>1, <2>1
<1>7. \A i \in 0 .. m - 1 : \E y \in T : rank[y] = i
  <2> SUFFICES ASSUME NEW i \in 0 .. m - 1 PROVE \E y \in T : rank[y] = i OBVIOUS
  <2>1. i \in 0 .. n - 1 /\ i < K BY <1>1
  <2> QED BY <1>3, <1>5, <2>1
<1>8. top \in Bijection(T, 0 .. m - 1)
  <2> HIDE DEF m
  <2>1. top \in [T -> 0 .. m - 1] BY <1>6
  <2>2. \A x, y \in T : top[x] = top[y] => x = y BY <1>4, <1>5
  <2>3. \A i \in 0 .. m - 1 : \E y \in T : top[y] = i BY <1>7
  <2> HIDE DEF top
  <2> QED BY <2>1, <2>2, <2>3 DEF Bijection, Injection, Surjection, IsInjective
<1>9. ExistsBijection(T, 0 .. m - 1) BY <1>8 DEF ExistsBijection
<1>10. IsFiniteSet(T) BY <1>4, OrderedIsFinite DEF Ordered
<1>11. Cardinality(0 .. m - 1) = m
  <2> HIDE DEF m
  <2>1. m - 1 \in Int BY <1>1
  <2>2. Cardinality(0 .. m - 1) = IF 0 > m - 1 THEN 0 ELSE m - 1 - 0 + 1 BY <2>1, FS_Interval
  <2> QED BY <1>1, <2>2
<1>12. Cardinality(T) = m BY <1>9, <1>10, <1>11, FS_Bijection
<1>13. Ordered(T) BY <1>4 DEF Ordered
<1> QED BY <1>4, <1>12, <1>13 DEF T

-----------------------------------------------------------------------------
(* The leaderboard: the inductive invariant                                *)

\* The admitted Experiments that beat one that was admitted, and those that
\* keep out one that was not.
Beaters(e) == {x \in EverAdmitted : Before(x, e)}
AtLeast(e) == {x \in EverAdmitted : Score[x] >= Score[e]}

TxRow == [pc : {"idle", "read", "deactivate", "insert", "commit"},
          exp : Experiments \cup {None}, victim : Experiments \cup {None}, at : Nat]

\* Where a completion is, and what it carries there.
TxOK(x) ==
  /\ x.pc = "idle" => x = NoTx
  /\ x.pc # "idle" => x.exp \in Experiments /\ result[x.exp] = "none"
  /\ x.pc \in {"read", "deactivate", "insert"} => x.exp \notin Ineligible /\ x.at = None
  /\ x.pc = "read" => x.victim = None
  /\ x.pc = "deactivate" => x.victim # None
  /\ x.pc = "commit" /\ x.at # None => x.exp \notin Ineligible
  /\ x.pc = "commit" /\ x.at = None => x.victim = None
Rejected(x) == x.pc = "commit" /\ x.at = None /\ x.exp \notin Ineligible

\* What a completion read of the board stays true of the ever admitted.
VictimLost(x) == x.victim # None =>
  /\ x.victim \in EverAdmitted /\ Score[x.exp] > Score[x.victim]
  /\ Cardinality(Beaters(x.victim)) >= K - 1
RejectedLost(x) == Rejected(x) => Cardinality(AtLeast(x.exp)) >= K

RowsOK == \A e \in Experiments :
  /\ result[e] = "none" => entry[e] = "none" /\ added[e] = None
  /\ result[e] = "stored" /\ added[e] # None => entry[e] # "none"
  /\ entry[e] # "none" => added[e] # None
TxsOK == \A t \in Txs : TxOK(tx[t]) /\ VictimLost(tx[t]) /\ RejectedLost(tx[t])
Owners == \A t, u \in Txs : t # u /\ tx[t].pc # "idle" => tx[u].exp # tx[t].exp
Times ==
  /\ \A e \in Experiments : added[e] < clock
  /\ \A t \in Txs : tx[t].at < clock
  /\ \A e, f \in Experiments : e # f /\ added[e] # None => added[e] # added[f]
  /\ \A e \in Experiments, t \in Txs : added[e] # None => tx[t].at # added[e]
  /\ \A t, u \in Txs : t # u /\ tx[t].at # None => tx[t].at # tx[u].at
EvictedLost == \A e \in Experiments : entry[e] = "inactive" => Cardinality(Beaters(e)) >= K
TurnedAwayLost == \A e \in Eligible : added[e] = None => Cardinality(AtLeast(e)) >= K

\* Whoever loses its place or its chance leaves a full board behind.
Undeleted == \A e \in Experiments : result[e] \in {"none", "stored"}
Crowded(x) == x.victim # None \/ Rejected(x)
Full ==
  Undeleted => /\ \A t \in Txs : Crowded(tx[t]) => Cardinality(Active) >= K
               /\ Eligible \ Active # {} => Cardinality(Active) >= K

BoardInv ==
  /\ BoardTypeOK /\ RowsOK /\ TxsOK /\ Owners /\ Times
  /\ EvictedLost /\ TurnedAwayLost /\ Full

LEMMA BoardInitInv == BoardInit => BoardInv
<1> SUFFICES ASSUME BoardInit PROVE BoardInv OBVIOUS
<1>1. None \in Nat /\ None = 0 BY DEF None
<1>2. \A t \in Txs : tx[t] = NoTx /\ tx[t].pc = "idle" /\ tx[t].victim = None /\ tx[t].at = None
  BY DEF BoardInit, NoTx
<1>3. BoardTypeOK BY <1>1, BoardAssumption DEF BoardInit, BoardTypeOK, NoTx
<1>4. RowsOK BY DEF BoardInit, RowsOK
<1>5. TxsOK BY <1>2 DEF TxsOK, TxOK, VictimLost, RejectedLost, Rejected
<1>6. Owners BY <1>2 DEF Owners
<1>7. Times BY <1>1, <1>2 DEF BoardInit, Times
<1>8. EvictedLost BY DEF BoardInit, EvictedLost
<1>9. TurnedAwayLost BY DEF BoardInit, TurnedAwayLost, Eligible
<1>10. Full BY <1>2 DEF BoardInit, Full, Crowded, Rejected, Eligible
<1> QED BY <1>3, <1>4, <1>5, <1>6, <1>7, <1>8, <1>9, <1>10 DEF BoardInv

\* A step of one completion that commits nothing.
LEMMA QuietStep ==
  ASSUME BoardInv, UNCHANGED <<result, entry, added>>, clock' \in {clock, clock + 1},
         rollbacks' \in 0 .. MaxRollbacks,
         NEW t \in Txs, NEW x \in TxRow, tx' = [tx EXCEPT ![t] = x],
         TxOK(x), VictimLost(x), RejectedLost(x),
         x.pc # "idle" => \A u \in Txs \ {t} : tx[u].exp # x.exp,
         x.at < clock', x.at # None => /\ \A e \in Experiments : added[e] # x.at
                                       /\ \A u \in Txs \ {t} : tx[u].at # x.at,
         Undeleted /\ Crowded(x) => Cardinality(Active) >= K
  PROVE  BoardInv'
<1>1. tx \in [Txs -> TxRow] /\ clock \in Nat \ {0} /\ added \in [Experiments -> Nat]
  BY DEF BoardInv, BoardTypeOK, TxRow
<1>2. tx' \in [Txs -> TxRow] /\ tx'[t] = x /\ \A u \in Txs \ {t} : tx'[u] = tx[u] BY <1>1
<1>3. clock' \in Nat \ {0} /\ clock <= clock' BY <1>1
<1>4. BoardTypeOK'
  BY <1>2, <1>3 DEF BoardInv, BoardTypeOK, TxRow
<1>5. RowsOK' BY DEF BoardInv, RowsOK
<1>6. ASSUME NEW u \in Txs PROVE (TxOK(tx[u]) /\ VictimLost(tx[u]) /\ RejectedLost(tx[u]))'
  <2>1. TxOK(tx'[u]) /\ VictimLost(tx'[u]) /\ RejectedLost(tx'[u])
    BY <1>2, Zenon DEF BoardInv, TxsOK
  <2>2. TxOK(tx[u])' BY <2>1 DEF TxOK
  <2>3. EverAdmitted' = EverAdmitted BY DEF EverAdmitted
  <2>4. VictimLost(tx[u])' BY <2>1, <2>3 DEF VictimLost, Beaters, Before
  <2>5. RejectedLost(tx[u])' BY <2>1, <2>3 DEF RejectedLost, Rejected, AtLeast
  <2> QED BY <2>2, <2>4, <2>5
<1>7. TxsOK' BY <1>6 DEF TxsOK
<1>8. Owners'
  <2> SUFFICES ASSUME NEW u \in Txs, NEW w \in Txs, u # w, tx'[u].pc # "idle"
               PROVE  tx'[w].exp # tx'[u].exp
    BY DEF Owners
  <2>1. CASE u = t BY <1>2, <2>1
  <2>2. CASE w = t
    <3>1. tx'[u] = tx[u] /\ tx[u].pc # "idle" BY <1>2, <2>2
    <3>2. tx[u].exp \in Experiments BY <3>1 DEF BoardInv, TxsOK, TxOK
    <3>3. CASE x.pc = "idle"
      <4>1. x.exp = None BY <3>3 DEF TxOK, NoTx
      <4> QED BY <1>2, <2>2, <3>1, <3>2, <4>1, BoardAssumption
    <3>4. CASE x.pc # "idle" BY <1>2, <2>2, <3>1, <3>4
    <3> QED BY <3>3, <3>4
  <2>3. CASE u # t /\ w # t BY <1>2, <2>3 DEF BoardInv, Owners
  <2> QED BY <2>1, <2>2, <2>3
<1>9. Times'
  <2>1. \A u \in Txs : tx[u].at \in Nat /\ x.at \in Nat BY <1>1 DEF TxRow
  <2>2. Times BY DEF BoardInv
  <2>3. \A e \in Experiments : added'[e] < clock' BY <1>1, <1>3, <2>2 DEF Times
  <2>4. \A u \in Txs : tx'[u].at < clock' BY <1>1, <1>2, <1>3, <2>1, <2>2 DEF Times
  <2>5. \A e, f \in Experiments : e # f /\ added'[e] # None => added'[e] # added'[f]
    BY <2>2 DEF Times
  <2>6. \A e \in Experiments, u \in Txs : added'[e] # None => tx'[u].at # added'[e]
    BY <1>2, <2>2 DEF Times
  <2>7. \A u, w \in Txs : u # w /\ tx'[u].at # None => tx'[u].at # tx'[w].at
    BY <1>2, <2>2 DEF Times
  <2> QED BY <2>3, <2>4, <2>5, <2>6, <2>7 DEF Times, None
<1>10. EvictedLost' BY DEF BoardInv, EvictedLost, Beaters, EverAdmitted, Before
<1>11. TurnedAwayLost' BY DEF BoardInv, TurnedAwayLost, AtLeast, EverAdmitted, Eligible
<1>12. Full'
  <2>1. Active' = Active /\ Eligible' = Eligible /\ (Undeleted' <=> Undeleted)
    BY DEF Active, Eligible, Undeleted
  <2>2. ASSUME Undeleted, NEW u \in Txs, Crowded(tx'[u]) PROVE Cardinality(Active) >= K
    <3>1. CASE u = t BY <1>2, <2>2, <3>1
    <3>2. CASE u # t BY <1>2, <2>2, <3>2 DEF BoardInv, Full
    <3> QED BY <3>1, <3>2
  <2>3. Undeleted /\ Eligible \ Active # {} => Cardinality(Active) >= K BY DEF BoardInv, Full
  <2> QED BY <2>1, <2>2, <2>3 DEF Full, Crowded, Rejected
<1> QED BY <1>4, <1>5, <1>7, <1>8, <1>9, <1>10, <1>11, <1>12 DEF BoardInv

-----------------------------------------------------------------------------
(* The leaderboard: every step                                             *)

\* The facts of a completion that the steps use.
LEMMA TxFacts ==
  ASSUME BoardInv, NEW t \in Txs
  PROVE  /\ tx \in [Txs -> TxRow] /\ tx[t] \in TxRow
         /\ TxOK(tx[t]) /\ VictimLost(tx[t]) /\ RejectedLost(tx[t])
         /\ tx[t].at < clock /\ clock \in Nat \ {0} /\ tx[t].at \in Nat
         /\ tx[t].pc # "idle" => \A u \in Txs \ {t} : tx[u].exp # tx[t].exp
         /\ tx[t].at # None => /\ \A e \in Experiments : added[e] # tx[t].at
                               /\ \A u \in Txs \ {t} : tx[u].at # tx[t].at
         /\ Undeleted /\ Crowded(tx[t]) => Cardinality(Active) >= K
         /\ rollbacks \in 0 .. MaxRollbacks /\ None = 0
<1>1. tx \in [Txs -> TxRow] /\ clock \in Nat \ {0} /\ rollbacks \in 0 .. MaxRollbacks
  BY DEF BoardInv, BoardTypeOK, TxRow
<1>2. tx[t] \in TxRow /\ tx[t].at \in Nat BY <1>1 DEF TxRow
<1>3. TxOK(tx[t]) /\ VictimLost(tx[t]) /\ RejectedLost(tx[t]) BY DEF BoardInv, TxsOK
<1>4. tx[t].pc # "idle" => \A u \in Txs \ {t} : tx[u].exp # tx[t].exp BY DEF BoardInv, Owners
<1>5. /\ tx[t].at < clock
      /\ tx[t].at # None => /\ \A e \in Experiments : added[e] # tx[t].at
                            /\ \A u \in Txs \ {t} : tx[u].at # tx[t].at
  BY DEF BoardInv, Times
<1>6. Undeleted /\ Crowded(tx[t]) => Cardinality(Active) >= K BY DEF BoardInv, Full
<1> QED BY <1>1, <1>2, <1>3, <1>4, <1>5, <1>6 DEF None

\* The rows on the board are admitted, at different times.
LEMMA BoardRows ==
  ASSUME BoardInv
  PROVE  /\ Ordered(EverAdmitted) /\ Ordered(Active) /\ Active \subseteq EverAdmitted
         /\ \A S \in SUBSET EverAdmitted : IsFiniteSet(S) /\ Cardinality(S) \in Nat
<1>1. added \in [Experiments -> Nat] BY DEF BoardInv, BoardTypeOK
<1>2. Active \subseteq EverAdmitted BY DEF Active, EverAdmitted, BoardInv, RowsOK
<1>3. Ordered(EverAdmitted) BY <1>1 DEF Ordered, EverAdmitted, BoardInv, Times
<1>4. Ordered(Active) BY <1>2, <1>3 DEF Ordered
<1>5. EverAdmitted \subseteq Experiments BY DEF EverAdmitted
<1> QED BY <1>2, <1>3, <1>4, <1>5, OrderedIsFinite

LEMMA NoTxRow ==
  ASSUME BoardInv
  PROVE  /\ NoTx \in TxRow /\ TxOK(NoTx) /\ VictimLost(NoTx) /\ RejectedLost(NoTx)
         /\ NoTx.pc = "idle" /\ NoTx.at = None /\ NoTx.victim = None /\ ~Crowded(NoTx)
<1>1. /\ NoTx.pc = "idle" /\ NoTx.at = None /\ NoTx.victim = None /\ NoTx.exp = None
      /\ NoTx \in TxRow
  BY DEF NoTx, TxRow, None
<1> QED BY <1>1 DEF TxOK, VictimLost, RejectedLost, Rejected, Crowded

LEMMA BeginStep ==
  ASSUME BoardInv, NEW t \in Txs, Begin(t)
  PROVE  BoardInv'
<1>1. PICK e \in Experiments :
        /\ tx[t].pc = "idle" /\ result[e] = "none"
        /\ \A u \in Txs : tx[u].exp # e
        /\ tx' = [tx EXCEPT ![t] = [NoTx EXCEPT !.exp = e,
                                      !.pc = IF e \in Ineligible THEN "commit" ELSE "read"]]
  BY Zenon DEF Begin
<1>2. PICK x : x = [NoTx EXCEPT !.exp = e, !.pc = IF e \in Ineligible THEN "commit" ELSE "read"] OBVIOUS
<1>3. /\ x \in TxRow /\ x.exp = e /\ x.victim = None /\ x.at = None
      /\ x.pc = IF e \in Ineligible THEN "commit" ELSE "read"
  BY <1>2 DEF NoTx, TxRow, None
<1>4. TxOK(x) BY <1>1, <1>3 DEF TxOK
<1>5. VictimLost(x) /\ RejectedLost(x) /\ ~Crowded(x)
  BY <1>3 DEF VictimLost, RejectedLost, Rejected, Crowded
<1>6. UNCHANGED <<result, entry, added, clock, rollbacks>> BY DEF Begin
<1>7. rollbacks' \in 0 .. MaxRollbacks /\ x.at < clock' BY <1>3, <1>6, TxFacts
<1> QED BY <1>1, <1>2, <1>3, <1>4, <1>5, <1>6, <1>7, QuietStep

\* What a full board says of those who are below its lowest, and of the lowest.
LEMMA LowestOfTop ==
  ASSUME BoardInv, NEW top, top = TopOf(Active), ~(Cardinality(top) < K)
  PROVE  /\ Lowest(top) \in EverAdmitted
         /\ Cardinality(Active) >= K
         /\ Cardinality(Beaters(Lowest(top))) >= K - 1
         /\ \A e \in Experiments : Score[e] <= Score[Lowest(top)] => Cardinality(AtLeast(e)) >= K
<1>1. Ordered(top) /\ top \subseteq Active /\ top \subseteq EverAdmitted BY BoardRows, TopSize
<1>2. IsFiniteSet(top) /\ Cardinality(top) \in Nat /\ K \in Nat \ {0}
  BY <1>1, BoardRows, BoardAssumption
<1>3. Cardinality(top) >= K /\ Cardinality(top) # 0 BY <1>2
<1>4. top # {} BY <1>3, FS_EmptySet
<1>5. Lowest(top) \in top /\ \A x \in top \ {Lowest(top)} : Before(x, Lowest(top))
  BY <1>1, <1>4, LowestIsLast
<1>6. IsFiniteSet(top \ {Lowest(top)}) /\ Cardinality(top \ {Lowest(top)}) >= K - 1
  <2>1. Cardinality(top \ {Lowest(top)}) = Cardinality(top) - 1 BY <1>2, <1>5, FS_RemoveElement
  <2> QED BY <1>2, <1>3, <2>1, FS_RemoveElement
<1>7. Cardinality(Beaters(Lowest(top))) >= K - 1
  <2>1. top \ {Lowest(top)} \subseteq Beaters(Lowest(top)) BY <1>1, <1>5 DEF Beaters
  <2>2. IsFiniteSet(Beaters(Lowest(top))) /\ Cardinality(Beaters(Lowest(top))) \in Nat
    BY BoardRows DEF Beaters
  <2>3. Cardinality(top \ {Lowest(top)}) <= Cardinality(Beaters(Lowest(top))) BY <2>1, <2>2, FS_Subset
  <2>4. Cardinality(top \ {Lowest(top)}) \in Nat BY <1>6, FS_CardinalityType
  <2> QED BY <1>2, <1>6, <2>2, <2>3, <2>4
<1>8. Cardinality(Active) >= K
  <2>1. IsFiniteSet(Active) /\ Cardinality(Active) \in Nat BY BoardRows
  <2>2. Cardinality(top) <= Cardinality(Active) BY <1>1, <2>1, FS_Subset
  <2> QED BY <1>2, <1>3, <2>1, <2>2
<1>9. ASSUME NEW e \in Experiments, Score[e] <= Score[Lowest(top)]
      PROVE  Cardinality(AtLeast(e)) >= K
  <2>1. \A x \in Experiments : Score[x] \in Int BY BoardAssumption
  <2>2. \A x \in top : x \in Experiments BY <1>1 DEF EverAdmitted
  <2>3. \A x \in top : Score[x] >= Score[Lowest(top)] BY <1>5, <2>1, <2>2 DEF Before
  <2>4. top \subseteq AtLeast(e) BY <1>1, <1>5, <1>9, <2>1, <2>2, <2>3 DEF AtLeast
  <2>5. IsFiniteSet(AtLeast(e)) /\ Cardinality(AtLeast(e)) \in Nat BY BoardRows DEF AtLeast
  <2>6. Cardinality(top) <= Cardinality(AtLeast(e)) BY <2>4, <2>5, FS_Subset
  <2> QED BY <1>2, <1>3, <2>5, <2>6
<1> QED BY <1>1, <1>5, <1>7, <1>8, <1>9

LEMMA ReadBoardStep ==
  ASSUME BoardInv, NEW t \in Txs, ReadBoard(t)
  PROVE  BoardInv'
<1> DEFINE top == TopOf(Active)
<1>1. PICK next : next = Decide(tx[t].exp, top) OBVIOUS
<1>2. /\ tx[t].pc = "read" /\ UNCHANGED <<result, entry, added, clock, rollbacks>>
      /\ tx' = [tx EXCEPT ![t].pc = next.pc, ![t].victim = next.victim]
  BY <1>1 DEF ReadBoard
<1>3. PICK x : x = [tx[t] EXCEPT !.pc = next.pc, !.victim = next.victim] OBVIOUS
<1>4. tx' = [tx EXCEPT ![t] = x] BY <1>2, <1>3, TxFacts
<1>5. /\ tx[t].exp \in Experiments /\ tx[t].exp \notin Ineligible /\ tx[t].at = None
      /\ result[tx[t].exp] = "none" /\ tx[t] \in TxRow
  BY <1>2, TxFacts DEF TxOK
<1>6. PICK e \in Experiments : e = tx[t].exp BY <1>5
<1>7. \/ next = [pc |-> "insert", victim |-> None]
      \/ /\ next = [pc |-> "commit", victim |-> None]
         /\ ~(Cardinality(top) < K) /\ Score[e] <= Score[Lowest(top)]
      \/ /\ next = [pc |-> "deactivate", victim |-> Lowest(top)]
         /\ ~(Cardinality(top) < K) /\ ~(Score[e] <= Score[Lowest(top)])
  BY <1>1, <1>6 DEF Decide
<1>8. /\ ~(Cardinality(top) < K) =>
           /\ Lowest(top) \in EverAdmitted /\ Cardinality(Active) >= K
           /\ Cardinality(Beaters(Lowest(top))) >= K - 1
           /\ Score[e] <= Score[Lowest(top)] => Cardinality(AtLeast(e)) >= K
  BY LowestOfTop
<1> HIDE DEF top
<1>9. /\ next.pc \in {"insert", "commit", "deactivate"}
      /\ next.victim \in Experiments \cup {None}
      /\ x \in TxRow /\ x.pc = next.pc /\ x.victim = next.victim /\ x.exp = e /\ x.at = None
  <2>1. next.pc \in {"insert", "commit", "deactivate"} /\ next.victim \in Experiments \cup {None}
    BY <1>7, <1>8 DEF EverAdmitted
  <2> QED BY <1>3, <1>5, <1>6, <2>1 DEF TxRow
<1>10. Lowest(top) \in EverAdmitted => Lowest(top) # None BY BoardAssumption DEF EverAdmitted
<1>11. TxOK(x) BY <1>5, <1>6, <1>7, <1>8, <1>9, <1>10 DEF TxOK
<1>12. VictimLost(x)
  <2>1. \A y \in Experiments : Score[y] \in Int BY BoardAssumption
  <2>2. CASE next.victim = None BY <1>9, <2>2 DEF VictimLost
  <2>3. CASE next.victim # None
    <3>1. x.victim = Lowest(top) /\ ~(Cardinality(top) < K) /\ ~(Score[e] <= Score[Lowest(top)])
      BY <1>7, <1>9, <2>3
    <3>2. Lowest(top) \in Experiments BY <1>8, <3>1 DEF EverAdmitted
    <3>3. Score[e] > Score[Lowest(top)] BY <2>1, <3>1, <3>2
    <3> QED BY <1>8, <1>9, <3>1, <3>3 DEF VictimLost
  <2> QED BY <2>2, <2>3
<1>13. RejectedLost(x)
  <2>1. CASE next.pc # "commit" BY <1>9, <2>1 DEF RejectedLost, Rejected
  <2>2. CASE next.pc = "commit"
    <3>1. ~(Cardinality(top) < K) /\ Score[e] <= Score[Lowest(top)] BY <1>7, <2>2
    <3>2. Cardinality(AtLeast(e)) >= K BY <1>8, <3>1
    <3> QED BY <1>9, <3>2 DEF RejectedLost
  <2> QED BY <2>1, <2>2
<1>14. Crowded(x) => Cardinality(Active) >= K BY <1>7, <1>8, <1>9 DEF Crowded, Rejected
<1>15. \A u \in Txs \ {t} : tx[u].exp # x.exp BY <1>2, <1>6, <1>9, TxFacts
<1>16. x.at < clock' /\ rollbacks' \in 0 .. MaxRollbacks BY <1>2, <1>9, TxFacts
<1> QED BY <1>2, <1>4, <1>9, <1>11, <1>12, <1>13, <1>14, <1>15, <1>16, QuietStep

LEMMA DeactivateStep ==
  ASSUME BoardInv, NEW t \in Txs, Deactivate(t)
  PROVE  BoardInv'
<1>1. /\ tx[t].pc = "deactivate" /\ UNCHANGED <<result, entry, added, clock, rollbacks>>
      /\ tx' = [tx EXCEPT ![t].pc = "insert"]
  BY DEF Deactivate
<1>2. PICK x : x = [tx[t] EXCEPT !.pc = "insert"] OBVIOUS
<1>3. tx' = [tx EXCEPT ![t] = x] /\ tx[t] \in TxRow BY <1>1, <1>2, TxFacts
<1>4. /\ x \in TxRow /\ x.pc = "insert" /\ x.exp = tx[t].exp /\ x.victim = tx[t].victim
      /\ x.at = tx[t].at
  BY <1>2, <1>3 DEF TxRow
<1>5. TxOK(x) /\ VictimLost(x) /\ RejectedLost(x) /\ x.at = None
  BY <1>1, <1>4, TxFacts DEF TxOK, VictimLost, RejectedLost, Rejected
<1>6. Crowded(x) => Crowded(tx[t]) BY <1>4 DEF Crowded, Rejected
<1>7. \A u \in Txs \ {t} : tx[u].exp # x.exp BY <1>1, <1>4, TxFacts
<1>8. x.at < clock' /\ rollbacks' \in 0 .. MaxRollbacks BY <1>1, <1>4, TxFacts
<1>9. Undeleted /\ Crowded(x) => Cardinality(Active) >= K BY <1>6, TxFacts
<1> QED BY <1>1, <1>3, <1>4, <1>5, <1>7, <1>8, <1>9, QuietStep

LEMMA InsertEntryStep ==
  ASSUME BoardInv, NEW t \in Txs, InsertEntry(t)
  PROVE  BoardInv'
<1>1. /\ tx[t].pc = "insert" /\ UNCHANGED <<result, entry, added, rollbacks>> /\ clock' = clock + 1
      /\ tx' = [tx EXCEPT ![t].pc = "commit", ![t].at = clock]
  BY DEF InsertEntry
<1>2. PICK x : x = [tx[t] EXCEPT !.pc = "commit", !.at = clock] OBVIOUS
<1>3. tx' = [tx EXCEPT ![t] = x] /\ tx[t] \in TxRow /\ clock \in Nat \ {0} BY <1>1, <1>2, TxFacts
<1>4. /\ x \in TxRow /\ x.pc = "commit" /\ x.exp = tx[t].exp /\ x.victim = tx[t].victim
      /\ x.at = clock /\ clock # None
  BY <1>2, <1>3 DEF TxRow, None
<1>5. TxOK(x) /\ VictimLost(x) /\ RejectedLost(x)
  BY <1>1, <1>4, TxFacts DEF TxOK, VictimLost, RejectedLost, Rejected
<1>6. Crowded(x) => Crowded(tx[t]) BY <1>4 DEF Crowded, Rejected
<1>7. \A u \in Txs \ {t} : tx[u].exp # x.exp BY <1>1, <1>4, TxFacts
<1>8. x.at < clock' /\ rollbacks' \in 0 .. MaxRollbacks BY <1>1, <1>3, <1>4, TxFacts
<1>9. Undeleted /\ Crowded(x) => Cardinality(Active) >= K BY <1>6, TxFacts
<1>10. /\ \A e \in Experiments : added[e] # x.at
       /\ \A u \in Txs \ {t} : tx[u].at # x.at
  <2>1. added \in [Experiments -> Nat] /\ \A u \in Txs : tx[u].at \in Nat
    BY TxFacts DEF BoardInv, BoardTypeOK
  <2> QED BY <1>3, <1>4, <2>1 DEF BoardInv, Times
<1> QED BY <1>1, <1>3, <1>4, <1>5, <1>7, <1>8, <1>9, <1>10, QuietStep

LEMMA RollbackStep ==
  ASSUME BoardInv, NEW t \in Txs, Rollback(t)
  PROVE  BoardInv'
<1>1. /\ tx' = [tx EXCEPT ![t] = NoTx] /\ UNCHANGED <<result, entry, added, clock>>
      /\ rollbacks < MaxRollbacks /\ rollbacks' = rollbacks + 1
  BY DEF Rollback
<1>2. rollbacks' \in 0 .. MaxRollbacks BY <1>1, TxFacts, BoardAssumption
<1>3. NoTx.at < clock' BY <1>1, NoTxRow, TxFacts
<1> QED BY <1>1, <1>2, <1>3, NoTxRow, QuietStep

-----------------------------------------------------------------------------
(* The leaderboard: commits and deletions                                  *)

\* What a commit changes.
LEMMA CommitEffect ==
  ASSUME BoardInv, NEW t \in Txs, Commit(t), NEW e, e = tx[t].exp
  PROVE  /\ e \in Experiments /\ result[e] = "none" /\ entry[e] = "none" /\ added[e] = None
         /\ result' = [result EXCEPT ![e] = "stored"]
         /\ added' = [added EXCEPT ![e] = tx[t].at]
         /\ entry' = [x \in Experiments |->
               IF x = e /\ tx[t].at # None THEN "active"
               ELSE IF x = tx[t].victim /\ entry[x] = "active" THEN "inactive" ELSE entry[x]]
         /\ tx' = [tx EXCEPT ![t] = NoTx] /\ tx[t].pc = "commit"
         /\ UNCHANGED <<clock, rollbacks>>
         /\ EverAdmitted' = IF tx[t].at # None THEN EverAdmitted \cup {e} ELSE EverAdmitted
         /\ e \notin EverAdmitted
         /\ \A x \in EverAdmitted : added'[x] = added[x]
<1>1. tx[t].pc = "commit" BY DEF Commit
<1>2. e \in Experiments /\ result[e] = "none" BY <1>1, TxFacts DEF TxOK
<1>3. entry[e] = "none" /\ added[e] = None BY <1>2 DEF BoardInv, RowsOK
<1>4. /\ result' = [result EXCEPT ![e] = "stored"]
      /\ added' = [added EXCEPT ![e] = tx[t].at]
      /\ entry' = [x \in Experiments |->
            IF x = e /\ tx[t].at # None THEN "active"
            ELSE IF x = tx[t].victim /\ entry[x] = "active" THEN "inactive" ELSE entry[x]]
      /\ tx' = [tx EXCEPT ![t] = NoTx] /\ UNCHANGED <<clock, rollbacks>>
  BY DEF Commit
<1>5. added \in [Experiments -> Nat] BY DEF BoardInv, BoardTypeOK
<1>6. \A x \in Experiments : added'[x] = IF x = e THEN tx[t].at ELSE added[x] BY <1>2, <1>4, <1>5
<1>7. EverAdmitted' = {x \in Experiments : added'[x] # None} BY DEF EverAdmitted, None
<1>8. EverAdmitted' = IF tx[t].at # None THEN EverAdmitted \cup {e} ELSE EverAdmitted
  BY <1>2, <1>3, <1>6, <1>7 DEF EverAdmitted
<1> QED BY <1>1, <1>2, <1>3, <1>4, <1>6, <1>8 DEF EverAdmitted

\* Those who beat an admitted Experiment, or keep one out, are never fewer.
LEMMA BeatersGrow ==
  ASSUME EverAdmitted \subseteq EverAdmitted',
         \A x \in EverAdmitted : added'[x] = added[x]
  PROVE  /\ \A e \in EverAdmitted : Cardinality(Beaters(e)) <= Cardinality(Beaters(e)')
         /\ \A e \in Experiments : Cardinality(AtLeast(e)) <= Cardinality(AtLeast(e)')
<1>1. ASSUME NEW e \in EverAdmitted PROVE Cardinality(Beaters(e)) <= Cardinality(Beaters(e)')
  <2>1. Beaters(e)' = {x \in EverAdmitted' : Score[x] > Score[e] \/ (Score[x] = Score[e] /\ added'[x] < added'[e])}
    BY DEF Beaters, Before
  <2>2. Beaters(e) \subseteq Beaters(e)' BY <2>1 DEF Beaters, Before
  <2>3. Beaters(e)' \subseteq Experiments BY <2>1 DEF EverAdmitted
  <2>4. IsFiniteSet(Beaters(e)') BY <2>3, OrderedIsFinite
  <2> QED BY <2>2, <2>4, FS_Subset
<1>2. ASSUME NEW e \in Experiments PROVE Cardinality(AtLeast(e)) <= Cardinality(AtLeast(e)')
  <2>1. AtLeast(e)' = {x \in EverAdmitted' : Score[x] >= Score[e]} BY DEF AtLeast
  <2>2. AtLeast(e) \subseteq AtLeast(e)' BY <2>1 DEF AtLeast
  <2>3. AtLeast(e)' \subseteq Experiments BY <2>1 DEF EverAdmitted
  <2>4. IsFiniteSet(AtLeast(e)') BY <2>3, OrderedIsFinite
  <2> QED BY <2>2, <2>4, FS_Subset
<1> QED BY <1>1, <1>2

\* A commit that evicts puts its own Experiment in the place of the victim.
LEMMA ActiveGrows ==
  ASSUME BoardInv, NEW t \in Txs, Commit(t), NEW e, e = tx[t].exp
  PROVE  /\ Active' = IF tx[t].at # None THEN (Active \ {tx[t].victim}) \cup {e} ELSE Active
         /\ Cardinality(Active) <= Cardinality(Active')
         /\ Cardinality(Active) \in Nat /\ Cardinality(Active') \in Nat
<1> DEFINE v == tx[t].victim
<1>1. /\ e \in Experiments /\ entry[e] = "none"
      /\ entry' = [x \in Experiments |->
            IF x = e /\ tx[t].at # None THEN "active"
            ELSE IF x = v /\ entry[x] = "active" THEN "inactive" ELSE entry[x]]
  BY CommitEffect
<1>2. Active' = {x \in Experiments : entry'[x] = "active"} BY DEF Active
<1>3. tx[t].at = None => v = None BY CommitEffect, TxFacts DEF TxOK
<1>4. e \notin Active BY <1>1 DEF Active
<1>5. Active' = IF tx[t].at # None THEN (Active \ {v}) \cup {e} ELSE Active
  <2>1. CASE tx[t].at # None BY <1>1, <1>2, <2>1 DEF Active
  <2>2. CASE tx[t].at = None
    <3>1. \A x \in Experiments : entry'[x] = entry[x] BY <1>1, <1>3, <2>2, BoardAssumption
    <3> QED BY <1>2, <2>2, <3>1 DEF Active
  <2> QED BY <2>1, <2>2
<1>6. Active \subseteq Experiments /\ Active' \subseteq Experiments BY <1>2 DEF Active
<1>7. /\ IsFiniteSet(Active) /\ Cardinality(Active) \in Nat
      /\ IsFiniteSet(Active') /\ Cardinality(Active') \in Nat
  BY <1>6, OrderedIsFinite
<1> HIDE DEF v
<1>8. Cardinality(Active) <= Cardinality(Active')
  <2>1. CASE tx[t].at = None BY <1>5, <1>7, <2>1
  <2>2. CASE tx[t].at # None
    <3>1. /\ IsFiniteSet(Active \ {v})
          /\ Cardinality(Active \ {v}) = IF v \in Active THEN Cardinality(Active) - 1 ELSE Cardinality(Active)
      BY <1>7, FS_RemoveElement
    <3>2. e \notin Active \ {v} BY <1>4
    <3>3. Cardinality((Active \ {v}) \cup {e}) = Cardinality(Active \ {v}) + 1
      BY <3>1, <3>2, FS_AddElement
    <3>4. Active' = (Active \ {v}) \cup {e} BY <1>5, <2>2
    <3>5. Cardinality(Active') = Cardinality(Active \ {v}) + 1 BY <3>3, <3>4
    <3> QED BY <1>7, <3>1, <3>5
  <2> QED BY <2>1, <2>2
<1> QED BY <1>5, <1>7, <1>8 DEF v

LEMMA CommitStep ==
  ASSUME BoardInv, NEW t \in Txs, Commit(t)
  PROVE  BoardInv'
<1>1. PICK e : e = tx[t].exp OBVIOUS
<1>2. /\ e \in Experiments /\ result[e] = "none" /\ entry[e] = "none" /\ added[e] = None
      /\ result' = [result EXCEPT ![e] = "stored"]
      /\ added' = [added EXCEPT ![e] = tx[t].at]
      /\ entry' = [x \in Experiments |->
            IF x = e /\ tx[t].at # None THEN "active"
            ELSE IF x = tx[t].victim /\ entry[x] = "active" THEN "inactive" ELSE entry[x]]
      /\ tx' = [tx EXCEPT ![t] = NoTx] /\ tx[t].pc = "commit"
      /\ UNCHANGED <<clock, rollbacks>>
      /\ EverAdmitted' = IF tx[t].at # None THEN EverAdmitted \cup {e} ELSE EverAdmitted
      /\ e \notin EverAdmitted
      /\ \A x \in EverAdmitted : added'[x] = added[x]
  BY <1>1, CommitEffect
<1>3. /\ result \in [Experiments -> {"none", "stored", "leaving", "deleted"}]
      /\ entry \in [Experiments -> {"none", "active", "inactive"}]
      /\ added \in [Experiments -> Nat] /\ clock \in Nat \ {0} /\ rollbacks \in 0 .. MaxRollbacks
      /\ tx \in [Txs -> TxRow] /\ tx[t].at \in Nat /\ tx[t].at < clock
      /\ \A x \in Experiments : entry[x] # "none" => result[x] = "stored" /\ x \notin Ineligible
  BY TxFacts DEF BoardInv, BoardTypeOK, TxRow
<1>4. /\ \A x \in Experiments : result'[x] = IF x = e THEN "stored" ELSE result[x]
      /\ \A x \in Experiments : added'[x] = IF x = e THEN tx[t].at ELSE added[x]
      /\ \A x \in Experiments : entry'[x] =
            IF x = e /\ tx[t].at # None THEN "active"
            ELSE IF x = tx[t].victim /\ entry[x] = "active" THEN "inactive" ELSE entry[x]
      /\ tx' \in [Txs -> TxRow] /\ tx'[t] = NoTx /\ \A u \in Txs \ {t} : tx'[u] = tx[u]
  BY <1>2, <1>3, NoTxRow
<1>5. /\ TxOK(tx[t]) /\ VictimLost(tx[t]) /\ RejectedLost(tx[t])
      /\ tx[t].at # None => e \notin Ineligible
      /\ tx[t].at = None => tx[t].victim = None
      /\ \A u \in Txs \ {t} : tx[u].exp # e
      /\ tx[t].at # None => /\ \A x \in Experiments : added[x] # tx[t].at
                            /\ \A u \in Txs \ {t} : tx[u].at # tx[t].at
  BY <1>1, <1>2, TxFacts DEF TxOK
<1>6. EverAdmitted \subseteq EverAdmitted' BY <1>2
<1>7. /\ \A x \in EverAdmitted : Cardinality(Beaters(x)) <= Cardinality(Beaters(x)')
      /\ \A x \in Experiments : Cardinality(AtLeast(x)) <= Cardinality(AtLeast(x)')
  BY <1>2, <1>6, BeatersGrow
<1>8. /\ \A x \in Experiments : /\ Cardinality(Beaters(x)) \in Nat /\ Cardinality(Beaters(x)') \in Nat
                                /\ Cardinality(AtLeast(x)) \in Nat /\ Cardinality(AtLeast(x)') \in Nat
      /\ K \in Nat \ {0}
  <2>1. EverAdmitted \subseteq Experiments /\ EverAdmitted' \subseteq Experiments BY DEF EverAdmitted
  <2>2. \A x \in Experiments : /\ Beaters(x) \subseteq Experiments /\ AtLeast(x) \subseteq Experiments
                               /\ Beaters(x)' \subseteq Experiments /\ AtLeast(x)' \subseteq Experiments
    BY <2>1 DEF Beaters, AtLeast
  <2> QED BY <2>2, OrderedIsFinite, BoardAssumption
<1>9. BoardTypeOK'
  <2>1. result' \in [Experiments -> {"none", "stored", "leaving", "deleted"}] BY <1>2, <1>3
  <2>2. entry' \in [Experiments -> {"none", "active", "inactive"}] BY <1>2, <1>3
  <2>3. added' \in [Experiments -> Nat] BY <1>2, <1>3
  <2>4. \A x \in Experiments : entry'[x] # "none" => result'[x] = "stored" /\ x \notin Ineligible
    BY <1>2, <1>3, <1>4, <1>5
  <2> QED BY <1>2, <1>3, <1>4, <2>1, <2>2, <2>3, <2>4 DEF BoardTypeOK, TxRow
<1>10. RowsOK'
  <2> SUFFICES ASSUME NEW x \in Experiments
               PROVE  /\ result'[x] = "none" => entry'[x] = "none" /\ added'[x] = None
                      /\ result'[x] = "stored" /\ added'[x] # None => entry'[x] # "none"
                      /\ entry'[x] # "none" => added'[x] # None
    BY DEF RowsOK, None
  <2>1. /\ result[x] = "none" => entry[x] = "none" /\ added[x] = None
        /\ result[x] = "stored" /\ added[x] # None => entry[x] # "none"
        /\ entry[x] # "none" => added[x] # None
    BY DEF BoardInv, RowsOK
  <2> QED BY <1>2, <1>4, <2>1
<1>11. TxsOK'
  <2> SUFFICES ASSUME NEW u \in Txs PROVE (TxOK(tx[u]) /\ VictimLost(tx[u]) /\ RejectedLost(tx[u]))'
    BY DEF TxsOK
  <2>1. CASE u = t
    <3>1. tx'[u].pc = "idle" /\ tx'[u] = NoTx /\ tx'[u].victim = None BY <1>4, <2>1, NoTxRow
    <3> QED BY <3>1 DEF TxOK, VictimLost, RejectedLost, Rejected, NoTx, None
  <2>2. CASE u # t
    <3>1. tx'[u] = tx[u] /\ TxOK(tx[u]) /\ VictimLost(tx[u]) /\ RejectedLost(tx[u]) /\ tx[u].exp # e
      BY <1>4, <1>5, <2>2, TxFacts
    <3>2. TxOK(tx[u])'
      <4>1. tx[u].exp \in Experiments => result'[tx[u].exp] = result[tx[u].exp] BY <1>4, <3>1
      <4> QED BY <3>1, <4>1 DEF TxOK, NoTx, None
    <3>3. VictimLost(tx[u])'
      <4> SUFFICES ASSUME tx[u].victim # None
                   PROVE  /\ tx[u].victim \in EverAdmitted'
                          /\ Score[tx[u].exp] > Score[tx[u].victim]
                          /\ \A v \in EverAdmitted : v = tx[u].victim => Cardinality(Beaters(v)') >= K - 1
        BY <3>1, <1>6 DEF VictimLost, None, Beaters, Before
      <4>1. /\ tx[u].victim \in EverAdmitted /\ Score[tx[u].exp] > Score[tx[u].victim]
            /\ Cardinality(Beaters(tx[u].victim)) >= K - 1
        BY <3>1 DEF VictimLost
      <4>2. PICK v \in EverAdmitted : v = tx[u].victim BY <4>1
      <4>3. Cardinality(Beaters(v)') >= K - 1 BY <1>7, <1>8, <4>1, <4>2 DEF EverAdmitted
      <4> QED BY <1>6, <4>1, <4>2, <4>3
    <3>4. RejectedLost(tx[u])'
      <4>1. CASE ~Rejected(tx[u]) BY <3>1, <4>1 DEF RejectedLost, Rejected, None
      <4>2. CASE Rejected(tx[u])
        <5>1. PICK v \in Experiments : v = tx[u].exp BY <3>1, <4>2 DEF Rejected, TxOK
        <5>2. Cardinality(AtLeast(v)') >= K BY <1>7, <1>8, <3>1, <4>2, <5>1 DEF RejectedLost
        <5> QED BY <3>1, <5>1, <5>2 DEF RejectedLost, AtLeast
      <4> QED BY <4>1, <4>2
    <3> QED BY <3>2, <3>3, <3>4
  <2> QED BY <2>1, <2>2
<1>12. Owners'
  <2> SUFFICES ASSUME NEW u \in Txs, NEW w \in Txs, u # w, tx'[u].pc # "idle"
               PROVE  tx'[w].exp # tx'[u].exp
    BY DEF Owners
  <2>1. u # t BY <1>4, NoTxRow
  <2>2. tx'[u] = tx[u] /\ tx[u].exp \in Experiments BY <1>4, <2>1, TxFacts DEF TxOK
  <2>3. CASE w = t
    <3>1. tx'[w].exp = None BY <1>4, <2>3 DEF NoTx
    <3> QED BY <2>2, <3>1, BoardAssumption
  <2>4. CASE w # t BY <1>4, <2>2, <2>4 DEF BoardInv, Owners
  <2> QED BY <2>3, <2>4
<1>13. Times'
  <2>1. Times /\ NoTx.at = None /\ None = 0 BY NoTxRow, TxFacts DEF BoardInv
  <2>2. clock' = clock BY <1>2
  <2>3. \A x \in Experiments : added'[x] < clock' BY <1>3, <1>4, <2>1, <2>2 DEF Times
  <2>4. \A u \in Txs : tx'[u].at < clock' BY <1>3, <1>4, <2>1, <2>2 DEF Times
  <2>5. \A x, y \in Experiments : x # y /\ added'[x] # None => added'[x] # added'[y]
    BY <1>4, <1>5, <2>1 DEF Times
  <2>6. \A x \in Experiments, u \in Txs : added'[x] # None => tx'[u].at # added'[x]
    BY <1>4, <1>5, <2>1 DEF Times
  <2>7. \A u, w \in Txs : u # w /\ tx'[u].at # None => tx'[u].at # tx'[w].at
    BY <1>4, <2>1 DEF Times
  <2> QED BY <2>3, <2>4, <2>5, <2>6, <2>7 DEF Times, None
<1>14. EvictedLost'
  <2> SUFFICES ASSUME NEW x \in Experiments, entry'[x] = "inactive"
               PROVE  Cardinality(Beaters(x)') >= K
    BY DEF EvictedLost
  <2>1. CASE entry[x] = "inactive"
    <3>1. x \in EverAdmitted BY <2>1 DEF BoardInv, RowsOK, EverAdmitted
    <3>2. Cardinality(Beaters(x)) >= K BY <2>1 DEF BoardInv, EvictedLost
    <3> QED BY <1>7, <1>8, <3>1, <3>2
  <2>2. CASE entry[x] # "inactive"
    <3>1. x = tx[t].victim BY <1>4, <2>2
    <3>2. x # None BY BoardAssumption
    <3>3. tx[t].at # None /\ e \in EverAdmitted' BY <1>2, <1>5, <3>1, <3>2
    <3>4. /\ x \in EverAdmitted /\ Score[e] > Score[x] /\ Cardinality(Beaters(x)) >= K - 1
      BY <1>1, <1>5, <3>1, <3>2 DEF VictimLost
    <3>5. Beaters(x)' = {y \in EverAdmitted' : Score[y] > Score[x] \/ (Score[y] = Score[x] /\ added'[y] < added'[x])}
      BY DEF Beaters, Before
    <3>6. Beaters(x) \cup {e} \subseteq Beaters(x)' BY <1>2, <1>6, <3>3, <3>4, <3>5 DEF Beaters, Before
    <3>7. e \notin Beaters(x) BY <1>2 DEF Beaters
    <3>8. IsFiniteSet(Beaters(x)) /\ IsFiniteSet(Beaters(x)')
      <4>1. Beaters(x) \subseteq Experiments BY DEF Beaters, EverAdmitted
      <4>2. Beaters(x)' \subseteq Experiments BY <3>5 DEF EverAdmitted
      <4> QED BY <4>1, <4>2, OrderedIsFinite
    <3>9. Cardinality(Beaters(x) \cup {e}) = Cardinality(Beaters(x)) + 1 BY <3>7, <3>8, FS_AddElement
    <3>10. Cardinality(Beaters(x) \cup {e}) <= Cardinality(Beaters(x)') BY <3>6, <3>8, FS_Subset
    <3> QED BY <1>8, <3>4, <3>9, <3>10
  <2> QED BY <2>1, <2>2
<1>15. TurnedAwayLost'
  <2>1. Eligible' = {x \in Experiments : result'[x] = "stored" /\ x \notin Ineligible} BY DEF Eligible
  <2> SUFFICES ASSUME NEW x \in Experiments, result'[x] = "stored", x \notin Ineligible, added'[x] = None
               PROVE  Cardinality(AtLeast(x)') >= K
    BY <2>1 DEF TurnedAwayLost, None
  <2>2. CASE x = e
    <3>1. tx[t].at = None BY <1>4, <2>2
    <3>2. Rejected(tx[t]) BY <1>1, <1>2, <2>2, <3>1 DEF Rejected
    <3>3. Cardinality(AtLeast(x)) >= K BY <1>1, <1>5, <2>2, <3>2 DEF RejectedLost
    <3> QED BY <1>7, <1>8, <3>3
  <2>3. CASE x # e
    <3>1. x \in Eligible /\ added[x] = None BY <1>4, <2>3 DEF Eligible
    <3>2. Cardinality(AtLeast(x)) >= K BY <3>1 DEF BoardInv, TurnedAwayLost
    <3> QED BY <1>7, <1>8, <3>2
  <2> QED BY <2>2, <2>3
<1>16. Full'
  <2>1. Undeleted' => Undeleted
    <3>1. Undeleted' = (\A x \in Experiments : result'[x] \in {"none", "stored"}) BY DEF Undeleted
    <3> QED BY <1>2, <1>4, <3>1 DEF Undeleted
  <2>2. /\ Active' = IF tx[t].at # None THEN (Active \ {tx[t].victim}) \cup {e} ELSE Active
        /\ Cardinality(Active) <= Cardinality(Active')
        /\ Cardinality(Active) \in Nat /\ Cardinality(Active') \in Nat
    BY <1>1, ActiveGrows
  <2>3. ASSUME Undeleted', Cardinality(Active) >= K PROVE Cardinality(Active') >= K
    BY <1>8, <2>2, <2>3
  <2>4. ASSUME Undeleted', NEW u \in Txs, Crowded(tx'[u]) PROVE Cardinality(Active') >= K
    <3>1. u # t BY <1>4, <2>4, NoTxRow
    <3>2. Crowded(tx[u]) BY <1>4, <2>4, <3>1
    <3> QED BY <2>1, <2>3, <2>4, <3>2, TxFacts
  <2>5. ASSUME Undeleted', NEW x \in Experiments, result'[x] = "stored", x \notin Ineligible,
               x \notin Active'
        PROVE  Cardinality(Active') >= K
    <3>1. CASE Crowded(tx[t]) BY <2>1, <2>3, <2>5, <3>1, TxFacts
    <3>2. CASE ~Crowded(tx[t])
      <4>1. x # e \/ tx[t].at # None BY <1>1, <1>2, <2>5, <3>2 DEF Crowded, Rejected
      <4>2. x # e BY <2>2, <2>5, <4>1
      <4>3. tx[t].victim = None BY <3>2 DEF Crowded
      <4>4. x # tx[t].victim BY <4>3, BoardAssumption
      <4>5. x \in Eligible \ Active BY <1>4, <2>2, <2>5, <4>2, <4>4 DEF Eligible
      <4>6. Cardinality(Active) >= K BY <2>1, <2>5, <4>5 DEF BoardInv, Full
      <4> QED BY <2>3, <2>5, <4>6
    <3> QED BY <3>1, <3>2
  <2>6. Eligible' = {x \in Experiments : result'[x] = "stored" /\ x \notin Ineligible} BY DEF Eligible
  <2>7. Undeleted' /\ Eligible' \ Active' # {} => Cardinality(Active') >= K
    <3> SUFFICES ASSUME Undeleted', Eligible' \ Active' # {} PROVE Cardinality(Active') >= K OBVIOUS
    <3>1. PICK x \in Eligible' : x \notin Active' OBVIOUS
    <3>2. x \in Experiments /\ result'[x] = "stored" /\ x \notin Ineligible BY <2>6, <3>1
    <3> QED BY <2>5, <3>1, <3>2
  <2> QED BY <2>4, <2>7 DEF Full, Crowded, Rejected, None
<1> QED BY <1>9, <1>10, <1>11, <1>12, <1>13, <1>14, <1>15, <1>16 DEF BoardInv

\* Whichever statement of a deletion commits, what was stored or half deleted is
\* so no more, and it has no entry.
LEMMA DeleteStep ==
  ASSUME BoardInv, RemoveEntry \/ RemoveExperiment
  PROVE  BoardInv'
<1>1. PICK e \in Experiments, gone \in {"leaving", "deleted"} :
        /\ result[e] \in {"stored", "leaving"}
        /\ result' = [result EXCEPT ![e] = gone]
        /\ entry' = [entry EXCEPT ![e] = "none"]
  <2>1. CASE RemoveExperiment
    <3>1. PICK e \in Experiments : /\ result[e] = "leaving" /\ entry' = entry
                                   /\ result' = [result EXCEPT ![e] = "deleted"]
      BY <2>1 DEF RemoveExperiment
    <3>2. entry[e] = "none" /\ entry \in [Experiments -> {"none", "active", "inactive"}]
      BY <3>1 DEF BoardInv, BoardTypeOK
    <3>3. entry' = [entry EXCEPT ![e] = "none"] BY <3>1, <3>2
    <3> QED BY <3>1, <3>3
  <2>2. CASE RemoveEntry BY <2>2 DEF RemoveEntry
  <2> QED BY <2>1, <2>2
<1>2. UNCHANGED <<added, tx, clock, rollbacks>>
  BY DEF RemoveEntry, RemoveExperiment
<1>3. /\ result \in [Experiments -> {"none", "stored", "leaving", "deleted"}]
      /\ entry \in [Experiments -> {"none", "active", "inactive"}]
  BY DEF BoardInv, BoardTypeOK
<1>4. /\ \A x \in Experiments : result'[x] = IF x = e THEN gone ELSE result[x]
      /\ \A x \in Experiments : entry'[x] = IF x = e THEN "none" ELSE entry[x]
  BY <1>1, <1>3
<1>5. EverAdmitted' = EverAdmitted BY <1>2 DEF EverAdmitted
<1>6. BoardTypeOK'
  <2>1. /\ result' \in [Experiments -> {"none", "stored", "leaving", "deleted"}]
        /\ entry' \in [Experiments -> {"none", "active", "inactive"}]
    BY <1>1, <1>3
  <2>2. \A x \in Experiments : entry'[x] # "none" => result'[x] = "stored" /\ x \notin Ineligible
    BY <1>4 DEF BoardInv, BoardTypeOK
  <2> QED BY <1>2, <2>1, <2>2 DEF BoardInv, BoardTypeOK
<1>7. RowsOK' BY <1>1, <1>2, <1>4 DEF BoardInv, RowsOK
<1>8. TxsOK'
  <2> SUFFICES ASSUME NEW u \in Txs PROVE (TxOK(tx[u]) /\ VictimLost(tx[u]) /\ RejectedLost(tx[u]))'
    BY DEF TxsOK
  <2>1. TxOK(tx[u]) /\ VictimLost(tx[u]) /\ RejectedLost(tx[u]) /\ tx'[u] = tx[u] BY <1>2, TxFacts
  <2>2. tx[u].exp \in Experiments /\ result[tx[u].exp] = "none" => result'[tx[u].exp] = "none"
    BY <1>1, <1>4
  <2>3. TxOK(tx[u])' BY <2>1, <2>2 DEF TxOK, NoTx, None
  <2>4. VictimLost(tx[u])' BY <1>2, <1>5, <2>1 DEF VictimLost, Beaters, Before, None
  <2>5. RejectedLost(tx[u])' BY <1>2, <1>5, <2>1 DEF RejectedLost, Rejected, AtLeast, None
  <2> QED BY <2>3, <2>4, <2>5
<1>9. Owners' BY <1>2 DEF BoardInv, Owners
<1>10. Times' BY <1>2 DEF BoardInv, Times, None
<1>11. EvictedLost'
  <2> SUFFICES ASSUME NEW x \in Experiments, entry'[x] = "inactive"
               PROVE  Cardinality(Beaters(x)') >= K
    BY DEF EvictedLost
  <2>1. Beaters(x)' = Beaters(x) BY <1>2, <1>5 DEF Beaters, Before
  <2> QED BY <1>4, <2>1 DEF BoardInv, EvictedLost
<1>12. TurnedAwayLost'
  <2>1. Eligible' = {x \in Experiments : result'[x] = "stored" /\ x \notin Ineligible} BY DEF Eligible
  <2> SUFFICES ASSUME NEW x \in Experiments, result'[x] = "stored", x \notin Ineligible, added'[x] = None
               PROVE  Cardinality(AtLeast(x)') >= K
    BY <2>1 DEF TurnedAwayLost, None
  <2>2. AtLeast(x)' = AtLeast(x) BY <1>5 DEF AtLeast
  <2>3. x \in Eligible /\ added[x] = None BY <1>2, <1>4 DEF Eligible
  <2> QED BY <2>2, <2>3 DEF BoardInv, TurnedAwayLost
<1>13. Full'
  <2>1. ~Undeleted' BY <1>4 DEF Undeleted
  <2> QED BY <2>1 DEF Full
<1> QED BY <1>6, <1>7, <1>8, <1>9, <1>10, <1>11, <1>12, <1>13 DEF BoardInv

\* The deletion of a scope leaves nothing to be ranked, and no completion that
\* could rank.
LEMMA ScopeStep ==
  ASSUME BoardInv, DeleteOfScope
  PROVE  BoardInv'
<1>1. /\ \A e \in Experiments : result'[e] = "deleted" /\ entry'[e] = "none"
      /\ result' \in [Experiments -> {"none", "stored", "leaving", "deleted"}]
      /\ entry' \in [Experiments -> {"none", "active", "inactive"}]
      /\ UNCHANGED <<added, tx, clock, rollbacks>>
  BY DEF DeleteOfScope
<1>2. BoardTypeOK' BY <1>1 DEF BoardInv, BoardTypeOK
<1>3. RowsOK' BY <1>1 DEF BoardInv, RowsOK
<1>4. TxsOK'
  <2> SUFFICES ASSUME NEW u \in Txs PROVE (TxOK(tx[u]) /\ VictimLost(tx[u]) /\ RejectedLost(tx[u]))'
    BY DEF TxsOK
  <2>1. TxOK(tx[u]) /\ tx'[u] = tx[u] /\ tx[u].pc = "idle" BY <1>1, TxFacts DEF DeleteOfScope
  <2>2. tx[u] = NoTx BY <2>1 DEF TxOK
  <2>3. TxOK(tx[u])' BY <2>1, <2>2 DEF TxOK, NoTx, None
  <2> QED BY <2>1, <2>2, <2>3 DEF VictimLost, RejectedLost, Rejected, NoTx, None
<1>5. Owners' BY <1>1 DEF BoardInv, Owners
<1>6. Times' BY <1>1 DEF BoardInv, Times, None
<1>7. EvictedLost' BY <1>1 DEF EvictedLost
<1>8. Eligible' = {} BY <1>1 DEF Eligible
<1>9. TurnedAwayLost' BY <1>8 DEF TurnedAwayLost
<1>10. Full'
  <2>1. \A u \in Txs : ~Crowded(tx[u])'
    <3> TAKE u \in Txs
    <3>1. tx'[u] = NoTx BY <1>1, TxFacts DEF TxOK, DeleteOfScope
    <3> QED BY <3>1 DEF Crowded, Rejected, NoTx, None
  <2> QED BY <1>8, <2>1 DEF Full
<1> QED BY <1>2, <1>3, <1>4, <1>5, <1>6, <1>7, <1>9, <1>10 DEF BoardInv

LEMMA BoardNextInv == BoardInv /\ [BoardNext]_boardVars => BoardInv'
<1> SUFFICES ASSUME BoardInv, [BoardNext]_boardVars PROVE BoardInv' OBVIOUS
<1>1. ASSUME NEW t \in Txs, Begin(t) PROVE BoardInv' BY <1>1, BeginStep
<1>2. ASSUME NEW t \in Txs, ReadBoard(t) PROVE BoardInv' BY <1>2, ReadBoardStep
<1>3. ASSUME NEW t \in Txs, Deactivate(t) PROVE BoardInv' BY <1>3, DeactivateStep
<1>4. ASSUME NEW t \in Txs, InsertEntry(t) PROVE BoardInv' BY <1>4, InsertEntryStep
<1>5. ASSUME NEW t \in Txs, Commit(t) PROVE BoardInv' BY <1>5, CommitStep
<1>6. ASSUME NEW t \in Txs, Rollback(t) PROVE BoardInv' BY <1>6, RollbackStep
<1>7. CASE RemoveEntry \/ RemoveExperiment BY <1>7, DeleteStep
<1>9. CASE DeleteOfScope BY <1>9, ScopeStep
<1>8. CASE UNCHANGED boardVars
  <2>1. UNCHANGED <<result, entry, added, tx, clock, rollbacks>> BY <1>8 DEF boardVars
  <2>2. (BoardTypeOK /\ RowsOK)' BY <2>1 DEF BoardInv, BoardTypeOK, RowsOK, None
  <2>3. EverAdmitted' = EverAdmitted BY <2>1 DEF EverAdmitted, None
  <2>4. TxsOK'
    BY <2>1, <2>3 DEF BoardInv, TxsOK, TxOK, VictimLost, RejectedLost, Rejected, Beaters, AtLeast,
       Before, None, NoTx
  <2>5. (Owners /\ Times)' BY <2>1 DEF BoardInv, Owners, Times, None
  <2>6. (EvictedLost /\ TurnedAwayLost)'
    BY <2>1, <2>3 DEF BoardInv, EvictedLost, TurnedAwayLost, Beaters, AtLeast, Before, Eligible, None
  <2>7. Full'
    BY <2>1 DEF BoardInv, Full, Crowded, Rejected, Undeleted, Active, Eligible, None
  <2> QED BY <2>2, <2>4, <2>5, <2>6, <2>7 DEF BoardInv
<1> QED BY <1>1, <1>2, <1>3, <1>4, <1>5, <1>6, <1>7, <1>8, <1>9 DEF BoardNext

LEMMA BoardInvIsInvariant == BoardSpec => []BoardInv
BY BoardInitInv, BoardNextInv, PTL DEF BoardSpec

-----------------------------------------------------------------------------
(* The leaderboard: its promises                                           *)

LEMMA BoardIsRight == BoardInv => BoardIsTheBest
<1> SUFFICES ASSUME BoardInv PROVE BoardIsTheBest OBVIOUS
<1>1. /\ Ordered(Active) /\ Active \subseteq EverAdmitted
      /\ \A S \in SUBSET EverAdmitted : IsFiniteSet(S) /\ Cardinality(S) \in Nat
      /\ K \in Nat \ {0} /\ \A x \in Experiments : Score[x] \in Int /\ added[x] \in Nat
  BY BoardRows, BoardAssumption DEF BoardInv, BoardTypeOK
<1>2. /\ Shown \subseteq Active
      /\ Cardinality(Shown) = IF Cardinality(Active) < K THEN Cardinality(Active) ELSE K
  BY <1>1, TopSize DEF Shown
<1>3. AbsentHasLost
  <2> DEFINE Winners(e) == {x \in EverAdmitted \ {e} :
                 Score[x] > Score[e]
                 \/ (Score[x] = Score[e] /\ (e \notin EverAdmitted \/ added[x] < added[e]))}
  <2> SUFFICES ASSUME NEW e \in Eligible, e \notin Shown PROVE Cardinality(Winners(e)) >= K
    BY DEF AbsentHasLost
  <2>1. e \in Experiments /\ result[e] = "stored" /\ e \notin Ineligible BY DEF Eligible
  <2>2. IsFiniteSet(Winners(e)) /\ Cardinality(Winners(e)) \in Nat BY <1>1
  <2>3. SUFFICES \E S \in SUBSET Winners(e) : Cardinality(S) >= K
    <3>1. PICK S \in SUBSET Winners(e) : Cardinality(S) >= K BY <2>3
    <3>2. IsFiniteSet(S) /\ Cardinality(S) <= Cardinality(Winners(e)) BY <2>2, <3>1, FS_Subset
    <3>3. Cardinality(S) \in Nat BY <3>2, FS_CardinalityType
    <3> HIDE DEF Winners
    <3> QED BY <1>1, <2>2, <3>1, <3>2, <3>3
  <2>4. CASE entry[e] = "active"
    <3>1. e \in Active BY <2>1, <2>4 DEF Active
    <3> DEFINE S == {x \in Active : Before(x, e)}
    <3>2. ~(Cardinality(S) < K) BY <3>1 DEF Shown, TopOf
    <3>3. S \subseteq Winners(e) BY <1>1, <3>1, BeforeIsTotal DEF Before
    <3>4. S \subseteq EverAdmitted BY <1>1
    <3>5. Cardinality(S) \in Nat BY <1>1, <3>4
    <3> HIDE DEF S, Winners
    <3>6. Cardinality(S) >= K BY <1>1, <3>2, <3>5
    <3> QED BY <3>3, <3>6
  <2>5. CASE entry[e] = "inactive"
    <3>1. Cardinality(Beaters(e)) >= K BY <2>1, <2>5 DEF BoardInv, EvictedLost
    <3>2. e \in EverAdmitted BY <2>1, <2>5 DEF BoardInv, RowsOK, EverAdmitted
    <3>3. Beaters(e) \subseteq Winners(e) BY <1>1, <2>1, <3>2 DEF Beaters, Before
    <3> QED BY <3>1, <3>3
  <2>6. CASE entry[e] = "none"
    <3>1. added[e] = None BY <2>1, <2>6 DEF BoardInv, RowsOK
    <3>2. Cardinality(AtLeast(e)) >= K BY <3>1 DEF BoardInv, TurnedAwayLost
    <3>3. e \notin EverAdmitted /\ EverAdmitted \subseteq Experiments BY <3>1 DEF EverAdmitted
    <3>4. AtLeast(e) \subseteq Winners(e) BY <1>1, <2>1, <3>3 DEF AtLeast
    <3> QED BY <3>2, <3>4
  <2> QED BY <2>1, <2>4, <2>5, <2>6 DEF BoardInv, BoardTypeOK
<1>4. BoardStaysFull
  <2> SUFFICES ASSUME Undeleted
               PROVE  Cardinality(Shown) = IF Cardinality(Eligible) < K THEN Cardinality(Eligible) ELSE K
    BY DEF BoardStaysFull, Undeleted
  <2>1. Active \subseteq Eligible BY DEF Active, Eligible, BoardInv, BoardTypeOK
  <2>2. IsFiniteSet(Eligible) /\ Cardinality(Eligible) \in Nat BY OrderedIsFinite DEF Eligible
  <2>3. Cardinality(Active) \in Nat /\ Cardinality(Active) <= Cardinality(Eligible)
    BY <1>1, <2>1, <2>2, FS_Subset
  <2>4. CASE Active = Eligible BY <1>2, <2>4
  <2>5. CASE Active # Eligible
    <3>1. Cardinality(Active) >= K BY <2>1, <2>5 DEF BoardInv, Full
    <3> QED BY <1>1, <1>2, <2>2, <2>3, <3>1
  <2> QED BY <2>4, <2>5
<1> QED BY <1>3, <1>4 DEF BoardIsTheBest, BoardInv

\* However completions, rollbacks and deletions interleave, who is not on the
\* board, and whose deletion has not begun, has lost to K Experiments that were
\* admitted; until a first deletion begins no place is left empty (submit,
\* getActiveTopK, rankEntries, cascadeDeleteStrategyArtifacts, deleteScope).
THEOREM BoardIsAlwaysTheBest == BoardSpec => []BoardIsTheBest
BY BoardInvIsInvariant, BoardIsRight, PTL

\* An Experiment leaves the board by its deletion or for a strictly better one
\* of the same commit, and never comes back (submit, deactivate).
THEOREM EvictionIsForBetter == BoardSpec => LeavesForBetter
<1> DEFINE Leaving ==
      \A y \in Experiments :
        /\ entry[y] = "active" /\ entry'[y] = "inactive" =>
             \E x \in Experiments : /\ entry[x] = "none" /\ entry'[x] = "active"
                                    /\ Score[x] > Score[y]
        /\ entry[y] = "inactive" => entry'[y] # "active"
<1>1. BoardInv /\ [BoardNext]_boardVars => [Leaving]_boardVars
  <2> SUFFICES ASSUME BoardInv, [BoardNext]_boardVars PROVE [Leaving]_boardVars OBVIOUS
  <2>1. CASE UNCHANGED entry BY <2>1
  <2>2. ASSUME NEW t \in Txs, Commit(t) PROVE Leaving
    <3>1. PICK e : e = tx[t].exp OBVIOUS
    <3>2. /\ e \in Experiments /\ entry[e] = "none" /\ tx[t].pc = "commit"
          /\ entry' = [x \in Experiments |->
                IF x = e /\ tx[t].at # None THEN "active"
                ELSE IF x = tx[t].victim /\ entry[x] = "active" THEN "inactive" ELSE entry[x]]
      BY <2>2, <3>1, CommitEffect
    <3>3. VictimLost(tx[t]) /\ (tx[t].at = None => tx[t].victim = None)
      BY <3>2, TxFacts DEF TxOK
    <3>4. ASSUME NEW y \in Experiments, entry[y] = "active", entry'[y] = "inactive"
          PROVE  \E x \in Experiments : entry[x] = "none" /\ entry'[x] = "active" /\ Score[x] > Score[y]
      <4>1. y = tx[t].victim /\ y # None BY <3>2, <3>4, BoardAssumption
      <4>2. Score[e] > Score[y] /\ tx[t].at # None BY <3>1, <3>3, <4>1 DEF VictimLost
      <4> QED BY <3>2, <4>2
    <3>5. \A y \in Experiments : entry[y] = "inactive" => entry'[y] # "active" BY <3>2
    <3> QED BY <3>4, <3>5
  <2>3. ASSUME RemoveEntry \/ DeleteOfScope PROVE Leaving
    <3>1. entry \in [Experiments -> {"none", "active", "inactive"}] BY DEF BoardInv, BoardTypeOK
    <3>2. \A y \in Experiments : entry'[y] = entry[y] \/ entry'[y] = "none"
      <4>1. CASE RemoveEntry BY <3>1, <4>1 DEF RemoveEntry
      <4>2. CASE DeleteOfScope BY <4>2 DEF DeleteOfScope
      <4> QED BY <2>3, <4>1, <4>2
    <3> QED BY <3>2
  <2>4. CASE UNCHANGED boardVars BY <2>4 DEF boardVars
  <2>5. ASSUME NEW t \in Txs,
               Begin(t) \/ ReadBoard(t) \/ Deactivate(t) \/ InsertEntry(t) \/ Rollback(t)
        PROVE  UNCHANGED entry
    <3>1. CASE Begin(t) BY <3>1 DEF Begin
    <3>2. CASE ReadBoard(t) BY <3>2 DEF ReadBoard
    <3>3. CASE Deactivate(t) BY <3>3 DEF Deactivate
    <3>4. CASE InsertEntry(t) BY <3>4 DEF InsertEntry
    <3>5. CASE Rollback(t) BY <3>5 DEF Rollback
    <3> QED BY <2>5, <3>1, <3>2, <3>3, <3>4, <3>5
  <2>6. CASE RemoveExperiment BY <2>6 DEF RemoveExperiment
  <2>7. UNCHANGED entry => Leaving OBVIOUS
  <2> QED BY <2>1, <2>2, <2>3, <2>4, <2>5, <2>6, <2>7 DEF BoardNext
<1>2. BoardSpec => [][Leaving]_boardVars BY <1>1, BoardInvIsInvariant, PTL DEF BoardSpec
<1> QED BY <1>2 DEF LeavesForBetter

-----------------------------------------------------------------------------
(* The simulation: decimal arithmetic                                      *)

LEMMA ProductOfNat == \A a \in Int, b \in Nat : (a <= 0 => a * b <= 0) /\ (a >= 0 => a * b >= 0)
OBVIOUS

LEMMA RoundedSign ==
  ASSUME NEW n \in Int, NEW d \in Nat \ {0}
  PROVE  /\ RoundedDivision(n, d) \in Int
         /\ n >= 0 => RoundedDivision(n, d) >= 0
         /\ n <= 0 => RoundedDivision(n, d) <= 0
<1>1. \A a \in Nat : a \div (2 * d) \in Nat
  OBVIOUS
<1>2. d \div (2 * d) = 0
  OBVIOUS
<1>3. PICK a \in Nat : a = Abs(n) BY DEF Abs
<1>4. PICK size : size = (2 * a + d) \div (2 * d) OBVIOUS
<1>5. size \in Nat /\ (a = 0 => size = 0) BY <1>1, <1>2, <1>4
<1>6. RoundedDivision(n, d) = IF n < 0 THEN -size ELSE size
  <2>1. Abs(d) = d /\ ~(d < 0) BY DEF Abs
  <2> QED BY <1>3, <1>4, <2>1 DEF RoundedDivision
<1>7. n = 0 => a = 0 BY <1>3 DEF Abs
<1> QED BY <1>5, <1>6, <1>7

LEMMA PercentBounds ==
  ASSUME NEW x \in Nat, NEW p \in Int
  PROVE  /\ Percent(x, p) \in Int
         /\ p <= 0 => Percent(x, p) <= 0
         /\ p >= 0 => Percent(x, p) >= 0
         /\ 0 <= p /\ p <= 100 => Percent(x, p) <= x
         /\ p >= 100 => Percent(x, p) >= x
<1>1. x * p \in Int /\ (p <= 0 => x * p <= 0) /\ (p >= 0 => x * p >= 0) OBVIOUS
<1>2. 0 <= p /\ p <= 100 => x * p <= x * 100 OBVIOUS
<1>3. p >= 100 => x * p >= x * 100 OBVIOUS
<1>4. \A n \in Int : 0 <= n /\ n <= x * 100 => RoundedDivision(n, 100) <= x BY DEF RoundedDivision, Abs
<1>5. \A n \in Int : n >= x * 100 => RoundedDivision(n, 100) >= x BY DEF RoundedDivision, Abs
<1>6. PICK n \in Int : n = x * p BY <1>1
<1>7. Percent(x, p) = RoundedDivision(n, 100) BY <1>6 DEF Percent
<1>8. 100 \in Nat \ {0} OBVIOUS
<1>9. /\ RoundedDivision(n, 100) \in Int
      /\ n >= 0 => RoundedDivision(n, 100) >= 0
      /\ n <= 0 => RoundedDivision(n, 100) <= 0
  BY <1>8, RoundedSign
<1>10. (p <= 0 => n <= 0) /\ (p >= 0 => n >= 0) BY <1>1, <1>6
<1>11. 0 <= p /\ p <= 100 => RoundedDivision(n, 100) <= x BY <1>2, <1>4, <1>6, <1>10
<1>12. p >= 100 => RoundedDivision(n, 100) >= x BY <1>3, <1>5, <1>6
<1> QED BY <1>7, <1>9, <1>10, <1>11, <1>12

LEMMA ValueSign ==
  ASSUME NEW a \in Int, NEW q \in Nat
  PROVE  /\ Value(a, q) \in Int
         /\ a <= 0 => Value(a, q) <= 0
         /\ a >= 0 => Value(a, q) >= 0
<1>1. PICK n \in Int : n = a * q OBVIOUS
<1>2. (a <= 0 => n <= 0) /\ (a >= 0 => n >= 0) BY <1>1, ProductOfNat
<1>3. Lot \in Nat \ {0} BY DEF Lot
<1>4. Value(a, q) = RoundedDivision(n, Lot) BY <1>1 DEF Value
<1> QED BY <1>2, <1>3, <1>4, RoundedSign

LEMMA CostsAreNat ==
  ASSUME NEW x \in Nat, NEW y \in Nat
  PROVE  Value(x, y) \in Nat /\ Percent(x, y) \in Nat
<1>1. Value(x, y) \in Int /\ Value(x, y) >= 0
  <2>1. x \in Int /\ x >= 0 OBVIOUS
  <2> QED BY <2>1, ValueSign
<1>2. Percent(x, y) \in Int /\ Percent(x, y) >= 0
  <2>1. y \in Int /\ y >= 0 OBVIOUS
  <2> QED BY <2>1, PercentBounds
<1>3. \A i \in Int : i >= 0 => i \in Nat OBVIOUS
<1> QED BY <1>1, <1>2, <1>3

\* Slippage beyond 100 % makes prices negative: once equity is negative, a SHORT
\* opens at such a price and its costs are gains.
Moderate == SlippagePercent <= 100

\* The prices of a position; those of the code are positive as well.
LEMMA FilledIsPrice ==
  ASSUME Moderate, NEW price \in Nat, NEW dir \in {-1, 1}
  PROVE  Filled(price, dir) \in Nat
<1>1. PICK p \in Int : p = 100 + dir * SlippagePercent BY InputIsValid
<1>2. p >= 0 BY <1>1, InputIsValid DEF Moderate
<1>3. Filled(price, dir) = Percent(price, p) BY <1>1 DEF Filled
<1> QED BY <1>2, <1>3, PercentBounds

-----------------------------------------------------------------------------
(* The simulation: its state                                               *)

Price == Nat \ {0}
Reasons == {"STRATEGY_CLOSE", "STOP_LOSS", "TAKE_PROFIT", "RANGE_END"}

Position ==
  [dir : {-1, 1}, index : Nat, market : Price, entry : Price, quantity : Nat \ {0},
   before : Int, stop : Nat, take : Nat]
TradeRow ==
  [dir : {-1, 1}, from : Nat, to : Nat, market : Price, exit : Price, during : Candle,
   reason : Reasons, before : Int, profit : Int]
SimState ==
  [index : 0 .. MaxCandles - 1, ended : BOOLEAN, position : Position \cup {NoPosition},
   scheduled : {-1, 0, 1}, equity : Int, trades : Seq(TradeRow)]

\* A Trade by itself, and what the next one starts from.
GoodTrade(t) ==
  /\ t.from > Warmup /\ t.from <= t.to
  /\ t.reason \in {"STOP_LOSS", "TAKE_PROFIT"} => t.from < t.to
  /\ t.dir * (t.exit - t.market) <= 0 => t.profit <= 0
  /\ t.reason = "STOP_LOSS" => t.dir * (t.exit - t.market) <= 0
  /\ t.reason = "TAKE_PROFIT" => t.dir * (t.exit - t.market) >= 0
  /\ t.during.low <= t.exit /\ t.exit <= t.during.high
EndOf(ts) == IF ts = <<>> THEN 0 ELSE ts[Len(ts)].to
Balance(ts) == IF ts = <<>> THEN Capital ELSE ts[Len(ts)].before + ts[Len(ts)].profit
GoodTrades(ts) ==
  \A k \in 1 .. Len(ts) :
    /\ GoodTrade(ts[k])
    /\ k > 1 => ts[k - 1].to <= ts[k].from
    /\ ts[k].before = IF k = 1 THEN Capital ELSE ts[k - 1].before + ts[k - 1].profit

\* A position was opened from the equity at hand, with its levels on the right
\* side of the market.
GoodPosition(s) ==
  LET p == s.position
  IN  /\ p \in Position /\ ~ s.ended
      /\ Warmup < p.index /\ p.index <= s.index /\ EndOf(s.trades) <= p.index
      /\ p.before > 0 /\ p.before = s.equity
      /\ p.stop # 0 => p.dir * (p.stop - p.market) <= 0
      /\ p.take # 0 => p.dir * (p.take - p.market) >= 0

\* Between any two statements of the loop.
Sound(s) ==
  /\ s \in SimState /\ GoodTrades(s.trades)
  /\ EndOf(s.trades) <= s.index
  /\ ~ s.ended => s.equity = Balance(s.trades)
  /\ ~ Flat(s) => GoodPosition(s)

\* Between two candles.
SimInv == Sound(sim) /\ (sim.scheduled # 0 => sim.index > Warmup) /\ (sim.ended => Flat(sim))

LEMMA StateFields ==
  ASSUME NEW s, Sound(s)
  PROVE  /\ s.index \in 0 .. MaxCandles - 1 /\ s.index \in Nat /\ s.ended \in BOOLEAN
         /\ s.position \in Position \cup {NoPosition} /\ s.scheduled \in {-1, 0, 1}
         /\ s.equity \in Int /\ s.trades \in Seq(TradeRow)
         /\ Flat(s) <=> s.position = NoPosition
         /\ ~ Flat(s) => s.position \in Position /\ s.position.dir \in {-1, 1}
         /\ EndOf(s.trades) \in Nat /\ Balance(s.trades) \in Int
<1>1. s \in SimState BY DEF Sound
<1>2. s.index \in 0 .. MaxCandles - 1 /\ s.ended \in BOOLEAN
      /\ s.position \in Position \cup {NoPosition} /\ s.scheduled \in {-1, 0, 1}
      /\ s.equity \in Int /\ s.trades \in Seq(TradeRow)
  BY <1>1 DEF SimState
<1>3. s.index \in Nat BY <1>2, InputIsValid
<1>4. \A p \in Position : p.dir \in {-1, 1} BY DEF Position
<1>5. NoPosition.dir = 0 BY DEF NoPosition
<1>6. Flat(s) <=> s.position = NoPosition BY <1>2, <1>4, <1>5 DEF Flat
<1>7. EndOf(s.trades) \in Nat /\ Balance(s.trades) \in Int
  <2>1. CASE s.trades = <<>> BY <2>1, InputIsValid DEF EndOf, Balance
  <2>2. CASE s.trades # <<>>
    <3>1. s.trades[Len(s.trades)] \in TradeRow BY <1>2, <2>2
    <3> QED BY <2>2, <3>1 DEF EndOf, Balance, TradeRow
  <2> QED BY <2>1, <2>2
<1> QED BY <1>2, <1>3, <1>4, <1>6, <1>7

\* Appending a Trade that starts where the last one ended.
LEMMA AppendTrade ==
  ASSUME NEW ts \in Seq(TradeRow), GoodTrades(ts), NEW t \in TradeRow, GoodTrade(t),
         EndOf(ts) <= t.from, t.before = Balance(ts)
  PROVE  /\ Append(ts, t) \in Seq(TradeRow) /\ GoodTrades(Append(ts, t))
         /\ EndOf(Append(ts, t)) = t.to
         /\ Balance(Append(ts, t)) = t.before + t.profit
<1>1. PICK us : us = Append(ts, t) OBVIOUS
<1>2. /\ us \in Seq(TradeRow) /\ Len(us) = Len(ts) + 1 /\ us[Len(ts) + 1] = t
      /\ \A k \in 1 .. Len(ts) : us[k] = ts[k]
      /\ Len(ts) \in Nat
  BY <1>1
<1>3. (ts = <<>>) <=> Len(ts) = 0 OBVIOUS
<1>4. us # <<>> BY <1>2
<1>5. EndOf(us) = t.to /\ Balance(us) = t.before + t.profit BY <1>2, <1>4 DEF EndOf, Balance
<1>6. ASSUME NEW k \in 1 .. Len(us)
      PROVE  /\ GoodTrade(us[k])
             /\ k > 1 => us[k - 1].to <= us[k].from
             /\ us[k].before = IF k = 1 THEN Capital ELSE us[k - 1].before + us[k - 1].profit
  <2>1. CASE k <= Len(ts)
    <3>1. k \in 1 .. Len(ts) /\ (k > 1 => k - 1 \in 1 .. Len(ts)) BY <1>2, <2>1
    <3>2. us[k] = ts[k] /\ (k > 1 => us[k - 1] = ts[k - 1]) BY <1>2, <3>1
    <3> QED BY <3>1, <3>2 DEF GoodTrades
  <2>2. CASE k = Len(ts) + 1
    <3>1. CASE Len(ts) = 0 BY <1>2, <1>3, <2>2, <3>1 DEF Balance
    <3>2. CASE Len(ts) # 0
      <4>1. k > 1 /\ k - 1 = Len(ts) /\ ts # <<>> /\ us[k - 1] = ts[Len(ts)] /\ us[k] = t
        BY <1>2, <1>3, <2>2, <3>2
      <4> QED BY <4>1 DEF EndOf, Balance
    <3> QED BY <3>1, <3>2
  <2> QED BY <1>2, <2>1, <2>2
<1> QED BY <1>1, <1>2, <1>5, <1>6 DEF GoodTrades

-----------------------------------------------------------------------------
(* The simulation: opening and closing                                     *)

\* The costs of a position are never negative.
LEMMA ProfitIsAtMostTheMove ==
  ASSUME Moderate, NEW p \in Position, NEW price \in Price
  PROVE  /\ Profit(p, price) \in Int
         /\ p.dir * (price - p.market) <= 0 => Profit(p, price) <= 0
<1>1. p.dir \in {-1, 1} /\ p.market \in Nat /\ p.entry \in Nat /\ p.quantity \in Nat /\ price \in Nat
  BY DEF Position, Price
<1>2. PICK back \in {-1, 1} : back = -p.dir BY <1>1
<1>3. PICK exit \in Nat : exit = Filled(price, -p.dir) BY <1>1, <1>2, FilledIsPrice
<1>4. PICK a \in Nat : a = Abs(p.entry - p.market) BY <1>1 DEF Abs
<1>5. PICK b \in Nat : b = Abs(exit - price) BY <1>1, <1>3 DEF Abs
<1>6. PICK g \in Int : g = p.dir * (price - p.market) BY <1>1
<1>7. PICK v \in Nat : v = Value(p.entry, p.quantity) BY <1>1, CostsAreNat
<1>8. PICK w \in Nat : w = Value(exit, p.quantity) BY <1>1, CostsAreNat
<1>9. Percent(v, FeePercent) \in Nat /\ Percent(w, FeePercent) \in Nat BY InputIsValid, CostsAreNat
<1>10. Value(a, p.quantity) \in Nat /\ Value(b, p.quantity) \in Nat BY <1>1, CostsAreNat
<1>11. Value(g, p.quantity) \in Int /\ (g <= 0 => Value(g, p.quantity) <= 0) BY <1>1, ValueSign
<1>12. Profit(p, price) = Value(g, p.quantity) - (Value(a, p.quantity) + Value(b, p.quantity))
                          - (Percent(v, FeePercent) + Percent(w, FeePercent))
  BY <1>3, <1>4, <1>5, <1>6, <1>7, <1>8 DEF Profit
<1>13. \A i, j, k, l \in Nat, h \in Int :
         h - (i + j) - (k + l) \in Int /\ (h <= 0 => h - (i + j) - (k + l) <= 0)
  OBVIOUS
<1> QED BY <1>6, <1>9, <1>10, <1>11, <1>12, <1>13

\* closePosition.
LEMMA ClosedIsSound ==
  ASSUME Moderate, NEW s, Sound(s), ~ Flat(s), NEW c \in Candles, NEW price \in Price,
         c.low <= price, price <= c.high, NEW reason \in Reasons,
         reason \in {"STOP_LOSS", "TAKE_PROFIT"} => s.position.index < s.index,
         reason = "STOP_LOSS" => s.position.dir * (price - s.position.market) <= 0,
         reason = "TAKE_PROFIT" => s.position.dir * (price - s.position.market) >= 0
  PROVE  LET r == Closed(s, c, price, reason)
         IN  /\ Sound(r) /\ Flat(r) /\ r.index = s.index /\ r.ended = s.ended
             /\ r.scheduled = s.scheduled
             /\ r.trades = Append(s.trades, Trade(s, c, price, reason))
<1>1. PICK p : p = s.position OBVIOUS
<1>2. PICK t : t = Trade(s, c, price, reason) OBVIOUS
<1>3. PICK r : r = Closed(s, c, price, reason) OBVIOUS
<1>4. GoodPosition(s) /\ GoodTrades(s.trades) /\ s \in SimState /\ (~ s.ended => s.equity = Balance(s.trades))
  BY DEF Sound
<1>5. /\ p \in Position /\ ~ s.ended /\ Warmup < p.index /\ p.index <= s.index
      /\ EndOf(s.trades) <= p.index /\ p.before = s.equity
  BY <1>1, <1>4 DEF GoodPosition
<1>6. p.dir \in {-1, 1} /\ p.index \in Nat /\ p.market \in Price /\ p.before \in Int
  BY <1>5 DEF Position
<1>7. PICK profit \in Int : profit = Profit(p, price) /\ (p.dir * (price - p.market) <= 0 => profit <= 0)
  BY <1>5, ProfitIsAtMostTheMove
<1>8. t = [ dir |-> p.dir, from |-> p.index, to |-> s.index, market |-> p.market,
            exit |-> price, during |-> c, reason |-> reason, before |-> p.before, profit |-> profit ]
  BY <1>1, <1>2, <1>7 DEF Trade
<1>9. c \in Candle BY CandlesAreValid DEF ValidCandle
<1>10. t \in TradeRow BY <1>6, <1>8, <1>9, StateFields DEF TradeRow
<1>11. GoodTrade(t) BY <1>1, <1>5, <1>7, <1>8 DEF GoodTrade
<1>12. EndOf(s.trades) <= t.from /\ t.before = Balance(s.trades) BY <1>4, <1>5, <1>8
<1>13. /\ Append(s.trades, t) \in Seq(TradeRow) /\ GoodTrades(Append(s.trades, t))
       /\ EndOf(Append(s.trades, t)) = t.to
       /\ Balance(Append(s.trades, t)) = t.before + t.profit
  BY <1>4, <1>10, <1>11, <1>12, AppendTrade, StateFields
<1>14. PICK ts : ts = Append(s.trades, t) OBVIOUS
<1>15. PICK left \in Int : left = p.before + profit BY <1>6
<1>16. /\ r \in SimState /\ r.position = NoPosition /\ r.equity = left /\ r.trades = ts
       /\ r.index = s.index /\ r.ended = s.ended /\ r.scheduled = s.scheduled
  <2>1. r = [s EXCEPT !.position = NoPosition, !.equity = left, !.trades = ts]
    BY <1>1, <1>2, <1>3, <1>7, <1>14, <1>15 DEF Closed
  <2>2. ts \in Seq(TradeRow) BY <1>13, <1>14
  <2> QED BY <1>4, <2>1, <2>2 DEF SimState
<1>17. Flat(r) BY <1>16 DEF Flat, NoPosition
<1>18. EndOf(ts) = s.index /\ Balance(ts) = left BY <1>8, <1>13, <1>14, <1>15
<1>19. EndOf(ts) <= r.index BY <1>16, <1>18, StateFields
<1>20. Sound(r) BY <1>13, <1>14, <1>16, <1>17, <1>18, <1>19 DEF Sound
<1> QED BY <1>2, <1>3, <1>14, <1>16, <1>17, <1>20

\* An input that is refused leaves nothing.
LEMMA RefusedIsSound ==
  ASSUME NEW s, Sound(s), Flat(s)
  PROVE  /\ Sound(Refused(s)) /\ Flat(Refused(s)) /\ Refused(s).ended
         /\ Refused(s).index = s.index /\ Refused(s).scheduled = s.scheduled
<1>1. PICK r : r = Refused(s) OBVIOUS
<1>2. r = [s EXCEPT !.ended = TRUE, !.trades = <<>>] BY <1>1 DEF Refused
<1>3. <<>> \in Seq(TradeRow) /\ Len(<<>>) = 0 OBVIOUS
<1>4. s \in SimState BY DEF Sound
<1>5. /\ r \in SimState /\ r.ended /\ r.trades = <<>> /\ r.position = s.position
      /\ r.index = s.index /\ r.scheduled = s.scheduled
  BY <1>2, <1>3, <1>4 DEF SimState
<1>6. Flat(r) BY <1>5 DEF Flat
<1>7. GoodTrades(r.trades) BY <1>3, <1>5 DEF GoodTrades
<1>8. EndOf(r.trades) <= r.index BY <1>5, StateFields DEF EndOf
<1> QED BY <1>1, <1>5, <1>6, <1>7, <1>8 DEF Sound

\* openPosition.
LEMMA OpenedIsSound ==
  ASSUME Moderate, NEW s, Sound(s), Flat(s), ~ s.ended, s.index > Warmup, NEW dir \in {-1, 1}, NEW price \in Price
  PROVE  LET r == Opened(s, dir, price)
         IN  /\ Sound(r) /\ r.index = s.index /\ r.scheduled = s.scheduled
             /\ r.ended => Flat(r)
             /\ ~ r.ended => r.trades = s.trades
             /\ ~ Flat(r) => r.position.index = r.index
<1>1. PICK r : r = Opened(s, dir, price) OBVIOUS
<1>2. PICK paid \in Nat : paid = Filled(price, dir) BY FilledIsPrice DEF Price
<1>3. PICK quantity : quantity = QuantityFor(s.equity, paid) OBVIOUS
<1>4. PICK stop \in Nat : /\ stop = Percent(price, 100 - dir * StopPercent)
                          /\ dir * (stop - price) <= 0
  <2>1. PICK p \in Int : p = 100 - dir * StopPercent BY InputIsValid
  <2>2. p >= 0 /\ (dir = 1 => p <= 100) /\ (dir = -1 => p >= 100) BY <2>1, InputIsValid
  <2>3. PICK x \in Int : x = Percent(price, p) BY PercentBounds DEF Price
  <2>4. price \in Nat BY DEF Price
  <2>5. x >= 0 /\ (dir = 1 => x <= price) /\ (dir = -1 => x >= price) BY <2>2, <2>3, <2>4, PercentBounds
  <2>6. dir * (x - price) <= 0 BY <2>4, <2>5
  <2> QED BY <2>1, <2>3, <2>5, <2>6
<1>5. PICK take \in Nat : /\ take = Percent(price, 100 + dir * TakePercent)
                          /\ dir * (take - price) >= 0
  <2>1. PICK p \in Int : p = 100 + dir * TakePercent BY InputIsValid
  <2>2. p >= 0 /\ (dir = 1 => p >= 100) /\ (dir = -1 => p <= 100) BY <2>1, InputIsValid
  <2>3. PICK x \in Int : x = Percent(price, p) BY PercentBounds DEF Price
  <2>4. price \in Nat BY DEF Price
  <2>5. x >= 0 /\ (dir = 1 => x >= price) /\ (dir = -1 => x <= price) BY <2>2, <2>3, <2>4, PercentBounds
  <2>6. dir * (x - price) >= 0 BY <2>4, <2>5
  <2> QED BY <2>1, <2>3, <2>5, <2>6
<1>6. r = IF paid = 0 THEN Refused(s)
          ELSE IF quantity <= 0 THEN s
          ELSE IF stop = 0 \/ take = 0 THEN Refused(s)
          ELSE [s EXCEPT !.position =
                 [ dir |-> dir, index |-> s.index, market |-> price, entry |-> paid,
                   quantity |-> quantity, before |-> s.equity,
                   stop |-> IF StopPercent = 0 THEN 0 ELSE stop,
                   take |-> IF TakePercent = 0 THEN 0 ELSE take ]]
  BY <1>1, <1>2, <1>3, <1>4, <1>5 DEF Opened
<1>7. CASE paid = 0 \/ (~(quantity <= 0) /\ (stop = 0 \/ take = 0))
  <2>1. r = Refused(s) BY <1>6, <1>7
  <2> QED BY <1>1, <2>1, RefusedIsSound
<1>8. CASE r = s BY <1>1, <1>8
<1>9. CASE paid # 0 /\ ~(quantity <= 0) /\ ~(stop = 0 \/ take = 0)
  <2>1. PICK n \in Int : n = s.equity * Lot * 100 BY StateFields DEF Lot
  <2>2. PICK d \in Nat \ {0} : d = paid * (100 + FeePercent)
    <3>1. 100 + FeePercent \in Nat \ {0} /\ paid \in Nat \ {0} BY <1>9, InputIsValid
    <3>2. \A i, j \in Nat \ {0} : i * j \in Nat \ {0} OBVIOUS
    <3> QED BY <3>1, <3>2
  <2>3. quantity = RoundedDivision(n, d) BY <1>3, <2>1, <2>2 DEF QuantityFor
  <2>4. quantity \in Nat \ {0} /\ n > 0 BY <1>9, <2>3, RoundedSign
  <2>5. s.equity > 0 BY <2>1, <2>4, StateFields DEF Lot
  <2>6. PICK p : p = [ dir |-> dir, index |-> s.index, market |-> price, entry |-> paid,
                       quantity |-> quantity, before |-> s.equity,
                       stop |-> IF StopPercent = 0 THEN 0 ELSE stop,
                       take |-> IF TakePercent = 0 THEN 0 ELSE take ] OBVIOUS
  <2>7. r = [s EXCEPT !.position = p] BY <1>6, <1>9, <2>6
  <2>8. s \in SimState /\ s.index \in Nat /\ s.equity \in Int BY StateFields DEF Sound
  <2>9. p \in Position BY <1>9, <2>4, <2>6, <2>8 DEF Position, Price
  <2>10. /\ r \in SimState /\ r.position = p /\ r.index = s.index /\ r.ended = s.ended
         /\ r.scheduled = s.scheduled /\ r.equity = s.equity /\ r.trades = s.trades
    BY <2>7, <2>8, <2>9 DEF SimState
  <2>11. /\ p.index = s.index /\ p.before = s.equity /\ p.dir = dir /\ p.market = price
         /\ p.stop # 0 => p.stop = stop
         /\ p.take # 0 => p.take = take
    BY <2>6
  <2>12. GoodTrades(s.trades) /\ EndOf(s.trades) <= s.index /\ s.equity = Balance(s.trades)
    BY DEF Sound
  <2>13. s.index <= s.index BY <2>8
  <2>14. GoodPosition(r)
    BY <1>4, <1>5, <2>5, <2>9, <2>10, <2>11, <2>12, <2>13 DEF GoodPosition
  <2>15. Sound(r) BY <2>10, <2>12, <2>14 DEF Sound
  <2> QED BY <1>1, <2>10, <2>11, <2>15
<1> QED BY <1>6, <1>7, <1>8, <1>9

-----------------------------------------------------------------------------
(* The simulation: one candle                                              *)

\* What the loop writes besides positions and Trades.
WithSchedule(s, x) == [s EXCEPT !.scheduled = x]

LEMMA ScheduledIsSound ==
  ASSUME NEW s, Sound(s), NEW x \in {-1, 0, 1}
  PROVE  LET r == WithSchedule(s, x)
         IN  /\ Sound(r) /\ r.scheduled = x /\ r.index = s.index /\ r.ended = s.ended
             /\ r.position = s.position /\ r.trades = s.trades /\ (Flat(r) <=> Flat(s))
<1>1. PICK r : r = WithSchedule(s, x) OBVIOUS
<1>2. /\ r \in SimState /\ r.scheduled = x /\ r.index = s.index /\ r.ended = s.ended
      /\ r.position = s.position /\ r.trades = s.trades /\ r.equity = s.equity
  BY <1>1 DEF WithSchedule, Sound, SimState
<1>3. Flat(r) <=> Flat(s) BY <1>2 DEF Flat
<1>4. GoodPosition(s) => GoodPosition(r) BY <1>2 DEF GoodPosition
<1>5. Sound(r) BY <1>2, <1>3, <1>4 DEF Sound
<1> QED BY <1>1, <1>2, <1>3, <1>5

LEMMA NextIndexIsSound ==
  ASSUME NEW s, Sound(s), s.index + 1 < MaxCandles
  PROVE  LET r == [s EXCEPT !.index = @ + 1]
         IN  /\ Sound(r) /\ r.scheduled = s.scheduled /\ r.index = s.index + 1 /\ r.ended = s.ended
             /\ r.trades = s.trades /\ (Flat(r) <=> Flat(s))
<1>1. PICK r : r = [s EXCEPT !.index = @ + 1] OBVIOUS
<1>2. PICK n \in 0 .. MaxCandles - 1 : n = s.index + 1 BY StateFields, InputIsValid
<1>3. r = [s EXCEPT !.index = n] /\ s \in SimState BY <1>1, <1>2 DEF Sound
<1>4. /\ r \in SimState /\ r.scheduled = s.scheduled /\ r.index = n /\ r.ended = s.ended
      /\ r.position = s.position /\ r.trades = s.trades /\ r.equity = s.equity
  BY <1>3 DEF SimState
<1>5. Flat(r) <=> Flat(s) BY <1>4 DEF Flat
<1>6. s.index \in Nat /\ EndOf(s.trades) \in Nat /\ n = s.index + 1 BY <1>2, StateFields
<1>7. EndOf(r.trades) <= r.index
  <2>1. EndOf(s.trades) <= s.index BY DEF Sound
  <2> QED BY <1>4, <1>6, <2>1
<1>8. GoodPosition(s) => GoodPosition(r)
  <2> SUFFICES ASSUME GoodPosition(s) PROVE GoodPosition(r) OBVIOUS
  <2>1. s.position.index \in Nat /\ s.position.index <= s.index BY DEF GoodPosition, Position
  <2>2. r.position.index <= r.index BY <1>4, <1>6, <2>1
  <2> QED BY <1>4, <2>2 DEF GoodPosition
<1>9. Sound(r) BY <1>4, <1>5, <1>7, <1>8 DEF Sound
<1> QED BY <1>1, <1>4, <1>5, <1>6, <1>9

LEMMA EndedIsSound ==
  ASSUME NEW s, Sound(s), Flat(s)
  PROVE  LET r == [s EXCEPT !.ended = TRUE]
         IN  /\ Sound(r) /\ r.scheduled = s.scheduled /\ r.index = s.index /\ r.ended
             /\ r.trades = s.trades /\ Flat(r)
<1>1. PICK r : r = [s EXCEPT !.ended = TRUE] OBVIOUS
<1>2. /\ r \in SimState /\ r.scheduled = s.scheduled /\ r.index = s.index /\ r.ended
      /\ r.position = s.position /\ r.trades = s.trades /\ r.equity = s.equity
  BY <1>1 DEF Sound, SimState
<1>3. Flat(r) BY <1>2 DEF Flat
<1>4. Sound(r) BY <1>2, <1>3 DEF Sound
<1> QED BY <1>1, <1>2, <1>3, <1>4

\* The part of Execute that closes an opposite position.
Reversed(s, c) ==
  IF ~ Flat(s) /\ s.position.dir # s.scheduled THEN Closed(s, c, c.open, "STRATEGY_CLOSE") ELSE s

LEMMA ReversedIsSound ==
  ASSUME Moderate, NEW s, Sound(s), NEW c \in Candles
  PROVE  /\ Sound(Reversed(s, c)) /\ Reversed(s, c).index = s.index
         /\ Reversed(s, c).ended = s.ended /\ Reversed(s, c).scheduled = s.scheduled
<1>1. CASE ~ Flat(s) /\ s.position.dir # s.scheduled
  <2>1. c.open \in Price /\ c.low <= c.open /\ c.open <= c.high
    BY CandlesAreValid DEF ValidCandle, Candle, Price
  <2>2. "STRATEGY_CLOSE" \in Reasons BY DEF Reasons
  <2>3. Reversed(s, c) = Closed(s, c, c.open, "STRATEGY_CLOSE") BY <1>1 DEF Reversed
  <2> QED BY <1>1, <2>1, <2>2, <2>3, ClosedIsSound
<1>2. CASE ~(~ Flat(s) /\ s.position.dir # s.scheduled)
  <2>1. Reversed(s, c) = s BY <1>2 DEF Reversed
  <2> QED BY <2>1
<1> QED BY <1>1, <1>2

\* The signal of the previous candle, by the cases of the code.
LEMMA ExecuteCases ==
  ASSUME NEW s, Sound(s), ~ s.ended, s.scheduled # 0 => s.index > Warmup,
         NEW c \in Candles, NEW last \in BOOLEAN
  PROVE  \/ s.scheduled = 0 /\ Execute(s, c, last) = s
         \/ /\ s.scheduled # 0 /\ (last \/ ~ Flat(Reversed(s, c)))
            /\ Execute(s, c, last) = [Reversed(s, c) EXCEPT !.scheduled = 0]
         \/ /\ s.scheduled # 0 /\ ~ last /\ Flat(Reversed(s, c))
            /\ Execute(s, c, last) = [Opened(Reversed(s, c), s.scheduled, c.open) EXCEPT !.scheduled = 0]
<1>1. s.scheduled # 0 => ~(s.index < Warmup) BY StateFields, InputIsValid
<1> QED BY <1>1 DEF Execute, Reversed

LEMMA ExecuteIsSound ==
  ASSUME Moderate, NEW s, Sound(s), ~ s.ended, s.scheduled # 0 => s.index > Warmup,
         NEW c \in Candles, NEW last \in BOOLEAN
  PROVE  LET r == Execute(s, c, last)
         IN  /\ Sound(r) /\ r.index = s.index /\ r.scheduled = 0
             /\ r.ended => Flat(r)
<1>1. PICK k : k = Reversed(s, c) OBVIOUS
<1>2. Sound(k) /\ k.index = s.index /\ k.ended = s.ended /\ k.scheduled = s.scheduled
  BY <1>1, ReversedIsSound
<1>3. 0 \in {-1, 0, 1} /\ s.scheduled \in {-1, 0, 1} BY StateFields
<1>4. CASE s.scheduled = 0 /\ Execute(s, c, last) = s BY <1>4
<1>5. CASE s.scheduled # 0 /\ Execute(s, c, last) = [k EXCEPT !.scheduled = 0]
  <2>1. Execute(s, c, last) = WithSchedule(k, 0) BY <1>5 DEF WithSchedule
  <2> QED BY <1>2, <1>3, <1>5, <2>1, ScheduledIsSound
<1>6. CASE /\ s.scheduled # 0 /\ Flat(k)
           /\ Execute(s, c, last) = [Opened(k, s.scheduled, c.open) EXCEPT !.scheduled = 0]
  <2>1. PICK o : o = Opened(k, s.scheduled, c.open) OBVIOUS
  <2>2. c.open \in Price /\ s.scheduled \in {-1, 1}
    BY <1>3, <1>6, CandlesAreValid DEF ValidCandle, Candle, Price
  <2>3. Sound(o) /\ o.index = s.index /\ (o.ended => Flat(o))
    BY <1>2, <1>6, <2>1, <2>2, OpenedIsSound
  <2>4. Execute(s, c, last) = WithSchedule(o, 0) BY <1>6, <2>1 DEF WithSchedule
  <2> QED BY <1>3, <2>3, <2>4, ScheduledIsSound
<1> QED BY <1>1, <1>4, <1>5, <1>6, ExecuteCases

\* A triggered level is filled at a price the candle traded at, not better
\* than the level for a stop and not worse for a take.
LEMMA FillIsReached ==
  ASSUME NEW c \in Candles, NEW level \in Nat, NEW dir \in {-1, 1}, Reaches(c, level, dir)
  PROVE  /\ Fill(c, level, dir) \in Price
         /\ c.low <= Fill(c, level, dir) /\ Fill(c, level, dir) <= c.high
         /\ dir * (Fill(c, level, dir) - level) <= 0
<1>1. /\ c.open \in Price /\ c.low \in Price /\ c.high \in Price
      /\ c.low <= c.open /\ c.open <= c.high
  BY CandlesAreValid DEF ValidCandle, Candle, Price
<1>2. CASE dir = 1 BY <1>1, <1>2 DEF Fill, Reaches, Price
<1>3. CASE dir = -1 BY <1>1, <1>3 DEF Fill, Reaches, Price
<1> QED BY <1>2, <1>3

\* Protective exits.
LEMMA ProtectIsSound ==
  ASSUME Moderate, NEW s, Sound(s), NEW c \in Candles
  PROVE  LET r == Protect(s, c)
         IN  /\ Sound(r) /\ r.index = s.index /\ r.ended = s.ended /\ r.scheduled = s.scheduled
             /\ Flat(s) => r = s
             /\ s.position.index = s.index => r = s
<1>1. PICK p : p = s.position OBVIOUS
<1>2. CASE Flat(s) \/ p.index = s.index
  <2>1. Protect(s, c) = s BY <1>1, <1>2 DEF Protect
  <2> QED BY <2>1
<1>3. CASE ~(Flat(s) \/ p.index = s.index)
  <2>1. /\ p \in Position /\ p.index <= s.index
        /\ p.stop # 0 => p.dir * (p.stop - p.market) <= 0
        /\ p.take # 0 => p.dir * (p.take - p.market) >= 0
    BY <1>1, <1>3 DEF Sound, GoodPosition
  <2>2. p.dir \in {-1, 1} /\ p.stop \in Nat /\ p.take \in Nat /\ p.market \in Nat /\ p.index \in Nat
    BY <2>1 DEF Position, Price
  <2>3. p.index < s.index BY <1>3, <2>1, <2>2, StateFields
  <2>4. "STOP_LOSS" \in Reasons /\ "TAKE_PROFIT" \in Reasons BY DEF Reasons
  <2>5. CASE Reaches(c, p.stop, p.dir)
    <3>1. PICK f \in Price : f = Fill(c, p.stop, p.dir) BY <2>2, <2>5, FillIsReached
    <3>2. c.low <= f /\ f <= c.high /\ p.dir * (f - p.stop) <= 0 BY <2>2, <2>5, <3>1, FillIsReached
    <3>3. p.dir * (p.stop - p.market) <= 0 BY <2>1, <2>5 DEF Reaches
    <3>4. f \in Nat BY DEF Price
    <3>5. p.dir * (f - p.market) <= 0
      <4>1. CASE p.dir = 1 BY <2>2, <3>2, <3>3, <3>4, <4>1
      <4>2. CASE p.dir = -1 BY <2>2, <3>2, <3>3, <3>4, <4>2
      <4> QED BY <2>2, <4>1, <4>2
    <3>6. Protect(s, c) = Closed(s, c, f, "STOP_LOSS") BY <1>1, <1>3, <2>5, <3>1 DEF Protect
    <3> QED BY <1>1, <1>3, <2>3, <2>4, <3>2, <3>5, <3>6, ClosedIsSound
  <2>6. CASE ~ Reaches(c, p.stop, p.dir) /\ Reaches(c, p.take, -p.dir)
    <3>1. PICK back \in {-1, 1} : back = -p.dir BY <2>2
    <3>2. PICK f \in Price : f = Fill(c, p.take, -p.dir) BY <2>2, <2>6, <3>1, FillIsReached
    <3>3. c.low <= f /\ f <= c.high /\ back * (f - p.take) <= 0 BY <2>2, <2>6, <3>1, <3>2, FillIsReached
    <3>4. p.dir * (p.take - p.market) >= 0 BY <2>1, <2>6 DEF Reaches
    <3>5. f \in Nat BY DEF Price
    <3>6. p.dir * (f - p.market) >= 0
      <4>1. CASE p.dir = 1 BY <2>2, <3>1, <3>3, <3>4, <3>5, <4>1
      <4>2. CASE p.dir = -1 BY <2>2, <3>1, <3>3, <3>4, <3>5, <4>2
      <4> QED BY <2>2, <4>1, <4>2
    <3>7. Protect(s, c) = Closed(s, c, f, "TAKE_PROFIT") BY <1>1, <1>3, <2>6, <3>2 DEF Protect
    <3> QED BY <1>1, <1>3, <2>3, <2>4, <3>3, <3>6, <3>7, ClosedIsSound
  <2>7. CASE ~ Reaches(c, p.stop, p.dir) /\ ~ Reaches(c, p.take, -p.dir)
    <3>1. Protect(s, c) = s BY <1>1, <1>3, <2>7 DEF Protect
    <3> QED BY <3>1
  <2> QED BY <2>5, <2>6, <2>7
<1> QED BY <1>2, <1>3

LEMMA AnalyzeIsSound ==
  ASSUME NEW s, Sound(s), s.scheduled = 0, NEW signal \in {-1, 0, 1}, NEW last \in BOOLEAN
  PROVE  LET r == Analyze(s, signal, last)
         IN  /\ Sound(r) /\ r.index = s.index /\ r.ended = s.ended /\ r.trades = s.trades
             /\ r.scheduled # 0 => r.index >= Warmup
             /\ (Flat(r) <=> Flat(s)) /\ (last => r = s)
<1>1. CASE Analyze(s, signal, last) = s BY <1>1
<1>2. CASE ~ last /\ ~(s.index < Warmup) /\ Analyze(s, signal, last) = [s EXCEPT !.scheduled = signal]
  <2>1. s.index >= Warmup BY <1>2, StateFields, InputIsValid
  <2>2. Analyze(s, signal, last) = WithSchedule(s, signal) BY <1>2 DEF WithSchedule
  <2> QED BY <1>2, <2>1, <2>2, ScheduledIsSound
<1> QED BY <1>1, <1>2 DEF Analyze

LEMMA RangeEndIsSound ==
  ASSUME Moderate, NEW s, Sound(s), NEW c \in Candles
  PROVE  LET r == RangeEnd(s, c)
         IN  /\ Sound(r) /\ Flat(r) /\ r.index = s.index /\ r.ended = s.ended
             /\ r.scheduled = s.scheduled
             /\ \/ Flat(s) /\ r = s
                \/ \E t : t.reason = "RANGE_END" /\ r.trades = Append(s.trades, t)
<1>1. CASE Flat(s)
  <2>1. RangeEnd(s, c) = s BY <1>1 DEF RangeEnd
  <2> QED BY <1>1, <2>1
<1>2. CASE ~ Flat(s)
  <2>1. c.close \in Price /\ c.low <= c.close /\ c.close <= c.high
    BY CandlesAreValid DEF ValidCandle, Candle, Price
  <2>2. "RANGE_END" \in Reasons BY DEF Reasons
  <2>3. RangeEnd(s, c) = Closed(s, c, c.close, "RANGE_END") BY <1>2 DEF RangeEnd
  <2>4. Trade(s, c, c.close, "RANGE_END").reason = "RANGE_END" BY DEF Trade
  <2> QED BY <1>2, <2>1, <2>2, <2>3, <2>4, ClosedIsSound
<1> QED BY <1>1, <1>2

\* The state of a candle before it is counted.
Traded(s, c, signal, last) == Analyze(Protect(Execute(s, c, last), c), signal, last)

LEMMA TradedIsSound ==
  ASSUME Moderate, NEW s, Sound(s), ~ s.ended, s.scheduled # 0 => s.index > Warmup,
         NEW c \in Candles, NEW signal \in {-1, 0, 1}, NEW last \in BOOLEAN
  PROVE  LET r == Traded(s, c, signal, last)
         IN  /\ Sound(r) /\ r.index = s.index /\ (r.ended => Flat(r))
             /\ r.scheduled # 0 => r.index >= Warmup
             /\ last => r.scheduled = 0
<1>1. PICK e : e = Execute(s, c, last) OBVIOUS
<1>2. Sound(e) /\ e.index = s.index /\ e.scheduled = 0 /\ (e.ended => Flat(e)) BY <1>1, ExecuteIsSound
<1>3. PICK p : p = Protect(e, c) OBVIOUS
<1>4. /\ Sound(p) /\ p.index = s.index /\ p.ended = e.ended /\ p.scheduled = 0 /\ (Flat(e) => p = e)
  BY <1>2, <1>3, ProtectIsSound
<1>5. Traded(s, c, signal, last) = Analyze(p, signal, last) BY <1>1, <1>3 DEF Traded
<1> QED BY <1>2, <1>4, <1>5, AnalyzeIsSound

LEMMA StepIsSound ==
  ASSUME Moderate, NEW s, Sound(s), ~ s.ended, s.scheduled # 0 => s.index > Warmup,
         NEW c \in Candles, NEW signal \in {-1, 0, 1}, NEW last \in BOOLEAN,
         last \/ s.index + 1 < MaxCandles
  PROVE  LET r == Step(s, c, signal, last)
         IN  /\ Sound(r) /\ (r.scheduled # 0 => r.index > Warmup) /\ (r.ended => Flat(r))
<1>1. PICK t : t = Traded(s, c, signal, last) OBVIOUS
<1>2. /\ Sound(t) /\ t.index = s.index /\ (t.ended => Flat(t))
      /\ t.scheduled # 0 => t.index >= Warmup
      /\ last => t.scheduled = 0
  BY <1>1, TradedIsSound
<1>3. CASE last
  <2>1. PICK r : r = RangeEnd(t, c) OBVIOUS
  <2>2. Sound(r) /\ Flat(r) /\ r.scheduled = 0 BY <1>2, <1>3, <2>1, RangeEndIsSound
  <2>3. Step(s, c, signal, last) = [r EXCEPT !.ended = TRUE] BY <1>1, <1>3, <2>1 DEF Step, Traded
  <2> QED BY <2>2, <2>3, EndedIsSound
<1>4. CASE ~ last
  <2>1. Step(s, c, signal, last) = [t EXCEPT !.index = @ + 1] BY <1>1, <1>4 DEF Step, Traded
  <2>2. t.scheduled # 0 => t.index + 1 > Warmup BY <1>2, StateFields, InputIsValid
  <2>3. t.index + 1 < MaxCandles BY <1>2, <1>4
  <2> QED BY <1>2, <2>1, <2>2, <2>3, NextIndexIsSound
<1> QED BY <1>3, <1>4

-----------------------------------------------------------------------------
(* The simulation: no look-ahead, and its promises                         *)

\* Whether the range ends with a candle decides about an opening and the
\* forced close, and nothing else.
LEMMA EndingKeepsTrades ==
  ASSUME Moderate, NEW s, Sound(s), ~ s.ended, s.scheduled # 0 => s.index > Warmup,
         NEW c \in Candles, NEW signal \in {-1, 0, 1}
  PROVE  LET ending == Step(s, c, signal, TRUE).trades
             longer == Step(s, c, signal, FALSE)
             forced == ending[Len(ending)]
         IN  \/ longer.ended \/ ending = longer.trades
             \/ ending = Append(longer.trades, forced) /\ forced.reason = "RANGE_END"
<1>1. PICK y : y = Traded(s, c, signal, TRUE) OBVIOUS
<1>2. PICK x : x = Traded(s, c, signal, FALSE) OBVIOUS
<1>3. Sound(x) /\ Sound(y) BY <1>1, <1>2, TradedIsSound
<1>4. PICK ending : ending = Step(s, c, signal, TRUE).trades OBVIOUS
<1>5. PICK longer : longer = Step(s, c, signal, FALSE) OBVIOUS
<1>6. longer.trades = x.trades /\ longer.ended = x.ended
  <2>1. x \in SimState BY <1>3 DEF Sound
  <2>2. longer = [x EXCEPT !.index = @ + 1] BY <1>2, <1>5 DEF Step, Traded
  <2> QED BY <2>1, <2>2 DEF SimState
<1>7. ending = RangeEnd(y, c).trades
  <2>1. PICK r : r = RangeEnd(y, c) OBVIOUS
  <2>2. r \in SimState BY <1>3, <2>1, RangeEndIsSound DEF Sound
  <2>3. Step(s, c, signal, TRUE) = [r EXCEPT !.ended = TRUE] BY <1>1, <2>1 DEF Step, Traded
  <2> QED BY <1>4, <2>1, <2>2, <2>3 DEF SimState
<1>8. \/ ending = y.trades
      \/ ending = Append(y.trades, ending[Len(ending)]) /\ ending[Len(ending)].reason = "RANGE_END"
  <2>1. CASE RangeEnd(y, c) = y BY <1>7, <2>1
  <2>2. CASE \E t : t.reason = "RANGE_END" /\ RangeEnd(y, c).trades = Append(y.trades, t)
    <3>1. PICK t : t.reason = "RANGE_END" /\ ending = Append(y.trades, t) BY <1>7, <2>2
    <3>2. y.trades \in Seq(TradeRow) BY <1>3, StateFields
    <3>3. Len(y.trades) \in Nat BY <3>2
    <3>4. Len(ending) = Len(y.trades) + 1 /\ ending[Len(y.trades) + 1] = t BY <3>1, <3>2
    <3> QED BY <3>1, <3>3, <3>4
  <2> QED BY <1>3, <2>1, <2>2, RangeEndIsSound
<1>9. x.ended \/ x.trades = y.trades
  <2>1. PICK k : k = Reversed(s, c) OBVIOUS
  <2>2. PICK e : e = Execute(s, c, FALSE) OBVIOUS
  <2>3. PICK f : f = Execute(s, c, TRUE) OBVIOUS
  <2>4. /\ Sound(e) /\ e.index = s.index /\ e.scheduled = 0 /\ (e.ended => Flat(e))
        /\ Sound(f) /\ f.index = s.index /\ f.scheduled = 0 /\ (f.ended => Flat(f))
    BY <2>2, <2>3, ExecuteIsSound
  <2>5. PICK p : p = Protect(e, c) OBVIOUS
  <2>6. PICK q : q = Protect(f, c) OBVIOUS
  <2>7. /\ Sound(p) /\ p.ended = e.ended /\ p.scheduled = 0
        /\ Sound(q) /\ q.ended = f.ended /\ q.scheduled = 0
        /\ (Flat(f) => q = f) /\ (Flat(e) \/ e.position.index = e.index => p = e)
    BY <2>4, <2>5, <2>6, ProtectIsSound
  <2>8. x.trades = p.trades /\ x.ended = p.ended /\ y.trades = q.trades
    <3>1. x = Analyze(p, signal, FALSE) /\ y = Analyze(q, signal, TRUE)
      BY <1>1, <1>2, <2>2, <2>3, <2>5, <2>6 DEF Traded
    <3> QED BY <2>7, <3>1, AnalyzeIsSound
  <2>9. CASE e = f BY <2>5, <2>6, <2>8, <2>9
  <2>10. CASE e # f
    <3>1. /\ s.scheduled # 0 /\ Flat(k)
          /\ e = [Opened(k, s.scheduled, c.open) EXCEPT !.scheduled = 0]
          /\ f = [k EXCEPT !.scheduled = 0]
      BY <2>1, <2>2, <2>3, <2>10, ExecuteCases
    <3>2. Sound(k) /\ k.ended = s.ended /\ k.index = s.index BY <2>1, ReversedIsSound
    <3>3. PICK o : o = Opened(k, s.scheduled, c.open) OBVIOUS
    <3>4. c.open \in Price /\ s.scheduled \in {-1, 1}
      BY <3>1, CandlesAreValid, StateFields DEF ValidCandle, Candle, Price
    <3>5. /\ Sound(o) /\ (~ o.ended => o.trades = k.trades) /\ o.index = k.index
          /\ ~ Flat(o) => o.position.index = o.index
      BY <3>1, <3>2, <3>3, <3>4, OpenedIsSound
    <3>6. e = WithSchedule(o, 0) /\ f = WithSchedule(k, 0) BY <3>1, <3>3 DEF WithSchedule
    <3>7. 0 \in {-1, 0, 1} /\ Flat(k) BY <3>1
    <3>8. /\ e.trades = o.trades /\ e.ended = o.ended /\ e.position = o.position
          /\ e.index = o.index /\ (Flat(e) <=> Flat(o))
      BY <3>5, <3>6, <3>7, ScheduledIsSound
    <3>9. f.trades = k.trades /\ Flat(f) BY <3>2, <3>6, <3>7, ScheduledIsSound
    <3> QED BY <2>7, <2>8, <3>5, <3>8, <3>9
  <2> QED BY <2>9, <2>10
<1> QED BY <1>4, <1>5, <1>6, <1>8, <1>9

LEMMA SimInitInv == SimInit => SimInv
<1> SUFFICES ASSUME SimInit PROVE SimInv OBVIOUS
<1>1. <<>> \in Seq(TradeRow) /\ Len(<<>>) = 0 OBVIOUS
<1>2. PICK none : none = NoPosition OBVIOUS
<1>3. sim = [ index |-> 0, ended |-> FALSE, position |-> none, scheduled |-> 0,
              equity |-> Capital, trades |-> <<>> ]
  BY <1>2 DEF SimInit
<1>4. /\ sim \in SimState /\ sim.position = NoPosition /\ sim.index = 0 /\ ~ sim.ended
      /\ sim.scheduled = 0 /\ sim.equity = Capital /\ sim.trades = <<>>
  BY <1>1, <1>2, <1>3, InputIsValid DEF SimState
<1>5. Flat(sim) BY <1>4 DEF Flat, NoPosition
<1>6. GoodTrades(sim.trades) BY <1>1, <1>4 DEF GoodTrades
<1>7. EndOf(sim.trades) <= sim.index /\ sim.equity = Balance(sim.trades) BY <1>4 DEF EndOf, Balance
<1> QED BY <1>4, <1>5, <1>6, <1>7 DEF SimInv, Sound

LEMMA SimNextInv ==
  ASSUME Moderate PROVE SimInv /\ [SimNext]_simVars => SimInv'
<1> SUFFICES ASSUME SimInv, [SimNext]_simVars PROVE SimInv' OBVIOUS
<1>1. CASE UNCHANGED simVars
  BY <1>1 DEF simVars, SimInv, Sound, GoodPosition, GoodTrades, GoodTrade, EndOf, Balance, Flat
<1>2. CASE SimNext
  <2>1. PICK c \in Candles, signal \in {-1, 0, 1}, last \in BOOLEAN :
          /\ ~ sim.ended /\ (last \/ sim.index + 1 < MaxCandles)
          /\ sim' = Step(sim, c, signal, last)
    BY <1>2 DEF SimNext
  <2>2. PICK s : s = sim OBVIOUS
  <2>3. PICK r : r = Step(s, c, signal, last) OBVIOUS
  <2>4. Sound(s) /\ (s.scheduled # 0 => s.index > Warmup) /\ ~ s.ended BY <2>1, <2>2 DEF SimInv
  <2>5. Sound(r) /\ (r.scheduled # 0 => r.index > Warmup) /\ (r.ended => Flat(r))
    BY <2>1, <2>2, <2>3, <2>4, StepIsSound
  <2>6. sim' = r BY <2>1, <2>2, <2>3
  <2> QED BY <2>5, <2>6 DEF SimInv, Sound, GoodPosition, GoodTrades, GoodTrade, EndOf, Balance, Flat
<1> QED BY <1>1, <1>2

LEMMA SimIsSound == ASSUME Moderate PROVE SimInv => TradesAreSound
<1> SUFFICES ASSUME SimInv PROVE TradesAreSound OBVIOUS
<1>1. Sound(sim) /\ GoodTrades(sim.trades) BY DEF SimInv, Sound
<1>2. SimTypeOK
  <2>1. \A p \in Position : p.dir \in {-1, 0, 1} BY DEF Position
  <2>2. NoPosition.dir \in {-1, 0, 1} BY DEF NoPosition
  <2> QED BY <1>1, <2>1, <2>2, StateFields DEF SimTypeOK, Held
<1>3. TradesDoNotOverlap BY <1>1 DEF TradesDoNotOverlap, GoodTrades, GoodTrade, Trades, SimInv
<1>4. CostsNeverHelp BY <1>1 DEF CostsNeverHelp, GoodTrades, GoodTrade, Trades
<1>5. FillsAreInTheCandle BY <1>1 DEF FillsAreInTheCandle, GoodTrades, GoodTrade, Trades
<1>6. BooksBalance
  <2>1. ~ Flat(sim) => Held.before > 0 /\ Held.before = sim.equity
    BY <1>1 DEF Sound, GoodPosition, Held
  <2> QED BY <1>1, <2>1 DEF BooksBalance, GoodTrades, Trades
<1>7. LongerRangeKeepsTrades BY <1>1, EndingKeepsTrades DEF LongerRangeKeepsTrades, SimInv
<1> QED BY <1>2, <1>3, <1>4, <1>5, <1>6, <1>7 DEF TradesAreSound

\* Whatever the candles, the signals, the fees, and a slippage of 100 % at most:
\* Trades follow each other without overlap or look-ahead, costs never help,
\* fills are prices of their candle and the books balance to the last unit
\* (simulateBacktest, which accepts more slippage than that).
THEOREM TradesAreAlwaysSound ==
  ASSUME SlippagePercent <= 100
  PROVE  SimSpec => []TradesAreSound
<1>1. Moderate BY DEF Moderate
<1>2. SimInit => SimInv BY SimInitInv
<1>3. SimInv /\ [SimNext]_simVars => SimInv' BY <1>1, SimNextInv
<1>4. SimInv => TradesAreSound BY <1>1, SimIsSound
<1> QED BY <1>2, <1>3, <1>4, PTL DEF SimSpec
=============================================================================
