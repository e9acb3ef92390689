------------------------------- MODULE SearchRun -------------------------------
(***************************************************************************)
(* The Continuous Loop Orchestrator of one Search Run: its row in          *)
(* search_runs, the Candidates it reserves by iteration number, the        *)
(* fillAvailableSlots calls of the backend processes, and the pause,       *)
(* resume and cancel commands of its owner.                                *)
(*                                                                         *)
(* A fill and a cancellation work under a row lock; pause, resume and the  *)
(* error path of a fill read the row without it and write all its columns  *)
(* back later.  Submissions commit on connections of their own, so they    *)
(* outlive the fill that made them.                                        *)
(*                                                                         *)
(* Elapsed time and the course of the best score are choices made whenever *)
(* the stop condition is evaluated.  Fingerprints are left out: an attempt *)
(* that generates a known one, or none, changes nothing.                   *)
(***************************************************************************)
EXTENDS Integers, FiniteSets

CONSTANTS
  MaxCandidates,    \* stopCondition.maxCandidates, 0 when it is not given
  SoftStop,         \* whether maxDurationSeconds or noImprovement... is given
  MaxInFlight,      \* the run's maxInFlight
  MaxIterations,    \* bound: iteration numbers
  MaxCrashes,       \* bound: backend crashes during a fill
  Fillers,          \* backend processes; each runs the fills of a run in turn
  Users,            \* concurrent pause, resume and cancel commands
  Faults,           \* the faults the environment may inject
  NoOne             \* nobody holds the row lock

FaultKinds ==
  { "fillError",    \* a fill throws: generator exhausted, rejected, database
    "submitError",  \* a submission throws after its Candidate was committed
    "cancelError",  \* a cancellation rolls back
    "finalizeError",\* finalizeTerminalFailure's statement fails
    "strand" }      \* a Candidate gets into a dead end of the pipeline

ASSUME LimitsAreNatural ==
  /\ MaxCandidates \in Nat
  /\ MaxInFlight \in Nat \ {0}
  /\ MaxIterations \in Nat
  /\ MaxCrashes \in Nat
ASSUME SomeStopCondition == SoftStop \in BOOLEAN /\ (SoftStop \/ MaxCandidates # 0)
ASSUME LockHoldersAreDistinct ==
  /\ Fillers \cap Users = {}
  /\ NoOne \notin Fillers \cup Users
ASSUME SearchFaultsAreKnown == Faults \subseteq FaultKinds

VARIABLES
  run,        \* the row: its state and next_iteration
  cands,      \* the Candidate of each iteration number
  lock,       \* who holds the row lock
  fill,       \* the fill each backend process is in
  user,       \* each command of the owner
  crashes     \* backend crashes so far

vars == <<run, cands, lock, fill, user, crashes>>

Iterations == 1 .. MaxIterations

RunState == {"RUNNING", "PAUSED", "COMPLETED", "CANCELLED", "FAILED"}
Row == [state : RunState, next : Nat \ {0}]

\* RUNNING stands for BACKTESTING, RETRY_WAIT and PROCESSING_RESULT, and
\* FAILING for TERMINAL_FAILURE_PENDING.  RETURNED is PROCESSING_RESULT again,
\* of a Candidate that a failing completion took out of FAILING or CANCELLED;
\* LATE is CANCELLED where a completion may still hold its claim.  The STRANDED
\* ones keep a status that is counted and never change it.
Steady == {"QUEUED", "RUNNING", "STRANDED"}
Back == {"RETURNED", "RETURNED_STRANDED"}
CandidateStatus == Steady \cup Back \cup
  {"NONE", "FAILING", "COMPLETED", "FAILED", "CANCELLED", "LATE"}

Fill == [ pc : {"idle", "locked", "filling", "saving", "failing", "failWrite"},
          row : Row, slots : Nat, submitted : Nat ]
User == [ pc : {"idle", "write", "cancel"}, row : Row, active : SUBSET Iterations ]

NewRun == [state |-> "RUNNING", next |-> 1]
IdleFill == [pc |-> "idle", row |-> NewRun, slots |-> 0, submitted |-> 0]
IdleUser == [pc |-> "idle", row |-> NewRun, active |-> {}]

\* start has inserted the run; its first fill may have started or not.
Init ==
  /\ run = NewRun
  /\ cands = [k \in Iterations |-> "NONE"]
  /\ lock = NoOne
  /\ fill = [f \in Fillers |-> IdleFill]
  /\ user = [u \in Users |-> IdleUser]
  /\ crashes = 0

-----------------------------------------------------------------------------
(* What summarizeSearchCandidates counts, and what is computed from it     *)

WithStatus(S) == {k \in Iterations : cands[k] \in S}

Active == WithStatus(Steady \cup Back \cup {"FAILING"})
InFlight == Cardinality(WithStatus(Steady \cup Back))
Tested == Cardinality(WithStatus({"COMPLETED", "FAILED"}))

Larger(a, b) == IF a >= b THEN a ELSE b
Smaller(a, b) == IF a <= b THEN a ELSE b

BugReserved(row) == Tested + InFlight
Reserved(row) == Larger(Tested + InFlight, row.next - 1)

BugBudgetSpent(row) == MaxCandidates # 0 /\ Reserved(row) > MaxCandidates
BudgetSpent(row) == MaxCandidates # 0 /\ Reserved(row) >= MaxCandidates

BugFreeSlots == MaxInFlight
FreeSlots == Larger(0, MaxInFlight - InFlight)

Slots(row) ==
  Smaller(FreeSlots, IF MaxCandidates = 0 THEN MaxInFlight
                     ELSE Larger(0, MaxCandidates - Reserved(row)))

SoftStopMet == IF SoftStop THEN BOOLEAN ELSE {FALSE}

BugAfterEvaluation(row, met) == IF met THEN [row EXCEPT !.state = "COMPLETED"] ELSE row
AfterEvaluation(row, met) ==
  IF met /\ InFlight = 0 THEN [row EXCEPT !.state = "COMPLETED"] ELSE row

-----------------------------------------------------------------------------
(* fillAvailableSlots                                                      *)

BugLockFree == lock \in Fillers \cup {NoOne}
LockFree == lock = NoOne

\* withRunLock; on a run that is not RUNNING the fill returns at once.
FillBegin(f) ==
  /\ fill[f].pc = "idle"
  /\ LockFree
  /\ run.state = "RUNNING"
  /\ lock' = f
  /\ fill' = [fill EXCEPT ![f] = [IdleFill EXCEPT !.pc = "locked", !.row = run]]
  /\ UNCHANGED <<run, cands, user, crashes>>

FillEvaluate(f) ==
  /\ fill[f].pc = "locked"
  /\ \E soft \in SoftStopMet :
       LET row == fill[f].row
       IN  fill' = [fill EXCEPT ![f] =
             IF soft \/ BudgetSpent(row)
             THEN [fill[f] EXCEPT !.pc = "saving", !.row = AfterEvaluation(row, TRUE)]
             ELSE [fill[f] EXCEPT !.pc = "filling", !.slots = Slots(row)]]
  /\ UNCHANGED <<run, cands, lock, user, crashes>>

\* createQueuedSubmission: ON CONFLICT (search_run_id, iteration_number) DO
\* NOTHING, and the existing Candidate is returned as if it were new.
Reserve(k) == cands' = [cands EXCEPT ![k] = IF @ = "NONE" THEN "QUEUED" ELSE @]

NextAfterError(row) == row.next

FillSubmit(f) ==
  /\ fill[f].pc = "filling"
  /\ fill[f].submitted < fill[f].slots
  /\ fill[f].row.next \in Iterations
  /\ Reserve(fill[f].row.next)
  /\ fill' = [fill EXCEPT ![f].row.next = @ + 1, ![f].submitted = @ + 1]
  /\ UNCHANGED <<run, lock, user, crashes>>

\* A submission that throws is tried again while attempts last; it may have
\* committed its Candidate before it threw.
FillSubmitError(f) ==
  /\ "submitError" \in Faults
  /\ fill[f].pc = "filling"
  /\ fill[f].submitted < fill[f].slots
  /\ fill[f].row.next \in Iterations
  /\ Reserve(fill[f].row.next) \/ UNCHANGED cands
  /\ fill' = [fill EXCEPT ![f].row.next = NextAfterError(fill[f].row)]
  /\ UNCHANGED <<run, lock, user, crashes>>

\* The slots are filled, or the attempts are used up after a submission.
FillEvaluateAgain(f) ==
  /\ fill[f].pc = "filling"
  /\ \/ fill[f].submitted = fill[f].slots
     \/ fill[f].submitted > 0 /\ "fillError" \in Faults
  /\ \E soft \in SoftStopMet :
       LET row == fill[f].row
       IN  fill' = [fill EXCEPT ![f] =
             [fill[f] EXCEPT !.pc = "saving",
                             !.row = AfterEvaluation(row, soft \/ BudgetSpent(row))]]
  /\ UNCHANGED <<run, cands, lock, user, crashes>>

FillSave(f) ==
  /\ fill[f].pc = "saving"
  /\ run' = fill[f].row
  /\ lock' = NoOne
  /\ fill' = [fill EXCEPT ![f] = IdleFill]
  /\ UNCHANGED <<cands, user, crashes>>

\* Anything thrown rolls the locked transaction back.
FillThrows(f) ==
  /\ "fillError" \in Faults
  /\ fill[f].pc \in {"locked", "filling", "saving"}
  /\ lock' = NoOne
  /\ fill' = [fill EXCEPT ![f] = [IdleFill EXCEPT !.pc = "failing"]]
  /\ UNCHANGED <<run, cands, user, crashes>>

\* A fill queued behind one that failed does not run: it fails as well.
AfterFailure == {IdleFill, [IdleFill EXCEPT !.pc = "failing"]}

CatchRead(f) ==
  /\ fill[f].pc = "failing"
  /\ IF run.state \in {"RUNNING", "PAUSED"}
     THEN fill' = [fill EXCEPT ![f] = [IdleFill EXCEPT !.pc = "failWrite",
                     !.row = [run EXCEPT !.state = "FAILED"]]]
     ELSE \E after \in AfterFailure : fill' = [fill EXCEPT ![f] = after]
  /\ UNCHANGED <<run, cands, lock, user, crashes>>

CatchWrite(f) ==
  /\ fill[f].pc = "failWrite"
  /\ LockFree
  /\ run' = fill[f].row
  /\ \E after \in AfterFailure : fill' = [fill EXCEPT ![f] = after]
  /\ UNCHANGED <<cands, lock, user, crashes>>

BackendCrash(f) ==
  /\ crashes < MaxCrashes
  /\ fill[f].pc # "idle"
  /\ crashes' = crashes + 1
  /\ fill' = [fill EXCEPT ![f] = IdleFill]
  /\ lock' = IF lock = f THEN NoOne ELSE lock
  /\ UNCHANGED <<run, cands, user>>

-----------------------------------------------------------------------------
(* The owner's commands.  pause and resume are a read and a later write.   *)

CommandRead(u, from, to) ==
  /\ user[u].pc = "idle"
  /\ run.state = from
  /\ user' = [user EXCEPT ![u] =
       [IdleUser EXCEPT !.pc = "write", !.row = [run EXCEPT !.state = to]]]
  /\ UNCHANGED <<run, cands, lock, fill, crashes>>

Pause(u) == CommandRead(u, "RUNNING", "PAUSED")
Resume(u) == CommandRead(u, "PAUSED", "RUNNING")

CommandWrite(u) ==
  /\ user[u].pc = "write"
  /\ LockFree
  /\ run' = user[u].row
  /\ user' = [user EXCEPT ![u] = IdleUser]
  /\ UNCHANGED <<cands, lock, fill, crashes>>

\* cancel reads the active Candidates through the pool, under the run's lock.
CancelBegin(u) ==
  /\ user[u].pc = "idle"
  /\ LockFree
  /\ run.state \notin {"CANCELLED", "FAILED"}
  /\ lock' = u
  /\ user' = [user EXCEPT ![u] = [pc |-> "cancel", row |-> run, active |-> Active]]
  /\ UNCHANGED <<run, cands, fill, crashes>>

\* A cancellation leaves the claim of a completion as it is.
MayBeClaimed == {"RUNNING", "RETURNED", "FAILING"}
AfterCancel(status) == IF status \in MayBeClaimed THEN "LATE" ELSE "CANCELLED"

CancelCommit(u) ==
  /\ user[u].pc = "cancel"
  /\ run' = [user[u].row EXCEPT !.state = "CANCELLED"]
  /\ cands' = [k \in Iterations |->
                 IF k \in user[u].active THEN AfterCancel(cands[k]) ELSE cands[k]]
  /\ lock' = NoOne
  /\ user' = [user EXCEPT ![u] = IdleUser]
  /\ UNCHANGED <<fill, crashes>>

CancelRollback(u) ==
  /\ "cancelError" \in Faults
  /\ user[u].pc = "cancel"
  /\ lock' = NoOne
  /\ user' = [user EXCEPT ![u] = IdleUser]
  /\ UNCHANGED <<run, cands, fill, crashes>>

-----------------------------------------------------------------------------
(* Backtesting, as Search sees it                                          *)

CandidateMove(k, from, to) ==
  /\ cands[k] = from
  /\ cands' = [cands EXCEPT ![k] = to]
  /\ UNCHANGED <<run, lock, fill, user, crashes>>

\* What the pipeline does with a Candidate that is counted.
Progress(k) ==
  \/ CandidateMove(k, "QUEUED", "RUNNING")
  \/ CandidateMove(k, "QUEUED", "FAILING")
  \/ CandidateMove(k, "RUNNING", "FAILING")
  \/ CandidateMove(k, "RUNNING", "COMPLETED")
  \/ CandidateMove(k, "RUNNING", "FAILED")
  \/ CandidateMove(k, "RETURNED", "COMPLETED")
  \/ CandidateMove(k, "RETURNED", "FAILED")

\* A completion under a claim ends a terminal failure.  When its last statement
\* fails, failCompletion, which checks the claim and not the status, puts the
\* row back to PROCESSING_RESULT, or to FAILED after the last attempt.  The last
\* statement of a completion that was overtaken by a cancellation always fails.
Completion(k) ==
  \/ CandidateMove(k, "FAILING", "FAILED")
  \/ "finalizeError" \in Faults /\ CandidateMove(k, "FAILING", "RETURNED")
  \/ CandidateMove(k, "LATE", "RETURNED")
  \/ CandidateMove(k, "LATE", "FAILED")

\* The dead ends of the pipeline that BacktestProperties names Stranded.
Strand(k) ==
  /\ "strand" \in Faults
  /\ \/ CandidateMove(k, "QUEUED", "STRANDED")
     \/ CandidateMove(k, "RUNNING", "STRANDED")
     \/ CandidateMove(k, "RETURNED", "RETURNED_STRANDED")

CandidateStep(k) == Progress(k) \/ Completion(k) \/ Strand(k)

-----------------------------------------------------------------------------

FillStep(f) ==
  \/ FillEvaluate(f) \/ FillSubmit(f) \/ FillEvaluateAgain(f) \/ FillSave(f)
  \/ CatchRead(f)

Next ==
  \/ \E f \in Fillers : \/ FillBegin(f) \/ FillStep(f) \/ CatchWrite(f)
                        \/ FillSubmitError(f) \/ FillThrows(f) \/ BackendCrash(f)
  \/ \E u \in Users : \/ Pause(u) \/ Resume(u) \/ CommandWrite(u)
                      \/ CancelBegin(u) \/ CancelCommit(u) \/ CancelRollback(u)
  \/ \E k \in Iterations : CandidateStep(k)

Spec == Init /\ [][Next]_vars

(* The reconciliation timer fills every RUNNING run again and again, a     *)
(* backend restarts after a crash, waiters for the row lock are served in  *)
(* turn.  Backtesting goes on with a counted Candidate that is in no dead  *)
(* end.  Nobody has to give a command.                                     *)
Fairness ==
  /\ \A f \in Fillers : /\ SF_vars(FillBegin(f))
                        /\ WF_vars(FillStep(f))
                        /\ SF_vars(CatchWrite(f))
  /\ \A u \in Users : WF_vars(CancelCommit(u))
  /\ \A k \in Iterations : WF_vars(Progress(k))

FairSpec == Spec /\ Fairness
=============================================================================
