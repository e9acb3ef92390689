------------------------- MODULE ReplayVerification -------------------------
(***************************************************************************)
(* The replay verification of an Experiment: startReplayVerification makes *)
(* a durable row and a job, a worker claims the row under a lease of 60 s, *)
(* simulates again and writes the verdict, and reconcileQueue asks for a   *)
(* job again while the row is open.  BullMQ keeps the job once it is over, *)
(* so that a second job of the same id is not added.                       *)
(*                                                                         *)
(* Time is the action LeaseEnds.  A worker that blocks its event loop or   *)
(* dies loses the lock of the job; BullMQ gives it to another one once.    *)
(***************************************************************************)
EXTENDS Integers, FiniteSets

CONSTANTS
  Workers,      \* workers, each with one delivery at a time
  Attempts,     \* attempts of a job (the adapter says 3)
  MaxStalled,   \* maxStalledCount
  MaxClaims,    \* bound: claims
  MaxRecoveries \* bound: rounds of reconcileQueue

ASSUME ReplayAssumption ==
  /\ Attempts \in Nat \ {0} /\ MaxStalled \in Nat /\ MaxClaims \in Nat /\ MaxRecoveries \in Nat

VARIABLES
  row,        \* backtest_replay_verifications: the row of this verification
  job,        \* the job of the same id in Redis
  starting,   \* startReplayVerification is between its insert and queue.add
  recovering, \* reconcileQueue has read the row and not yet called queue.add
  worker,     \* what each worker does
  claims,     \* tokens given out (randomUUID)
  rounds,     \* rounds of reconcileQueue
  author,     \* history: the token of the delivery that wrote the verdict
  met         \* history: a delivery was turned away by a lease still running
replayVars == <<row, job, starting, recovering, worker, claims, rounds, author, met>>

Verdicts == {"MATCH", "MISMATCH", "NON_REPLAYABLE"}
Open == {"QUEUED", "RUNNING"}
Absent == [status |-> "ABSENT", token |-> 0, live |-> FALSE]
NoJob == [state |-> "none", made |-> 0, stalls |-> 0, owner |-> "none"]
Resting == [stage |-> "idle", token |-> 0, verdict |-> "none"]

ReplayInit ==
  /\ row = Absent /\ job = NoJob
  /\ starting = FALSE /\ recovering = FALSE
  /\ worker = [w \in Workers |-> Resting]
  /\ claims = 0 /\ rounds = 0 /\ author = 0 /\ met = FALSE

----------------------------------------------------------------------------
(* queue.add: nothing happens when a job of that id exists, whatever its state. *)
Added == IF job.state = "none" THEN [job EXCEPT !.state = "waiting"] ELSE job

Start ==
  /\ row.status = "ABSENT" /\ author = 0 /\ job.state = "none" /\ ~ starting /\ claims = 0
  /\ row' = [Absent EXCEPT !.status = "QUEUED"]
  /\ starting' = TRUE
  /\ UNCHANGED <<job, recovering, worker, claims, rounds, author, met>>
(* The enqueue of the start, which Redis may lose and the process not survive. *)
Enqueue ==
  /\ starting /\ starting' = FALSE
  /\ job' \in {Added, job}
  /\ UNCHANGED <<row, recovering, worker, claims, rounds, author, met>>

(* listReplayVerificationRecovery and the readReplayVerification behind it. *)
Recoverable == row.status = "QUEUED" \/ (row.status = "RUNNING" /\ ~ row.live)
RecoveryReads ==
  /\ ~ recovering /\ rounds < MaxRecoveries /\ Recoverable
  /\ recovering' = TRUE /\ rounds' = rounds + 1
  /\ UNCHANGED <<row, job, starting, worker, claims, author, met>>
RecoveryAdds ==
  /\ recovering /\ recovering' = FALSE
  /\ job' \in {Added, job}
  /\ UNCHANGED <<row, starting, worker, claims, rounds, author, met>>

----------------------------------------------------------------------------
(* BullMQ: a delivery locks the job for its worker. *)
Deliver(w) ==
  /\ job.state = "waiting" /\ worker[w] = Resting
  /\ job' = [job EXCEPT !.state = "active", !.owner = w]
  /\ worker' = [worker EXCEPT ![w].stage = "claim"]
  /\ UNCHANGED <<row, starting, recovering, claims, rounds, author, met>>
(* The end of a delivery counts only while its worker holds the lock. *)
Ended(w, ok) ==
  /\ worker' = [worker EXCEPT ![w] = Resting]
  /\ job' = IF job.state # "active" \/ job.owner # w THEN job
            ELSE IF ok THEN [job EXCEPT !.state = "completed"]
            ELSE [job EXCEPT !.made = @ + 1,
                             !.state = IF job.made + 1 >= Attempts THEN "failed" ELSE "waiting"]
(* The lock ran out: the job is delivered again, or failed the second time. *)
Stall ==
  /\ job.state = "active"
  /\ job' = [job EXCEPT !.stalls = @ + 1, !.owner = "none",
                        !.state = IF job.stalls + 1 > MaxStalled THEN "failed" ELSE "waiting"]
  /\ UNCHANGED <<row, starting, recovering, worker, claims, rounds, author, met>>
WorkerDies(w) ==
  /\ worker[w] # Resting
  /\ worker' = [worker EXCEPT ![w] = Resting]
  /\ UNCHANGED <<row, job, starting, recovering, claims, rounds, author, met>>
LeaseEnds ==
  /\ row.live /\ row' = [row EXCEPT !.live = FALSE]
  /\ UNCHANGED <<job, starting, recovering, worker, claims, rounds, author, met>>

----------------------------------------------------------------------------
(* processReplayVerification: the claim, and the job that finds none to make. *)
BugClaimable == row.status = "QUEUED"
Claimable == Recoverable
Claim(w) ==
  /\ worker[w].stage = "claim" /\ Claimable /\ claims < MaxClaims
  /\ claims' = claims + 1
  /\ row' = [status |-> "RUNNING", token |-> claims', live |-> TRUE]
  /\ worker' = [worker EXCEPT ![w] = [@ EXCEPT !.stage = "verify", !.token = claims']]
  /\ UNCHANGED <<job, starting, recovering, rounds, author, met>>
NothingToClaim(w) ==
  /\ worker[w].stage = "claim" /\ ~ Claimable
  /\ Ended(w, TRUE)
  /\ met' = (met \/ (row.status = "RUNNING" /\ row.live))
  /\ UNCHANGED <<row, starting, recovering, claims, rounds, author>>
ClaimFails(w) ==
  /\ worker[w].stage = "claim" /\ Ended(w, FALSE)
  /\ UNCHANGED <<row, starting, recovering, claims, rounds, author, met>>

(* verifyReplay: every error, a passing one of the database too, is NON_REPLAYABLE. *)
Verify(w) == \E v \in Verdicts :
  /\ worker[w].stage = "verify"
  /\ worker' = [worker EXCEPT ![w].stage = "complete", ![w].verdict = v]
  /\ UNCHANGED <<row, job, starting, recovering, claims, rounds, author, met>>

(* completeReplayVerification: one statement, fenced by token and lease. *)
Fenced(w) == row.status = "RUNNING" /\ row.token = worker[w].token /\ row.live
Complete(w) ==
  /\ worker[w].stage = "complete" /\ Fenced(w)
  /\ row' = [status |-> worker[w].verdict, token |-> 0, live |-> FALSE]
  /\ author' = worker[w].token
  /\ Ended(w, TRUE)
  /\ UNCHANGED <<starting, recovering, claims, rounds, met>>
(* BACKTEST_REPLAY_FENCE_LOST, or the statement fails. *)
CompleteFails(w) ==
  /\ worker[w].stage = "complete" /\ Ended(w, FALSE)
  /\ UNCHANGED <<row, starting, recovering, claims, rounds, author, met>>

(* The deletions of an Experiment take its verification with them. *)
ExperimentDeleted ==
  /\ row.status # "ABSENT" /\ row' = Absent
  /\ UNCHANGED <<job, starting, recovering, worker, claims, rounds, author, met>>

ReplayNext ==
  \/ Start \/ Enqueue \/ RecoveryReads \/ RecoveryAdds
  \/ Stall \/ LeaseEnds \/ ExperimentDeleted
  \/ \E w \in Workers :
       \/ Deliver(w) \/ WorkerDies(w) \/ Claim(w) \/ NothingToClaim(w) \/ ClaimFails(w)
       \/ Verify(w) \/ Complete(w) \/ CompleteFails(w)

----------------------------------------------------------------------------
(* The verdict is that of the last claim: a worker whose lease ran out and *)
(* whose row another one took does not write over it or before it.         *)
LastClaimDecides == row.status \in Verdicts => author = claims
(* Redis answers a job that is over with nothing, so an open row must not  *)
(* be left behind by one, unless its holder still works under its lease,   *)
(* the attempts or the stalls are spent, or a delivery was turned away by  *)
(* the lease of a holder that did not finish.                              *)
HolderWorks == row.live /\ \E w \in Workers : worker[w].token = row.token /\ worker[w].stage # "idle"
NotAbandoned ==
  (row.status \in Open /\ job.state = "completed") => HolderWorks \/ met
(* A verdict, once written, stays until the Experiment goes. *)
VerdictStays == row.status \in Verdicts => row' = row \/ row'.status = "ABSENT"
(* ReplayIsSettled: claimReplayVerification and completeReplayVerification *)
(* under redelivery, stalls and leases that end.                           *)
ReplayIsSettled == [][LastClaimDecides' /\ NotAbandoned' /\ VerdictStays]_replayVars
=============================================================================
