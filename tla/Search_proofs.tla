---------------------------- MODULE Search_proofs -----------------------------
(***************************************************************************)
(* The promises of a Search Run and of what surrounds its Candidates, for  *)
(* every value of their constants.                                         *)
(*                                                                         *)
(* The run, for any number of backend processes, commands and crashes: the *)
(* reservations are dense and within its budget, they are made only while  *)
(* it is RUNNING, and it completes only when drained.  The inductive       *)
(* invariant says what each local copy of the row may be.  A stale copy is *)
(* harmless to the budget because next_iteration only lags behind: every   *)
(* number below it is reserved already.                                    *)
(*                                                                         *)
(* Sentiment: results and snapshots are only ever added, so what was said  *)
(* of a snapshot when it was sealed stays true of it; the window of an     *)
(* instant ends at the first close not before it.                          *)
(*                                                                         *)
(* Replays: the row carries the token of the last claim, and no job is     *)
(* over behind an open row unless a delivery met the lease of another.     *)
(*                                                                         *)
(* Candidates: what was mapped to an id stays described by that row for as *)
(* long as it exists, so submit accepts what was generated or has a cause. *)
(***************************************************************************)
EXTENDS SearchProperties, SearchCandidates, SentimentSnapshot, ReplayVerification,
        FiniteSetTheorems, TLAPS

Locked == {"locked", "filling", "saving"}

\* The row lock keeps the run RUNNING under a fill, and is exclusive.
LockInv ==
  /\ \A f \in Fillers : fill[f].pc \in Locked => lock = f /\ run.state = "RUNNING"
  /\ \A u \in Users : user[u].pc = "cancel" => lock = u

Dense(copy) == \A k \in Iterations : k < copy.next => cands[k] # "NONE"

\* Every copy of next_iteration, however stale, has only reservations below,
\* and a cancellation is about to cancel reserved Candidates only.
DenseInv ==
  /\ Dense(run)
  /\ \A f \in Fillers : Dense(fill[f].row)
  /\ \A u \in Users : /\ Dense(user[u].row)
                      /\ \A k \in user[u].active : cands[k] # "NONE"

WithinBudget(n) == MaxCandidates # 0 => n <= MaxCandidates + 1

\* No copy of next_iteration passes the budget, and a fill that is
\* submitting has no more slots left than the budget has numbers.
BudgetInv ==
  /\ WithinBudget(run.next)
  /\ \A f \in Fillers :
       /\ WithinBudget(fill[f].row.next)
       /\ fill[f].pc = "locked" => fill[f].submitted = 0
       /\ fill[f].pc = "filling" =>
            /\ fill[f].submitted <= fill[f].slots
            /\ WithinBudget(fill[f].row.next + (fill[f].slots - fill[f].submitted))
  /\ \A u \in Users : WithinBudget(user[u].row.next)
  /\ BudgetKept

Drained == WithStatus(Steady) = {}

\* A fill writes COMPLETED only on a drained run, and nothing else does.
DrainInv ==
  /\ run.state = "COMPLETED" => Drained
  /\ \A f \in Fillers :
       /\ fill[f].pc = "saving" /\ fill[f].row.state = "COMPLETED" => Drained
       /\ fill[f].pc \in {"locked", "filling"} => fill[f].row.state = "RUNNING"
       /\ fill[f].pc = "failWrite" => fill[f].row.state = "FAILED"
  /\ \A u \in Users : user[u].pc = "write" => user[u].row.state # "COMPLETED"

RunInv == TypeOK /\ LockInv /\ DenseInv /\ BudgetInv /\ DrainInv

-----------------------------------------------------------------------------
(* Counting                                                                *)

\* The sets that are counted are finite, so that their sizes are numbers.
LEMMA CountsAreNatural ==
  /\ InFlight \in Nat /\ Tested \in Nat
  /\ InFlight = 0 => Drained
<1>1. ASSUME NEW S PROVE IsFiniteSet(WithStatus(S))
  <2>1. IsFiniteSet(Iterations)
    BY LimitsAreNatural, FS_Interval, SMT DEF Iterations
  <2>2. WithStatus(S) \subseteq Iterations
    BY DEF WithStatus
  <2> QED BY <2>1, <2>2, FS_Subset
<1>2. InFlight \in Nat /\ Tested \in Nat
  BY <1>1, FS_CardinalityType DEF InFlight, Tested
<1>3. InFlight = 0 => Drained
  <2>1. InFlight = 0 => WithStatus(Steady \cup Back) = {}
    BY <1>1, FS_EmptySet DEF InFlight
  <2>2. WithStatus(Steady) \subseteq WithStatus(Steady \cup Back)
    BY DEF WithStatus
  <2> QED BY <2>1, <2>2 DEF Drained
<1> QED BY <1>2, <1>3

\* A fill that may go on has room for its slots in the budget.
LEMMA SlotsFitBudget ==
  ASSUME NEW copy \in Row
  PROVE  /\ Slots(copy) \in Nat
         /\ ~ BudgetSpent(copy) /\ WithinBudget(copy.next) =>
              WithinBudget(copy.next + Slots(copy))
<1>1. copy.next \in Nat \ {0}
  BY DEF Row
<1>2. Reserved(copy) \in Nat /\ Reserved(copy) >= copy.next - 1
  BY <1>1, CountsAreNatural DEF Reserved, Larger
<1>3. FreeSlots \in Nat
  BY LimitsAreNatural, CountsAreNatural DEF FreeSlots, Larger
<1>4. /\ Slots(copy) \in Nat
      /\ MaxCandidates # 0 => Slots(copy) <= Larger(0, MaxCandidates - Reserved(copy))
  BY <1>2, <1>3, LimitsAreNatural DEF Slots, Smaller, Larger
<1> QED
  BY <1>1, <1>2, <1>4, LimitsAreNatural DEF BudgetSpent, WithinBudget, Larger

\* Evaluating the stop condition can only complete a drained run.
LEMMA EvaluationDrains ==
  ASSUME NEW copy \in Row, NEW reached \in BOOLEAN
  PROVE  /\ AfterEvaluation(copy, reached) \in Row
         /\ AfterEvaluation(copy, reached).next = copy.next
         /\ AfterEvaluation(copy, reached).state \in {copy.state, "COMPLETED"}
         /\ AfterEvaluation(copy, reached).state = "COMPLETED" /\ copy.state # "COMPLETED" => Drained
  BY CountsAreNatural DEF AfterEvaluation, Row, RunState

-----------------------------------------------------------------------------
(* Each part of the invariant is kept by every step                        *)

LEMMA InitialRun == Init => RunInv
  BY LimitsAreNatural
  DEF Init, RunInv, TypeOK, LockInv, DenseInv, Dense, BudgetInv, BudgetKept,
      WithinBudget, DrainInv, IdleFill, IdleUser, NewRun, Row, RunState, Fill,
      User, CandidateStatus, Locked, Iterations

\* The values a fill, a command and a row are set to.
LEMMA FillValues ==
  /\ IdleFill \in Fill
  /\ IdleFill.row = NewRun /\ IdleFill.pc = "idle"
  /\ [IdleFill EXCEPT !.pc = "failing"] \in Fill
  /\ [IdleFill EXCEPT !.pc = "failing"].row = NewRun
  /\ [IdleFill EXCEPT !.pc = "failing"].pc = "failing"
  BY DEF IdleFill, Fill, NewRun, Row, RunState

LEMMA UserValues ==
  /\ IdleUser \in User
  /\ IdleUser.row = NewRun /\ IdleUser.pc = "idle" /\ IdleUser.active = {}
  BY DEF IdleUser, User, NewRun, Row, RunState

LEMMA RowValues ==
  ASSUME NEW copy \in Row, NEW to \in RunState
  PROVE  /\ [copy EXCEPT !.state = to] \in Row
         /\ [copy EXCEPT !.state = to].next = copy.next
         /\ [copy EXCEPT !.state = to].state = to
  BY DEF Row

LEMMA FillTypeKept ==
  ASSUME TypeOK, NEW f \in Fillers,
         FillBegin(f) \/ FillStep(f) \/ CatchWrite(f)
           \/ FillSubmitError(f) \/ FillThrows(f) \/ BackendCrash(f)
  PROVE  TypeOK'
<1> USE DEF TypeOK
<1>1. CASE FillBegin(f)
  <2>1. [IdleFill EXCEPT !.pc = "locked", !.row = run] \in Fill
    BY FillValues DEF Fill
  <2> QED BY <1>1, <2>1 DEF FillBegin
<1>2. CASE FillEvaluate(f)
  <2>1. PICK soft \in SoftStopMet :
          fill' = [fill EXCEPT ![f] =
             IF soft \/ BudgetSpent(fill[f].row)
             THEN [fill[f] EXCEPT !.pc = "saving", !.row = AfterEvaluation(fill[f].row, TRUE)]
             ELSE [fill[f] EXCEPT !.pc = "filling", !.slots = Slots(fill[f].row)]]
    BY <1>2, Zenon DEF FillEvaluate
  <2>2. fill[f].row \in Row
    BY DEF Fill
  <2>3. Slots(fill[f].row) \in Nat /\ AfterEvaluation(fill[f].row, TRUE) \in Row
    BY <2>2, SlotsFitBudget, EvaluationDrains
  <2>4. /\ [fill[f] EXCEPT !.pc = "saving", !.row = AfterEvaluation(fill[f].row, TRUE)] \in Fill
        /\ [fill[f] EXCEPT !.pc = "filling", !.slots = Slots(fill[f].row)] \in Fill
    BY <2>3 DEF Fill
  <2> QED BY <1>2, <2>1, <2>4 DEF FillEvaluate
<1>3. CASE FillSubmit(f)
  BY <1>3 DEF FillSubmit, Fill, Row, Reserve, CandidateStatus
<1>4. CASE FillSubmitError(f)
  BY <1>4 DEF FillSubmitError, Fill, Row, Reserve, CandidateStatus, Steady, Back,
     NextAfterError
<1>5. CASE FillEvaluateAgain(f)
  <2>1. PICK soft \in SoftStopMet :
          fill' = [fill EXCEPT ![f] =
            [fill[f] EXCEPT !.pc = "saving",
               !.row = AfterEvaluation(fill[f].row, soft \/ BudgetSpent(fill[f].row))]]
    BY <1>5, Zenon DEF FillEvaluateAgain
  <2>2. fill[f].row \in Row
    BY DEF Fill
  <2>3. AfterEvaluation(fill[f].row, soft \/ BudgetSpent(fill[f].row)) \in Row
    BY <2>2, EvaluationDrains DEF SoftStopMet, BudgetSpent
  <2>4. [fill[f] EXCEPT !.pc = "saving",
           !.row = AfterEvaluation(fill[f].row, soft \/ BudgetSpent(fill[f].row))] \in Fill
    BY <2>3 DEF Fill
  <2> QED BY <1>5, <2>1, <2>4 DEF FillEvaluateAgain
<1>6. CASE FillSave(f)
  BY <1>6, FillValues DEF FillSave, Fill
<1>7. CASE FillThrows(f)
  BY <1>7, FillValues DEF FillThrows
<1>8. CASE CatchRead(f)
  <2>1. [run EXCEPT !.state = "FAILED"] \in Row
    BY RowValues DEF RunState
  <2>2. [IdleFill EXCEPT !.pc = "failWrite", !.row = [run EXCEPT !.state = "FAILED"]] \in Fill
    BY <2>1, FillValues DEF Fill
  <2> QED BY <1>8, <2>2, FillValues DEF CatchRead, AfterFailure
<1>9. CASE CatchWrite(f)
  BY <1>9, FillValues DEF CatchWrite, AfterFailure, Fill
<1>10. CASE BackendCrash(f)
  BY <1>10, FillValues, LimitsAreNatural DEF BackendCrash
<1> QED
  BY <1>1, <1>2, <1>3, <1>4, <1>5, <1>6, <1>7, <1>8, <1>9, <1>10 DEF FillStep

LEMMA UserTypeKept ==
  ASSUME TypeOK, NEW u \in Users,
         Pause(u) \/ Resume(u) \/ CommandWrite(u)
           \/ CancelBegin(u) \/ CancelCommit(u) \/ CancelRollback(u)
  PROVE  TypeOK'
<1> USE DEF TypeOK
<1>1. ASSUME NEW from, NEW to \in RunState, CommandRead(u, from, to)
      PROVE  TypeOK'
  <2>1. [IdleUser EXCEPT !.pc = "write", !.row = [run EXCEPT !.state = to]] \in User
    BY RowValues, UserValues DEF User
  <2> QED BY <1>1, <2>1 DEF CommandRead
<1>2. CASE Pause(u) \/ Resume(u)
  BY <1>1, <1>2 DEF Pause, Resume, RunState
<1>3. CASE CommandWrite(u)
  BY <1>3, UserValues DEF CommandWrite, User
<1>4. CASE CancelBegin(u)
  BY <1>4 DEF CancelBegin, User, Active, WithStatus
<1>5. CASE CancelCommit(u)
  <2>1. run' \in Row
    BY <1>5, RowValues DEF CancelCommit, User, RunState
  <2> QED BY <1>5, <2>1, UserValues
    DEF CancelCommit, AfterCancel, CandidateStatus, Steady, Back
<1>6. CASE CancelRollback(u)
  BY <1>6, UserValues DEF CancelRollback
<1> QED
  BY <1>2, <1>3, <1>4, <1>5, <1>6

LEMMA CandidateTypeKept ==
  ASSUME TypeOK, NEW k \in Iterations, CandidateStep(k)
  PROVE  TypeOK'
  BY DEF TypeOK, CandidateStep, Progress, Completion, Strand, CandidateMove,
     CandidateStatus, Steady, Back

LEMMA TypeKept == TypeOK /\ [Next]_vars => TypeOK'
<1>1. TypeOK /\ UNCHANGED vars => TypeOK'
  BY DEF TypeOK, vars
<1> QED
  BY <1>1, FillTypeKept, UserTypeKept, CandidateTypeKept DEF Next

-----------------------------------------------------------------------------
(* What the steps do to the row and its copies                             *)

FillAction(f) ==
  \/ FillBegin(f) \/ FillStep(f) \/ CatchWrite(f)
  \/ FillSubmitError(f) \/ FillThrows(f) \/ BackendCrash(f)

UserAction(u) ==
  \/ Pause(u) \/ Resume(u) \/ CommandWrite(u)
  \/ CancelBegin(u) \/ CancelCommit(u) \/ CancelRollback(u)

\* A fill changes its own record only, and a command its own.
LEMMA Locality ==
  ASSUME TypeOK
  PROVE  /\ \A f \in Fillers : FillAction(f) =>
              user' = user /\ \A g \in Fillers : g # f => fill'[g] = fill[g]
         /\ \A u \in Users : UserAction(u) =>
              fill' = fill /\ \A g \in Users : g # u => user'[g] = user[g]
<1>0. fill \in [Fillers -> Fill] /\ user \in [Users -> User]
  BY DEF TypeOK
<1>1. ASSUME NEW f \in Fillers, FillAction(f)
      PROVE  user' = user /\ \A g \in Fillers : g # f => fill'[g] = fill[g]
  <2> DEFINE Local == user' = user /\ \A g \in Fillers : g # f => fill'[g] = fill[g]
  <2>1. FillBegin(f) \/ FillEvaluate(f) \/ FillSubmit(f) \/ FillSave(f) => Local
    BY <1>0 DEF FillBegin, FillEvaluate, FillSubmit, FillSave
  <2>2. ASSUME FillEvaluateAgain(f) \/ CatchWrite(f) PROVE Local
    <3>1. user' = user /\ \E v : fill' = [fill EXCEPT ![f] = v]
      BY <2>2, Zenon DEF FillEvaluateAgain, CatchWrite
    <3> QED BY <1>0, <3>1
  <2>4. CatchRead(f) => Local
    BY <1>0 DEF CatchRead
  <2>3. FillSubmitError(f) \/ FillThrows(f) \/ BackendCrash(f) => Local
    BY <1>0 DEF FillSubmitError, FillThrows, BackendCrash
  <2> QED BY <1>1, <2>1, <2>2, <2>3, <2>4 DEF FillAction, FillStep
<1>2. ASSUME NEW u \in Users, UserAction(u)
      PROVE  fill' = fill /\ \A g \in Users : g # u => user'[g] = user[g]
  BY <1>0, <1>2 DEF UserAction, Pause, Resume, CommandRead, CommandWrite,
     CancelBegin, CancelCommit, CancelRollback
<1> QED BY <1>1, <1>2

LEMMA LockKept == TypeOK /\ LockInv /\ [Next]_vars => LockInv'
<1> SUFFICES ASSUME TypeOK, LockInv, [Next]_vars PROVE LockInv'
  OBVIOUS
<1> USE LockHoldersAreDistinct DEF LockInv, Locked
<1>1. ASSUME NEW f \in Fillers, FillAction(f) PROVE LockInv'
  <2> USE DEF TypeOK
  <2>1. CASE FillBegin(f)
    BY <1>1, <2>1 DEF FillBegin, LockFree
  <2>2. CASE FillEvaluate(f)
    BY <1>1, <2>2 DEF FillEvaluate
  <2>3. CASE FillSubmit(f)
    BY <1>1, <2>3 DEF FillSubmit
  <2>4. CASE FillSubmitError(f)
    BY <1>1, <2>4 DEF FillSubmitError
  <2>5. CASE FillEvaluateAgain(f)
    BY <1>1, <2>5 DEF FillEvaluateAgain
  <2>6. CASE FillSave(f)
    BY <1>1, <2>6, FillValues DEF FillSave
  <2>7. CASE FillThrows(f)
    BY <1>1, <2>7, FillValues DEF FillThrows
  <2>8. CASE CatchRead(f)
    <3>1. \E v : fill' = [fill EXCEPT ![f] = v] /\ v.pc \notin Locked
      <4>1. [IdleFill EXCEPT !.pc = "failWrite",
               !.row = [run EXCEPT !.state = "FAILED"]].pc = "failWrite"
        BY DEF IdleFill
      <4> QED BY <2>8, <4>1, FillValues DEF CatchRead, AfterFailure
    <3> QED BY <2>8, <3>1 DEF CatchRead
  <2>9. CASE CatchWrite(f)
    BY <1>1, <2>9, FillValues DEF CatchWrite, AfterFailure, LockFree
  <2>10. CASE BackendCrash(f)
    BY <1>1, <2>10, FillValues DEF BackendCrash
  <2> QED
    BY <1>1, <2>1, <2>2, <2>3, <2>4, <2>5, <2>6, <2>7, <2>8, <2>9, <2>10
       DEF FillAction, FillStep
<1>2. ASSUME NEW u \in Users, UserAction(u) PROVE LockInv'
  <2> USE DEF TypeOK
  <2>1. CASE Pause(u) \/ Resume(u)
    <3>1. \E v : user' = [user EXCEPT ![u] = v] /\ v.pc = "write"
      <4>1. \A copy : [IdleUser EXCEPT !.pc = "write", !.row = copy].pc = "write"
        BY DEF IdleUser
      <4> QED BY <2>1, <4>1 DEF Pause, Resume, CommandRead
    <3> QED BY <2>1, <3>1 DEF Pause, Resume, CommandRead
  <2>2. CASE CommandWrite(u)
    BY <1>2, <2>2, UserValues DEF CommandWrite, LockFree
  <2>3. CASE CancelBegin(u)
    BY <1>2, <2>3 DEF CancelBegin, LockFree
  <2>4. CASE CancelCommit(u)
    BY <1>2, <2>4, UserValues DEF CancelCommit
  <2>5. CASE CancelRollback(u)
    BY <1>2, <2>5, UserValues DEF CancelRollback
  <2> QED
    BY <1>2, <2>1, <2>2, <2>3, <2>4, <2>5 DEF UserAction
<1>3. ASSUME NEW k \in Iterations, CandidateStep(k) PROVE LockInv'
  BY <1>3 DEF CandidateStep, Progress, Completion, Strand, CandidateMove
<1>4. UNCHANGED vars => LockInv'
  BY DEF vars
<1> QED
  BY <1>1, <1>2, <1>3, <1>4 DEF Next, FillAction, UserAction

\* What a step leaves in the record of its fill, and in the rest.
FillOutcome(f, v) ==
  LET old == fill[f]
      FrameStays == run' = run /\ cands' = cands
  IN
  \/ /\ v.pc \in {"idle", "failing"} /\ v.row = NewRun
     /\ cands' = cands
     /\ run' = run \/ (old.pc \in {"saving", "failWrite"} /\ run' = old.row)
  \/ /\ v.pc = "locked" /\ v.row = run /\ v.submitted = 0
     /\ run.state = "RUNNING" /\ FrameStays
  \/ /\ v.pc = "failWrite" /\ v.row.state = "FAILED" /\ v.row.next = run.next
     /\ FrameStays
  \/ /\ v.pc = "saving" /\ old.pc \in {"locked", "filling"}
     /\ v.row.next = old.row.next
     /\ v.row.state = "COMPLETED" /\ old.row.state # "COMPLETED" => Drained
     /\ FrameStays
  \/ /\ v.pc = "filling" /\ old.pc = "locked"
     /\ v.row = old.row /\ v.submitted = old.submitted
     /\ ~ BudgetSpent(old.row) /\ v.slots = Slots(old.row)
     /\ FrameStays
  \/ /\ v.pc = "filling" /\ old.pc = "filling" /\ old.submitted < old.slots
     /\ old.row.next \in Iterations
     /\ v.row.state = old.row.state /\ v.slots = old.slots
     /\ run' = run
     /\ \/ Reserve(old.row.next) /\ v.row.next = old.row.next + 1
                                  /\ v.submitted = old.submitted + 1
        \/ /\ Reserve(old.row.next) \/ cands' = cands
           /\ v.row.next = old.row.next /\ v.submitted = old.submitted

LEMMA FillOutcomes ==
  ASSUME TypeOK, NEW f \in Fillers, FillAction(f)
  PROVE  \E v \in Fill : fill' = [fill EXCEPT ![f] = v] /\ FillOutcome(f, v)
<1>0. /\ TypeOK' /\ fill[f] \in Fill /\ fill[f].row \in Row /\ run \in Row
      /\ fill \in [Fillers -> Fill]
  <2>1. TypeOK'
    BY FillTypeKept DEF FillAction
  <2> QED BY <2>1 DEF TypeOK, Fill
<1> DEFINE v == fill'[f]
<1>a. v \in Fill
  BY <1>0 DEF TypeOK
<1>1. CASE FillBegin(f)
  <2>1. [IdleFill EXCEPT !.pc = "locked", !.row = run].pc = "locked"
        /\ [IdleFill EXCEPT !.pc = "locked", !.row = run].row = run
        /\ [IdleFill EXCEPT !.pc = "locked", !.row = run].submitted = 0
    BY DEF IdleFill
  <2>2. fill' = [fill EXCEPT ![f] = v] /\ v = [IdleFill EXCEPT !.pc = "locked", !.row = run]
    BY <1>0, <1>1 DEF FillBegin
  <2> QED BY <1>a, <1>1, <2>1, <2>2 DEF FillBegin, FillOutcome
<1>2. CASE FillEvaluate(f)
  <2> DEFINE copy == fill[f].row
             save == [fill[f] EXCEPT !.pc = "saving", !.row = AfterEvaluation(copy, TRUE)]
             go == [fill[f] EXCEPT !.pc = "filling", !.slots = Slots(copy)]
  <2>1. PICK soft \in SoftStopMet :
          fill' = [fill EXCEPT ![f] = IF soft \/ BudgetSpent(copy) THEN save ELSE go]
    BY <1>2, Zenon DEF FillEvaluate
  <2>2. /\ save.pc = "saving" /\ save.row = AfterEvaluation(copy, TRUE)
        /\ go.pc = "filling" /\ go.row = copy /\ go.slots = Slots(copy)
        /\ go.submitted = fill[f].submitted
    BY <1>0 DEF Fill
  <2>3. fill' = [fill EXCEPT ![f] = v] /\ v = IF soft \/ BudgetSpent(copy) THEN save ELSE go
    BY <1>0, <2>1
  <2>4. /\ save.row.next = copy.next
        /\ save.row.state = "COMPLETED" /\ copy.state # "COMPLETED" => Drained
    BY <1>0, <2>2, EvaluationDrains
  <2>5. fill[f].pc = "locked" /\ run' = run /\ cands' = cands
    BY <1>2 DEF FillEvaluate
  <2> HIDE DEF copy, save, go, v
  <2>6. CASE soft \/ BudgetSpent(copy)
    BY <1>a, <2>2, <2>3, <2>4, <2>5, <2>6, Zenon DEF FillOutcome, copy
  <2>7. CASE ~ (soft \/ BudgetSpent(copy))
    BY <1>a, <2>2, <2>3, <2>5, <2>7, Zenon DEF FillOutcome, copy
  <2> QED BY <2>6, <2>7
<1>3. CASE FillSubmit(f)
  <2>1. fill' = [fill EXCEPT ![f] = v]
        /\ v.pc = fill[f].pc /\ v.slots = fill[f].slots
        /\ v.row.next = fill[f].row.next + 1 /\ v.row.state = fill[f].row.state
        /\ v.submitted = fill[f].submitted + 1
    BY <1>0, <1>3 DEF FillSubmit, Fill, Row
  <2> HIDE DEF v
  <2> QED BY <1>a, <1>3, <2>1, Zenon DEF FillSubmit, FillOutcome
<1>4. CASE FillSubmitError(f)
  <2>1. fill' = [fill EXCEPT ![f] = v]
        /\ v.pc = fill[f].pc /\ v.slots = fill[f].slots
        /\ v.row.next = fill[f].row.next /\ v.row.state = fill[f].row.state
        /\ v.submitted = fill[f].submitted
    BY <1>0, <1>4 DEF FillSubmitError, NextAfterError, Fill, Row
  <2> HIDE DEF v
  <2> QED BY <1>a, <1>4, <2>1, Zenon DEF FillSubmitError, FillOutcome
<1>5. CASE FillEvaluateAgain(f)
  <2> DEFINE copy == fill[f].row
  <2>1. PICK soft \in SoftStopMet :
          fill' = [fill EXCEPT ![f] =
            [fill[f] EXCEPT !.pc = "saving",
               !.row = AfterEvaluation(copy, soft \/ BudgetSpent(copy))]]
    BY <1>5, Zenon DEF FillEvaluateAgain
  <2>2. soft \/ BudgetSpent(copy) \in BOOLEAN
    BY DEF SoftStopMet, BudgetSpent
  <2>3. fill' = [fill EXCEPT ![f] = v] /\ v.pc = "saving"
        /\ v.row = AfterEvaluation(copy, soft \/ BudgetSpent(copy))
    BY <1>0, <2>1 DEF Fill
  <2>4. /\ v.row.next = copy.next
        /\ v.row.state = "COMPLETED" /\ copy.state # "COMPLETED" => Drained
    BY <1>0, <2>2, <2>3, EvaluationDrains
  <2>5. fill[f].pc = "filling" /\ run' = run /\ cands' = cands
    BY <1>5 DEF FillEvaluateAgain
  <2> HIDE DEF v
  <2> QED BY <1>a, <2>3, <2>4, <2>5, Zenon DEF FillOutcome
<1>6. CASE FillSave(f)
  <2>1. fill' = [fill EXCEPT ![f] = v] /\ v = IdleFill
    BY <1>0, <1>6 DEF FillSave
  <2> QED BY <1>a, <1>6, <2>1, FillValues DEF FillSave, FillOutcome
<1>7. CASE FillThrows(f)
  <2>1. fill' = [fill EXCEPT ![f] = v] /\ v = [IdleFill EXCEPT !.pc = "failing"]
    BY <1>0, <1>7 DEF FillThrows
  <2> QED BY <1>a, <1>7, <2>1, FillValues DEF FillThrows, FillOutcome
<1>8. CASE CatchRead(f)
  <2> DEFINE write == [IdleFill EXCEPT !.pc = "failWrite", !.row = [run EXCEPT !.state = "FAILED"]]
  <2>1. write.pc = "failWrite" /\ write.row.state = "FAILED" /\ write.row.next = run.next
    BY <1>0 DEF IdleFill, Row
  <2>2. /\ fill' = [fill EXCEPT ![f] = v]
        /\ v = write \/ v \in AfterFailure
        /\ run' = run /\ cands' = cands
    BY <1>0, <1>8 DEF CatchRead
  <2> HIDE DEF write, v
  <2>3. CASE v = write
    BY <1>a, <2>1, <2>2, <2>3, Zenon DEF FillOutcome
  <2>4. CASE v \in AfterFailure
    <3>1. v.pc \in {"idle", "failing"} /\ v.row = NewRun
      BY <2>4, FillValues DEF AfterFailure
    <3> QED BY <1>a, <2>2, <3>1, Zenon DEF FillOutcome
  <2> QED BY <2>2, <2>3, <2>4
<1>9. CASE CatchWrite(f)
  <2>1. fill' = [fill EXCEPT ![f] = v] /\ v \in AfterFailure
    BY <1>0, <1>9 DEF CatchWrite
  <2>2. v.pc \in {"idle", "failing"} /\ v.row = NewRun
    BY <2>1, FillValues DEF AfterFailure
  <2> QED BY <1>a, <1>9, <2>1, <2>2 DEF CatchWrite, FillOutcome
<1>10. CASE BackendCrash(f)
  <2>1. fill' = [fill EXCEPT ![f] = v] /\ v = IdleFill
    BY <1>0, <1>10 DEF BackendCrash
  <2> QED BY <1>a, <1>10, <2>1, FillValues DEF BackendCrash, FillOutcome
<1> QED
  BY <1>1, <1>2, <1>3, <1>4, <1>5, <1>6, <1>7, <1>8, <1>9, <1>10 DEF FillAction, FillStep

\* What a step leaves in the record of its command, and in the rest.
UserOutcome(u, v) ==
  LET old == user[u]
  IN
  \/ /\ v.pc = "idle" /\ v.row = NewRun /\ v.active = {}
     /\ \/ run' = run /\ cands' = cands
        \/ old.pc = "write" /\ run' = old.row /\ cands' = cands
        \/ /\ run'.state = "CANCELLED" /\ run'.next = old.row.next
           /\ cands' = [k \in Iterations |->
                          IF k \in old.active THEN AfterCancel(cands[k]) ELSE cands[k]]
  \/ /\ v.pc \in {"write", "cancel"} /\ v.row.next = run.next
     /\ v.pc = "write" => v.row.state # "COMPLETED"
     /\ v.active \in {{}, Active}
     /\ run' = run /\ cands' = cands

LEMMA UserOutcomes ==
  ASSUME TypeOK, NEW u \in Users, UserAction(u)
  PROVE  \E v \in User : user' = [user EXCEPT ![u] = v] /\ UserOutcome(u, v)
<1>0. /\ TypeOK' /\ user[u] \in User /\ run \in Row /\ user \in [Users -> User]
  <2>1. TypeOK'
    BY UserTypeKept DEF UserAction
  <2> QED BY <2>1 DEF TypeOK
<1> DEFINE v == user'[u]
<1>a. v \in User
  BY <1>0 DEF TypeOK
<1>1. ASSUME NEW from, NEW to \in {"PAUSED", "RUNNING"}, CommandRead(u, from, to)
      PROVE  user' = [user EXCEPT ![u] = v] /\ UserOutcome(u, v)
  <2> DEFINE w == [IdleUser EXCEPT !.pc = "write", !.row = [run EXCEPT !.state = to]]
  <2>1. user' = [user EXCEPT ![u] = v] /\ v = w
    BY <1>0, <1>1 DEF CommandRead
  <2>2. w.pc = "write" /\ w.row.next = run.next /\ w.row.state = to /\ w.active = {}
    BY <1>0 DEF IdleUser, Row
  <2>3. run' = run /\ cands' = cands
    BY <1>1 DEF CommandRead
  <2> HIDE DEF v, w
  <2> QED BY <2>1, <2>2, <2>3 DEF UserOutcome
<1>2. CASE Pause(u) \/ Resume(u)
  BY <1>a, <1>1, <1>2 DEF Pause, Resume
<1>3. CASE CommandWrite(u)
  <2>1. user' = [user EXCEPT ![u] = v] /\ v = IdleUser
    BY <1>0, <1>3 DEF CommandWrite
  <2> QED BY <1>a, <1>3, <2>1, UserValues DEF CommandWrite, UserOutcome
<1>4. CASE CancelBegin(u)
  <2>1. user' = [user EXCEPT ![u] = v] /\ v = [pc |-> "cancel", row |-> run, active |-> Active]
    BY <1>0, <1>4 DEF CancelBegin
  <2>2. v.pc = "cancel" /\ v.row = run /\ v.active = Active
    BY <2>1
  <2> HIDE DEF v
  <2> QED BY <1>a, <1>4, <2>1, <2>2, Zenon DEF CancelBegin, UserOutcome
<1>5. CASE CancelCommit(u)
  <2>1. user' = [user EXCEPT ![u] = v] /\ v = IdleUser
    BY <1>0, <1>5 DEF CancelCommit
  <2>2. run'.state = "CANCELLED" /\ run'.next = user[u].row.next
    BY <1>0, <1>5 DEF CancelCommit, User, Row
  <2> QED BY <1>a, <1>5, <2>1, <2>2, UserValues DEF CancelCommit, UserOutcome
<1>6. CASE CancelRollback(u)
  <2>1. user' = [user EXCEPT ![u] = v] /\ v = IdleUser
    BY <1>0, <1>6 DEF CancelRollback
  <2> QED BY <1>a, <1>6, <2>1, UserValues DEF CancelRollback, UserOutcome
<1> QED
  BY <1>a, <1>2, <1>3, <1>4, <1>5, <1>6 DEF UserAction

-----------------------------------------------------------------------------
(* The rest of the invariant                                               *)

\* A reservation is never taken back.
LEMMA ReservationsStay ==
  ASSUME TypeOK, [Next]_vars
  PROVE  \A k \in Iterations : cands[k] # "NONE" => cands'[k] # "NONE"
<1>1. ASSUME NEW f \in Fillers, FillAction(f), NEW k \in Iterations, cands[k] # "NONE"
      PROVE  cands'[k] # "NONE"
  BY <1>1, FillOutcomes DEF FillOutcome, Reserve, TypeOK
<1>2. ASSUME NEW u \in Users, UserAction(u), NEW k \in Iterations, cands[k] # "NONE"
      PROVE  cands'[k] # "NONE"
  BY <1>2, UserOutcomes DEF UserOutcome, AfterCancel, TypeOK
<1>3. ASSUME NEW j \in Iterations, CandidateStep(j), NEW k \in Iterations, cands[k] # "NONE"
      PROVE  cands'[k] # "NONE"
  BY <1>3 DEF CandidateStep, Progress, Completion, Strand, CandidateMove, TypeOK
<1>4. CASE UNCHANGED vars
  BY <1>4 DEF vars
<1> QED
  BY <1>1, <1>2, <1>3, <1>4 DEF Next, FillAction, UserAction

LEMMA DenseKept == TypeOK /\ DenseInv /\ [Next]_vars => DenseInv'
<1> SUFFICES ASSUME TypeOK, DenseInv, [Next]_vars PROVE DenseInv'
  OBVIOUS
<1>1. \A k \in Iterations : cands[k] # "NONE" => cands'[k] # "NONE"
  BY ReservationsStay
<1>2. ASSUME NEW f \in Fillers, FillAction(f) PROVE DenseInv'
  <2>1. PICK v \in Fill : fill' = [fill EXCEPT ![f] = v] /\ FillOutcome(f, v)
    BY <1>2, FillOutcomes
  <2>2. fill[f].row.next \in Nat /\ run.next \in Nat
    BY DEF TypeOK, Fill, Row
  <2>3. \A k \in Iterations : k < v.row.next => cands'[k] # "NONE"
    <3>1. CASE v.row.next \in {run.next, fill[f].row.next, 1}
      BY <1>1, <2>2, <3>1 DEF DenseInv, Dense, Iterations
    <3>2. CASE v.row.next = fill[f].row.next + 1 /\ Reserve(fill[f].row.next)
               /\ fill[f].row.next \in Iterations
      <4>1. cands'[fill[f].row.next] # "NONE"
        BY <3>2 DEF Reserve, TypeOK
      <4> QED BY <1>1, <2>2, <3>2, <4>1 DEF DenseInv, Dense, Iterations
    <3> QED BY <2>1, <3>1, <3>2 DEF FillOutcome, NewRun
  <2>4. run' = run \/ run' = fill[f].row
    BY <2>1 DEF FillOutcome
  <2>5. \A k \in Iterations : k < run'.next => cands'[k] # "NONE"
    BY <1>1, <2>4 DEF DenseInv, Dense
  <2>6. user' = user /\ \A g \in Fillers : fill'[g] = IF g = f THEN v ELSE fill[g]
    BY <1>2, <2>1, Locality DEF TypeOK
  <2>7. \A g \in Users : user[g].active \subseteq Iterations
    BY DEF TypeOK, User
  <2> QED BY <1>1, <2>3, <2>5, <2>6, <2>7 DEF DenseInv, Dense
<1>3. ASSUME NEW u \in Users, UserAction(u) PROVE DenseInv'
  <2>1. PICK v \in User : user' = [user EXCEPT ![u] = v] /\ UserOutcome(u, v)
    BY <1>3, UserOutcomes
  <2>2. v.row.next \in {run.next, 1} /\ run'.next \in {run.next, user[u].row.next}
    BY <2>1 DEF UserOutcome, NewRun
  <2>3. /\ \A k \in Iterations : k < v.row.next => cands'[k] # "NONE"
        /\ \A k \in Iterations : k < run'.next => cands'[k] # "NONE"
    BY <1>1, <2>2 DEF DenseInv, Dense, Iterations
  <2>4. fill' = fill /\ \A g \in Users : user'[g] = IF g = u THEN v ELSE user[g]
    BY <1>3, <2>1, Locality DEF TypeOK
  <2>5. \A k \in v.active : cands[k] # "NONE" /\ k \in Iterations
    BY <2>1 DEF UserOutcome, Active, WithStatus, Steady, Back
  <2>6. \A g \in Users : user[g].active \subseteq Iterations
    BY DEF TypeOK, User
  <2> QED BY <1>1, <2>3, <2>4, <2>5, <2>6 DEF DenseInv, Dense
<1>4. ASSUME NEW k \in Iterations, CandidateStep(k) PROVE DenseInv'
  BY <1>1, <1>4 DEF TypeOK, User, CandidateStep, Progress, Completion, Strand,
     CandidateMove, DenseInv, Dense
<1>5. CASE UNCHANGED vars
  BY <1>1, <1>5 DEF vars, DenseInv, Dense
<1> QED
  BY <1>2, <1>3, <1>4, <1>5 DEF Next, FillAction, UserAction

LEMMA BudgetInvKept == TypeOK /\ DenseInv /\ BudgetInv /\ [Next]_vars => BudgetInv'
<1> SUFFICES ASSUME TypeOK, DenseInv, BudgetInv, [Next]_vars PROVE BudgetInv'
  OBVIOUS
<1> USE LimitsAreNatural
<1>1. ASSUME NEW f \in Fillers, FillAction(f) PROVE BudgetInv'
  <2>1. PICK v \in Fill : fill' = [fill EXCEPT ![f] = v] /\ FillOutcome(f, v)
    BY <1>1, FillOutcomes
  <2>2. /\ fill[f] \in Fill /\ fill[f].row \in Row /\ fill[f].row.next \in Nat
        /\ fill[f].slots \in Nat /\ fill[f].submitted \in Nat /\ run.next \in Nat
    BY DEF TypeOK, Fill, Row
  <2>3. /\ WithinBudget(fill[f].row.next) /\ WithinBudget(run.next) /\ WithinBudget(1)
        /\ fill[f].pc = "locked" => fill[f].submitted = 0
        /\ fill[f].pc = "filling" =>
             /\ fill[f].submitted <= fill[f].slots
             /\ WithinBudget(fill[f].row.next + (fill[f].slots - fill[f].submitted))
    BY DEF BudgetInv, WithinBudget
  <2>4. /\ WithinBudget(v.row.next)
        /\ v.pc = "locked" => v.submitted = 0
        /\ v.pc = "filling" =>
             /\ v.submitted <= v.slots
             /\ WithinBudget(v.row.next + (v.slots - v.submitted))
    <3>1. CASE v.pc # "filling"
      BY <2>1, <2>2, <2>3, <3>1 DEF FillOutcome, NewRun
    <3>2. CASE v.pc = "filling" /\ fill[f].pc = "locked"
      <4>1. v.row = fill[f].row /\ v.submitted = 0 /\ v.slots = Slots(v.row)
            /\ ~ BudgetSpent(v.row)
        BY <2>1, <2>3, <3>2 DEF FillOutcome
      <4>2. Slots(v.row) \in Nat /\ WithinBudget(v.row.next + Slots(v.row))
        BY <2>2, <2>3, <4>1, SlotsFitBudget
      <4> QED BY <2>2, <2>3, <3>2, <4>1, <4>2
    <3>3. CASE v.pc = "filling" /\ fill[f].pc # "locked"
      <4>1. /\ fill[f].pc = "filling" /\ fill[f].submitted < fill[f].slots
            /\ v.slots = fill[f].slots
            /\ \/ v.row.next = fill[f].row.next + 1 /\ v.submitted = fill[f].submitted + 1
               \/ v.row.next = fill[f].row.next /\ v.submitted = fill[f].submitted
        BY <2>1, <3>3 DEF FillOutcome
      <4> QED BY <2>2, <2>3, <3>3, <4>1 DEF WithinBudget
    <3> QED BY <3>1, <3>2, <3>3
  <2>5. WithinBudget(run'.next)
    BY <2>1, <2>3 DEF FillOutcome
  <2>6. BudgetKept'
    <3>1. CASE cands' = cands
      BY <3>1 DEF BudgetInv, BudgetKept
    <3>2. CASE fill[f].pc = "filling" /\ fill[f].submitted < fill[f].slots
               /\ Reserve(fill[f].row.next)
      <4>1. MaxCandidates # 0 => fill[f].row.next <= MaxCandidates
        BY <2>2, <2>3, <3>2 DEF WithinBudget
      <4> QED BY <3>2, <4>1 DEF BudgetInv, BudgetKept, Reserve, TypeOK
    <3> QED BY <2>1, <3>1, <3>2 DEF FillOutcome
  <2>7. user' = user /\ \A g \in Fillers : fill'[g] = IF g = f THEN v ELSE fill[g]
    BY <1>1, <2>1, Locality DEF TypeOK
  <2> HIDE DEF WithinBudget
  <2> QED BY <2>4, <2>5, <2>6, <2>7 DEF BudgetInv
<1>2. ASSUME NEW u \in Users, UserAction(u) PROVE BudgetInv'
  <2>1. PICK v \in User : user' = [user EXCEPT ![u] = v] /\ UserOutcome(u, v)
    BY <1>2, UserOutcomes
  <2>2. v.row.next \in {run.next, 1} /\ run'.next \in {run.next, user[u].row.next}
    BY <2>1 DEF UserOutcome, NewRun
  <2>3. WithinBudget(1) /\ WithinBudget(run.next) /\ WithinBudget(user[u].row.next)
    BY DEF BudgetInv, WithinBudget
  <2>4. WithinBudget(v.row.next) /\ WithinBudget(run'.next)
    BY <2>2, <2>3
  <2>5. BudgetKept'
    <3>1. \A k \in Iterations : cands'[k] # "NONE" => cands[k] # "NONE"
      BY <2>1 DEF UserOutcome, DenseInv
    <3> QED BY <3>1 DEF BudgetInv, BudgetKept
  <2>6. fill' = fill /\ \A g \in Users : user'[g] = IF g = u THEN v ELSE user[g]
    BY <1>2, <2>1, Locality DEF TypeOK
  <2> QED BY <2>4, <2>5, <2>6 DEF BudgetInv
<1>3. ASSUME NEW k \in Iterations, CandidateStep(k) PROVE BudgetInv'
  BY <1>3 DEF CandidateStep, Progress, Completion, Strand, CandidateMove, BudgetInv, BudgetKept, TypeOK
<1>4. CASE UNCHANGED vars
  BY <1>4 DEF vars, BudgetInv, BudgetKept
<1> QED
  BY <1>1, <1>2, <1>3, <1>4 DEF Next, FillAction, UserAction

LEMMA DrainKept == TypeOK /\ LockInv /\ DrainInv /\ [Next]_vars => DrainInv'
<1> SUFFICES ASSUME TypeOK, LockInv, DrainInv, [Next]_vars PROVE DrainInv'
  OBVIOUS
<1>1. ASSUME NEW f \in Fillers, FillAction(f) PROVE DrainInv'
  <2>1. PICK v \in Fill : fill' = [fill EXCEPT ![f] = v] /\ FillOutcome(f, v)
    BY <1>1, FillOutcomes
  <2>2. user' = user /\ \A g \in Fillers : fill'[g] = IF g = f THEN v ELSE fill[g]
    BY <1>1, <2>1, Locality DEF TypeOK
  <2>3. /\ v.pc \in {"locked", "filling"} => v.row.state = "RUNNING"
        /\ v.pc = "failWrite" => v.row.state = "FAILED"
    BY <2>1 DEF FillOutcome, DrainInv
  <2>4. CASE cands' = cands
    <3>1. Drained' <=> Drained
      BY <2>4 DEF Drained, WithStatus
    <3>2. v.pc = "saving" /\ v.row.state = "COMPLETED" => Drained
      BY <2>1 DEF FillOutcome, DrainInv
    <3>3. run'.state = "COMPLETED" => Drained
      BY <2>1 DEF FillOutcome, DrainInv
    <3> QED BY <2>2, <2>3, <3>1, <3>2, <3>3 DEF DrainInv
  <2>5. CASE v.pc = "filling" /\ fill[f].pc = "filling" /\ run' = run
    <3>1. run.state = "RUNNING" /\ \A g \in Fillers : g # f => fill[g].pc # "saving"
      BY <2>5 DEF LockInv, Locked
    <3> QED BY <2>2, <2>3, <2>5, <3>1 DEF DrainInv
  <2> QED BY <2>1, <2>4, <2>5 DEF FillOutcome
<1>2. ASSUME NEW u \in Users, UserAction(u) PROVE DrainInv'
  <2>1. PICK v \in User : user' = [user EXCEPT ![u] = v] /\ UserOutcome(u, v)
    BY <1>2, UserOutcomes
  <2>2. fill' = fill /\ \A g \in Users : user'[g] = IF g = u THEN v ELSE user[g]
    BY <1>2, <2>1, Locality DEF TypeOK
  <2>3. Drained => Drained'
    BY <2>1 DEF UserOutcome, AfterCancel, Drained, WithStatus, Steady
  <2>4. /\ v.pc = "write" => v.row.state # "COMPLETED"
        /\ run'.state = "COMPLETED" => run.state = "COMPLETED"
    BY <2>1 DEF UserOutcome, DrainInv
  <2> QED BY <2>2, <2>3, <2>4 DEF DrainInv
<1>3. ASSUME NEW k \in Iterations, CandidateStep(k) PROVE DrainInv'
  <2>1. Drained => Drained'
    BY <1>3 DEF CandidateStep, Progress, Completion, Strand, CandidateMove,
       Drained, WithStatus, TypeOK, Steady
  <2> QED BY <1>3, <2>1 DEF CandidateStep, Progress, Completion, Strand, CandidateMove, DrainInv
<1>4. CASE UNCHANGED vars
  BY <1>4 DEF vars, DrainInv, Drained, WithStatus
<1> QED
  BY <1>1, <1>2, <1>3, <1>4 DEF Next, FillAction, UserAction

\* The Candidates that never left the count, and how many they are.
SteadySet == WithStatus(Steady)
Flown == Cardinality(SteadySet)

\* A fill that is submitting has counted every Candidate in flight: besides
\* the one its next number may already have, there is room for its slots.
FlightInv ==
  /\ CountedInFlightWithinLimit
  /\ \A f \in Fillers :
       fill[f].pc = "filling" =>
         /\ fill[f].submitted <= fill[f].slots
         /\ Cardinality(SteadySet \ {fill[f].row.next})
              + (fill[f].slots - fill[f].submitted) <= MaxInFlight

\* Removing from the Candidates in flight never makes them more.
LEMMA FlightCounts ==
  /\ IsFiniteSet(SteadySet) /\ Flown = Cardinality(SteadySet) /\ Flown \in Nat
  /\ \A T \in SUBSET SteadySet : Cardinality(T) \in Nat /\ Cardinality(T) <= Flown
  /\ \A k : Flown <= Cardinality(SteadySet \ {k}) + 1
  /\ InFlight \in Nat /\ Flown <= InFlight
<1>1. IsFiniteSet(SteadySet)
  <2>1. IsFiniteSet(Iterations)
    BY LimitsAreNatural, FS_Interval, SMT DEF Iterations
  <2>2. SteadySet \subseteq Iterations
    BY DEF SteadySet, WithStatus
  <2>3. QED
    BY <2>1, <2>2, FS_Subset
<1>2. Flown = Cardinality(SteadySet) /\ Flown \in Nat
  BY <1>1, FS_CardinalityType DEF Flown
<1>3. ASSUME NEW T \in SUBSET SteadySet
      PROVE  Cardinality(T) \in Nat /\ Cardinality(T) <= Flown
  BY <1>1, <1>2, FS_Subset, FS_CardinalityType
<1>4. ASSUME NEW k PROVE Flown <= Cardinality(SteadySet \ {k}) + 1
  <2>1. Cardinality(SteadySet \ {k}) = IF k \in SteadySet THEN Flown - 1 ELSE Flown
    BY <1>1, <1>2, FS_RemoveElement, Zenon
  <2> QED BY <1>2, <2>1
<1>5. InFlight \in Nat /\ Flown <= InFlight
  <2> DEFINE all == WithStatus(Steady \cup Back)
  <2>1. IsFiniteSet(Iterations)
    BY LimitsAreNatural, FS_Interval, SMT DEF Iterations
  <2>2. all \subseteq Iterations /\ SteadySet \subseteq all
    BY DEF SteadySet, WithStatus
  <2>3. IsFiniteSet(all)
    BY <2>1, <2>2, FS_Subset
  <2>4. Cardinality(all) \in Nat /\ Cardinality(SteadySet) <= Cardinality(all)
    BY <2>2, <2>3, FS_Subset, FS_CardinalityType
  <2>5. QED
    BY <2>4 DEF InFlight, Flown
<1>6. QED
  BY <1>1, <1>2, <1>3, <1>4, <1>5

\* When no Candidate enters the flight, the invariant needs no counting.
LEMMA FlightShrinks ==
  ASSUME FlightInv, SteadySet' \subseteq SteadySet,
         TypeOK, NEW f \in Fillers, fill'[f] = fill[f]
  PROVE  /\ CountedInFlightWithinLimit'
         /\ fill[f].pc = "filling" =>
              /\ fill[f].submitted <= fill[f].slots
              /\ Cardinality(SteadySet' \ {fill[f].row.next})
                   + (fill[f].slots - fill[f].submitted) <= MaxInFlight
<1>1. /\ fill[f].slots \in Nat /\ fill[f].submitted \in Nat /\ MaxInFlight \in Nat
  BY LimitsAreNatural DEF TypeOK, Fill
<1>2. Flown' = Cardinality(SteadySet')
  BY DEF Flown
<1>3. CountedInFlightWithinLimit'
  BY <1>1, <1>2, FlightCounts DEF FlightInv, CountedInFlightWithinLimit, Flown, SteadySet
<1> DEFINE old == SteadySet \ {fill[f].row.next}
           new == SteadySet' \ {fill[f].row.next}
<1>4. IsFiniteSet(old) /\ new \subseteq old
  BY FlightCounts, FS_Subset
<1>5. Cardinality(new) \in Nat /\ Cardinality(old) \in Nat /\ Cardinality(new) <= Cardinality(old)
  BY <1>4, FS_Subset, FS_CardinalityType
<1>6. fill[f].pc = "filling" =>
        /\ fill[f].submitted <= fill[f].slots
        /\ Cardinality(old) + (fill[f].slots - fill[f].submitted) <= MaxInFlight
  BY DEF FlightInv
<1> HIDE DEF old, new
<1>7. fill[f].pc = "filling" =>
        /\ fill[f].submitted <= fill[f].slots
        /\ Cardinality(new) + (fill[f].slots - fill[f].submitted) <= MaxInFlight
  BY <1>1, <1>5, <1>6
<1>8. QED
  BY <1>3, <1>7 DEF new

\* Only the fill that holds the row lock adds to the flight, and it adds the
\* one Candidate whose place it has counted.
LEMMA FlightKept == TypeOK /\ LockInv /\ BudgetInv /\ FlightInv /\ [Next]_vars => FlightInv'
<1> SUFFICES ASSUME TypeOK, LockInv, BudgetInv, FlightInv, [Next]_vars PROVE FlightInv'
  OBVIOUS
<1> USE LimitsAreNatural
<1>0. Flown' = Cardinality(SteadySet')
  BY DEF Flown
<1>q. SteadySet' \subseteq SteadySet => CountedInFlightWithinLimit'
  BY <1>0, FlightCounts DEF FlightInv, CountedInFlightWithinLimit, Flown, SteadySet
<1>1. ASSUME NEW f \in Fillers, FillAction(f) PROVE FlightInv'
  <2>1. PICK v \in Fill : fill' = [fill EXCEPT ![f] = v] /\ FillOutcome(f, v)
    BY <1>1, FillOutcomes
  <2>2. \A g \in Fillers : fill'[g] = IF g = f THEN v ELSE fill[g]
    BY <2>1 DEF TypeOK
  <2>3. /\ fill[f].slots \in Nat /\ fill[f].submitted \in Nat /\ fill[f].row \in Row
        /\ fill[f].row.next \in Nat
    BY DEF TypeOK, Fill, Row
  <2>4. CASE v.pc # "filling"
    <3>1. cands' = cands
      BY <2>1, <2>4 DEF FillOutcome
    <3>2. SteadySet' = SteadySet
      BY <3>1 DEF SteadySet, WithStatus
    <3>3. QED
      BY <1>q, <2>2, <2>4, <3>2 DEF FlightInv
  <2>5. CASE v.pc = "filling" /\ fill[f].pc = "locked"
    <3>1. /\ cands' = cands /\ v.row = fill[f].row
          /\ v.submitted = fill[f].submitted /\ v.slots = Slots(fill[f].row)
      BY <2>1, <2>5 DEF FillOutcome
    <3>2. SteadySet' = SteadySet
      BY <3>1 DEF SteadySet, WithStatus
    <3>3. v.slots \in Nat /\ v.slots <= FreeSlots /\ FreeSlots \in Nat
      <4>1. Reserved(fill[f].row) \in Nat
        BY <2>3, CountsAreNatural DEF Reserved, Larger, Row
      <4>2. FreeSlots \in Nat
        BY FlightCounts DEF FreeSlots, Larger
      <4>3. QED
        BY <3>1, <4>1, <4>2 DEF Slots, Smaller, Larger
    <3>4. Flown + FreeSlots <= MaxInFlight
      BY FlightCounts DEF FlightInv, CountedInFlightWithinLimit, Flown, SteadySet, FreeSlots, Larger
    <3>5. Cardinality(SteadySet \ {v.row.next}) \in Nat
          /\ Cardinality(SteadySet \ {v.row.next}) <= Flown
      BY FlightCounts
    <3>6. \A g \in Fillers : g # f => fill[g].pc # "filling"
      BY <2>5 DEF LockInv, Locked
    <3> DEFINE rest == Cardinality(SteadySet \ {v.row.next})
    <3>7. v.submitted <= v.slots /\ rest + (v.slots - v.submitted) <= MaxInFlight
      <4>1. v.submitted = 0
        BY <2>5, <3>1 DEF BudgetInv
      <4> HIDE DEF rest
      <4>2. QED
        BY <3>3, <3>4, <3>5, <4>1, FlightCounts DEF rest
    <3>8. QED
      BY <1>q, <2>2, <3>2, <3>6, <3>7 DEF FlightInv
  <2>6. CASE v.pc = "filling" /\ fill[f].pc # "locked"
    <3> DEFINE k == fill[f].row.next
               rest == Cardinality(SteadySet \ {k})
    <3>1. /\ fill[f].pc = "filling" /\ fill[f].submitted < fill[f].slots
          /\ k \in Iterations /\ v.slots = fill[f].slots
          /\ Reserve(k) \/ cands' = cands
          /\ \/ Reserve(k) /\ v.row.next = k + 1 /\ v.submitted = fill[f].submitted + 1
             \/ v.row.next = k /\ v.submitted = fill[f].submitted
      BY <2>1, <2>6 DEF FillOutcome
    <3>2. rest + (fill[f].slots - fill[f].submitted) <= MaxInFlight
      BY <3>1 DEF FlightInv
    <3>3. rest \in Nat
      BY FlightCounts
    <3>4. SteadySet' \ {k} = SteadySet \ {k}
      BY <3>1 DEF Reserve, SteadySet, WithStatus, TypeOK
    <3>5. IsFiniteSet(SteadySet \ {k})
      BY FlightCounts, FS_Subset
    <3>6. IsFiniteSet(SteadySet') /\ Cardinality(SteadySet') \in Nat
          /\ Cardinality(SteadySet') <= rest + 1
      <4>1. SteadySet' \subseteq (SteadySet \ {k}) \cup {k}
        BY <3>4
      <4>2. /\ IsFiniteSet((SteadySet \ {k}) \cup {k})
            /\ Cardinality((SteadySet \ {k}) \cup {k}) = rest + 1
        BY <3>5, FS_AddElement
      <4>3. QED
        BY <4>1, <4>2, FS_Subset, FS_CardinalityType
    <3>7. CountedInFlightWithinLimit'
      <4> HIDE DEF rest
      <4>1. rest + 1 <= MaxInFlight
        BY <2>3, <3>1, <3>2, <3>3
      <4>2. QED
        BY <1>0, <3>3, <3>6, <4>1 DEF CountedInFlightWithinLimit, Flown, SteadySet
    <3>8. \A g \in Fillers : g # f => fill[g].pc # "filling"
      BY <3>1 DEF LockInv, Locked
    <3>9. /\ v.submitted <= v.slots
          /\ Cardinality(SteadySet' \ {v.row.next}) + (v.slots - v.submitted) <= MaxInFlight
      <4>1. CASE v.row.next = k /\ v.submitted = fill[f].submitted
        <5>1. Cardinality(SteadySet' \ {v.row.next}) = rest
          BY <3>4, <4>1
        <5> HIDE DEF rest
        <5>2. QED
          BY <2>3, <3>1, <3>2, <3>3, <4>1, <5>1
      <4>2. CASE v.submitted = fill[f].submitted + 1
        <5>1. Cardinality(SteadySet' \ {v.row.next}) \in Nat
              /\ Cardinality(SteadySet' \ {v.row.next}) <= Cardinality(SteadySet')
          BY <3>6, FS_Subset, FS_CardinalityType
        <5> DEFINE left == Cardinality(SteadySet' \ {v.row.next})
        <5> HIDE DEF rest, left
        <5>2. QED
          BY <2>3, <3>1, <3>2, <3>3, <3>6, <4>2, <5>1 DEF left
      <4>3. QED
        BY <3>1, <4>1, <4>2
    <3>10. QED
      BY <2>2, <3>7, <3>8, <3>9 DEF FlightInv
  <2>7. QED
    BY <2>4, <2>5, <2>6
<1>2. ASSUME SteadySet' \subseteq SteadySet, fill' = fill PROVE FlightInv'
  <2>1. \A f \in Fillers : fill[f].pc = "filling" =>
          /\ fill[f].submitted <= fill[f].slots
          /\ Cardinality(SteadySet' \ {fill[f].row.next})
               + (fill[f].slots - fill[f].submitted) <= MaxInFlight
    BY <1>2, FlightShrinks
  <2>2. QED
    BY <1>2, <1>q, <2>1 DEF FlightInv
<1>3. ASSUME NEW u \in Users, UserAction(u) PROVE FlightInv'
  <2>1. fill' = fill
    BY <1>3, Locality
  <2>2. SteadySet' \subseteq SteadySet
    BY <1>3, UserOutcomes DEF UserOutcome, AfterCancel, SteadySet, WithStatus, Steady
  <2>3. QED
    BY <1>2, <2>1, <2>2
<1>4. ASSUME NEW k \in Iterations, CandidateStep(k) PROVE FlightInv'
  <2>1. fill' = fill
    BY <1>4 DEF CandidateStep, Progress, Completion, Strand, CandidateMove
  <2>2. SteadySet' \subseteq SteadySet
    BY <1>4 DEF CandidateStep, Progress, Completion, Strand, CandidateMove,
       SteadySet, WithStatus, TypeOK, Steady
  <2>3. QED
    BY <1>2, <2>1, <2>2
<1>5. UNCHANGED vars => FlightInv'
  <2>1. UNCHANGED vars => fill' = fill /\ SteadySet' \subseteq SteadySet
    BY DEF vars, SteadySet, WithStatus
  <2>2. QED
    BY <1>2, <2>1
<1>6. QED
  BY <1>1, <1>3, <1>4, <1>5 DEF Next, FillAction, UserAction

-----------------------------------------------------------------------------
(* The theorems                                                            *)

\* The parts together are inductive.
LEMMA RunInvariant == Spec => []RunInv
<1>1. RunInv /\ [Next]_vars => RunInv'
  BY TypeKept, LockKept, DenseKept, BudgetInvKept, DrainKept DEF RunInv
<1> QED
  BY InitialRun, <1>1, PTL DEF Spec

\* The row, its copies and the Candidates stay in their domains.
THEOREM SearchTypeCorrect == Spec => []TypeOK
  BY RunInvariant, PTL DEF RunInv

\* fillAvailableSlots never reserves beyond maxCandidates.
THEOREM ReservationsWithinBudget == Spec => []BudgetKept
<1>1. RunInv => BudgetKept
  BY DEF RunInv, BudgetInv
<1> QED BY RunInvariant, <1>1, PTL

\* No iteration number below next_iteration lacks its Candidate.
THEOREM ReservationsAreDense == Spec => []NoIterationSkipped
<1>1. RunInv => NoIterationSkipped
  BY DEF RunInv, DenseInv, Dense, NoIterationSkipped
<1> QED BY RunInvariant, <1>1, PTL

\* A run is completed by a fill only when no Candidate it counts is active; only
\* a failing completion puts one back under a COMPLETED run.
THEOREM CompletedRunsAreDrained == Spec => []CompletedRunIsDrained
<1>1. RunInv => CompletedRunIsDrained
  BY DEF RunInv, DrainInv, Drained, CompletedRunIsDrained
<1> QED BY RunInvariant, <1>1, PTL

\* The row lock of withRunLock keeps pause, cancel and the failure of
\* another fill from overtaking a submission.
THEOREM ReservationsWhileRunning == Spec => ReservedOnlyWhileRunning
<1>1. ASSUME RunInv, [Next]_vars, NEW k \in Iterations, cands[k] = "NONE", cands'[k] # "NONE"
      PROVE  run.state = "RUNNING"
  <2> USE <1>1 DEF RunInv
  <2>1. CASE \E f \in Fillers : FillAction(f)
    <3>1. PICK f \in Fillers : FillAction(f)
      BY <2>1
    <3>2. fill[f].pc = "filling"
      BY <3>1, FillOutcomes DEF FillOutcome
    <3> QED BY <3>2 DEF LockInv, Locked
  <2>2. CASE \E u \in Users : UserAction(u)
    <3>1. PICK u \in Users : UserAction(u)
      BY <2>2
    <3> QED BY <3>1, UserOutcomes DEF UserOutcome, DenseInv
  <2>3. CASE \E j \in Iterations : CandidateStep(j)
    BY <2>3 DEF CandidateStep, Progress, Completion, Strand, CandidateMove, TypeOK
  <2>4. CASE UNCHANGED vars
    BY <2>4 DEF vars
  <2> QED
    BY <2>1, <2>2, <2>3, <2>4 DEF Next, FillAction, UserAction
<1>2. RunInv /\ [Next]_vars =>
        [\A k \in Iterations :
           cands[k] = "NONE" /\ cands'[k] # "NONE" => run.state = "RUNNING"]_vars
  BY <1>1
<1> QED
  BY RunInvariant, <1>2, PTL DEF Spec, ReservedOnlyWhileRunning

\* Concurrent triggers never fill a slot twice (Candidates that a failing
\* completion puts back into the count come on top), although submissions outlive
\* the fill that made them and a failed one may have reserved its number.
THEOREM FlightStaysWithinLimit == Spec => []CountedInFlightWithinLimit
<1>1. Init => FlightInv
  <2>1. Init => SteadySet = {} /\ \A f \in Fillers : fill[f].pc # "filling"
    BY FillValues DEF Init, SteadySet, WithStatus, Steady
  <2>2. SteadySet = {} => Flown = 0
    BY FS_EmptySet DEF Flown
  <2>3. QED
    BY <2>1, <2>2, LimitsAreNatural DEF FlightInv, CountedInFlightWithinLimit, Flown, SteadySet
<1>2. RunInv /\ FlightInv /\ [Next]_vars => FlightInv'
  BY FlightKept DEF RunInv
<1>3. FlightInv => CountedInFlightWithinLimit
  BY DEF FlightInv
<1>4. QED
  BY <1>1, <1>2, <1>3, RunInvariant, PTL DEF Spec

\* Only a copy of the row that was read without the lock undoes a
\* cancellation: not the save of a fill, and not another cancellation.
THEOREM UnlockedCopiesRevive == Spec => OnlyUnlockedCopyRevives
<1> DEFINE Unlocked ==
             \/ \E u \in Users : user[u].pc = "write" /\ run' = user[u].row
             \/ \E f \in Fillers : fill[f].pc = "failWrite" /\ run' = fill[f].row
<1>1. ASSUME RunInv, [Next]_vars, run.state = "CANCELLED", run'.state # "CANCELLED"
      PROVE  Unlocked
  <2> USE <1>1 DEF RunInv
  <2>1. CASE \E f \in Fillers : FillAction(f)
    <3>1. PICK f \in Fillers : FillAction(f)
      BY <2>1
    <3>2. fill[f].pc \in {"saving", "failWrite"} /\ run' = fill[f].row
      BY <3>1, FillOutcomes DEF FillOutcome
    <3>3. fill[f].pc # "saving"
      BY DEF LockInv, Locked
    <3>4. QED
      BY <3>2, <3>3
  <2>2. CASE \E u \in Users : UserAction(u)
    <3>1. PICK u \in Users : UserAction(u)
      BY <2>2
    <3>2. user[u].pc = "write" /\ run' = user[u].row
      BY <3>1, UserOutcomes DEF UserOutcome
    <3>3. QED
      BY <3>2
  <2>3. CASE \E j \in Iterations : CandidateStep(j)
    BY <2>3 DEF CandidateStep, Progress, Completion, Strand, CandidateMove
  <2>4. CASE UNCHANGED vars
    BY <2>4 DEF vars
  <2>5. QED
    BY <2>1, <2>2, <2>3, <2>4 DEF Next, FillAction, UserAction
<1>2. RunInv /\ [Next]_vars =>
        [run.state = "CANCELLED" /\ run'.state # "CANCELLED" => Unlocked]_vars
  BY <1>1
<1>3. QED
  BY RunInvariant, <1>2, PTL DEF Spec, OnlyUnlockedCopyRevives

-----------------------------------------------------------------------------
(* Sentiment: windows                                                      *)

CmdType == [from : Nat, to : Nat, span : Nat \ {0}, model : Models]

LEMMA CeilingBounds ==
  ASSUME NEW n \in Nat, NEW d \in Nat \ {0}
  PROVE  /\ CeilDiv(n, d) \in Nat
         /\ n <= CeilDiv(n, d) * d
         /\ CeilDiv(n, d) * d < n + d
<1> DEFINE m == n + d - 1
           q == m \div d
<1>1. m \in Nat OBVIOUS
<1>2. q \in Nat /\ m = d * q + (m % d) /\ m % d \in 0 .. (d - 1) BY <1>1
<1>3. d * q = q * d BY <1>2
<1>4. q = CeilDiv(n, d) BY DEF CeilDiv
<1> HIDE DEF q
<1>5. PICK k \in Int : k = q * d BY <1>2
<1>6. PICK l \in Nat : l = m % d /\ l <= d - 1 BY <1>2
<1>7. m = k + l BY <1>2, <1>3, <1>5, <1>6
<1>8. n <= k /\ k < n + d BY <1>6, <1>7
<1> QED BY <1>2, <1>4, <1>5, <1>8

LEMMA LargerOfOne ==
  ASSUME NEW k \in Nat
  PROVE  Max({1, k}) = IF k >= 1 THEN k ELSE 1
<1> DEFINE g == IF k >= 1 THEN k ELSE 1
<1>1. g \in {1, k} /\ \A y \in {1, k} : g >= y OBVIOUS
<1>2. \A x \in {1, k} : (\A y \in {1, k} : x >= y) => x = g OBVIOUS
<1> QED BY <1>1, <1>2 DEF Max

\* The window of an instant ends no earlier than the instant, and begins
\* before it, or with the snapshot.
LEMMA WindowBounds ==
  ASSUME NEW cmd \in CmdType, NEW at \in Nat, cmd.from <= at
  PROVE  /\ End(cmd, at) \in Nat /\ at <= End(cmd, at)
         /\ at > End(cmd, at) - cmd.span \/ at = cmd.from
<1> DEFINE n == at - cmd.from
           c == CeilDiv(n, cmd.span)
<1>1. cmd.from \in Nat /\ cmd.span \in Nat \ {0} BY DEF CmdType
<1>2. n \in Nat BY <1>1
<1>3. c \in Nat /\ n <= c * cmd.span /\ c * cmd.span < n + cmd.span BY <1>1, <1>2, CeilingBounds
<1>4. End(cmd, at) = cmd.from + (IF c >= 1 THEN c ELSE 1) * cmd.span BY <1>3, LargerOfOne DEF End
<1> HIDE DEF c
<1>5. CASE c >= 1
  <2>1. PICK k \in Nat : k = c * cmd.span BY <1>1, <1>3
  <2>2. End(cmd, at) = cmd.from + k BY <1>4, <1>5, <2>1
  <2>3. n <= k /\ k < n + cmd.span BY <1>3, <2>1
  <2> QED BY <2>1, <2>2, <2>3, <1>1
<1>6. CASE c = 0
  <2>1. n <= 0 BY <1>1, <1>3, <1>6
  <2>2. End(cmd, at) = cmd.from + cmd.span BY <1>1, <1>4, <1>6
  <2> QED BY <2>1, <2>2, <1>1, <1>2
<1> QED BY <1>3, <1>5, <1>6

-----------------------------------------------------------------------------
(* Sentiment: the invariant                                                *)

SentimentSpec == SentimentInit /\ [][SentimentNext]_sentimentVars

\* The results a snapshot is made from.
RowsOK(cmd, rows, R) ==
  rows \subseteq R /\ \A x \in rows : cmd.from <= x.at
SnapOK(s, R) == s.cmd \in CmdType /\ RowsOK(s.cmd, s.rows, R) /\ s.points = Points(s.cmd, s.rows)
ScopeOK(s, S) ==
  s.range \in Ranges /\ (s.snap = NoSnapshot \/ s.snap \in S)
AskedOK(q, R, S) ==
  /\ "stage" \in DOMAIN q
  /\ q.stage \in {"read", "find", "insert"} =>
       /\ {"scope", "cmd", "rows"} \subseteq DOMAIN q /\ q.cmd \in CmdType /\ q.scope \in BOOLEAN
       /\ q.scope => {"key", "range"} \subseteq DOMAIN q /\ q.range \in Ranges
  /\ q.stage \in {"find", "insert"} => RowsOK(q.cmd, q.rows, R)
  /\ q.stage = "create" => ScopeOK(q, S)
\* What a backtest has read of its scope.
RanOK(b, S) ==
  /\ b.scope.snap \in S /\ Loads(b.scope)
  /\ b.seen = [t \in Closes(b.scope.range) |-> ReadAt(b.scope.snap, t)]

SentimentInv ==
  /\ IsFiniteSet(results) /\ \A x \in results : x.at \in Nat
  /\ \A s \in snaps : SnapOK(s, results)
  /\ \A s, t \in snaps : s.cmd = t.cmd /\ s.points = t.points => s = t
  /\ DOMAIN asked = Requests /\ \A r \in Requests : AskedOK(asked[r], results, snaps)
  /\ \A s \in scopes : ScopeOK(s, snaps)
  /\ \A b \in ran : RanOK(b, snaps)

LEMMA SentimentStarts == SentimentInit => SentimentInv
<1> SUFFICES ASSUME SentimentInit PROVE SentimentInv OBVIOUS
<1>1. NotAsked.stage = "idle" /\ DOMAIN NotAsked = {"stage"} BY DEF NotAsked
<1>2. AskedOK(NotAsked, results, snaps) BY <1>1 DEF AskedOK
<1>3. IsFiniteSet({}) BY FS_EmptySet
<1> QED BY <1>2, <1>3 DEF SentimentInit, SentimentInv

(* Rows are never removed, so what was said of them stays true.            *)
Grows == results \subseteq results' /\ snaps \subseteq snaps'

LEMMA SnapStays == ASSUME Grows, NEW s, SnapOK(s, results) PROVE SnapOK(s, results')
BY DEF Grows, SnapOK, RowsOK
LEMMA ScopeStays == ASSUME Grows, NEW s, ScopeOK(s, snaps) PROVE ScopeOK(s, snaps')
BY DEF Grows, ScopeOK
LEMMA AskedStays == ASSUME Grows, NEW q, AskedOK(q, results, snaps) PROVE AskedOK(q, results', snaps')
BY ScopeStays DEF Grows, AskedOK, RowsOK
LEMMA RanStays == ASSUME Grows, NEW b, RanOK(b, snaps) PROVE RanOK(b, snaps')
BY DEF Grows, RanOK

\* A step that keeps results and snapshots, and leaves one request well.
Keeps == UNCHANGED <<results, snaps>>
LEMMA KeepsGrows == Keeps => Grows
BY DEF Keeps, Grows

LEMMA OneRequest ==
  ASSUME SentimentInv, Grows, NEW r \in Requests, NEW q,
         asked' = [asked EXCEPT ![r] = q], AskedOK(q, results', snaps')
  PROVE  DOMAIN asked' = Requests /\ \A s \in Requests : AskedOK(asked'[s], results', snaps')
<1>1. DOMAIN asked' = Requests /\ asked'[r] = q BY DEF SentimentInv
<1>2. ASSUME NEW s \in Requests PROVE AskedOK(asked'[s], results', snaps')
  <2>1. CASE s = r BY <2>1, <1>1
  <2>2. CASE s # r
    <3>1. asked'[s] = asked[s] BY <2>2 DEF SentimentInv
    <3>2. AskedOK(asked[s], results, snaps) BY DEF SentimentInv
    <3>3. PICK p : p = asked[s] OBVIOUS
    <3>4. AskedOK(p, results', snaps') BY <3>2, <3>3, AskedStays
    <3> QED BY <3>1, <3>3, <3>4
  <2> QED BY <2>1, <2>2
<1> QED BY <1>1, <1>2

LEMMA OthersStay ==
  ASSUME SentimentInv, Grows
  PROVE  /\ asked' = asked =>
              DOMAIN asked' = Requests /\ \A r \in Requests : AskedOK(asked'[r], results', snaps')
         /\ scopes' = scopes => \A s \in scopes' : ScopeOK(s, snaps')
         /\ ran' = ran => \A b \in ran' : RanOK(b, snaps')
         /\ snaps' = snaps => /\ \A s \in snaps' : SnapOK(s, results')
                              /\ \A s, t \in snaps' : s.cmd = t.cmd /\ s.points = t.points => s = t
<1>1. ASSUME asked' = asked, NEW r \in Requests PROVE AskedOK(asked'[r], results', snaps')
  <2>1. PICK q : q = asked[r] OBVIOUS
  <2>2. AskedOK(q, results', snaps') BY <2>1, AskedStays DEF SentimentInv
  <2> QED BY <2>1, <2>2, <1>1
<1>2. \A s \in scopes : ScopeOK(s, snaps') BY ScopeStays DEF SentimentInv
<1>3. \A b \in ran : RanOK(b, snaps') BY RanStays DEF SentimentInv
<1>4. \A s \in snaps : SnapOK(s, results') BY SnapStays DEF SentimentInv
<1> QED BY <1>1, <1>2, <1>3, <1>4 DEF SentimentInv

-----------------------------------------------------------------------------
(* Sentiment: the steps of a request                                       *)

Sealing(q) == q.stage \in {"read", "find", "insert"}

LEMMA SealEndsWell ==
  ASSUME SentimentInv, Grows, NEW r \in Requests, Sealing(asked[r]),
         NEW snap, snap = NoSnapshot \/ snap \in snaps', SealEnds(r, snap)
  PROVE  DOMAIN asked' = Requests /\ \A s \in Requests : AskedOK(asked'[s], results', snaps')
<1>1. AskedOK(asked[r], results, snaps) BY DEF SentimentInv
<1>2. CASE ~asked[r].scope
  <2>1. PICK q : q = NotAsked OBVIOUS
  <2>2. asked' = [asked EXCEPT ![r] = q] BY <1>2, <2>1 DEF SealEnds
  <2>3. AskedOK(q, results', snaps') BY <2>1 DEF AskedOK, NotAsked
  <2> QED BY <2>2, <2>3, OneRequest
<1>3. CASE asked[r].scope
  <2>1. PICK q : q = [stage |-> "create", scope |-> TRUE, key |-> asked[r].key,
                      range |-> asked[r].range, snap |-> snap] OBVIOUS
  <2>2. asked' = [asked EXCEPT ![r] = q] BY <1>3, <2>1 DEF SealEnds
  <2>3. asked[r].range \in Ranges BY <1>1, <1>3 DEF AskedOK, Sealing
  <2>4. q.stage = "create" /\ "stage" \in DOMAIN q /\ q.range \in Ranges /\ q.snap = snap
    BY <2>1, <2>3
  <2>5. ScopeOK(q, snaps') BY <2>4 DEF ScopeOK
  <2>6. AskedOK(q, results', snaps') BY <2>4, <2>5 DEF AskedOK
  <2> QED BY <2>2, <2>6, OneRequest
<1> QED BY <1>2, <1>3

LEMMA SealFailsWell ==
  ASSUME SentimentInv, Grows, NEW r \in Requests, Sealing(asked[r]), SealFails(r)
  PROVE  DOMAIN asked' = Requests /\ \A s \in Requests : AskedOK(asked'[s], results', snaps')
<1>1. CASE asked[r].scope /\ asked[r].cmd.model = Primary
  <2>1. PICK p : p = asked[r] OBVIOUS
  <2>2. AskedOK(p, results, snaps) /\ Sealing(p) BY <2>1 DEF SentimentInv
  <2>3. PICK c : c = [p.cmd EXCEPT !.model = Fallback] OBVIOUS
  <2>4. PICK q : q = [p EXCEPT !.stage = "read", !.cmd = c] OBVIOUS
  <2>5. c \in CmdType BY <2>2, <2>3 DEF AskedOK, Sealing, CmdType, Models
  <2>6. DOMAIN q = DOMAIN p /\ q.stage = "read" /\ q.cmd = c /\ q.scope = p.scope
        /\ q.range = p.range
    BY <2>2, <2>4 DEF AskedOK, Sealing
  <2>7. AskedOK(q, results', snaps') BY <2>2, <2>5, <2>6 DEF AskedOK, Sealing
  <2>8. asked' = [asked EXCEPT ![r] = q]
    BY <1>1, <2>1, <2>2, <2>3, <2>4 DEF SealFails, AskedOK, Sealing, SentimentInv
  <2> QED BY <2>7, <2>8, OneRequest
<1>2. CASE ~(asked[r].scope /\ asked[r].cmd.model = Primary)
  <2>1. SealEnds(r, NoSnapshot) BY <1>2 DEF SealFails
  <2>2. PICK n : n = NoSnapshot OBVIOUS
  <2> QED BY <2>1, <2>2, SealEndsWell
<1> QED BY <1>1, <1>2

LEMMA AggregateStep ==
  ASSUME SentimentInv, NEW r \in Requests, Aggregate(r)
  PROVE  SentimentInv'
<1> DEFINE rows == Used(asked[r].cmd)
<1>1. asked[r].stage = "read" /\ UNCHANGED <<results, snaps, scopes, ran>> BY DEF Aggregate
<1>2. Grows BY <1>1 DEF Grows
<1>3. Sealing(asked[r]) BY <1>1 DEF Sealing
<1>4. DOMAIN asked' = Requests /\ \A s \in Requests : AskedOK(asked'[s], results', snaps')
  <2>1. CASE rows = {}
    <3>1. SealFails(r) BY <2>1 DEF Aggregate
    <3> QED BY <3>1, <1>2, <1>3, SealFailsWell
  <2>2. CASE rows # {}
    <3>1. PICK p : p = asked[r] OBVIOUS
    <3>2. AskedOK(p, results, snaps) /\ p.stage = "read" BY <3>1, <1>1 DEF SentimentInv
    <3>3. PICK q : q = [p EXCEPT !.stage = "find", !.rows = rows] OBVIOUS
    <3>4. asked' = [asked EXCEPT ![r] = q] BY <1>1, <2>2, <3>1, <3>2, <3>3 DEF Aggregate, SentimentInv
    <3>5. DOMAIN q = DOMAIN p /\ q.stage = "find" /\ q.rows = rows
      BY <3>2, <3>3 DEF AskedOK
    <3>6. q.cmd = p.cmd /\ q.scope = p.scope /\ q.range = p.range
      BY <3>2, <3>3 DEF AskedOK
    <3>7. RowsOK(q.cmd, q.rows, results') BY <3>1, <3>5, <3>6, <1>1 DEF RowsOK, Used
    <3>8. AskedOK(q, results', snaps') BY <3>2, <3>5, <3>6, <3>7 DEF AskedOK
    <3> QED BY <3>4, <3>8, <1>2, OneRequest
  <2> QED BY <2>1, <2>2
<1>5. results' = results /\ snaps' = snaps /\ scopes' = scopes /\ ran' = ran BY <1>1
<1> QED BY <1>2, <1>4, <1>5, OthersStay DEF SentimentInv

LEMMA FindStep ==
  ASSUME SentimentInv, NEW r \in Requests, Find(r)
  PROVE  SentimentInv'
<1>1. asked[r].stage = "find" /\ UNCHANGED <<results, snaps, scopes, ran>> BY DEF Find
<1>2. Grows BY <1>1 DEF Grows
<1>3. Sealing(asked[r]) BY <1>1 DEF Sealing
<1> DEFINE same == Same(asked[r].cmd, Points(asked[r].cmd, asked[r].rows))
<1>4. DOMAIN asked' = Requests /\ \A s \in Requests : AskedOK(asked'[s], results', snaps')
  <2>1. CASE same = {}
    <3>1. PICK p : p = asked[r] OBVIOUS
    <3>2. AskedOK(p, results, snaps) /\ p.stage = "find" BY <3>1, <1>1 DEF SentimentInv
    <3>3. PICK q : q = [p EXCEPT !.stage = "insert"] OBVIOUS
    <3>4. asked' = [asked EXCEPT ![r] = q] BY <2>1, <3>1, <3>3 DEF Find, GoOn
    <3>5. DOMAIN q = DOMAIN p /\ q.stage = "insert" /\ q.cmd = p.cmd /\ q.scope = p.scope
          /\ q.range = p.range /\ q.rows = p.rows
      BY <3>2, <3>3 DEF AskedOK
    <3>6. RowsOK(q.cmd, q.rows, results') BY <3>2, <3>5, <1>1 DEF AskedOK, RowsOK
    <3>7. AskedOK(q, results', snaps') BY <3>2, <3>5, <3>6 DEF AskedOK
    <3> QED BY <3>4, <3>7, <1>2, OneRequest
  <2>2. CASE same # {}
    <3>1. PICK s \in same : SealEnds(r, s) BY <2>2 DEF Find
    <3>2. s \in snaps' BY <3>1, <1>1 DEF Same
    <3> QED BY <3>1, <3>2, <1>2, <1>3, SealEndsWell
  <2> QED BY <2>1, <2>2
<1>5. results' = results /\ snaps' = snaps /\ scopes' = scopes /\ ran' = ran BY <1>1
<1> QED BY <1>2, <1>4, <1>5, OthersStay DEF SentimentInv

LEMMA InsertStep ==
  ASSUME SentimentInv, NEW r \in Requests, Insert(r)
  PROVE  SentimentInv'
<1>1. PICK q : q = asked[r] OBVIOUS
<1>2. PICK new : new = [cmd |-> q.cmd, points |-> Points(q.cmd, q.rows), rows |-> q.rows] OBVIOUS
<1>3. q.stage = "insert" /\ UNCHANGED <<results, scopes, ran>> BY <1>1 DEF Insert
<1>4. Sealing(asked[r]) BY <1>1, <1>3 DEF Sealing
<1>5. AskedOK(q, results, snaps) BY <1>1 DEF SentimentInv
<1>6. new.cmd = q.cmd /\ new.points = Points(q.cmd, q.rows) /\ new.rows = q.rows BY <1>2
<1>7. SnapOK(new, results) BY <1>3, <1>5, <1>6 DEF SnapOK, AskedOK
<1>8. CASE Same(q.cmd, new.points) = {}
  <2>1. snaps' = snaps \cup {new} /\ SealEnds(r, new) BY <1>1, <1>2, <1>8 DEF Insert
  <2>2. Grows BY <2>1, <1>3 DEF Grows
  <2>3. DOMAIN asked' = Requests /\ \A s \in Requests : AskedOK(asked'[s], results', snaps')
    BY <2>1, <2>2, <1>4, SealEndsWell
  <2>4. \A s \in snaps' : SnapOK(s, results') BY <2>1, <2>2, <1>7, SnapStays DEF SentimentInv
  <2>5. \A s \in snaps : ~(s.cmd = new.cmd /\ s.points = new.points) BY <1>6, <1>8 DEF Same
  <2>6. \A s, t \in snaps' : s.cmd = t.cmd /\ s.points = t.points => s = t
    BY <2>1, <2>5 DEF SentimentInv
  <2>7. results' = results /\ scopes' = scopes /\ ran' = ran BY <1>3
  <2> QED BY <2>2, <2>3, <2>4, <2>6, <2>7, OthersStay DEF SentimentInv
<1>9. CASE Same(q.cmd, new.points) # {}
  <2>1. SealFails(r) /\ snaps' = snaps BY <1>1, <1>2, <1>9 DEF Insert
  <2>2. Grows BY <2>1, <1>3 DEF Grows
  <2>3. DOMAIN asked' = Requests /\ \A s \in Requests : AskedOK(asked'[s], results', snaps')
    BY <2>1, <2>2, <1>4, SealFailsWell
  <2>7. results' = results /\ scopes' = scopes /\ ran' = ran BY <1>3
  <2> QED BY <2>1, <2>2, <2>3, <2>7, OthersStay DEF SentimentInv
<1> QED BY <1>8, <1>9

LEMMA CreateScopeStep ==
  ASSUME SentimentInv, NEW r \in Requests, CreateScope(r)
  PROVE  SentimentInv'
<1>1. PICK q : q = asked[r] OBVIOUS
<1>2. q.stage = "create" /\ UNCHANGED <<results, snaps, ran>> BY <1>1 DEF CreateScope
<1>3. ScopeOK(q, snaps) BY <1>1, <1>2 DEF SentimentInv, AskedOK
<1>4. PICK new : new = [key |-> q.key, range |-> q.range,
                        snap |-> IF Covers(q.snap, q.range) THEN q.snap ELSE NoSnapshot] OBVIOUS
<1>5. scopes' \subseteq scopes \cup {new} BY <1>1, <1>4 DEF CreateScope
<1>6. new.range = q.range /\ (new.snap = q.snap \/ new.snap = NoSnapshot) BY <1>4
<1>7. ScopeOK(new, snaps) BY <1>3, <1>6 DEF ScopeOK
<1>8. Grows BY <1>2 DEF Grows
<1>9. \A s \in scopes' : ScopeOK(s, snaps') BY <1>5, <1>7, <1>8, ScopeStays DEF SentimentInv
<1>10. PICK i : i = NotAsked OBVIOUS
<1>11. asked' = [asked EXCEPT ![r] = i] BY <1>10 DEF CreateScope
<1>12. AskedOK(i, results', snaps') BY <1>10 DEF AskedOK, NotAsked
<1>13. DOMAIN asked' = Requests /\ \A s \in Requests : AskedOK(asked'[s], results', snaps')
  BY <1>8, <1>11, <1>12, OneRequest
<1>14. results' = results /\ snaps' = snaps /\ ran' = ran BY <1>2
<1> QED BY <1>8, <1>9, <1>13, <1>14, OthersStay DEF SentimentInv

LEMMA AskStep ==
  ASSUME SentimentInv, NEW r \in Requests, AskSnapshot(r) \/ AskScope(r)
  PROVE  SentimentInv'
<1>1. UNCHANGED <<results, snaps, scopes, ran>> BY DEF AskSnapshot, AskScope
<1>2. Grows BY <1>1 DEF Grows
<1>3. PICK q : asked' = [asked EXCEPT ![r] = q] /\ AskedOK(q, results', snaps')
  <2>1. CASE AskSnapshot(r)
    <3>1. PICK g \in Ranges, m \in Models, w \in Spans :
            asked' = [asked EXCEPT ![r] = [stage |-> "read", scope |-> FALSE, rows |-> {},
                        cmd |-> [from |-> g[1], to |-> g[2], span |-> w, model |-> m]]]
      BY <2>1 DEF AskSnapshot
    <3>2. PICK c : c = [from |-> g[1], to |-> g[2], span |-> w, model |-> m] OBVIOUS
    <3>3. c \in CmdType BY <3>2, SentimentAssumption DEF CmdType
    <3>4. PICK q : q = [stage |-> "read", scope |-> FALSE, rows |-> {}, cmd |-> c] OBVIOUS
    <3>5. AskedOK(q, results', snaps') BY <3>3, <3>4 DEF AskedOK
    <3> QED BY <3>1, <3>2, <3>4, <3>5
  <2>2. CASE AskScope(r)
    <3>1. PICK g \in Ranges, k \in Keys :
            asked' = [asked EXCEPT ![r] = [stage |-> "read", scope |-> TRUE, key |-> k, range |-> g, rows |-> {},
                        cmd |-> [from |-> g[1], to |-> g[2], span |-> Frame, model |-> Primary]]]
      BY <2>2 DEF AskScope
    <3>2. PICK c : c = [from |-> g[1], to |-> g[2], span |-> Frame, model |-> Primary] OBVIOUS
    <3>3. c \in CmdType BY <3>2, SentimentAssumption DEF CmdType, Models
    <3>4. PICK q : q = [stage |-> "read", scope |-> TRUE, key |-> k, range |-> g, rows |-> {},
                                  cmd |-> c] OBVIOUS
    <3>5. AskedOK(q, results', snaps') BY <3>3, <3>4 DEF AskedOK
    <3> QED BY <3>1, <3>2, <3>4, <3>5
  <2> QED BY <2>1, <2>2
<1>4. DOMAIN asked' = Requests /\ \A s \in Requests : AskedOK(asked'[s], results', snaps') BY <1>2, <1>3, OneRequest
<1>5. results' = results /\ snaps' = snaps /\ scopes' = scopes /\ ran' = ran BY <1>1
<1> QED BY <1>2, <1>4, <1>5, OthersStay DEF SentimentInv

LEMMA SentimentStep ==
  ASSUME SentimentInv, [SentimentNext]_sentimentVars
  PROVE  SentimentInv'
<1>1. CASE AnalyzeArticle
  <2>1. PICK x : results' = results \cup {x} /\ x.at \in Nat
    <3>1. PICK a \in NewsItems, m \in Models, at \in 0 .. Horizon, s \in Scores :
            results' = results \cup {[id |-> a, model |-> m, at |-> at, score |-> s]}
      BY <1>1 DEF AnalyzeArticle
    <3>2. PICK x : x = [id |-> a, model |-> m, at |-> at, score |-> s] OBVIOUS
    <3>3. x.at \in Nat BY <3>2, SentimentAssumption
    <3> QED BY <3>1, <3>2, <3>3
  <2>2. UNCHANGED <<snaps, scopes, asked, ran>> BY <1>1 DEF AnalyzeArticle
  <2>3. Grows BY <2>1, <2>2 DEF Grows
  <2>4. IsFiniteSet(results') BY <2>1, FS_AddElement DEF SentimentInv
  <2>5. \A y \in results' : y.at \in Nat BY <2>1 DEF SentimentInv
  <2>6. snaps' = snaps /\ scopes' = scopes /\ asked' = asked /\ ran' = ran BY <2>2
  <2> QED BY <2>3, <2>4, <2>5, <2>6, OthersStay DEF SentimentInv
<1>2. CASE PinScope
  <2>1. PICK k \in Keys, g \in Ranges, s \in snaps :
          scopes' = scopes \cup {[key |-> k, range |-> g, snap |-> s]}
    BY <1>2 DEF PinScope
  <2>2. results' = results /\ snaps' = snaps /\ asked' = asked /\ ran' = ran BY <1>2 DEF PinScope
  <2>3. Grows BY <2>2 DEF Grows
  <2>4. \A x \in scopes' : ScopeOK(x, snaps')
    <3>1. PICK new : new = [key |-> k, range |-> g, snap |-> s] OBVIOUS
    <3>2. new.range = g /\ new.snap = s BY <3>1
    <3>3. ScopeOK(new, snaps) BY <3>2 DEF ScopeOK
    <3>4. scopes' = scopes \cup {new} BY <2>1, <3>1
    <3> QED BY <3>3, <3>4, <2>3, ScopeStays DEF SentimentInv
  <2> QED BY <2>2, <2>3, <2>4, OthersStay DEF SentimentInv
<1>3. CASE Backtest
  <2>1. PICK s \in scopes :
          /\ s.snap # NoSnapshot /\ Loads(s)
          /\ ran' = ran \cup {[scope |-> s, seen |-> [t \in Closes(s.range) |-> ReadAt(s.snap, t)]]}
    BY <1>3 DEF Backtest
  <2>2. results' = results /\ snaps' = snaps /\ asked' = asked /\ scopes' = scopes
    BY <1>3 DEF Backtest
  <2>3. Grows BY <2>2 DEF Grows
  <2>4. \A b \in ran' : RanOK(b, snaps')
    <3>1. PICK new : new = [scope |-> s, seen |-> [t \in Closes(s.range) |-> ReadAt(s.snap, t)]]
      OBVIOUS
    <3>2. new.scope = s /\ new.seen = [t \in Closes(s.range) |-> ReadAt(s.snap, t)] BY <3>1
    <3>3. s.snap \in snaps BY <2>1 DEF SentimentInv, ScopeOK
    <3>4. RanOK(new, snaps) BY <2>1, <3>2, <3>3 DEF RanOK
    <3>5. ran' = ran \cup {new} BY <2>1, <3>1
    <3> QED BY <3>4, <3>5, <2>3, RanStays DEF SentimentInv
  <2> QED BY <2>2, <2>3, <2>4, OthersStay DEF SentimentInv
<1>4. CASE UNCHANGED sentimentVars
  <2>1. results' = results /\ snaps' = snaps /\ asked' = asked /\ scopes' = scopes /\ ran' = ran
    BY <1>4 DEF sentimentVars
  <2>2. Grows BY <2>1 DEF Grows
  <2> QED BY <2>1, <2>2, OthersStay DEF SentimentInv
<1> QED BY <1>1, <1>2, <1>3, <1>4, AskStep, AggregateStep, FindStep, InsertStep, CreateScopeStep
        DEF SentimentNext

-----------------------------------------------------------------------------
(* Sentiment: what the invariant implies                                   *)

\* A snapshot has one point for every window its results fall into.
LEMMA PointsOfWindows ==
  ASSUME NEW cmd, NEW rows, IsFiniteSet(rows)
  PROVE  LET ends == {End(cmd, x.at) : x \in rows}
         IN  /\ IsFiniteSet(ends) /\ Cardinality(Points(cmd, rows)) = Cardinality(ends)
             /\ \A p \in Points(cmd, rows) : p.at \in ends
<1> DEFINE ends == {End(cmd, x.at) : x \in rows}
           point(t) == [at |-> t, score |-> Average(Behind(cmd, rows, t))]
           f == [t \in ends |-> point(t)]
           g == [x \in rows |-> End(cmd, x.at)]
<1>1. IsFiniteSet(ends)
  <2>1. g \in Surjection(rows, ends) BY DEF Surjection
  <2> HIDE DEF g, ends
  <2> QED BY <2>1, FS_Surjection
<1>2. \A t \in ends : point(t) \in Points(cmd, rows) /\ point(t).at = t BY DEF Points
<1>3. \A p \in Points(cmd, rows) : \E t \in ends : p = point(t) BY DEF Points
<1> HIDE DEF point, ends
<1>4. f \in Bijection(ends, Points(cmd, rows))
  BY <1>2, <1>3 DEF Bijection, Injection, Surjection, IsInjective
<1>5. ExistsBijection(ends, Points(cmd, rows)) BY <1>4 DEF ExistsBijection
<1>6. Cardinality(Points(cmd, rows)) = Cardinality(ends) BY <1>1, <1>5, FS_Bijection
<1> QED BY <1>1, <1>2, <1>3, <1>6 DEF ends

\* A backtest that read as many points as there are saw every window.
LEMMA EveryWindowIsFound ==
  ASSUME NEW s, SnapOK(s.snap, results), IsFiniteSet(s.snap.rows), Loads(s)
  PROVE  \A x \in s.snap.rows : End(s.snap.cmd, x.at) \in Found(s)
<1> DEFINE ends == {End(s.snap.cmd, x.at) : x \in s.snap.rows}
<1>1. s.snap.points = Points(s.snap.cmd, s.snap.rows) BY DEF SnapOK
<1>2. /\ IsFiniteSet(ends) /\ Cardinality(s.snap.points) = Cardinality(ends)
      /\ \A p \in s.snap.points : p.at \in ends
  BY <1>1, PointsOfWindows
<1>3. Found(s) \subseteq ends BY <1>2 DEF Found, ReadAt
<1> HIDE DEF ends
<1>4. /\ Cardinality(Found(s)) <= Cardinality(ends)
      /\ Cardinality(ends) = Cardinality(Found(s)) => ends = Found(s)
  BY <1>2, <1>3, FS_Subset
<1>5. Cardinality(ends) \in Nat /\ Cardinality(Found(s)) \in Nat
  BY <1>2, <1>3, FS_Subset, FS_CardinalityType
<1>6. Cardinality(Found(s)) >= Cardinality(ends) BY <1>2 DEF Loads
<1>7. ends = Found(s) BY <1>4, <1>5, <1>6
<1> QED BY <1>7 DEF ends

LEMMA SentimentInvImplies == SentimentInv => SentimentIsPast
<1> SUFFICES ASSUME SentimentInv PROVE SentimentIsPast OBVIOUS
<1>1. ASSUME NEW b \in ran
      PROVE  /\ SnapOK(b.scope.snap, results) /\ IsFiniteSet(b.scope.snap.rows) /\ Loads(b.scope)
             /\ \A x \in b.scope.snap.rows : x.at \in Nat /\ b.scope.snap.cmd.from <= x.at
             /\ DOMAIN b.seen = Closes(b.scope.range)
             /\ \A t \in DOMAIN b.seen : b.seen[t] = ReadAt(b.scope.snap, t)
  <2>1. RanOK(b, snaps) BY DEF SentimentInv
  <2>2. SnapOK(b.scope.snap, results) BY <2>1 DEF RanOK, SentimentInv
  <2>3. b.scope.snap.rows \subseteq results BY <2>2 DEF SnapOK, RowsOK
  <2>4. IsFiniteSet(b.scope.snap.rows) BY <2>3, FS_Subset DEF SentimentInv
  <2>5. \A x \in b.scope.snap.rows : x.at \in Nat /\ b.scope.snap.cmd.from <= x.at
    BY <2>2, <2>3 DEF SnapOK, RowsOK, SentimentInv
  <2> QED BY <2>1, <2>2, <2>4, <2>5 DEF RanOK
<1>2. NeverAhead
  <2> SUFFICES ASSUME NEW b \in ran, NEW t \in DOMAIN b.seen,
                      NEW x \in Behind(b.scope.snap.cmd, b.scope.snap.rows, t)
               PROVE  x.at <= t /\ (x.at > t - b.scope.snap.cmd.span \/ x.at = b.scope.snap.cmd.from)
    BY DEF NeverAhead
  <2>1. x \in b.scope.snap.rows /\ End(b.scope.snap.cmd, x.at) = t BY DEF Behind
  <2>2. b.scope.snap.cmd \in CmdType BY <1>1 DEF SnapOK
  <2> QED BY <1>1, <2>1, <2>2, WindowBounds
<1>3. NothingDropped
  <2> SUFFICES ASSUME NEW b \in ran, NEW x \in b.scope.snap.rows
               PROVE  Cardinality({t \in DOMAIN b.seen :
                                    /\ b.seen[t] # {}
                                    /\ x \in Behind(b.scope.snap.cmd, b.scope.snap.rows, t)}) = 1
    BY DEF NothingDropped
  <2> DEFINE e == End(b.scope.snap.cmd, x.at)
             visible == {t \in DOMAIN b.seen : /\ b.seen[t] # {}
                                            /\ x \in Behind(b.scope.snap.cmd, b.scope.snap.rows, t)}
  <2>1. e \in Found(b.scope) BY <1>1, EveryWindowIsFound
  <2>2. e \in DOMAIN b.seen /\ b.seen[e] # {} BY <1>1, <2>1 DEF Found
  <2>3. visible = {e} BY <2>2 DEF Behind
  <2> HIDE DEF visible
  <2>4. Cardinality(visible) = 1 BY <2>3, FS_Singleton
  <2> QED BY <2>4 DEF visible
<1>4. SealedOnce BY DEF SentimentInv, SealedOnce, SnapOK, RowsOK
<1> QED BY <1>2, <1>3, <1>4 DEF SentimentIsPast

\* For any articles, ranges, windows and concurrent requests: a candle of a
\* backtest reads only what was published by its close, every article of a
\* snapshot is read by exactly one candle, and a sealed snapshot is one content
\* and stays what its articles say (aggregateSnapshotPoints, pointForCandle,
\* loadSentiment).
THEOREM SentimentIsAlwaysPast == SentimentSpec => []SentimentIsPast
<1>1. SentimentInit => SentimentInv BY SentimentStarts
<1>2. SentimentInv /\ [SentimentNext]_sentimentVars => SentimentInv' BY SentimentStep
<1> QED BY <1>1, <1>2, SentimentInvImplies, PTL DEF SentimentSpec

-----------------------------------------------------------------------------
(* The replay verification                                                 *)

ReplaySpec == ReplayInit /\ [][ReplayNext]_replayVars

RowType == [status : {"ABSENT"} \cup Open \cup Verdicts, token : Nat, live : BOOLEAN]
JobType == [state : {"none", "waiting", "active", "completed", "failed"},
            made : Nat, stalls : Nat, owner : Workers \cup {"none"}]
WorkerType == [stage : {"idle", "claim", "verify", "complete"}, token : Nat,
               verdict : Verdicts \cup {"none"}]

ReplayTyped ==
  /\ row \in RowType /\ job \in JobType /\ worker \in [Workers -> WorkerType]
  /\ \A w \in Workers : worker[w].stage = "complete" => worker[w].verdict \in Verdicts
  /\ claims \in Nat

\* The row carries the last token given out, and a job that is over has left
\* an open row only behind the lease of another delivery.
ReplayInv ==
  /\ ReplayTyped
  /\ row.status = "RUNNING" => row.token = claims
  /\ row.status \in Verdicts => author = claims /\ ~row.live
  /\ row.status \in Open /\ job.state = "completed" => met

LEMMA ReplayStarts == ReplayInit => ReplayInv
BY DEF ReplayInit, ReplayInv, ReplayTyped, RowType, JobType, WorkerType, Absent, NoJob, Resting,
       Open, Verdicts

LEMMA AddedJob ==
  ASSUME ReplayTyped
  PROVE  /\ Added \in JobType
         /\ Added.state = "completed" <=> job.state = "completed"
BY DEF ReplayTyped, JobType, Added

\* A delivery that ends completes the job only when it ends well.
LEMMA EndedDelivery ==
  ASSUME ReplayTyped, NEW w \in Workers, NEW ok \in BOOLEAN, Ended(w, ok)
  PROVE  /\ job' \in JobType /\ worker' \in [Workers -> WorkerType]
         /\ \A v \in Workers : worker'[v].stage = "complete" => worker'[v].verdict \in Verdicts
         /\ ~ok => (job'.state = "completed" <=> job.state = "completed")
<1>1. Resting \in WorkerType /\ Resting.stage # "complete" BY DEF Resting, WorkerType, Verdicts
<1>2. /\ worker' \in [Workers -> WorkerType]
      /\ \A v \in Workers : worker'[v].stage = "complete" => worker'[v].verdict \in Verdicts
  <2> DEFINE R == Resting
  <2>1. worker' = [worker EXCEPT ![w] = R] BY DEF Ended
  <2>2. R \in WorkerType /\ R.stage # "complete" BY <1>1
  <2> HIDE DEF R
  <2> QED BY <2>1, <2>2 DEF ReplayTyped
<1>3. CASE job.state # "active" \/ job.owner # w
  <2>1. job' = job BY <1>3 DEF Ended
  <2> QED BY <2>1, <1>2 DEF ReplayTyped
<1>4. CASE ~(job.state # "active" \/ job.owner # w) /\ ok
  <2>1. job' = [job EXCEPT !.state = "completed"] BY <1>4 DEF Ended
  <2> QED BY <2>1, <1>2, <1>4 DEF ReplayTyped, JobType
<1>5. CASE ~(job.state # "active" \/ job.owner # w) /\ ~ok
  <2>1. PICK n \in Nat : n = job.made + 1 BY DEF ReplayTyped, JobType
  <2>2. PICK st \in {"failed", "waiting"} : job' = [job EXCEPT !.made = n, !.state = st]
    BY <1>5, <2>1 DEF Ended
  <2>3. job' \in JobType /\ job'.state # "completed" BY <2>2 DEF ReplayTyped, JobType
  <2>4. job.state # "completed" BY <1>5
  <2> QED BY <2>3, <2>4, <1>2, <1>5
<1> QED BY <1>3, <1>4, <1>5

LEMMA ReplayStep ==
  ASSUME ReplayInv, [ReplayNext]_replayVars
  PROVE  ReplayInv' /\ VerdictStays
<1> USE DEF ReplayInv
<1>0. /\ Open = {"QUEUED", "RUNNING"} /\ Verdicts = {"MATCH", "MISMATCH", "NON_REPLAYABLE"}
      /\ Absent \in RowType /\ Absent.status = "ABSENT"
  BY DEF Open, Verdicts, Absent, RowType
<1>1. CASE Start
  <2>1. job' = job /\ job.state = "none" /\ UNCHANGED <<worker, claims, author, met>>
    BY <1>1 DEF Start
  <2>2. row.status = "ABSENT" /\ row' \in RowType /\ row'.status = "QUEUED"
    BY <1>1 DEF Start, Absent, RowType, Open, Verdicts
  <2> QED BY <2>1, <2>2, <1>0 DEF ReplayTyped, VerdictStays
<1>2. CASE Enqueue \/ RecoveryAdds
  <2>1. job' \in JobType /\ (job'.state = "completed" <=> job.state = "completed")
    BY <1>2, AddedJob DEF Enqueue, RecoveryAdds, ReplayTyped
  <2>2. UNCHANGED <<row, worker, claims, author, met>> BY <1>2 DEF Enqueue, RecoveryAdds
  <2> QED BY <2>1, <2>2 DEF ReplayTyped, VerdictStays
<1>3. CASE RecoveryReads
  BY <1>3 DEF RecoveryReads, ReplayTyped, VerdictStays
<1>4. CASE Stall
  <2>4. PICK n \in Nat : n = job.stalls + 1 BY DEF ReplayTyped, JobType
  <2>1. PICK st \in {"failed", "waiting"} :
          job' = [job EXCEPT !.stalls = n, !.owner = "none", !.state = st]
    BY <1>4, <2>4 DEF Stall
  <2>2. job' \in JobType /\ job'.state # "completed" BY <2>1 DEF ReplayTyped, JobType
  <2>3. UNCHANGED <<row, worker, claims, author, met>> BY <1>4 DEF Stall
  <2> QED BY <2>2, <2>3 DEF ReplayTyped, VerdictStays
<1>5. CASE LeaseEnds
  <2>1. row' = [row EXCEPT !.live = FALSE] /\ row.live /\ UNCHANGED <<job, worker, claims, author, met>>
    BY <1>5 DEF LeaseEnds
  <2>2. row' \in RowType /\ row'.status = row.status /\ row'.token = row.token
    BY <2>1 DEF ReplayTyped, RowType
  <2> QED BY <2>1, <2>2 DEF ReplayTyped, VerdictStays
<1>6. CASE ExperimentDeleted
  <2>1. row' = Absent /\ UNCHANGED <<job, worker, claims, author, met>> BY <1>6 DEF ExperimentDeleted
  <2> QED BY <2>1, <1>0 DEF ReplayTyped, VerdictStays
<1>7. ASSUME NEW w \in Workers, Deliver(w)
      PROVE  ReplayInv' /\ VerdictStays
  <2>1. job' = [job EXCEPT !.state = "active", !.owner = w] BY <1>7 DEF Deliver
  <2>2. job' \in JobType /\ job'.state # "completed" BY <2>1 DEF ReplayTyped, JobType
  <2>3. UNCHANGED <<row, claims, author, met>> /\ worker' = [worker EXCEPT ![w].stage = "claim"]
    BY <1>7 DEF Deliver
  <2>4. /\ worker' \in [Workers -> WorkerType]
        /\ \A v \in Workers : worker'[v].stage = "complete" => worker'[v].verdict \in Verdicts
    BY <2>3 DEF ReplayTyped, WorkerType
  <2> QED BY <2>2, <2>3, <2>4 DEF ReplayTyped, VerdictStays
<1>8. ASSUME NEW w \in Workers, WorkerDies(w)
      PROVE  ReplayInv' /\ VerdictStays
  <2>1. UNCHANGED <<row, job, claims, author, met>> /\ worker' = [worker EXCEPT ![w] = Resting]
    BY <1>8 DEF WorkerDies
  <2>2. Resting \in WorkerType /\ Resting.stage # "complete" BY DEF Resting, WorkerType, Verdicts
  <2>3. /\ worker' \in [Workers -> WorkerType]
        /\ \A v \in Workers : worker'[v].stage = "complete" => worker'[v].verdict \in Verdicts
    BY <2>1, <2>2 DEF ReplayTyped
  <2> QED BY <2>1, <2>3 DEF ReplayTyped, VerdictStays
<1>9. ASSUME NEW w \in Workers, Claim(w)
      PROVE  ReplayInv' /\ VerdictStays
  <2>1. /\ claims' = claims + 1 /\ row' = [status |-> "RUNNING", token |-> claims', live |-> TRUE]
        /\ worker' = [worker EXCEPT ![w] = [worker[w] EXCEPT !.stage = "verify", !.token = claims']]
        /\ UNCHANGED <<job, author, met>> /\ row.status \in Open
    BY <1>9 DEF Claim, Claimable, Recoverable, Open
  <2>2. PICK n \in Nat : n = claims' BY <2>1 DEF ReplayTyped
  <2>3. row' \in RowType /\ row'.status = "RUNNING" /\ row'.token = claims'
    BY <2>1, <2>2 DEF RowType, Open
  <2>4. [worker[w] EXCEPT !.stage = "verify", !.token = n] \in WorkerType
    BY DEF ReplayTyped, WorkerType
  <2>5. [worker[w] EXCEPT !.stage = "verify", !.token = n].stage = "verify"
    BY DEF ReplayTyped, WorkerType
  <2>6. /\ worker' \in [Workers -> WorkerType]
        /\ \A v \in Workers : worker'[v].stage = "complete" => worker'[v].verdict \in Verdicts
    <3> DEFINE W == [worker[w] EXCEPT !.stage = "verify", !.token = n]
    <3>1. worker' = [worker EXCEPT ![w] = W] BY <2>1, <2>2
    <3>2. W \in WorkerType /\ W.stage # "complete" BY <2>4, <2>5
    <3> HIDE DEF W
    <3> QED BY <3>1, <3>2 DEF ReplayTyped
  <2> QED BY <2>1, <2>2, <2>3, <2>6, <1>0 DEF ReplayTyped, VerdictStays
<1>10. ASSUME NEW w \in Workers, NothingToClaim(w)
       PROVE  ReplayInv' /\ VerdictStays
  <2>1. /\ Ended(w, TRUE) /\ UNCHANGED <<row, claims, author>>
        /\ met' = (met \/ (row.status = "RUNNING" /\ row.live)) /\ ~Recoverable
    BY <1>10 DEF NothingToClaim, Claimable
  <2>2. row.status \in Open => met' BY <2>1 DEF Recoverable, Open, ReplayTyped, RowType
  <2>3. ReplayTyped' BY <2>1, EndedDelivery DEF ReplayTyped
  <2> QED BY <2>1, <2>2, <2>3 DEF VerdictStays
<1>11. ASSUME NEW w \in Workers, ClaimFails(w) \/ CompleteFails(w)
       PROVE  ReplayInv' /\ VerdictStays
  <2>1. Ended(w, FALSE) /\ UNCHANGED <<row, claims, author, met>>
    BY <1>11 DEF ClaimFails, CompleteFails
  <2>2. ReplayTyped' /\ (job'.state = "completed" <=> job.state = "completed")
    BY <2>1, EndedDelivery DEF ReplayTyped
  <2> QED BY <2>1, <2>2 DEF VerdictStays
<1>12. ASSUME NEW w \in Workers, Verify(w)
       PROVE  ReplayInv' /\ VerdictStays
  <2>1. PICK v \in Verdicts :
          worker' = [worker EXCEPT ![w].stage = "complete", ![w].verdict = v]
    BY <1>12 DEF Verify
  <2>2. UNCHANGED <<row, job, claims, author, met>> BY <1>12 DEF Verify
  <2>3. PICK W \in WorkerType : W = [worker[w] EXCEPT !.stage = "complete", !.verdict = v]
    BY DEF ReplayTyped, WorkerType
  <2>4. W.verdict = v BY <2>3 DEF ReplayTyped, WorkerType
  <2>5. worker' = [worker EXCEPT ![w] = W] BY <2>1, <2>3 DEF ReplayTyped, WorkerType
  <2>6. worker' \in [Workers -> WorkerType] BY <2>5 DEF ReplayTyped
  <2>7. \A u \in Workers : worker'[u].stage = "complete" => worker'[u].verdict \in Verdicts
    BY <2>4, <2>5 DEF ReplayTyped
  <2> QED BY <2>2, <2>6, <2>7 DEF ReplayTyped, VerdictStays
<1>13. ASSUME NEW w \in Workers, Complete(w)
       PROVE  ReplayInv' /\ VerdictStays
  <2>1. /\ row' = [status |-> worker[w].verdict, token |-> 0, live |-> FALSE]
        /\ author' = worker[w].token /\ Ended(w, TRUE) /\ UNCHANGED <<claims, met>>
        /\ row.status = "RUNNING" /\ row.token = worker[w].token
    BY <1>13 DEF Complete, Fenced
  <2>2. worker[w].verdict \in Verdicts BY <1>13 DEF Complete, ReplayTyped
  <2>3. row' \in RowType /\ row'.status \in Verdicts /\ ~row'.live BY <2>1, <2>2 DEF RowType
  <2>4. ReplayTyped' BY <2>1, <2>3, EndedDelivery DEF ReplayTyped
  <2>5. author' = claims' BY <2>1
  <2> QED BY <2>1, <2>3, <2>4, <2>5, <1>0 DEF VerdictStays
<1>14. CASE UNCHANGED replayVars
  BY <1>14 DEF replayVars, ReplayTyped, VerdictStays
<1> QED BY <1>1, <1>2, <1>3, <1>4, <1>5, <1>6, <1>7, <1>8, <1>9, <1>10, <1>11, <1>12, <1>13, <1>14
        DEF ReplayNext

\* For any workers, claims, stalls and deletions: the verdict of a replay is
\* that of the last claim and stays until the Experiment goes, and a job that
\* is over leaves the verification open only behind the lease of a delivery
\* that was still at work (claimReplayVerification, completeReplayVerification).
THEOREM ReplaysAreSettled == ReplaySpec => ReplayIsSettled
<1>1. ReplayInit => ReplayInv BY ReplayStarts
<1>2. ReplayInv /\ [ReplayNext]_replayVars => ReplayInv' BY ReplayStep
<1>3. ASSUME ReplayInv, [ReplayNext]_replayVars
      PROVE  [LastClaimDecides' /\ NotAbandoned' /\ VerdictStays]_replayVars
  BY <1>3, ReplayStep DEF ReplayInv, LastClaimDecides, NotAbandoned
<1> QED BY <1>1, <1>2, <1>3, PTL DEF ReplaySpec, ReplayIsSettled

-----------------------------------------------------------------------------
(* The generators of candidates                                            *)

CandidatesSpec == CandidatesInit /\ [][CandidatesNext]_candidateVars

\* A finite set of numbers has a least and a greatest one.
LEMMA EndsOf ==
  ASSUME NEW S \in SUBSET Int, IsFiniteSet(S), S # {}
  PROVE  /\ \E least \in S : \A t \in S : least <= t
         /\ \E greatest \in S : \A t \in S : greatest >= t
<1> DEFINE Under(v) == {w \in S : w < v}
           Over(v) == {w \in S : w > v}
           Unders == {Under(v) : v \in S}
           Overs == {Over(v) : v \in S}
<1>1. IsWellFoundedOn(StrictSubsetOrdering(S), SUBSET S)
  BY FS_FiniteSubsetsOfFinite, FS_StrictSubsetOrderingWellFounded
<1>2. /\ Unders \subseteq SUBSET S /\ Unders # {}
      /\ Overs \subseteq SUBSET S /\ Overs # {}
  OBVIOUS
<1>3. PICK X \in Unders : \A Y \in Unders : <<Y, X>> \notin StrictSubsetOrdering(S)
  <2> HIDE DEF Unders
  <2> QED BY <1>1, <1>2, WFMin
<1>4. PICK Z \in Overs : \A Y \in Overs : <<Y, Z>> \notin StrictSubsetOrdering(S)
  <2> HIDE DEF Overs
  <2> QED BY <1>1, <1>2, WFMin
<1>5. PICK v \in S : X = Under(v) BY <1>3
<1>6. PICK u \in S : Z = Over(u) BY <1>4
<1>7. ASSUME NEW t \in S PROVE v <= t
  <2> SUFFICES ASSUME t < v PROVE FALSE OBVIOUS
  <2>0. t \in Int /\ v \in Int /\ t < v OBVIOUS
  <2>1. ASSUME NEW w \in Under(t) PROVE w \in Under(v)
    <3>1. w \in S /\ w \in Int /\ w < t OBVIOUS
    <3> QED BY <2>0, <3>1
  <2>2. t \in Under(v) /\ t \notin Under(t) BY <2>0
  <2>3. Under(t) \in Unders /\ Under(t) \in SUBSET S /\ Under(v) \in SUBSET S OBVIOUS
  <2>4. Under(t) # Under(v) BY <2>2
  <2> HIDE DEF Under, Unders
  <2>5. <<Under(t), Under(v)>> \in StrictSubsetOrdering(S)
    BY <2>1, <2>3, <2>4 DEF StrictSubsetOrdering
  <2> QED BY <1>3, <1>5, <2>3, <2>5
<1>8. ASSUME NEW t \in S PROVE u >= t
  <2> SUFFICES ASSUME t > u PROVE FALSE OBVIOUS
  <2>0. t \in Int /\ u \in Int /\ t > u OBVIOUS
  <2>1. ASSUME NEW w \in Over(t) PROVE w \in Over(u)
    <3>1. w \in S /\ w \in Int /\ w > t OBVIOUS
    <3> QED BY <2>0, <3>1
  <2>2. t \in Over(u) /\ t \notin Over(t) BY <2>0
  <2>3. Over(t) \in Overs /\ Over(t) \in SUBSET S /\ Over(u) \in SUBSET S OBVIOUS
  <2>4. Over(t) # Over(u) BY <2>2
  <2> HIDE DEF Over, Overs
  <2>5. <<Over(t), Over(u)>> \in StrictSubsetOrdering(S)
    BY <2>1, <2>3, <2>4 DEF StrictSubsetOrdering
  <2> QED BY <1>4, <1>6, <2>3, <2>5
<1> QED BY <1>7, <1>8

\* So have numbers that need not be finitely many a least one.
LEMMA LeastOf ==
  ASSUME NEW S \in SUBSET Nat, S # {}
  PROVE  \E least \in S : \A m \in S : least <= m
<1>1. PICK k \in S : k \in Nat OBVIOUS
<1>2. \A s \in S : s \in Nat OBVIOUS
<1> DEFINE T == {s \in S : s <= k}
<1>3. T \subseteq 0 .. k
  <2>1. ASSUME NEW s \in T PROVE s \in 0 .. k BY <1>1, <1>2
  <2> QED BY <2>1
<1>4. IsFiniteSet(0 .. k) /\ 0 .. k \subseteq Int BY <1>1, FS_Interval
<1>5. IsFiniteSet(T) /\ T \in SUBSET Int /\ k \in T BY <1>1, <1>3, <1>4, FS_Subset
<1>6. PICK least \in T : \A t \in T : least <= t BY <1>5, EndsOf
<1>7. \A m \in S : least <= m BY <1>1, <1>2, <1>6
<1> QED BY <1>6, <1>7

\* Counted from the least, the members of a finite set take every place, and
\* each one a place of its own.
LEMMA PlacesOf ==
  ASSUME NEW S \in SUBSET Int, IsFiniteSet(S)
  PROVE  /\ Cardinality(S) \in Nat
         /\ \A r \in S : Before(S, r) \in 1 .. Cardinality(S)
         /\ \A n \in 1 .. Cardinality(S) : \E r \in S : Before(S, r) = n
         /\ \A q, r \in S : Before(S, q) = Before(S, r) => q = r
<1> DEFINE Low(r) == {s \in S : s <= r}
<1>1. Cardinality(S) \in Nat /\ \A r \in S : r \in Int BY FS_CardinalityType
<1>2. ASSUME NEW r \in S
      PROVE  /\ Low(r) \in SUBSET S /\ IsFiniteSet(Low(r)) /\ r \in Low(r)
             /\ Before(S, r) = Cardinality(Low(r)) /\ Before(S, r) \in 1 .. Cardinality(S)
  <2>1. Low(r) \in SUBSET S /\ r \in Low(r) /\ Low(r) # {} BY <1>1
  <2>2. IsFiniteSet(Low(r)) /\ Cardinality(Low(r)) <= Cardinality(S) BY <2>1, FS_Subset
  <2>3. Cardinality(Low(r)) \in Nat /\ Cardinality(Low(r)) # 0
    BY <2>1, <2>2, FS_CardinalityType, FS_EmptySet
  <2>4. Before(S, r) = Cardinality(Low(r)) BY DEF Before
  <2> QED BY <1>1, <2>1, <2>2, <2>3, <2>4
<1>3. ASSUME NEW q \in S, NEW r \in S, q < r PROVE Before(S, q) # Before(S, r)
  <2>1. r \notin Low(q) /\ r \in Low(r) BY <1>1, <1>3
  <2>2. Low(q) \in SUBSET Low(r)
    <3>1. ASSUME NEW s \in Low(q) PROVE s \in Low(r)
      <4>1. s \in S /\ s \in Int /\ s <= q /\ q \in Int /\ r \in Int BY <1>1
      <4> QED BY <1>3, <4>1
    <3> QED BY <3>1
  <2>3. Low(q) # Low(r) BY <2>1
  <2> HIDE DEF Low
  <2>4. Cardinality(Low(q)) # Cardinality(Low(r)) BY <1>2, <2>2, <2>3, FS_Subset
  <2> QED BY <1>2, <2>4
<1>4. ASSUME NEW q \in S, NEW r \in S, Before(S, q) = Before(S, r) PROVE q = r
  <2>1. q \in Int /\ r \in Int BY <1>1
  <2>2. ~ q < r /\ ~ r < q BY <1>3, <1>4
  <2> QED BY <2>1, <2>2
<1>5. ASSUME NEW n \in 1 .. Cardinality(S) PROVE \E r \in S : Before(S, r) = n
  <2> DEFINE Places == {Before(S, r) : r \in S}
  <2> DEFINE f == [r \in S |-> Before(S, r)]
  <2>1. Places \in SUBSET (1 .. Cardinality(S)) BY <1>2
  <2>2. f \in Bijection(S, Places)
    <3>1. f \in [S -> Places] OBVIOUS
    <3>2. \A q, r \in S : f[q] = f[r] => q = r BY <1>4
    <3>3. \A p \in Places : \E r \in S : f[r] = p OBVIOUS
    <3> HIDE DEF f, Places
    <3> QED BY <3>1, <3>2, <3>3 DEF Bijection, Injection, IsInjective, Surjection
  <2>3. ExistsBijection(S, Places) BY <2>2 DEF ExistsBijection
  <2>4. Cardinality(Places) = Cardinality(S) BY <2>3, FS_Bijection
  <2>5. IsFiniteSet(1 .. Cardinality(S)) /\ Cardinality(1 .. Cardinality(S)) = Cardinality(S)
    BY <1>1, FS_Interval
  <2>6. Places = 1 .. Cardinality(S)
    <3> HIDE DEF Places
    <3> QED BY <2>1, <2>4, <2>5, FS_Subset
  <2> QED BY <2>6
<1> QED BY <1>1, <1>2, <1>4, <1>5

\* So InOrder lists all of them.
LEMMA InOrderOf ==
  ASSUME NEW S \in SUBSET Int, IsFiniteSet(S)
  PROVE  /\ InOrder(S) \in Seq(S) /\ Len(InOrder(S)) = Cardinality(S)
         /\ DOMAIN InOrder(S) = 1 .. Cardinality(S)
         /\ ToSet(InOrder(S)) = S
<1>1. PICK c \in Nat : c = Cardinality(S) BY PlacesOf
<1>2. PICK f : f = InOrder(S) OBVIOUS
<1>3. f = [n \in 1 .. c |-> CHOOSE k \in S : Before(S, k) = n] BY <1>1, <1>2 DEF InOrder
<1>4. ASSUME NEW n \in 1 .. c PROVE f[n] \in S /\ Before(S, f[n]) = n
  <2>1. \E k \in S : Before(S, k) = n BY <1>1, PlacesOf
  <2>2. f[n] = (CHOOSE k \in S : Before(S, k) = n) BY <1>3
  <2> QED BY <2>1, <2>2
<1>5. f \in [1 .. c -> S] BY <1>3, <1>4
<1>6. f \in Seq(S) /\ Len(f) = c /\ DOMAIN f = 1 .. c BY <1>5
<1>7. ASSUME NEW k \in S PROVE k \in ToSet(f)
  <2>1. PICK n \in 1 .. c : n = Before(S, k) BY <1>1, PlacesOf
  <2>2. f[n] \in S /\ Before(S, f[n]) = Before(S, k) BY <1>4, <2>1
  <2>3. f[n] = k BY <2>2, PlacesOf
  <2> QED BY <1>6, <2>3 DEF ToSet
<1>8. ToSet(f) = S BY <1>4, <1>6, <1>7 DEF ToSet
<1> QED BY <1>1, <1>2, <1>6, <1>8

\* Distinct keeps what is in a sequence.
LEMMA DistinctOf ==
  ASSUME NEW T, NEW s \in Seq(T)
  PROVE  /\ Distinct(s) \in Seq(T) /\ ToSet(Distinct(s)) = ToSet(s)
         /\ s # <<>> => Len(Distinct(s)) > 0
<1> DEFINE first == {k \in DOMAIN s : \A j \in 1 .. (k - 1) : s[j] # s[k]}
<1>1. DOMAIN s = 1 .. Len(s) /\ Len(s) \in Nat /\ \A k \in DOMAIN s : s[k] \in T OBVIOUS
<1>2. IsFiniteSet(DOMAIN s) BY <1>1, FS_Interval
<1>3. first \in SUBSET DOMAIN s /\ first \in SUBSET Int BY <1>1
<1>4. IsFiniteSet(first) BY <1>2, <1>3, FS_Subset
<1>5. PICK at : at = InOrder(first) OBVIOUS
<1>6. /\ at \in Seq(first) /\ Len(at) = Cardinality(first) /\ ToSet(at) = first
      /\ DOMAIN at = 1 .. Len(at) /\ Len(at) \in Nat
  <2> HIDE DEF first
  <2> QED BY <1>3, <1>4, <1>5, InOrderOf
<1>7. PICK d : d = Distinct(s) OBVIOUS
<1>8. d = [n \in DOMAIN at |-> s[at[n]]] BY <1>5, <1>7 DEF Distinct
<1>9. \A n \in DOMAIN at : at[n] \in DOMAIN s /\ s[at[n]] \in T
  <2>1. \A n \in DOMAIN at : at[n] \in first
    <3> HIDE DEF first
    <3> QED BY <1>6
  <2> QED BY <1>1, <1>3, <2>1
<1>10. d \in [1 .. Len(at) -> T] BY <1>6, <1>8, <1>9
<1>11. d \in Seq(T) /\ Len(d) = Len(at) /\ DOMAIN d = 1 .. Len(at)
  <2>1. PICK c \in Nat : c = Len(at) BY <1>6
  <2>2. d \in [1 .. c -> T] BY <1>10, <2>1
  <2>3. d \in Seq(T) /\ DOMAIN d = 1 .. c BY <2>2
  <2>4. Len(d) = c BY <2>1, <2>3
  <2> QED BY <2>1, <2>3, <2>4
<1>12. ASSUME NEW k \in DOMAIN s PROVE \E n \in DOMAIN d : d[n] = s[k]
  <2> DEFINE like == {j \in DOMAIN s : s[j] = s[k]}
  <2>1. like \in SUBSET Nat /\ k \in like /\ like # {} BY <1>1
  <2>2. PICK j \in like : \A i \in like : j <= i
    <3> HIDE DEF like
    <3> QED BY <2>1, LeastOf
  <2>3. \A i \in 1 .. (j - 1) : s[i] # s[j]
    <3>1. ASSUME NEW i \in 1 .. (j - 1), s[i] = s[j] PROVE FALSE
      <4>1. i \in like /\ i < j /\ i \in Nat /\ j \in Nat BY <1>1, <3>1
      <4> QED BY <2>2, <4>1
    <3> QED BY <3>1
  <2>4. j \in first /\ s[j] = s[k] BY <2>3
  <2>5. PICK n \in DOMAIN at : at[n] = j BY <1>6, <2>4 DEF ToSet
  <2> QED BY <1>6, <1>8, <1>11, <2>4, <2>5
<1>13. ToSet(d) = ToSet(s)
  <2>1. \A n \in DOMAIN d : \E k \in DOMAIN s : d[n] = s[k] BY <1>6, <1>8, <1>9, <1>11
  <2> QED BY <1>12, <2>1 DEF ToSet
<1>14. s # <<>> => Len(d) > 0
  <2>1. SUFFICES ASSUME s # <<>> PROVE Len(d) > 0 OBVIOUS
  <2>2. Len(s) # 0 /\ 1 \in DOMAIN s BY <1>1, <2>1
  <2>3. PICK n \in DOMAIN d : d[n] = s[1] BY <1>12, <2>2
  <2> QED BY <1>6, <1>11, <2>3
<1> QED BY <1>7, <1>11, <1>13, <1>14

\* What a generator makes of a definition: legal, where the plugin that the
\* definition was made with is still there to say what is.
GeneratedOK(d) ==
  /\ d.id \in DOMAIN Space /\ d.family = Space[d.id].family /\ d.current = Space[d.id].described
  /\ d.current => Valid(d.family, d.params)
PickOK(p) == p \in Seq(DOMAIN Space) /\ Len(p) \in 1 .. MaxComponents
DefsOK(s) ==
  /\ DOMAIN s = 1 .. Len(s) /\ Len(s) \in 1 .. MaxComponents
  /\ \A k \in DOMAIN s : GeneratedOK(s[k])
RulesHold(s) ==
  LET used == {CategoryOf(d.id) : d \in ToSet(s)} IN
  ToSet(Required) \subseteq used /\ used \cap Forbidden = {}

LEMMA VectorsWithin ==
  ASSUME NEW i \in DOMAIN Space, NEW p, NEW q \in Vectors(Space[i], p),
         Space[i].described, DOMAIN p = DOMAIN Space[i].params
  PROVE  /\ DOMAIN q = DOMAIN p
         /\ \A k \in DOMAIN q : /\ Bounds[Space[i].family][k].least <= q[k]
                                /\ q[k] <= Bounds[Space[i].family][k].greatest
<1>1. DOMAIN q = DOMAIN p /\ \A k \in DOMAIN p : q[k] \in Legal(Space[i], k, p[k]) BY DEF Vectors
<1>2. ASSUME NEW k \in DOMAIN q
      PROVE  /\ Bounds[Space[i].family][k].least <= q[k]
             /\ q[k] <= Bounds[Space[i].family][k].greatest
  <2>1. PICK a \in Int : a = Bounds[Space[i].family][k].least BY <1>1, SpaceIsOwned
  <2>2. PICK b \in Int : b = Bounds[Space[i].family][k].greatest BY <1>1, SpaceIsOwned
  <2>3. q[k] \in a .. b BY <1>1, <2>1, <2>2 DEF Legal
  <2> QED BY <2>1, <2>2, <2>3
<1> QED BY <1>1, <1>2

\* Mutated and repaired, the parameters of a described definition are legal.
LEMMA MutantsAreLegal ==
  ASSUME NEW i \in DOMAIN Space, NEW force, NEW q \in Mutants(Space[i], force), Space[i].described
  PROVE  Valid(Space[i].family, q)
<1>1. PICK v \in Vectors(Space[i], Space[i].params) : q \in Repaired(Space[i], v) BY DEF Mutants
<1>2. DOMAIN v = DOMAIN Space[i].params BY <1>1, VectorsWithin
<1>3. CASE Ordered(Space[i].family, v)
  <2>1. q = v BY <1>1, <1>3 DEF Repaired
  <2> QED BY <1>3, <2>1, VectorsWithin DEF Valid
<1>4. CASE ~ Ordered(Space[i].family, v)
  <2>1. q \in Vectors(Space[i], v) /\ Ordered(Space[i].family, q) BY <1>1, <1>4 DEF Repaired
  <2> QED BY <1>2, <2>1, VectorsWithin DEF Valid
<1> QED BY <1>3, <1>4

LEMMA DrawsOf ==
  ASSUME NEW pick, PickOK(pick), NEW force, NEW defs \in Draws(pick, force)
  PROVE  /\ DefsOK(defs) /\ Len(defs) = Len(pick)
         /\ \A k \in 1 .. Len(pick) : defs[k].id = pick[k]
<1>1. PICK n \in 1 .. MaxComponents : n = Len(pick) BY DEF PickOK
<1>2. DOMAIN pick = 1 .. n /\ \A k \in 1 .. n : pick[k] \in DOMAIN Space BY <1>1 DEF PickOK
<1>3. PICK p : /\ \A k \in DOMAIN pick : p[k] \in Mutants(Space[pick[k]], force)
               /\ defs = [k \in DOMAIN pick |-> LibraryRow(pick[k], Space[pick[k]].family, p[k],
                                                           Space[pick[k]].described)]
  BY DEF Draws
<1>4. DOMAIN defs = 1 .. n BY <1>2, <1>3
<1>5. ASSUME NEW k \in 1 .. n PROVE defs[k].id = pick[k] /\ GeneratedOK(defs[k])
  <2>1. PICK i \in DOMAIN Space : i = pick[k] BY <1>2
  <2>2. PICK q \in Mutants(Space[i], force) : q = p[k] BY <1>2, <1>3, <2>1
  <2>3. defs[k] = LibraryRow(i, Space[i].family, q, Space[i].described)
    BY <1>2, <1>3, <2>1, <2>2
  <2>4. /\ defs[k].id = i /\ defs[k].family = Space[i].family /\ defs[k].params = q
        /\ defs[k].current = Space[i].described
    BY <2>3 DEF LibraryRow
  <2> QED BY <2>1, <2>4, MutantsAreLegal DEF GeneratedOK
<1>6. Len(defs) = n
  <2> DEFINE T == {defs[k] : k \in 1 .. n}
  <2>0. n \in Nat BY SearchIsLimited
  <2>1. defs \in [1 .. n -> T] BY <1>3, <1>4
  <2>2. defs \in Seq(T)
    <3> HIDE DEF T
    <3> QED BY <2>0, <2>1
  <2> QED BY <1>4, <2>0, <2>2
<1> QED BY <1>1, <1>4, <1>5, <1>6 DEF DefsOK

LEMMA CutOf ==
  ASSUME NEW T, NEW s \in Seq(T), Len(s) > 0
  PROVE  /\ Cut(s) \in Seq(T) /\ Len(Cut(s)) \in 1 .. MaxComponents
         /\ Len(Cut(s)) = (IF MaxComponents < Len(s) THEN MaxComponents ELSE Len(s))
         /\ \A k \in 1 .. Len(Cut(s)) : Cut(s)[k] = s[k]
<1>1. PICK n \in Nat : n = Len(s) /\ n > 0 OBVIOUS
<1>2. PICK m \in Nat \ {0} : m = MaxComponents BY SearchIsLimited
<1>3. PICK c \in 1 .. n : c = Limit(n) /\ c <= m /\ (m < n => c = m) /\ (~ m < n => c = n)
  BY <1>1, <1>2 DEF Limit
<1>4. Cut(s) = SubSeq(s, 1, c) BY <1>1, <1>3 DEF Cut
<1>5. /\ SubSeq(s, 1, c) \in Seq(T) /\ Len(SubSeq(s, 1, c)) = c
      /\ \A k \in 1 .. c : SubSeq(s, 1, c)[k] = s[k]
  BY <1>1, <1>3
<1> QED BY <1>1, <1>2, <1>3, <1>4, <1>5

\* The picks of the three generators.
LEMMA PicksOfSome == ASSUME NEW p \in SomePicks PROVE PickOK(p)
<1>1. PICK l \in Nat \ {0} : l = Len(Space) BY SpaceIsOwned
<1>2. PICK m \in Nat \ {0} : m = MaxComponents BY SearchIsLimited
<1>3. PICK n \in 1 .. Limit(l) : p \in Picks(n) BY <1>1 DEF SomePicks
<1>4. n \in 1 .. m /\ n \in Nat BY <1>1, <1>2, <1>3 DEF Limit
<1>5. p \in [1 .. n -> DOMAIN Space] BY <1>3 DEF Picks
<1>6. p \in Seq(DOMAIN Space) /\ Len(p) = n BY <1>4, <1>5
<1> QED BY <1>2, <1>4, <1>6 DEF PickOK

LEMMA PicksOfGuided ==
  ASSUME Satisfiable
  PROVE  /\ PickOK(GuidedPick) /\ \A k \in 1 .. Len(GuidedPick) : GuidedPick[k] \in Available
         /\ \A c \in ToSet(Required) : \E k \in 1 .. Len(GuidedPick) : CategoryOf(GuidedPick[k]) = c
<1>1. PICK w : w = Wanted OBVIOUS
<1>2. PICK A : A = Available OBVIOUS
<1>3. Required \in Seq(ToSet(Required)) BY SearchIsLimited
<1>4. w \in Seq(ToSet(Required)) /\ ToSet(w) = ToSet(Required) BY <1>1, <1>3, DistinctOf DEF Wanted
<1>5. PICK n \in Nat : n = Len(w) /\ n <= MaxComponents BY <1>1, <1>4 DEF Satisfiable
<1>6. /\ A \in SUBSET DOMAIN Space /\ A \in SUBSET Nat /\ A \in SUBSET Int /\ IsFiniteSet(A) /\ A # {}
  <2>1. PICK l \in Nat : l = Len(Space) /\ DOMAIN Space = 1 .. l BY SpaceIsOwned
  <2>2. A \in SUBSET (1 .. l) BY <1>2, <2>1 DEF Available
  <2>3. IsFiniteSet(1 .. l) BY <2>1, FS_Interval
  <2>4. IsFiniteSet(A) BY <2>2, <2>3, FS_Subset
  <2> QED BY <1>2, <2>1, <2>2, <2>4 DEF Satisfiable
<1>7. ASSUME NEW c \in ToSet(Required) PROVE FirstOf(c) \in A /\ CategoryOf(FirstOf(c)) = c
  <2>1. OfCategory(c) # {} BY <1>1, <1>4 DEF Satisfiable
  <2>2. OfCategory(c) \in SUBSET Nat BY <1>2, <1>6 DEF OfCategory
  <2>3. \E i \in OfCategory(c) : \A j \in OfCategory(c) : i <= j BY <2>1, <2>2, LeastOf
  <2>4. FirstOf(c) \in OfCategory(c) BY <2>3 DEF FirstOf
  <2> QED BY <1>2, <2>4 DEF OfCategory
<1>8. PICK first : first = [k \in DOMAIN w |-> FirstOf(w[k])] OBVIOUS
<1>9. /\ first \in Seq(A) /\ Len(first) = n
      /\ \A k \in 1 .. n : first[k] = FirstOf(w[k])
  <2>1. DOMAIN w = 1 .. n /\ \A k \in 1 .. n : w[k] \in ToSet(Required) BY <1>4, <1>5
  <2>2. first \in [1 .. n -> A] BY <1>7, <1>8, <2>1
  <2>3. first \in Seq(A) /\ Len(first) = n BY <1>5, <2>2
  <2> QED BY <1>8, <2>1, <2>3
<1>10. PICK B : B = A \ ToSet(first) OBVIOUS
<1>11. PICK rest : rest = InOrder(B) OBVIOUS
<1>12. B \in SUBSET Int /\ IsFiniteSet(B) /\ B \in SUBSET A BY <1>6, <1>10, FS_Subset
<1>13. rest \in Seq(A) /\ rest \in Seq(B) /\ ToSet(rest) = B
  <2>1. rest \in Seq(B) /\ ToSet(rest) = B BY <1>11, <1>12, InOrderOf
  <2>2. PICK m \in Nat : m = Len(rest) /\ rest \in [1 .. m -> B] BY <2>1
  <2>3. rest \in [1 .. m -> A] BY <1>12, <2>2
  <2>4. rest \in Seq(A) BY <2>2, <2>3
  <2> QED BY <2>1, <2>4
<1>14. PICK line : line = first \o rest OBVIOUS
<1>15. /\ line \in Seq(A) /\ Len(line) \in Nat /\ Len(line) >= n
       /\ \A k \in 1 .. n : line[k] = first[k]
  BY <1>5, <1>9, <1>13, <1>14
<1>16. Len(line) > 0
  <2>1. SUFFICES ASSUME Len(line) = 0 PROVE FALSE BY <1>15
  <2>2. n = 0 /\ Len(rest) = 0 BY <1>5, <1>9, <1>13, <1>14, <2>1
  <2>3. DOMAIN first = {} /\ DOMAIN rest = {} BY <1>9, <1>13, <2>2
  <2>4. ToSet(first) = {} /\ ToSet(rest) = {} BY <2>3 DEF ToSet
  <2> QED BY <1>6, <1>10, <1>13, <2>4
<1>17. PICK g : g = Cut(line) OBVIOUS
<1>18. /\ g \in Seq(A) /\ Len(g) \in 1 .. MaxComponents /\ Len(g) >= n
       /\ \A k \in 1 .. Len(g) : g[k] = line[k]
  BY <1>5, <1>15, <1>16, <1>17, CutOf, SearchIsLimited
<1>19. g = GuidedPick BY <1>1, <1>2, <1>8, <1>10, <1>11, <1>14, <1>17 DEF GuidedPick
<1>20. PickOK(g) /\ \A k \in 1 .. Len(g) : g[k] \in A BY <1>6, <1>18 DEF PickOK
<1>21. ASSUME NEW c \in ToSet(Required) PROVE \E k \in 1 .. Len(g) : CategoryOf(g[k]) = c
  <2>1. PICK k \in 1 .. n : w[k] = c BY <1>4, <1>5 DEF ToSet
  <2>2. k \in 1 .. Len(g) /\ g[k] = FirstOf(c) BY <1>5, <1>9, <1>15, <1>18, <2>1
  <2> QED BY <1>7, <2>2
<1> QED BY <1>2, <1>19, <1>20, <1>21

LEMMA PicksOfGenetic == ASSUME NEW p \in GeneticPicks PROVE PickOK(p)
<1>1. ASSUME NEW c \in Children PROVE PickOK(c)
  <2>1. PICK a \in SomePicks, b \in SomePicks, n \in 0 .. Len(Space) :
          n <= Len(a) /\ n <= Len(b) /\ c = Crossed(a, b, n)
    BY DEF Children
  <2>2. /\ a \in Seq(DOMAIN Space) /\ b \in Seq(DOMAIN Space) /\ Len(a) > 0
        /\ Len(a) \in Nat /\ Len(b) \in Nat /\ n \in Nat
    <3>1. PickOK(a) /\ PickOK(b) BY PicksOfSome
    <3> QED BY <3>1, SearchIsLimited DEF PickOK
  <2>3. PICK x : x = SubSeq(a, 1, n) OBVIOUS
  <2>4. PICK y : y = SubSeq(b, n + 1, Len(b)) OBVIOUS
  <2>5. x \in Seq(DOMAIN Space) /\ y \in Seq(DOMAIN Space)
    <3>1. PICK m \in Nat : m = Len(b) BY <2>2
    <3>2. PICK l \in Nat : l = Len(a) BY <2>2
    <3>3. PICK D : D = DOMAIN Space OBVIOUS
    <3>4. a \in Seq(D) /\ b \in Seq(D) /\ n <= l /\ n <= m BY <2>1, <2>2, <3>1, <3>2, <3>3
    <3>5. SubSeq(a, 1, n) \in Seq(D) BY <2>2, <3>2, <3>4
    <3>6. SubSeq(b, n + 1, m) \in Seq(D) BY <2>2, <3>1, <3>4
    <3> QED BY <2>3, <2>4, <3>1, <3>3, <3>5, <3>6
  <2>6. PICK s : s = x \o y \o a \o b OBVIOUS
  <2>7. s \in Seq(DOMAIN Space) /\ Len(s) > 0 BY <2>2, <2>5, <2>6
  <2>8. Distinct(s) \in Seq(DOMAIN Space) /\ Len(Distinct(s)) > 0 BY <2>7, DistinctOf
  <2>9. c = Cut(Distinct(s)) BY <2>1, <2>3, <2>4, <2>6 DEF Crossed
  <2> QED BY <2>8, <2>9, CutOf DEF PickOK
<1>2. CASE p \in Children BY <1>1, <1>2
<1>3. CASE p \notin Children
  <2>0. PICK c \in Children : \E k \in DOMAIN c, i \in DOMAIN Space : p = [c EXCEPT ![k] = i]
    BY <1>3 DEF GeneticPicks
  <2>1. PICK k \in DOMAIN c, i \in DOMAIN Space : p = [c EXCEPT ![k] = i] BY <2>0
  <2>2. c \in Seq(DOMAIN Space) /\ Len(c) \in 1 .. MaxComponents BY <1>1 DEF PickOK
  <2>3. p \in Seq(DOMAIN Space) /\ Len(p) = Len(c) BY <2>1, <2>2
  <2> QED BY <2>2, <2>3 DEF PickOK
<1> QED BY <1>2, <1>3

\* What the generators hand to submit.
LEMMA DrawsAreGood ==
  /\ \A defs \in RandomDraws \cup GeneticDraws : DefsOK(defs)
  /\ \A defs \in GuidedDraws : DefsOK(defs) /\ RulesHold(defs)
<1>1. ASSUME NEW defs \in RandomDraws PROVE DefsOK(defs)
  <2>1. PICK pick \in SomePicks : defs \in Draws(pick, TRUE) BY DEF RandomDraws
  <2> QED BY <2>1, PicksOfSome, DrawsOf
<1>2. ASSUME NEW defs \in GeneticDraws PROVE DefsOK(defs)
  <2>1. PICK pick \in GeneticPicks : defs \in Draws(pick, FALSE) BY DEF GeneticDraws
  <2> QED BY <2>1, PicksOfGenetic, DrawsOf
<1>3. ASSUME NEW defs \in GuidedDraws PROVE DefsOK(defs) /\ RulesHold(defs)
  <2>1. Satisfiable /\ defs \in Draws(GuidedPick, TRUE) BY DEF GuidedDraws
  <2>2. PICK g : g = GuidedPick OBVIOUS
  <2>3. /\ PickOK(g) /\ \A k \in 1 .. Len(g) : g[k] \in Available
        /\ \A c \in ToSet(Required) : \E k \in 1 .. Len(g) : CategoryOf(g[k]) = c
    BY <2>1, <2>2, PicksOfGuided
  <2>4. /\ DefsOK(defs) /\ Len(defs) = Len(g) /\ \A k \in 1 .. Len(g) : defs[k].id = g[k]
    BY <2>1, <2>2, <2>3, DrawsOf
  <2>5. DOMAIN defs = 1 .. Len(g) BY <2>4 DEF DefsOK
  <2>6. ASSUME NEW c \in ToSet(Required) PROVE \E d \in ToSet(defs) : CategoryOf(d.id) = c
    <3>1. PICK k \in 1 .. Len(g) : CategoryOf(g[k]) = c BY <2>3
    <3>2. defs[k] \in ToSet(defs) BY <2>5 DEF ToSet
    <3> QED BY <2>4, <3>1, <3>2
  <2>7. ASSUME NEW d \in ToSet(defs) PROVE CategoryOf(d.id) \notin Forbidden
    <3>1. PICK k \in 1 .. Len(g) : d = defs[k] BY <2>5 DEF ToSet
    <3>2. d.id \in Available BY <2>3, <2>4, <3>1
    <3> QED BY <3>2 DEF Available
  <2> QED BY <2>4, <2>6, <2>7 DEF RulesHold
<1> QED BY <1>1, <1>2, <1>3

Alike(x, y) == x.family = y.family /\ x.params = y.params
OfSpace(r) == Alike(r, Space[r.id]) /\ r.current = Space[r.id].described

\* A row keeps its id for good, and what was generated from the space still
\* describes the row it was generated from.
LibraryOK(lib, next, deleted) ==
  /\ next \in Nat /\ next > Len(Space)
  /\ \A r \in lib : r.id \in Nat /\ r.id < next
  /\ \A q, r \in lib : q.id = r.id => q = r
  /\ \A r \in lib : r.id \in DOMAIN Space => OfSpace(r)
  /\ \A r \in lib : r.id \notin DOMAIN Space => r.current
  /\ deleted \in Nat
  /\ deleted = 0 => \A i \in DOMAIN Space : \E r \in lib : r.id = i

\* A component that was mapped to an id, by a look at the library then.
MappedOK(d, id, lib, next, deleted) ==
  /\ id \in Nat /\ id < next
  /\ id \in DOMAIN Space => Alike(d, Space[id])
  /\ \A r \in lib : r.id = id => Alike(r, d)
  /\ Valid(d.family, d.params) \/ (id \in DOMAIN Space /\ ~ Space[id].described)
  /\ (id \in DOMAIN Space /\ ~ Space[id].described) => d.id = id
  /\ deleted = 0 => \E r \in lib : r.id = id

CandFields == {"stage", "kind", "defs", "read", "ids"}
SubmittedOK(c, lib, next, deleted) ==
  /\ DOMAIN c = CandFields /\ c.stage \in {"define", "compose", "submit"}
  /\ DefsOK(c.defs) /\ (c.kind = "DOMAIN_GUIDED" => RulesHold(c.defs))
  /\ \A r \in c.read : r.id \in DOMAIN Space /\ OfSpace(r)
  /\ DOMAIN c.ids = 1 .. Len(c.ids) /\ c.ids \in Seq(Nat) /\ Len(c.ids) <= Len(c.defs)
  /\ c.stage = "define" <=> Len(c.ids) < Len(c.defs)
  /\ \A k \in DOMAIN c.ids : MappedOK(c.defs[k], c.ids[k], lib, next, deleted)
  /\ \A j, k \in DOMAIN c.ids : c.ids[j] = c.ids[k] => Alike(c.defs[j], c.defs[k])

SubmissionInv ==
  /\ LibraryOK(library, nextId, deletes)
  /\ cand = NoCandidate \/ SubmittedOK(cand, library, nextId, deletes)
  /\ CandidatesAreFaithful

LEMMA SubmissionStarts == CandidatesInit => SubmissionInv
<1> SUFFICES ASSUME CandidatesInit PROVE SubmissionInv OBVIOUS
<1> DEFINE entry(i) == LibraryRow(i, Space[i].family, Space[i].params, Space[i].described)
<1>1. PICK l \in Nat \ {0} : l = Len(Space) /\ DOMAIN Space = 1 .. l BY SpaceIsOwned
<1>2. /\ library = {entry(i) : i \in DOMAIN Space} /\ nextId = l + 1 /\ deletes = 0
      /\ cand = NoCandidate /\ outcome = [ok |-> TRUE, of |-> <<>>, ran |-> <<>>, kind |-> "none"]
  BY <1>1 DEF CandidatesInit
<1>3. \A i : /\ entry(i).id = i /\ entry(i).family = Space[i].family
             /\ entry(i).params = Space[i].params /\ entry(i).current = Space[i].described
  BY DEF LibraryRow
<1>4. LibraryOK(library, nextId, deletes)
  <2> HIDE DEF entry
  <2>1. \A r \in library : r.id \in DOMAIN Space /\ r = entry(r.id) BY <1>2, <1>3
  <2>2. \A r \in library : OfSpace(r) BY <1>3, <2>1 DEF OfSpace, Alike
  <2>3. \A i \in DOMAIN Space : entry(i) \in library BY <1>2
  <2>4. \A i \in DOMAIN Space : entry(i).id = i /\ i \in Nat /\ i < l + 1 BY <1>1, <1>3
  <2>5. \A r \in library : r.id \in Nat /\ r.id < nextId BY <1>2, <2>1, <2>4
  <2>6. \A q, r \in library : q.id = r.id => q = r BY <2>1
  <2>7. \A i \in DOMAIN Space : \E r \in library : r.id = i BY <2>3, <2>4
  <2>8. nextId \in Nat /\ nextId > Len(Space) /\ deletes \in Nat BY <1>1, <1>2
  <2> QED BY <2>1, <2>2, <2>5, <2>6, <2>7, <2>8 DEF LibraryOK
<1>5. CandidatesAreFaithful
  <2>1. RunsWhatWasGenerated BY <1>2 DEF RunsWhatWasGenerated
  <2>2. ObeysTheSpace BY <1>2, SearchIsLimited DEF ObeysTheSpace
  <2>3. RefusedForCause BY <1>2 DEF RefusedForCause
  <2> QED BY <2>1, <2>2, <2>3 DEF CandidatesAreFaithful
<1> QED BY <1>2, <1>4, <1>5 DEF SubmissionInv

\* An outcome stays explained: deletions are only counted up.
LEMMA OutcomeStays ==
  ASSUME CandidatesAreFaithful, UNCHANGED outcome, deletes \in Nat, deletes' \in Nat, deletes' >= deletes
  PROVE  CandidatesAreFaithful'
<1>1. RunsWhatWasGenerated' BY DEF CandidatesAreFaithful, RunsWhatWasGenerated
<1>2. ObeysTheSpace' BY DEF CandidatesAreFaithful, ObeysTheSpace
<1>3. RefusedForCause'
  <2>1. (deletes > 0) => (deletes' > 0) OBVIOUS
  <2>2. RefusedForCause BY DEF CandidatesAreFaithful
  <2> QED BY <2>1, <2>2 DEF RefusedForCause
<1> QED BY <1>1, <1>2, <1>3 DEF CandidatesAreFaithful

\* What a refusal must rest on.
Cause(why, defs, deleted) ==
  \/ why = "deleted" /\ deleted > 0
  \/ why = "twins" /\ \E j, k \in DOMAIN defs : j # k /\ Alike(defs[j], defs[k])
  \/ why = "replaced" /\ \E d \in ToSet(defs) : ~ Space[d.id].described /\ d.params = Space[d.id].params
  \/ why = "invalid" /\ \E d \in ToSet(defs) : ~ Space[d.id].described
  \/ why = "warmup" /\ \E d \in ToSet(defs) : Warmup[d.family] > WarmupCapacity
LEMMA RefusalsHaveCause ==
  ASSUME NEW why, Refuse(why), Cause(why, cand.defs, deletes')
  PROVE  CandidatesAreFaithful' /\ cand' = NoCandidate
<1>1. PICK defs : defs = cand.defs OBVIOUS
<1>2. /\ cand' = NoCandidate /\ outcome'.ok = FALSE /\ outcome'.why = why /\ outcome'.of = defs
  BY <1>1 DEF Refuse
<1>3. RunsWhatWasGenerated' BY <1>2 DEF RunsWhatWasGenerated
<1>4. ObeysTheSpace' BY <1>2 DEF ObeysTheSpace
<1>5. RefusedForCause' BY <1>1, <1>2 DEF RefusedForCause, Cause, Alike
<1> QED BY <1>2, <1>3, <1>4, <1>5 DEF CandidatesAreFaithful

LEMMA ComponentsOf ==
  ASSUME NEW defs, DefsOK(defs), NEW d
  PROVE  d \in ToSet(defs) <=> \E k \in 1 .. Len(defs) : d = defs[k]
BY DEF DefsOK, ToSet

LEMMA GenerateStep ==
  ASSUME SubmissionInv, NEW kind, NEW draws, GenerateCandidate(kind, draws),
         \A defs \in draws : DefsOK(defs) /\ (kind = "DOMAIN_GUIDED" => RulesHold(defs))
  PROVE  SubmissionInv'
<1>1. PICK defs \in draws :
        cand' = IF Fingerprint(kind, defs) \in seen THEN NoCandidate
                ELSE [stage |-> "define", kind |-> kind, defs |-> defs, read |-> {}, ids |-> <<>>]
  BY DEF GenerateCandidate
<1>2. UNCHANGED <<library, nextId, deletes, outcome>> BY DEF GenerateCandidate
<1>3. CandidatesAreFaithful'
  BY <1>2, OutcomeStays DEF SubmissionInv, LibraryOK
<1>4. CASE cand' = NoCandidate BY <1>2, <1>3, <1>4 DEF SubmissionInv
<1>5. CASE cand' # NoCandidate
  <2>1. PICK c : c = cand' OBVIOUS
  <2>2. /\ DOMAIN c = CandFields /\ c.stage = "define" /\ c.kind = kind /\ c.defs = defs
        /\ c.read = {} /\ c.ids = <<>>
    BY <1>1, <1>5, <2>1 DEF CandFields
  <2>3. Len(defs) \in Nat /\ Len(defs) > 0 BY SearchIsLimited DEF DefsOK
  <2>4. DOMAIN c.ids = 1 .. Len(c.ids) /\ c.ids \in Seq(Nat) /\ Len(c.ids) = 0 /\ DOMAIN c.ids = {}
    BY <2>2
  <2>5. SubmittedOK(c, library, nextId, deletes) BY <2>2, <2>3, <2>4 DEF SubmittedOK
  <2> QED BY <1>2, <1>3, <2>1, <2>5 DEF SubmissionInv
<1> QED BY <1>4, <1>5

LEMMA ReadStep == ASSUME SubmissionInv, ReadDefinitions PROVE SubmissionInv'
<1> DEFINE wanted == {d.id : d \in ToSet(cand.defs)}
<1>1. /\ cand.stage = "define" /\ UNCHANGED <<library, nextId, deletes>>
      /\ IF wanted \subseteq {r.id : r \in library}
         THEN /\ cand' = [cand EXCEPT !.read = {r \in library : r.id \in wanted}]
              /\ UNCHANGED outcome
         ELSE Refuse("deleted")
  BY DEF ReadDefinitions
<1>2. SubmittedOK(cand, library, nextId, deletes) BY <1>1 DEF SubmissionInv, NoCandidate
<1>3. LibraryOK(library, nextId, deletes) BY DEF SubmissionInv
<1>4. \A i \in wanted : i \in DOMAIN Space
  <2>1. ASSUME NEW d \in ToSet(cand.defs) PROVE d.id \in DOMAIN Space
    <3>1. DefsOK(cand.defs) BY <1>2 DEF SubmittedOK
    <3>2. PICK k \in 1 .. Len(cand.defs) : d = cand.defs[k] BY <3>1, ComponentsOf
    <3>3. GeneratedOK(cand.defs[k]) BY <3>1 DEF DefsOK
    <3> QED BY <3>2, <3>3 DEF GeneratedOK
  <2> QED BY <2>1
<1>5. CASE wanted \subseteq {r.id : r \in library}
  <2>1. PICK rows : rows = {r \in library : r.id \in wanted} OBVIOUS
  <2>2. \A r \in rows : r.id \in DOMAIN Space /\ OfSpace(r) BY <1>3, <1>4, <2>1 DEF LibraryOK
  <2>3. cand' = [cand EXCEPT !.read = rows] /\ UNCHANGED outcome BY <1>1, <1>5, <2>1
  <2>4. PICK c : c = cand' OBVIOUS
  <2>5. /\ DOMAIN c = CandFields /\ c.stage = cand.stage /\ c.kind = cand.kind /\ c.defs = cand.defs
        /\ c.read = rows /\ c.ids = cand.ids
    BY <1>2, <2>3, <2>4 DEF SubmittedOK, CandFields
  <2>6. SubmittedOK(c, library, nextId, deletes) BY <1>2, <2>2, <2>5 DEF SubmittedOK
  <2>7. CandidatesAreFaithful' BY <1>1, <1>3, <2>3, OutcomeStays DEF SubmissionInv, LibraryOK
  <2> QED BY <1>1, <1>3, <2>4, <2>6, <2>7 DEF SubmissionInv
<1>6. CASE ~ wanted \subseteq {r.id : r \in library}
  <2>1. PICK i \in wanted : \A r \in library : r.id # i BY <1>6
  <2>2. deletes # 0 BY <1>3, <1>4, <2>1 DEF LibraryOK
  <2>3. deletes' > 0 BY <1>1, <1>3, <2>2 DEF LibraryOK
  <2>4. Refuse("deleted") BY <1>1, <1>6
  <2>5. Cause("deleted", cand.defs, deletes') BY <2>3 DEF Cause
  <2>6. CandidatesAreFaithful' /\ cand' = NoCandidate BY <2>4, <2>5, RefusalsHaveCause
  <2> QED BY <1>1, <1>3, <2>6 DEF SubmissionInv
<1> QED BY <1>5, <1>6

\* One more component is mapped.
LEMMA MappedStep ==
  ASSUME NEW c, NEW lib, NEW next, NEW deleted, SubmittedOK(c, lib, next, deleted), c.stage = "define",
         NEW id, MappedOK(c.defs[Len(c.ids) + 1], id, lib, next, deleted),
         \A j \in DOMAIN c.ids : c.ids[j] = id => Alike(c.defs[j], c.defs[Len(c.ids) + 1]),
         NEW t, t = [c EXCEPT !.ids = Append(@, id),
                              !.stage = IF Len(c.ids) + 1 = Len(c.defs) THEN "compose" ELSE @]
  PROVE  SubmittedOK(t, lib, next, deleted)
<1>1. PICK n \in Nat : n = Len(c.ids) BY DEF SubmittedOK
<1>2. PICK m \in Nat : m = Len(c.defs) /\ n < m BY <1>1, SearchIsLimited DEF SubmittedOK, DefsOK
<1>3. PICK d : d = c.defs[n + 1] OBVIOUS
<1>4. PICK ids : ids = Append(c.ids, id) OBVIOUS
<1>5. PICK stage : stage = IF n + 1 = m THEN "compose" ELSE "define" OBVIOUS
<1>6. /\ DOMAIN t = CandFields /\ t.stage = stage /\ t.kind = c.kind /\ t.defs = c.defs
      /\ t.read = c.read /\ t.ids = ids
  <2>1. t = [c EXCEPT !.ids = ids, !.stage = stage] BY <1>1, <1>2, <1>4, <1>5
  <2> QED BY <2>1 DEF SubmittedOK, CandFields
<1>7. c.ids \in Seq(Nat) /\ DOMAIN c.ids = 1 .. n /\ id \in Nat BY <1>1 DEF SubmittedOK, MappedOK
<1>8. /\ ids \in Seq(Nat) /\ Len(ids) = n + 1 /\ DOMAIN ids = 1 .. (n + 1) /\ ids[n + 1] = id
      /\ \A k \in 1 .. n : ids[k] = c.ids[k]
  BY <1>1, <1>4, <1>7
<1>9. ASSUME NEW k \in 1 .. (n + 1) PROVE MappedOK(c.defs[k], ids[k], lib, next, deleted)
  <2>1. CASE k \in 1 .. n BY <1>7, <1>8, <2>1 DEF SubmittedOK
  <2>2. CASE k = n + 1 BY <1>1, <1>8, <2>2
  <2> QED BY <1>1, <2>1, <2>2
<1>10. ASSUME NEW j \in 1 .. (n + 1), NEW k \in 1 .. (n + 1), ids[j] = ids[k]
       PROVE  Alike(c.defs[j], c.defs[k])
  <2>1. CASE j \in 1 .. n /\ k \in 1 .. n BY <1>7, <1>8, <1>10, <2>1 DEF SubmittedOK
  <2>2. CASE j \in 1 .. n /\ k = n + 1 BY <1>1, <1>7, <1>8, <1>10, <2>2
  <2>3. CASE j = n + 1 /\ k \in 1 .. n
    <3>1. Alike(c.defs[k], c.defs[j]) BY <1>1, <1>7, <1>8, <1>10, <2>3
    <3> QED BY <3>1 DEF Alike
  <2>4. CASE j = n + 1 /\ k = n + 1 BY <2>4 DEF Alike
  <2> QED BY <1>1, <2>1, <2>2, <2>3, <2>4
<1>11. stage \in {"define", "compose"} /\ (stage = "define" <=> n + 1 < m) /\ n + 1 <= m BY <1>2, <1>5
<1>12. /\ DefsOK(t.defs) /\ (t.kind = "DOMAIN_GUIDED" => RulesHold(t.defs))
       /\ \A r \in t.read : r.id \in DOMAIN Space /\ OfSpace(r)
  BY <1>6 DEF SubmittedOK
<1>13. /\ DOMAIN t.ids = 1 .. Len(t.ids) /\ t.ids \in Seq(Nat) /\ Len(t.ids) <= Len(t.defs)
       /\ t.stage = "define" <=> Len(t.ids) < Len(t.defs)
  BY <1>2, <1>6, <1>8, <1>11
<1>14. /\ \A k \in DOMAIN t.ids : MappedOK(t.defs[k], t.ids[k], lib, next, deleted)
       /\ \A j, k \in DOMAIN t.ids : t.ids[j] = t.ids[k] => Alike(t.defs[j], t.defs[k])
  <2>1. DOMAIN ids = 1 .. (n + 1) BY <1>8
  <2>2. \A k \in DOMAIN ids : MappedOK(c.defs[k], ids[k], lib, next, deleted) BY <1>9, <2>1
  <2>3. \A j, k \in DOMAIN ids : ids[j] = ids[k] => Alike(c.defs[j], c.defs[k]) BY <1>10, <2>1
  <2>4. t.ids = ids /\ t.defs = c.defs BY <1>6
  <2> QED BY ONLY <2>2, <2>3, <2>4
<1>15. DOMAIN t = CandFields /\ t.stage \in {"define", "compose", "submit"} BY <1>6, <1>11
<1> QED BY ONLY <1>12, <1>13, <1>14, <1>15 DEF SubmittedOK

\* A row is added under a new id.
LEMMA RowAdded ==
  ASSUME NEW lib, NEW next, NEW deleted, LibraryOK(lib, next, deleted), NEW entry, entry.id = next, entry.current
  PROVE  /\ LibraryOK(lib \cup {entry}, next + 1, deleted)
         /\ \A d, id : MappedOK(d, id, lib, next, deleted)
                         => MappedOK(d, id, lib \cup {entry}, next + 1, deleted)
         /\ \A c : SubmittedOK(c, lib, next, deleted)
                         => SubmittedOK(c, lib \cup {entry}, next + 1, deleted)
<1>1. PICK l \in Nat : l = Len(Space) /\ DOMAIN Space = 1 .. l BY SpaceIsOwned
<1>2. next \in Nat /\ next > l /\ next \notin DOMAIN Space BY <1>1 DEF LibraryOK
<1>3. PICK new \in Nat : new = next + 1 BY <1>2
<1>4. PICK all : all = lib \cup {entry} OBVIOUS
<1>5. LibraryOK(all, new, deleted)
  <2>1. \A r \in all : r.id \in Nat /\ r.id < new BY <1>2, <1>3, <1>4 DEF LibraryOK
  <2>2. \A q, r \in all : q.id = r.id => q = r
    <3>1. \A q \in lib : q.id # entry.id BY <1>2 DEF LibraryOK
    <3> QED BY <1>4, <3>1 DEF LibraryOK
  <2>3. \A r \in all : r.id \in DOMAIN Space => OfSpace(r) BY <1>2, <1>4 DEF LibraryOK
  <2>4. \A r \in all : r.id \notin DOMAIN Space => r.current BY <1>4 DEF LibraryOK
  <2>5. deleted \in Nat /\ (deleted = 0 => \A i \in DOMAIN Space : \E r \in all : r.id = i)
    BY <1>4 DEF LibraryOK
  <2>6. new > Len(Space) BY <1>1, <1>2, <1>3
  <2> QED BY <2>1, <2>2, <2>3, <2>4, <2>5, <2>6 DEF LibraryOK
<1>6. ASSUME NEW d, NEW id, MappedOK(d, id, lib, next, deleted) PROVE MappedOK(d, id, all, new, deleted)
  <2>1. id \in Nat /\ id < next /\ entry.id # id BY <1>2, <1>6 DEF MappedOK
  <2>2. id < new BY <1>2, <1>3, <2>1
  <2> QED BY <1>4, <1>6, <2>1, <2>2 DEF MappedOK
<1>7. ASSUME NEW c, SubmittedOK(c, lib, next, deleted) PROVE SubmittedOK(c, all, new, deleted)
  BY <1>6, <1>7 DEF SubmittedOK
<1> QED BY <1>3, <1>4, <1>5, <1>6, <1>7

LEMMA DefineStep == ASSUME SubmissionInv, DefineNext PROVE SubmissionInv'
<1>1. PICK c : c = cand OBVIOUS
<1>6. SubmittedOK(c, library, nextId, deletes)
  <2>1. cand.stage = "define" BY DEF DefineNext
  <2> QED BY <1>1, <2>1 DEF SubmissionInv, NoCandidate
<1>2. PICK n \in Nat : n = Len(c.ids) BY <1>6 DEF SubmittedOK
<1>3. PICK d : d = c.defs[n + 1] OBVIOUS
<1>4. PICK equal : equal = {r \in library : r.current /\ r.family = d.family /\ r.params = d.params} OBVIOUS
<1> DEFINE mapped(id) == [c EXCEPT !.ids = Append(@, id),
                                   !.stage = IF Len(c.ids) + 1 = Len(c.defs) THEN "compose" ELSE @]
<1>5. /\ c.stage = "define" /\ UNCHANGED deletes
      /\ \/ /\ d \in c.read /\ cand' = mapped(d.id) /\ UNCHANGED <<library, nextId, outcome>>
         \/ /\ d \notin c.read /\ ~ Valid(d.family, d.params)
            /\ Refuse("invalid") /\ UNCHANGED <<library, nextId>>
         \/ /\ d \notin c.read /\ Valid(d.family, d.params)
            /\ \E r \in equal : cand' = mapped(r.id) /\ UNCHANGED <<library, nextId, outcome>>
         \/ /\ d \notin c.read /\ Valid(d.family, d.params)
            /\ cand' = mapped(nextId) /\ nextId' = nextId + 1
            /\ library' = library \cup {LibraryRow(nextId, d.family, d.params, TRUE)}
            /\ UNCHANGED outcome
  BY <1>1, <1>2, <1>3, <1>4 DEF DefineNext, Mapped
<1>7. LibraryOK(library, nextId, deletes) BY DEF SubmissionInv
<1>8. n + 1 \in 1 .. Len(c.defs) /\ GeneratedOK(d)
  <2>1. DefsOK(c.defs) BY <1>6 DEF SubmittedOK
  <2>2. PICK m \in Nat : m = Len(c.defs) /\ DOMAIN c.defs = 1 .. m BY <2>1, SearchIsLimited DEF DefsOK
  <2>3. c.stage = "define" BY <1>5
  <2>4. Len(c.ids) < Len(c.defs) BY <1>6, <2>3 DEF SubmittedOK
  <2>5. n + 1 \in 1 .. m BY <1>2, <2>2, <2>4
  <2> QED BY <1>3, <2>1, <2>2, <2>5 DEF DefsOK
<1>9. ASSUME outcome' = outcome PROVE CandidatesAreFaithful'
  <2>1. deletes \in Nat /\ deletes' = deletes BY <1>5, <1>7 DEF LibraryOK
  <2>2. CandidatesAreFaithful BY DEF SubmissionInv
  <2> QED BY <1>9, <2>1, <2>2, OutcomeStays
<1>10. ASSUME NEW id, MappedOK(d, id, library', nextId', deletes), cand' = mapped(id), outcome' = outcome,
              LibraryOK(library', nextId', deletes), SubmittedOK(c, library', nextId', deletes),
              \A j \in DOMAIN c.ids : c.ids[j] = id => Alike(c.defs[j], d)
       PROVE  SubmissionInv'
  <2>1. SubmittedOK(cand', library', nextId', deletes)
    BY <1>2, <1>3, <1>5, <1>10, MappedStep
  <2> QED BY <1>5, <1>9, <1>10, <2>1 DEF SubmissionInv
<1>11. ASSUME NEW j \in DOMAIN c.ids PROVE MappedOK(c.defs[j], c.ids[j], library, nextId, deletes)
  BY <1>6 DEF SubmittedOK
<1> HIDE DEF mapped
<1>12. CASE d \in c.read /\ cand' = mapped(d.id) /\ UNCHANGED <<library, nextId, outcome>>
  <2>1. d.id \in DOMAIN Space /\ OfSpace(d) BY <1>6, <1>12 DEF SubmittedOK
  <2>2. d.id \in Nat /\ d.id < nextId BY <1>7, <2>1, SpaceIsOwned DEF LibraryOK
  <2>3. \A r \in library : r.id = d.id => Alike(r, d) BY <1>7, <2>1 DEF LibraryOK, OfSpace, Alike
  <2>4. Valid(d.family, d.params) \/ ~ Space[d.id].described BY <1>8 DEF GeneratedOK
  <2>5. deletes = 0 => \E r \in library : r.id = d.id BY <1>7, <2>1 DEF LibraryOK
  <2>6. MappedOK(d, d.id, library, nextId, deletes)
    BY <2>1, <2>2, <2>3, <2>4, <2>5 DEF MappedOK, OfSpace
  <2>7. \A j \in DOMAIN c.ids : c.ids[j] = d.id => Alike(c.defs[j], d)
    BY <1>11, <2>1 DEF MappedOK, OfSpace, Alike
  <2> QED BY <1>6, <1>7, <1>10, <1>12, <2>6, <2>7
<1>13. CASE /\ d \notin c.read /\ ~ Valid(d.family, d.params)
            /\ Refuse("invalid") /\ UNCHANGED <<library, nextId>>
  <2>1. d.id \in DOMAIN Space /\ ~ Space[d.id].described BY <1>8, <1>13 DEF GeneratedOK
  <2>2. d \in ToSet(c.defs) BY <1>3, <1>6, <1>8, ComponentsOf DEF SubmittedOK
  <2>3. Cause("invalid", cand.defs, deletes') BY <1>1, <2>1, <2>2 DEF Cause
  <2>4. CandidatesAreFaithful' /\ cand' = NoCandidate BY <1>13, <2>3, RefusalsHaveCause
  <2> QED BY <1>5, <1>7, <1>13, <2>4 DEF SubmissionInv
<1>14. ASSUME Valid(d.family, d.params), NEW r \in equal,
              cand' = mapped(r.id) /\ UNCHANGED <<library, nextId, outcome>>
       PROVE  SubmissionInv'
  <2>1. r \in library /\ r.current /\ Alike(r, d) BY <1>4 DEF Alike
  <2>2. r.id \in Nat /\ r.id < nextId BY <1>7, <2>1 DEF LibraryOK
  <2>3. \A q \in library : q.id = r.id => Alike(q, d) BY <1>7, <2>1 DEF LibraryOK
  <2>4. r.id \in DOMAIN Space => Alike(d, Space[r.id]) /\ Space[r.id].described
    BY <1>7, <2>1 DEF LibraryOK, OfSpace, Alike
  <2>5. MappedOK(d, r.id, library, nextId, deletes) BY <1>14, <2>1, <2>2, <2>3, <2>4 DEF MappedOK
  <2>6. \A j \in DOMAIN c.ids : c.ids[j] = r.id => Alike(c.defs[j], d)
    BY <1>11, <2>1 DEF MappedOK, Alike
  <2> QED BY <1>6, <1>7, <1>10, <1>14, <2>5, <2>6
<1>15. CASE /\ Valid(d.family, d.params)
            /\ cand' = mapped(nextId) /\ nextId' = nextId + 1
            /\ library' = library \cup {LibraryRow(nextId, d.family, d.params, TRUE)}
            /\ UNCHANGED outcome
  <2>1. PICK entry : entry = LibraryRow(nextId, d.family, d.params, TRUE) OBVIOUS
  <2>2. entry.id = nextId /\ entry.current /\ Alike(entry, d) BY <2>1 DEF LibraryRow, Alike
  <2>3. library' = library \cup {entry} BY <1>15, <2>1
  <2>4. /\ LibraryOK(library', nextId', deletes)
        /\ SubmittedOK(c, library', nextId', deletes)
    <3>1. nextId' = nextId + 1 BY <1>15
    <3>2. /\ LibraryOK(library \cup {entry}, nextId + 1, deletes)
          /\ SubmittedOK(c, library \cup {entry}, nextId + 1, deletes)
      BY <1>6, <1>7, <2>2, RowAdded
    <3> QED BY <2>3, <3>1, <3>2
  <2>5. nextId \in Nat /\ nextId < nextId' /\ nextId \notin DOMAIN Space /\ \A q \in library : q.id # nextId
    <3>1. nextId \in Nat /\ nextId > Len(Space) BY <1>7 DEF LibraryOK
    <3> QED BY <1>7, <1>15, <3>1, SpaceIsOwned DEF LibraryOK
  <2>6. MappedOK(d, nextId, library', nextId', deletes)
    BY <1>15, <2>2, <2>3, <2>5 DEF MappedOK
  <2>7. \A j \in DOMAIN c.ids : c.ids[j] # nextId
    <3>1. ASSUME NEW j \in DOMAIN c.ids PROVE c.ids[j] # nextId
      <4>1. c.ids[j] \in Nat /\ c.ids[j] < nextId BY <1>11 DEF MappedOK
      <4> QED BY <2>5, <4>1
    <3> QED BY <3>1
  <2> QED BY <1>10, <1>15, <2>4, <2>6, <2>7
<1> QED BY <1>5, <1>12, <1>13, <1>14, <1>15

LEMMA ComposeStep == ASSUME SubmissionInv, DefineComposite PROVE SubmissionInv'
<1>1. /\ cand.stage = "compose" /\ UNCHANGED <<library, nextId, deletes>>
      /\ IF ToSet(cand.ids) \subseteq {r.id : r \in library}
         THEN cand' = [cand EXCEPT !.stage = "submit"] /\ UNCHANGED outcome
         ELSE Refuse("deleted")
  BY DEF DefineComposite
<1>2. SubmittedOK(cand, library, nextId, deletes) BY <1>1 DEF SubmissionInv, NoCandidate
<1>3. LibraryOK(library, nextId, deletes) BY DEF SubmissionInv
<1>4. CASE ToSet(cand.ids) \subseteq {r.id : r \in library}
  <2>1. PICK c : c = cand' OBVIOUS
  <2>2. /\ DOMAIN c = CandFields /\ c.stage = "submit" /\ c.kind = cand.kind /\ c.defs = cand.defs
        /\ c.read = cand.read /\ c.ids = cand.ids
    BY <1>1, <1>2, <1>4, <2>1 DEF SubmittedOK, CandFields
  <2>3. ~ Len(cand.ids) < Len(cand.defs) BY <1>1, <1>2 DEF SubmittedOK
  <2>4. SubmittedOK(c, library, nextId, deletes) BY <1>2, <2>2, <2>3 DEF SubmittedOK
  <2>5. CandidatesAreFaithful' BY <1>1, <1>3, <1>4, OutcomeStays DEF SubmissionInv, LibraryOK
  <2> QED BY <1>1, <1>3, <2>1, <2>4, <2>5 DEF SubmissionInv
<1>5. CASE ~ ToSet(cand.ids) \subseteq {r.id : r \in library}
  <2>1. PICK k \in DOMAIN cand.ids : \A r \in library : r.id # cand.ids[k] BY <1>5 DEF ToSet
  <2>2. deletes # 0 BY <1>2, <2>1 DEF SubmittedOK, MappedOK
  <2>3. deletes' > 0 BY <1>1, <1>3, <2>2 DEF LibraryOK
  <2>4. Refuse("deleted") BY <1>1, <1>5
  <2>5. Cause("deleted", cand.defs, deletes') BY <2>3 DEF Cause
  <2>6. CandidatesAreFaithful' /\ cand' = NoCandidate BY <2>4, <2>5, RefusalsHaveCause
  <2> QED BY <1>1, <1>3, <2>6 DEF SubmissionInv
<1> QED BY <1>4, <1>5

\* A sequence has as many items as members just when none comes twice.
LEMMA TwinsOf ==
  ASSUME NEW T, NEW s \in Seq(T)
  PROVE  Len(s) = Cardinality(ToSet(s)) <=> \A j, k \in DOMAIN s : s[j] = s[k] => j = k
<1>1. PICK n \in Nat : n = Len(s) /\ DOMAIN s = 1 .. n OBVIOUS
<1>2. PICK M : M = ToSet(s) OBVIOUS
<1>3. s \in [1 .. n -> M] /\ \A x \in M : \E k \in 1 .. n : s[k] = x
  <2>1. \A k \in 1 .. n : s[k] \in M BY <1>1, <1>2 DEF ToSet
  <2>2. s \in [1 .. n -> T] BY <1>1
  <2>3. s \in [1 .. n -> M] BY <2>1, <2>2
  <2> QED BY <1>1, <1>2, <2>3 DEF ToSet
<1>4. s \in Surjection(1 .. n, M) BY <1>3 DEF Surjection
<1>5. IsFiniteSet(1 .. n) /\ Cardinality(1 .. n) = n
  <2>1. IsFiniteSet(1 .. n) /\ Cardinality(1 .. n) = IF 1 > n THEN 0 ELSE n - 1 + 1 BY FS_Interval
  <2> QED BY <2>1
<1>6. Cardinality(M) = n <=> s \in Injection(1 .. n, M) BY <1>4, <1>5, FS_Surjection
<1>7. s \in Injection(1 .. n, M) <=> \A j, k \in 1 .. n : s[j] = s[k] => j = k
  BY <1>3 DEF Injection, IsInjective
<1> QED BY <1>1, <1>2, <1>6, <1>7

LEMMA SubmitStep == ASSUME SubmissionInv, SubmitCandidate PROVE SubmissionInv'
<1>1. cand.stage = "submit" /\ UNCHANGED <<library, nextId, deletes>> BY DEF SubmitCandidate
<1>2. SubmittedOK(cand, library, nextId, deletes) BY <1>1 DEF SubmissionInv, NoCandidate
<1>3. LibraryOK(library, nextId, deletes) BY DEF SubmissionInv
<1>4. PICK ids : ids = cand.ids OBVIOUS
<1>5. PICK defs : defs = cand.defs OBVIOUS
<1>6. DefsOK(defs) /\ (cand.kind = "DOMAIN_GUIDED" => RulesHold(defs)) BY <1>2, <1>5 DEF SubmittedOK
<1>7. PICK n \in Nat : n = Len(defs) /\ n <= MaxComponents /\ DOMAIN defs = 1 .. n
  <2>1. PICK m \in Nat : m = MaxComponents BY SearchIsLimited
  <2>2. Len(defs) \in 1 .. m /\ DOMAIN defs = 1 .. Len(defs) BY <1>6, <2>1 DEF DefsOK
  <2>3. Len(defs) \in Nat /\ Len(defs) <= m BY <2>2
  <2> QED BY <2>1, <2>2, <2>3
<1>8. ids \in Seq(Nat) /\ Len(ids) = n /\ DOMAIN ids = 1 .. n
  <2>0. /\ cand.ids \in Seq(Nat) /\ Len(cand.ids) <= Len(cand.defs)
        /\ ~ Len(cand.ids) < Len(cand.defs)
    BY <1>1, <1>2 DEF SubmittedOK
  <2>1. Len(ids) <= n /\ ~ Len(ids) < n /\ ids \in Seq(Nat) BY ONLY <1>4, <1>5, <1>7, <2>0
  <2>2. Len(ids) \in Nat /\ DOMAIN ids = 1 .. Len(ids) BY <2>1
  <2>3. PICK l \in Nat : l = Len(ids) BY <2>2
  <2>4. l = n BY ONLY <2>1, <2>3, <1>7
  <2> QED BY <2>1, <2>2, <2>3, <2>4
<1>9. /\ \A k \in 1 .. n : MappedOK(defs[k], ids[k], library, nextId, deletes) /\ defs[k] \in ToSet(defs)
      /\ \A j, k \in 1 .. n : ids[j] = ids[k] => Alike(defs[j], defs[k])
  BY <1>2, <1>4, <1>5, <1>7, <1>8 DEF SubmittedOK, ToSet
<1>10. PICK used : used = [k \in DOMAIN ids |-> RowOf(ids[k])] OBVIOUS
<1>11. \/ Len(ids) # Cardinality(ToSet(ids)) /\ Refuse("twins")
       \/ ~ ToSet(ids) \subseteq {r.id : r \in library} /\ Refuse("deleted")
       \/ /\ Len(ids) = Cardinality(ToSet(ids)) /\ ToSet(ids) \subseteq {r.id : r \in library}
          /\ \/ (\E r \in ToSet(used) : ~ r.current) /\ Refuse("replaced")
             \/ /\ \A r \in ToSet(used) : r.current
                /\ outcome' = [ok |-> TRUE, of |-> defs, kind |-> cand.kind, ran |-> used]
                /\ cand' = NoCandidate
             \/ /\ \A r \in ToSet(used) : r.current
                /\ \E r \in ToSet(used) : ~ Warmup[r.family] <= WarmupCapacity
                /\ Refuse("warmup")
  BY <1>4, <1>5, <1>10 DEF SubmitCandidate
<1>12. ASSUME NEW why, Refuse(why), Cause(why, defs, deletes) PROVE SubmissionInv'
  <2>1. CandidatesAreFaithful' /\ cand' = NoCandidate BY <1>1, <1>5, <1>12, RefusalsHaveCause
  <2> QED BY <1>1, <1>3, <2>1 DEF SubmissionInv
<1>13. CASE Len(ids) # Cardinality(ToSet(ids)) /\ Refuse("twins")
  <2>1. PICK j \in 1 .. n, k \in 1 .. n : ids[j] = ids[k] /\ j # k BY <1>8, <1>13, TwinsOf
  <2>2. Cause("twins", defs, deletes) BY <1>7, <1>9, <2>1 DEF Cause
  <2> QED BY <1>12, <1>13, <2>2
<1>14. CASE ~ ToSet(ids) \subseteq {r.id : r \in library} /\ Refuse("deleted")
  <2>1. PICK k \in 1 .. n : \A r \in library : r.id # ids[k] BY <1>8, <1>14 DEF ToSet
  <2>2. deletes # 0 BY <1>9, <2>1 DEF MappedOK
  <2>3. deletes > 0 BY <1>3, <2>2 DEF LibraryOK
  <2> QED BY <1>12, <1>14, <2>3 DEF Cause
<1>15. ASSUME ToSet(ids) \subseteq {r.id : r \in library}, NEW k \in 1 .. n
       PROVE  used[k] \in library /\ used[k].id = ids[k] /\ Alike(used[k], defs[k]) /\ used[k] \in ToSet(used)
  <2>1. PICK r \in library : r.id = ids[k] BY <1>8, <1>15 DEF ToSet
  <2>2. used[k] = RowOf(ids[k]) BY <1>8, <1>10
  <2>3. RowOf(ids[k]) \in library /\ RowOf(ids[k]).id = ids[k] BY <2>1 DEF RowOf
  <2>4. Alike(used[k], defs[k]) BY <1>9, <2>2, <2>3 DEF MappedOK
  <2>5. used[k] \in ToSet(used) BY <1>8, <1>10 DEF ToSet
  <2> QED BY <2>2, <2>3, <2>4, <2>5
<1>16. ASSUME NEW r \in ToSet(used) PROVE \E k \in 1 .. n : r = used[k]
  BY <1>8, <1>10 DEF ToSet
<1>17. ASSUME ToSet(ids) \subseteq {r.id : r \in library}, NEW r \in ToSet(used), ~ r.current,
              Refuse("replaced")
       PROVE  SubmissionInv'
  <2>1. PICK k \in 1 .. n : r = used[k] BY <1>16
  <2>2. r \in library /\ r.id = ids[k] BY <1>15, <1>17, <2>1
  <2>3. r.id \in DOMAIN Space /\ ~ Space[r.id].described BY <1>3, <1>17, <2>2 DEF LibraryOK, OfSpace
  <2>4. defs[k].id = r.id /\ Alike(defs[k], Space[r.id]) BY <1>9, <2>2, <2>3 DEF MappedOK
  <2>5. Cause("replaced", defs, deletes) BY <1>9, <2>3, <2>4 DEF Cause, Alike
  <2> QED BY <1>12, <1>17, <2>5
<1>18. ASSUME ToSet(ids) \subseteq {r.id : r \in library}, NEW r \in ToSet(used),
              ~ Warmup[r.family] <= WarmupCapacity, Refuse("warmup")
       PROVE  SubmissionInv'
  <2>1. PICK k \in 1 .. n : r = used[k] BY <1>16
  <2>2. Alike(r, defs[k]) BY <1>15, <1>18, <2>1
  <2>3. PICK d : d = defs[k] OBVIOUS
  <2>4. d \in ToSet(defs) /\ d.family = r.family BY <1>9, <2>2, <2>3 DEF Alike
  <2>5. GeneratedOK(d) BY <1>6, <1>7, <2>3 DEF DefsOK
  <2>6. Warmup[d.family] \in Nat /\ WarmupCapacity \in Nat
    BY <2>5, SpaceIsOwned, SearchIsLimited DEF GeneratedOK
  <2>7. ~ Warmup[d.family] <= WarmupCapacity BY <1>18, <2>4
  <2>8. Warmup[d.family] > WarmupCapacity BY <2>6, <2>7
  <2>9. Cause("warmup", defs, deletes) BY <2>4, <2>8 DEF Cause
  <2> QED BY <1>12, <1>18, <2>9
<1>19. ASSUME Len(ids) = Cardinality(ToSet(ids)), ToSet(ids) \subseteq {r.id : r \in library},
              \A r \in ToSet(used) : r.current,
              outcome' = [ok |-> TRUE, of |-> defs, kind |-> cand.kind, ran |-> used],
              cand' = NoCandidate
       PROVE  SubmissionInv'
  <2>1. outcome'.ok /\ outcome'.of = defs /\ outcome'.kind = cand.kind /\ outcome'.ran = used BY <1>19
  <2>2. \A k \in 1 .. n : /\ used[k] \in library /\ used[k].id = ids[k] /\ Alike(used[k], defs[k])
                          /\ used[k].current
    BY <1>15, <1>19
  <2>3. DOMAIN used = 1 .. n /\ Len(used) = n
    <3>1. used \in [1 .. n -> library] BY <1>8, <1>10, <2>2
    <3>2. used \in Seq(library) BY <1>7, <3>1
    <3> QED BY <1>7, <3>1, <3>2
  <2>4. \A j, k \in 1 .. n : ids[j] = ids[k] => j = k BY <1>8, <1>19, TwinsOf
  <2>5. RunsWhatWasGenerated'
    <3>1. \A j, k \in DOMAIN used : used[j].id = used[k].id => j = k BY <2>2, <2>3, <2>4
    <3>2. \A k \in DOMAIN defs : used[k].family = defs[k].family /\ used[k].params = defs[k].params
      BY <1>7, <2>2 DEF Alike
    <3>3. Len(used) = Len(defs) BY <1>7, <2>3
    <3> QED BY <2>1, <3>1, <3>2, <3>3 DEF RunsWhatWasGenerated
  <2>6. ObeysTheSpace'
    <3>1. ASSUME NEW k \in 1 .. n PROVE Valid(used[k].family, used[k].params)
      <4>1. MappedOK(defs[k], ids[k], library, nextId, deletes) BY <1>9
      <4>2. ids[k] \in DOMAIN Space => Space[ids[k]].described BY <1>3, <2>2 DEF LibraryOK, OfSpace
      <4>3. Valid(defs[k].family, defs[k].params) BY <4>1, <4>2 DEF MappedOK
      <4>4. used[k].family = defs[k].family /\ used[k].params = defs[k].params BY <2>2 DEF Alike
      <4> QED BY <4>3, <4>4
    <3>2. Len(defs) <= MaxComponents BY <1>7
    <3>3. \A k \in DOMAIN used : Valid(used[k].family, used[k].params) BY <2>3, <3>1
    <3> QED BY <1>6, <2>1, <3>2, <3>3 DEF ObeysTheSpace, RulesHold
  <2>7. RefusedForCause' BY <2>1 DEF RefusedForCause
  <2> QED BY <1>1, <1>3, <1>19, <2>5, <2>6, <2>7 DEF SubmissionInv, CandidatesAreFaithful
<1> QED BY <1>11, <1>13, <1>14, <1>17, <1>18, <1>19

LEMMA DeleteStep == ASSUME SubmissionInv, DeleteOwned PROVE SubmissionInv'
<1>1. PICK r \in library : library' = library \ {r} BY DEF DeleteOwned
<1>2. /\ deletes' = deletes + 1 /\ UNCHANGED <<cand, nextId, outcome>> BY DEF DeleteOwned
<1>3. LibraryOK(library, nextId, deletes) BY DEF SubmissionInv
<1>4. deletes \in Nat /\ deletes' \in Nat /\ deletes' # 0 /\ deletes' >= deletes
  BY <1>2, <1>3 DEF LibraryOK
<1>5. LibraryOK(library', nextId', deletes') BY <1>1, <1>2, <1>3, <1>4 DEF LibraryOK
<1>6. ASSUME NEW d, NEW id, MappedOK(d, id, library, nextId, deletes)
      PROVE  MappedOK(d, id, library', nextId', deletes')
  BY <1>1, <1>2, <1>4, <1>6 DEF MappedOK
<1>7. cand' = NoCandidate \/ SubmittedOK(cand', library', nextId', deletes')
  BY <1>2, <1>6 DEF SubmissionInv, SubmittedOK
<1>8. CandidatesAreFaithful' BY <1>2, <1>4, OutcomeStays DEF SubmissionInv
<1> QED BY <1>5, <1>7, <1>8 DEF SubmissionInv

\* Whatever is deleted or replaced while candidates are generated and submitted:
\* what a backtest accepts is what the generator made, legal and within the
\* rules of the run, and a candidate is refused for a cause only (fill, submit).
THEOREM CandidatesStayFaithful == CandidatesSpec => []CandidatesAreFaithful
<1>1. CandidatesInit => SubmissionInv BY SubmissionStarts
<1>2. SubmissionInv /\ [CandidatesNext]_candidateVars => SubmissionInv'
  <2> SUFFICES ASSUME SubmissionInv, [CandidatesNext]_candidateVars PROVE SubmissionInv' OBVIOUS
  <2>1. CASE UNCHANGED candidateVars
    <3>1. UNCHANGED <<library, cand, nextId, deletes, outcome>> BY <2>1 DEF candidateVars
    <3>2. deletes \in Nat /\ deletes' \in Nat /\ deletes' >= deletes
      BY <3>1 DEF SubmissionInv, LibraryOK
    <3>3. CandidatesAreFaithful' BY <3>1, <3>2, OutcomeStays DEF SubmissionInv
    <3> QED BY <3>1, <3>3 DEF SubmissionInv
  <2>2. CASE GenerateCandidate("RANDOM", RandomDraws) BY <2>2, DrawsAreGood, GenerateStep
  <2>3. CASE GenerateCandidate("DOMAIN_GUIDED", GuidedDraws) BY <2>3, DrawsAreGood, GenerateStep
  <2>4. CASE GenerateCandidate("GENETIC", GeneticDraws) BY <2>4, DrawsAreGood, GenerateStep
  <2> QED BY <2>1, <2>2, <2>3, <2>4, ReadStep, DefineStep, ComposeStep, SubmitStep, DeleteStep
        DEF CandidatesNext
<1>3. SubmissionInv => CandidatesAreFaithful BY DEF SubmissionInv
<1> QED BY <1>1, <1>2, <1>3, PTL DEF CandidatesSpec
=============================================================================
