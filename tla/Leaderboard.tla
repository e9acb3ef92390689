----------------------------- MODULE Leaderboard -----------------------------
(***************************************************************************)
(* The Top-K of one leaderboard scope: submit of the leaderboard service,  *)
(* called inside the database transaction of a completion, against the     *)
(* transactions of other completions and the deletions of Experiments.     *)
(* Transactions are READ COMMITTED and submit takes no lock on the board.  *)
(***************************************************************************)
EXTENDS Integers, FiniteSets

CONSTANTS
  Experiments,   \* Experiments of the scope that reach a completion
  Txs,           \* completions that may run at a time
  K,             \* TOP_K
  Score,         \* overallScore of each Experiment
  Ineligible,    \* Experiments that are not rankEligible, or of no Search Run
  MaxRollbacks,  \* bound: completions that are rolled back
  MaxDeletions   \* bound: Experiments deleted one by one

None == 0      \* no time, and no Experiment

ASSUME BoardAssumption ==
  /\ IsFiniteSet(Experiments) /\ None \notin Experiments
  /\ K \in Nat \ {0} /\ MaxRollbacks \in Nat
  /\ Score \in [Experiments -> Int] /\ Ineligible \subseteq Experiments

VARIABLES
  result,    \* of each Experiment: "none", "stored", "leaving" or "deleted"
  entry,     \* its committed leaderboard_entries row: "none", "active", "inactive"
  added,     \* addedAt of that row
  tx,        \* the completion transactions
  clock,     \* the clock of the backend
  rollbacks

boardVars == <<result, entry, added, tx, clock, rollbacks>>

NoTx == [pc |-> "idle", exp |-> None, victim |-> None, at |-> None]

BoardInit ==
  /\ result = [e \in Experiments |-> "none"]
  /\ entry = [e \in Experiments |-> "none"]
  /\ added = [e \in Experiments |-> None]
  /\ tx = [t \in Txs |-> NoTx]
  /\ clock = 1 /\ rollbacks = 0

-----------------------------------------------------------------------------
(* Order and rank                                                          *)

Active == {e \in Experiments : entry[e] = "active"}

\* rankEntries: by score, then by time of admission.
Before(x, y) == Score[x] > Score[y] \/ (Score[x] = Score[y] /\ added[x] < added[y])

\* getActiveTopK with the LIMIT of the service.
TopOf(rows) == {y \in rows : Cardinality({x \in rows : Before(x, y)}) < K}
Lowest(rows) == CHOOSE y \in rows : \A x \in rows \ {y} : Before(x, y)

-----------------------------------------------------------------------------
(* submit                                                                  *)

\* The completion has inserted its Experiment, which has no entry yet; one
\* that is not eligible goes on to the commit.
Begin(t) == \E e \in Experiments :
  /\ tx[t].pc = "idle" /\ result[e] = "none"
  /\ \A u \in Txs : tx[u].exp # e
  /\ tx' = [tx EXCEPT ![t] = [NoTx EXCEPT !.exp = e,
                                !.pc = IF e \in Ineligible THEN "commit" ELSE "read"]]
  /\ UNCHANGED <<result, entry, added, clock, rollbacks>>

\* getActiveTopK sees what is committed: a full board rejects a score that is
\* not above its lowest, or gives that one up.
BugDecide(e, top) ==
  IF Cardinality(top) < K THEN [pc |-> "insert", victim |-> None]
  ELSE IF Score[e] < Score[Lowest(top)] THEN [pc |-> "commit", victim |-> None]
  ELSE [pc |-> "deactivate", victim |-> Lowest(top)]
BugStop(e, top) ==
  IF Cardinality(top) < K THEN [pc |-> "insert", victim |-> None]
  ELSE [pc |-> "commit", victim |-> None]
Decide(e, top) ==
  IF Cardinality(top) < K THEN [pc |-> "insert", victim |-> None]
  ELSE IF Score[e] <= Score[Lowest(top)] THEN [pc |-> "commit", victim |-> None]
  ELSE [pc |-> "deactivate", victim |-> Lowest(top)]

ReadBoard(t) ==
  /\ tx[t].pc = "read"
  /\ LET next == Decide(tx[t].exp, TopOf(Active))
     IN  tx' = [tx EXCEPT ![t].pc = next.pc, ![t].victim = next.victim]
  /\ UNCHANGED <<result, entry, added, clock, rollbacks>>

\* The transaction that holds the lock on the row of an Experiment.
Locked(e) == \E u \in Txs : tx[u].pc \in {"insert", "commit"} /\ tx[u].victim = e

\* The UPDATE of the lowest waits for a transaction that updated that row, and
\* hits no row when it has been deleted meanwhile.
Deactivate(t) ==
  /\ tx[t].pc = "deactivate" /\ ~ Locked(tx[t].victim)
  /\ tx' = [tx EXCEPT ![t].pc = "insert"]
  /\ UNCHANGED <<result, entry, added, clock, rollbacks>>

InsertEntry(t) ==
  /\ tx[t].pc = "insert"
  /\ tx' = [tx EXCEPT ![t].pc = "commit", ![t].at = clock]
  /\ clock' = clock + 1
  /\ UNCHANGED <<result, entry, added, rollbacks>>

Commit(t) ==
  /\ tx[t].pc = "commit"
  /\ LET e == tx[t].exp
         admitted == tx[t].at # None
     IN  /\ result' = [result EXCEPT ![e] = "stored"]
         /\ entry' = [x \in Experiments |->
              IF x = e /\ admitted THEN "active"
              ELSE IF x = tx[t].victim /\ entry[x] = "active" THEN "inactive" ELSE entry[x]]
         /\ added' = [added EXCEPT ![e] = tx[t].at]
  /\ tx' = [tx EXCEPT ![t] = NoTx]
  /\ UNCHANGED <<clock, rollbacks>>

\* A later statement of the completion fails, or the process dies; the
\* completion is processed again.
Rollback(t) ==
  /\ tx[t].pc # "idle" /\ rollbacks < MaxRollbacks
  /\ tx' = [tx EXCEPT ![t] = NoTx]
  /\ rollbacks' = rollbacks + 1
  /\ UNCHANGED <<result, entry, added, clock>>

\* Deleting a strategy commits the DELETE of the entry, which waits for the
\* lock on its row, before the DELETE of the Experiment, and may stop between.
RemoveEntry == \E e \in Experiments :
  /\ result[e] = "stored" /\ ~ Locked(e)
  /\ Cardinality({x \in Experiments : result[x] \in {"leaving", "deleted"}}) < MaxDeletions
  /\ result' = [result EXCEPT ![e] = "leaving"]
  /\ entry' = [entry EXCEPT ![e] = "none"]
  /\ UNCHANGED <<added, tx, clock, rollbacks>>

RemoveExperiment == \E e \in Experiments :
  /\ result[e] = "leaving"
  /\ result' = [result EXCEPT ![e] = "deleted"]
  /\ UNCHANGED <<entry, added, tx, clock, rollbacks>>

\* Deleting a scope is one transaction, and takes the Candidates with it, so that
\* nothing completes afterwards.  A completion under way holds a row that refers
\* to them: the deletion waits for it and then fails, or follows its rollback.
DeleteOfScope ==
  /\ \A t \in Txs : tx[t].pc = "idle"
  /\ result' = [e \in Experiments |-> "deleted"]
  /\ entry' = [e \in Experiments |-> "none"]
  /\ UNCHANGED <<added, tx, clock, rollbacks>>

BoardNext ==
  \/ \E t \in Txs :
       \/ Begin(t) \/ ReadBoard(t) \/ Deactivate(t)
       \/ InsertEntry(t) \/ Commit(t) \/ Rollback(t)
  \/ RemoveEntry \/ RemoveExperiment \/ DeleteOfScope

BoardSpec == BoardInit /\ [][BoardNext]_boardVars

-----------------------------------------------------------------------------
(* What the board promises                                                 *)

BoardTypeOK ==
  /\ result \in [Experiments -> {"none", "stored", "leaving", "deleted"}]
  /\ entry \in [Experiments -> {"none", "active", "inactive"}]
  /\ added \in [Experiments -> Nat] /\ clock \in Nat \ {0} /\ rollbacks \in 0 .. MaxRollbacks
  /\ tx \in [Txs -> [pc : {"idle", "read", "deactivate", "insert", "commit"},
                     exp : Experiments \cup {None}, victim : Experiments \cup {None}, at : Nat]]
  /\ \A e \in Experiments : entry[e] # "none" => result[e] = "stored" /\ e \notin Ineligible

Shown == TopOf(Active)
Eligible == {e \in Experiments : result[e] = "stored" /\ e \notin Ineligible}
EverAdmitted == {e \in Experiments : added[e] # None}

\* Whoever is not shown has lost to K Experiments: each was admitted, and has
\* a better score or the same one earlier, however completions interleave.  An
\* Experiment whose deletion has begun is not claimed to be on the board: its
\* entry goes first, and a deletion that stops half way leaves it off for good.
AbsentHasLost ==
  \A e \in Eligible \ Shown :
    Cardinality({x \in EverAdmitted \ {e} :
      Score[x] > Score[e]
      \/ (Score[x] = Score[e] /\ (e \notin EverAdmitted \/ added[x] < added[e]))}) >= K

\* Until a first deletion begins the board is as full as its Experiments allow:
\* no eviction and no rejection leaves a place empty.
BoardStaysFull ==
  (\A e \in Experiments : result[e] \in {"none", "stored"}) =>
    Cardinality(Shown) = IF Cardinality(Eligible) < K THEN Cardinality(Eligible) ELSE K

\* An Experiment leaves the board by its deletion or for a strictly better
\* one that is admitted in the same commit, and an evicted one never returns.
LeavesForBetter ==
  [][\A y \in Experiments :
       /\ entry[y] = "active" /\ entry'[y] = "inactive" =>
            \E x \in Experiments : /\ entry[x] = "none" /\ entry'[x] = "active"
                                   /\ Score[x] > Score[y]
       /\ entry[y] = "inactive" => entry'[y] # "active"]_boardVars

\* The board is the best K, whichever submissions cross on the same reads.
BoardIsTheBest == BoardTypeOK /\ AbsentHasLost /\ BoardStaysFull
=============================================================================
