------------------------------ MODULE MCSearchRun ------------------------------
(***************************************************************************)
(* Instance for TLC of what must go on by itself: the loop of a Search Run *)
(* in the backend, and the polling of the screen that shows runs.  The two *)
(* share no state here; a behaviour is one of them.                        *)
(***************************************************************************)
EXTENDS SearchProperties, SearchScreen

VARIABLE part  \* the one that runs

liveVars == <<vars, searchVars, part>>

LiveInit ==
  /\ part \in {"run", "screen"}
  /\ Init /\ SearchInit

LiveNext ==
  \/ part = "run" /\ Next /\ UNCHANGED <<searchVars, part>>
  \/ part = "screen" /\ SearchNext /\ UNCHANGED <<vars, part>>

Of(p) == part = p

\* The fairness of the loop; on the screen, timers of a mounted query fire and
\* the requests it makes are answered, and a control request is carried out and
\* its answer, or its failure, arrives.
LiveSpec ==
  /\ LiveInit /\ [][LiveNext]_liveVars
  /\ \A f \in Fillers : /\ SF_vars(Of("run") /\ FillBegin(f))
                        /\ WF_vars(Of("run") /\ FillStep(f))
                        /\ SF_vars(Of("run") /\ CatchWrite(f))
  /\ \A u \in Users : WF_vars(Of("run") /\ CancelCommit(u))
  /\ \A k \in Iterations : WF_vars(Of("run") /\ Progress(k))
  /\ WF_searchVars(Of("screen") /\ Timer) /\ WF_searchVars(Of("screen") /\ Answer)
  /\ WF_searchVars(Of("screen") /\ (Apply \/ Controlled))

\* A run with a candidate budget does not stay RUNNING for ever, unless one of
\* its Candidates is in a dead end (fillAvailableSlots).
LoopEnds == Of("run") => RunningRunEnds
=============================================================================
