----------------------------- MODULE SearchScreen -----------------------------
(***************************************************************************)
(* A Search Run on the screen of SearchLive (features.tsx): its cached     *)
(* status, which is polled until it is terminal or paused, and the start   *)
(* and control requests, whose answers the screen may meet with another    *)
(* run selected.  The cache is that of the query library: an entry is      *)
(* fetched when it is selected unless it is fresh, and when invalidated.   *)
(***************************************************************************)
EXTENDS Integers, FiniteSets

CONSTANTS
  Runs,         \* Search Runs of the user
  MaxControls,  \* bound: control requests
  MaxSwitches   \* bound: selections of a run, and mounts

NoRun == "none"
ASSUME RunsAssumption == NoRun \notin Runs /\ MaxControls \in Nat /\ MaxSwitches \in Nat

VARIABLES
  server,    \* state of each run in the backend
  cache,     \* its cached status, "none" before the first answer
  fresh,     \* runs whose cached status is younger than staleTime
  due,       \* runs whose status is being fetched
  page,      \* mounted, and the selected run, which localStorage keeps
  control,   \* the control request under way
  starting,  \* a start request is under way
  controls, switches,
  missed     \* history: runs changed by a request whose answer did not refresh them, or
             \* that failed while they were paused

searchVars == <<server, cache, fresh, due, page, control, starting, controls, switches, missed>>

NoControl == [run |-> NoRun, action |-> "none", stage |-> "none"]
Terminal == {"COMPLETED", "CANCELLED", "FAILED"}

SearchInit ==
  /\ server = [r \in Runs |-> "none"] /\ cache = [r \in Runs |-> "none"]
  /\ fresh = {} /\ due = {} /\ missed = {}
  /\ page = [open |-> FALSE, run |-> NoRun]
  /\ control = NoControl /\ starting = FALSE /\ controls = 0 /\ switches = 0

Shown == IF page.open THEN page.run ELSE NoRun

\* What showing a run fetches, once `old` is what the cache holds fresh.
Fetched(r, old) == due \cup ({r} \cap (Runs \ old))

-----------------------------------------------------------------------------
(* Mount and selection                                                     *)

OpenSearch ==
  /\ ~ page.open /\ switches < MaxSwitches /\ switches' = switches + 1
  /\ page' = [page EXCEPT !.open = TRUE]
  /\ due' = Fetched(page.run, fresh)
  /\ UNCHANGED <<server, cache, fresh, control, starting, controls, missed>>

LeaveSearch ==
  /\ page.open
  /\ page' = [page EXCEPT !.open = FALSE]
  /\ UNCHANGED <<server, cache, fresh, due, control, starting, controls, switches, missed>>

\* handleSelectRun and clearRun.
SelectRun == \E r \in {x \in Runs : server[x] # "none"} \cup {NoRun} :
  /\ page.open /\ r # page.run /\ switches < MaxSwitches /\ switches' = switches + 1
  /\ page' = [page EXCEPT !.run = r]
  /\ due' = Fetched(r, fresh)
  /\ UNCHANGED <<server, cache, fresh, control, starting, controls, missed>>

-----------------------------------------------------------------------------
(* The status query                                                        *)

\* refetchInterval: nothing is polled once it is terminal, or paused.
Polled(status) == status \notin Terminal \cup {"PAUSED"}

Timer ==
  /\ Shown # NoRun /\ Shown \notin due /\ Polled(cache[Shown])
  /\ due' = due \cup {Shown}
  /\ UNCHANGED <<server, cache, fresh, page, control, starting, controls, switches, missed>>

Answer == \E r \in due :
  /\ cache' = [cache EXCEPT ![r] = server[r]]
  /\ fresh' = fresh \cup {r} /\ due' = due \ {r} /\ missed' = missed \ {r}
  /\ UNCHANGED <<server, page, control, starting, controls, switches>>

\* staleTime passes; a status that is on the screen is not fetched for it.
Age == \E r \in fresh :
  /\ fresh' = fresh \ {r}
  /\ UNCHANGED <<server, cache, due, page, control, starting, controls, switches, missed>>

-----------------------------------------------------------------------------
(* Start and control                                                       *)

Start ==
  /\ page.open /\ page.run = NoRun /\ ~ starting
  /\ \E r \in Runs : server[r] = "none"
  /\ starting' = TRUE
  /\ UNCHANGED <<server, cache, fresh, due, page, control, controls, switches, missed>>

\* onSuccess selects the new run, whatever has been selected since.
Started ==
  /\ starting /\ starting' = FALSE
  /\ \/ \E r \in Runs :
          /\ server[r] = "none" /\ server' = [server EXCEPT ![r] = "RUNNING"]
          /\ page' = [page EXCEPT !.run = r]
          /\ due' = IF page.open THEN due \cup {r} ELSE due
     \/ UNCHANGED <<server, page, due>>
  /\ UNCHANGED <<cache, fresh, control, controls, switches, missed>>

\* The buttons follow the cached status and wait for the previous request.
Offered(status) ==
  CASE status = "RUNNING" -> {"pause", "cancel"} [] status = "PAUSED" -> {"resume", "cancel"} [] OTHER -> {}

Control == \E action \in IF Shown = NoRun THEN {} ELSE Offered(cache[Shown]) :
  /\ control = NoControl /\ controls < MaxControls /\ controls' = controls + 1
  /\ control' = [run |-> Shown, action |-> action, stage |-> "sent"]
  /\ UNCHANGED <<server, cache, fresh, due, page, starting, switches, missed>>

\* The backend pauses what runs, resumes what is paused, and cancels also a run
\* that has completed.  In another state a request does nothing and succeeds, but
\* resuming a failed run is refused.
After(action) == CASE action = "pause" -> "PAUSED" [] action = "resume" -> "RUNNING" [] OTHER -> "CANCELLED"
Acts(action, status) ==
  CASE action = "pause" -> status = "RUNNING"
    [] action = "resume" -> status = "PAUSED"
    [] OTHER -> status \notin {"CANCELLED", "FAILED"}
Stage(action, status) ==
  CASE Acts(action, status) -> "done"
    [] action = "resume" /\ status = "FAILED" -> "refused"
    [] OTHER -> "ignored"
Apply ==
  /\ control.stage = "sent"
  /\ LET stage == Stage(control.action, server[control.run])
     IN  /\ server' = IF stage = "done" THEN [server EXCEPT ![control.run] = After(control.action)] ELSE server
         /\ control' = [control EXCEPT !.stage = stage]
  /\ UNCHANGED <<cache, fresh, due, page, starting, controls, switches, missed>>

\* onSuccess invalidates the status of the run that is selected now; after an
\* error, or an answer that is lost, nothing is invalidated.
BugInvalidated(success) == {}
Invalidated(success) == IF success THEN {page.run} \ {NoRun} ELSE {}

Controlled ==
  /\ control.stage \in {"done", "ignored", "refused"}
  /\ \E success \in {control.stage # "refused", FALSE} :
       /\ fresh' = fresh \ Invalidated(success)
       /\ due' = due \cup (Invalidated(success) \cap {Shown})
       /\ missed' = missed \cup
            (IF control.stage = "done" /\ ~ (success /\ page.run = control.run /\ page.open)
             THEN {control.run} ELSE {})
  /\ control' = NoControl
  /\ UNCHANGED <<server, cache, page, starting, controls, switches>>

\* The loop of a run reaches its stop condition, or a fill fails, which ends a
\* run that has been paused meanwhile too.
RunEnds == \E r \in Runs :
  /\ \/ server[r] = "RUNNING" /\ server' = [server EXCEPT ![r] = "COMPLETED"]
     \/ server[r] \in {"RUNNING", "PAUSED"} /\ server' = [server EXCEPT ![r] = "FAILED"]
  /\ missed' = IF server[r] = "PAUSED" THEN missed \cup {r} ELSE missed
  /\ UNCHANGED <<cache, fresh, due, page, control, starting, controls, switches>>

SearchNext ==
  \/ OpenSearch \/ LeaveSearch \/ SelectRun \/ Timer \/ Answer \/ Age
  \/ Start \/ Started \/ Control \/ Apply \/ Controlled \/ RunEnds

-----------------------------------------------------------------------------
(* What the screen promises                                                *)

SearchTypeOK ==
  /\ server \in [Runs -> {"none", "RUNNING", "PAUSED"} \cup Terminal]
  /\ cache \in [Runs -> {"none", "RUNNING", "PAUSED"} \cup Terminal]
  /\ fresh \cup due \cup missed \subseteq Runs
  /\ page \in [open : BOOLEAN, run : Runs \cup {NoRun}]
  /\ control.run = NoRun <=> control.stage = "none"
  /\ \A r \in Runs : server[r] = "none" => cache[r] = "none" /\ r # page.run

\* The status on the screen follows the backend although the polling stops:
\* from some time on they are equal, unless the answer to a request that
\* changed the run was lost or met another selection, or the run failed while it
\* was paused.
StatusIsFollowed ==
  \A r \in Runs : <>[](Shown = r /\ r \notin missed => cache[r] = server[r])
=============================================================================
