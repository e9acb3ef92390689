---------------------------- MODULE BacktestScreen ----------------------------
(***************************************************************************)
(* BacktestLive of the frontend (features.tsx): the form and the chosen    *)
(* scope preset, the run that may first create a scope, the polling of its *)
(* Candidate and the Experiment that is shown and kept in localStorage.    *)
(* Experiments carry the number of their Candidate; scopes and Candidates  *)
(* are numbered from 1 and 0 stands for none.                              *)
(***************************************************************************)
EXTENDS Integers, Sequences

CONSTANTS
  Params,     \* what a form and a scope may say: pair, timeframe, range, money
  MaxScopes,  \* bound: scopes created
  MaxRuns,    \* bound: Candidates submitted
  MaxMounts,   \* bound: mounts of the screen
  MaxEdits    \* bound: changes of the form

VARIABLES
  scopes,   \* the scopes of the backend: parameters, and whether deleted
  cands,    \* its Candidates: scope, status, and the form seen at the click
  ui,       \* state of the mounted screen
  latest,   \* cryptox_latest_backtest_experiment_id
  waiting,    \* handlers waiting for an answer
  edits,
  crossed,  \* history: the form changed while a run was creating its scope
  outdated  \* history: a deletion was answered to an earlier mount, or not at all

btVars == <<scopes, cands, ui, latest, waiting, edits, crossed, outdated>>

\* Without a scope the form shows the first pair and timeframe.
Default == CHOOSE p \in Params : TRUE
NoScreen(mount) == [mount |-> mount, open |-> FALSE, form |-> Default, scope |-> 0, cand |-> 0,
                    seen |-> "none", shown |-> 0]

BacktestInit ==
  /\ scopes = <<>> /\ cands = <<>> /\ latest = 0 /\ waiting = {} /\ edits = 0
  /\ ui = NoScreen(0)
  /\ crossed = FALSE /\ outdated = FALSE

Live == {s \in DOMAIN scopes : ~ scopes[s].deleted}
BugEnded == {"processing", "completed", "failed", "cancelled"}
Ended == {"completed", "failed", "cancelled"}

At(kind) == {c \in waiting : c.kind = kind}
Mine(c) == ui.open /\ c.mount = ui.mount
Busy == \E c \in waiting : Mine(c)                     \* isProcessing, or a modal
Creating == \E c \in At("create") : Mine(c)

-----------------------------------------------------------------------------
(* Mount and form                                                          *)

\* The first scope is loaded into the form; the Experiment is that of
\* localStorage.
OpenBacktest ==
  /\ ~ ui.open /\ ui.mount < MaxMounts
  /\ LET first == IF Live = {} THEN 0 ELSE CHOOSE s \in Live : \A t \in Live : s <= t
     IN  ui' = [NoScreen(ui.mount + 1) EXCEPT !.open = TRUE, !.shown = latest, !.scope = first,
                  !.form = IF first = 0 THEN @ ELSE scopes[first].params]
  /\ crossed' = FALSE
  /\ UNCHANGED <<scopes, cands, latest, waiting, edits, outdated>>

LeaveBacktest ==
  /\ ui.open
  /\ ui' = NoScreen(ui.mount)
  /\ crossed' = FALSE
  /\ UNCHANGED <<scopes, cands, latest, waiting, edits, outdated>>

Modal == \E c \in At("save") \cup At("delete") \cup At("deleted") : Mine(c)
Changes == ui.open /\ ~ Modal /\ edits < MaxEdits /\ edits' = edits + 1

\* Changing any field leaves the preset; nothing is locked while a run starts.
BugEdit == \E p \in Params \ {ui.form} :
  /\ Changes
  /\ ui' = [ui EXCEPT !.form = p]
  /\ crossed' = Creating
  /\ UNCHANGED <<scopes, cands, latest, waiting, outdated>>
Edit == \E p \in Params \ {ui.form} :
  /\ Changes
  /\ ui' = [ui EXCEPT !.form = p, !.scope = 0]
  /\ crossed' = Creating
  /\ UNCHANGED <<scopes, cands, latest, waiting, outdated>>

SelectScope == \E s \in Live \cup {0} :
  /\ Changes /\ s # ui.scope
  /\ ui' = [ui EXCEPT !.scope = s, !.form = IF s = 0 THEN @ ELSE scopes[s].params]
  /\ crossed' = Creating
  /\ UNCHANGED <<scopes, cands, latest, waiting, outdated>>

-----------------------------------------------------------------------------
(* handleRunBacktest and handleExecuteSaveScope                            *)

Call(kind, scope) ==
  [kind |-> kind, mount |-> ui.mount, scope |-> scope,
   form |-> IF kind = "delete" THEN Default ELSE ui.form,
   clean |-> kind = "submit" => ~ crossed]

Run ==
  /\ ui.open /\ ~ Busy
  /\ waiting' = waiting \cup {Call(IF ui.scope = 0 THEN "create" ELSE "submit", ui.scope)}
  /\ UNCHANGED <<scopes, cands, ui, latest, edits, crossed, outdated>>

SavePreset ==
  /\ ui.open /\ ~ Busy /\ Len(scopes) < MaxScopes
  /\ waiting' = waiting \cup {Call("save", 0)}
  /\ UNCHANGED <<scopes, cands, ui, latest, edits, crossed, outdated>>

\* The scope has the parameters captured at the click, and becomes the chosen
\* one whatever the form says now.
CreateScope == \E c \in At("create") \cup At("save") :
  /\ Len(scopes) < MaxScopes
  /\ scopes' = Append(scopes, [params |-> c.form, deleted |-> FALSE])
  /\ ui' = IF Mine(c) THEN [ui EXCEPT !.scope = Len(scopes) + 1] ELSE ui
  /\ waiting' = (waiting \ {c}) \cup
       (IF c.kind = "save" THEN {} ELSE {[c EXCEPT !.kind = "submit", !.scope = Len(scopes) + 1]})
  /\ UNCHANGED <<cands, latest, edits, crossed, outdated>>

Submit == \E c \in At("submit") :
  /\ c.scope \in Live /\ Len(cands) < MaxRuns
  /\ cands' = Append(cands, [scope |-> c.scope, status |-> "queued", form |-> c.form, clean |-> c.clean])
  /\ ui' = IF Mine(c) THEN [ui EXCEPT !.cand = Len(cands) + 1, !.seen = "none"] ELSE ui
  /\ waiting' = waiting \ {c}
  /\ UNCHANGED <<scopes, latest, edits, crossed, outdated>>

\* Any request may be refused; only a deletion may have been carried out.
Fails == \E c \in waiting :
  /\ waiting' = waiting \ {c}
  /\ outdated' = (outdated \/ c.kind = "deleted")
  /\ UNCHANGED <<scopes, cands, ui, latest, edits, crossed>>

-----------------------------------------------------------------------------
(* handleConfirmDeleteScope and handleClearGraph                           *)

DeletePreset ==
  /\ ui.open /\ ~ Busy /\ ui.scope \in Live
  /\ waiting' = waiting \cup {Call("delete", ui.scope)}
  /\ UNCHANGED <<scopes, cands, ui, latest, edits, crossed, outdated>>

\* The backend deletes the scope with its Candidates and Experiments.
DeleteScope == \E c \in At("delete") :
  /\ c.scope \in Live
  /\ scopes' = [scopes EXCEPT ![c.scope].deleted = TRUE]
  /\ cands' = [k \in DOMAIN cands |-> IF cands[k].scope = c.scope
                                      THEN [cands[k] EXCEPT !.status = "deleted"] ELSE cands[k]]
  /\ waiting' = (waiting \ {c}) \cup {[c EXCEPT !.kind = "deleted"]}
  /\ UNCHANGED <<ui, latest, edits, crossed, outdated>>

Cleared(screen) == [screen EXCEPT !.cand = 0, !.seen = "none", !.shown = 0]

FinishScopeDelete == \E c \in At("deleted") :
  /\ ui' = IF Mine(c) THEN [Cleared(ui) EXCEPT !.scope = 0] ELSE ui
  /\ latest' = 0
  /\ waiting' = waiting \ {c}
  /\ outdated' = (outdated \/ ~ Mine(c))
  /\ UNCHANGED <<scopes, cands, edits, crossed>>

ClearGraph ==
  /\ ui.open /\ ~ Modal /\ ui.cand + ui.shown > 0
  /\ ui' = Cleared(ui) /\ latest' = 0
  /\ UNCHANGED <<scopes, cands, waiting, edits, crossed, outdated>>

-----------------------------------------------------------------------------
(* The Candidate and its polling                                           *)

\* The pipeline moves the Candidate on.
Advance == \E k \in DOMAIN cands :
  /\ \/ cands[k].status = "queued" /\ cands' = [cands EXCEPT ![k].status = "processing"]
     \/ \E end \in {"completed", "failed"} :
          cands[k].status = "processing" /\ cands' = [cands EXCEPT ![k].status = end]
  /\ UNCHANGED <<scopes, ui, latest, waiting, edits, crossed, outdated>>

\* The button is there while the last status seen is not terminal.
Cancel ==
  /\ ui.open /\ ui.cand # 0 /\ ui.seen \notin Ended \cup {"none"}
  /\ cands[ui.cand].status \in {"queued", "processing"}
  /\ cands' = [cands EXCEPT ![ui.cand].status = "cancelled"]
  /\ UNCHANGED <<scopes, ui, latest, waiting, edits, crossed, outdated>>

\* An answer to the polling; a deleted Candidate is a 404 that leaves the last
\* status.  A completed one binds its Experiment.
Poll ==
  /\ ui.open /\ ui.cand # 0 /\ ui.seen \notin Ended
  /\ LET status == cands[ui.cand].status
     IN  /\ status # "deleted" /\ status # ui.seen
         /\ ui' = [ui EXCEPT !.seen = status, !.shown = IF status = "completed" THEN ui.cand ELSE @]
         /\ latest' = IF status = "completed" THEN ui.cand ELSE latest
  /\ UNCHANGED <<scopes, cands, waiting, edits, crossed, outdated>>

BacktestNext ==
  \/ OpenBacktest \/ LeaveBacktest \/ Edit \/ SelectScope
  \/ Run \/ SavePreset \/ CreateScope \/ Submit \/ Fails
  \/ DeletePreset \/ DeleteScope \/ FinishScopeDelete \/ ClearGraph
  \/ Advance \/ Cancel \/ Poll

-----------------------------------------------------------------------------
(* What the screen promises                                                *)

\* A run tests what the form shows when it is clicked, however presets are
\* chosen, edited, created and deleted in between; a form that was changed
\* while a scope was being created has lost this until it is changed again.
RunsWhatIsShown ==
  \A k \in DOMAIN cands : cands[k].clean => scopes[cands[k].scope].params = cands[k].form

\* The Experiment on the screen, and the one the next mount will show, exist:
\* unless the deletion of their scope is still to be answered, was answered to
\* an earlier mount, or was carried out and never answered.
ShownExists ==
  \/ outdated \/ At("deleted") # {}
  \/ \A k \in {ui.shown, latest} \ {0} : cands[k].status = "completed"

\* A completed Candidate is bound to the screen that started it, while it stays
\* there and its scope is not deleted.
BindsResult ==
  \A k \in 1 .. MaxRuns :
    (ui.open /\ ui.cand = k /\ cands[k].status = "completed")
      ~> (ui.shown = k \/ ui.cand # k \/ ~ ui.open \/ cands[k].status = "deleted")

\* What runs is what the form shows, and what is shown exists.
ScreenIsTrue == RunsWhatIsShown /\ ShownExists
=============================================================================
