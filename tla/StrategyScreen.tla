---------------------------- MODULE StrategyScreen ----------------------------
(***************************************************************************)
(* StrategyScreen of the frontend (strategy.tsx): the drafts of generated  *)
(* strategies and the list of ids to delete, each held twice, by the       *)
(* mounted screen and by localStorage, against requests that may answer    *)
(* after the user has gone on or has left the screen and returned.         *)
(* A setState of a screen that is gone has no effect, writing localStorage *)
(* has.  Generation stores its result in the backend: a draft hides it.    *)
(***************************************************************************)
EXTENDS Integers, FiniteSets

CONSTANTS
  Defs,       \* definitions and composites the backend may store
  Parts,      \* the components of each: none but for a composite
  MaxStored,  \* drafts localStorage holds, 20 in the code
  MaxDrafts,  \* bound: drafts generated
  MaxOpens,   \* bound: mounts of the screen
  MaxDeletes  \* bound: deletions of saved strategies

None == 0
ASSUME ScreenAssumption ==
  /\ Parts \in [Defs -> SUBSET Defs]
  /\ None \notin Defs /\ MaxStored \in Nat /\ MaxDrafts \in Nat /\ MaxOpens \in Nat /\ MaxDeletes \in Nat

VARIABLES
  rows,     \* what the backend stores
  used,     \* ids it has ever given
  store,    \* localStorage: drafts, the active draft, ids to delete
  screen,   \* state of the mounted screen
  calls,    \* requests under way, with what their handler has captured
  made,     \* drafts generated so far
  deletes,
  kept,     \* history: ids saved while their row was there and no request that
            \* deletes it was under way, and not asked to be deleted since
  removed,  \* history: drafts the user has removed
  foreign   \* history: a request of an earlier mount answered to this one

requestVars == <<calls, made, deletes>>
historyVars == <<kept, removed, foreign>>
screenVars == <<rows, used, store, screen, requestVars, historyVars>>

NoDraft == [id |-> None, def |-> None, saved |-> TRUE]
Content(d) == {d} \cup Parts[d]

ScreenInit ==
  /\ rows = {} /\ used = {} /\ calls = {} /\ made = 0 /\ deletes = 0
  /\ store = [drafts |-> {}, active |-> NoDraft, deleted |-> {}]
  /\ screen = [mount |-> 0, open |-> FALSE, drafts |-> {}, active |-> NoDraft,
               selected |-> None, deleted |-> {}]
  /\ kept = {} /\ removed = {} /\ foreign = FALSE

Ids(drafts) == {d.id : d \in drafts}

\* persistDrafts writes the newest drafts, the first of the list.
Crowded(i, drafts) == Cardinality({j \in Ids(drafts) : j > i}) >= MaxStored
Newest(drafts) == {d \in drafts : ~ Crowded(d.id, drafts)}

Unsaved == {d \in screen.drafts : ~ d.saved}
Hidden == UNION {Content(d.def) : d \in Unsaved}
Visible == (rows \ screen.deleted) \ Hidden

-----------------------------------------------------------------------------
(* Mount                                                                   *)

\* The screen reads localStorage and asks the backend to delete every id of
\* the list.
Open ==
  /\ ~ screen.open /\ screen.mount < MaxOpens
  /\ screen' = [mount |-> screen.mount + 1, open |-> TRUE, drafts |-> store.drafts,
                active |-> store.active, selected |-> None, deleted |-> store.deleted]
  /\ calls' = IF store.deleted = {} THEN calls
              ELSE calls \cup {[kind |-> "purge", mount |-> screen.mount + 1, ids |-> store.deleted]}
  /\ foreign' = FALSE
  /\ UNCHANGED <<rows, used, store, made, deletes, kept, removed>>

Leave ==
  /\ screen.open
  /\ screen' = [screen EXCEPT !.open = FALSE]
  /\ UNCHANGED <<rows, used, store, requestVars, historyVars>>

Pending(kind) == {c \in calls : c.kind = kind}
Mounted(c) == screen.open /\ c.mount = screen.mount
Answered(c) == calls' = calls \ {c} /\ foreign' = (foreign \/ ~ Mounted(c))

\* Each id is deleted or refused, and the whole list is forgotten.
FinishPurge == \E c \in Pending("purge") : \E gone \in SUBSET c.ids :
  /\ Answered(c) /\ rows' = rows \ gone
  /\ store' = [store EXCEPT !.deleted = {}]
  /\ screen' = IF Mounted(c) THEN [screen EXCEPT !.deleted = {}] ELSE screen
  /\ UNCHANGED <<used, made, deletes, kept, removed>>

-----------------------------------------------------------------------------
(* Generation                                                              *)

Generate ==
  /\ screen.open /\ made < MaxDrafts
  /\ ~ \E c \in Pending("generate") : Mounted(c)
  /\ calls' = calls \cup {[kind |-> "generate", mount |-> screen.mount, draft |-> made + 1]}
  /\ made' = made + 1
  /\ UNCHANGED <<rows, used, store, screen, deletes, historyVars>>

\* The backend answers equal contents with the row it has.
Storable == {d \in Defs : Content(d) \cap used \subseteq rows}

\* onSuccess runs in any case, but a screen that is gone keeps no drafts.
FinishGenerate == \E c \in Pending("generate"), d \in Storable :
  /\ Answered(c) /\ rows' = rows \cup Content(d) /\ used' = used \cup Content(d)
  /\ LET draft == [id |-> c.draft, def |-> d, saved |-> FALSE]
         drafts == screen.drafts \cup {draft}
     IN  IF Mounted(c)
         THEN /\ screen' = [screen EXCEPT !.drafts = drafts, !.active = draft, !.selected = c.draft]
              /\ store' = [store EXCEPT !.drafts = Newest(drafts), !.active = draft]
         ELSE /\ store' = [store EXCEPT !.active = draft]
              /\ UNCHANGED screen
  /\ UNCHANGED <<made, deletes, kept, removed>>

FailGenerate == \E c \in Pending("generate") :
  /\ Answered(c)
  /\ UNCHANGED <<rows, used, store, screen, made, deletes, kept, removed>>

-----------------------------------------------------------------------------
(* The user works on drafts                                                *)

\* A draft, or a saved strategy, is chosen; only clear forgets the stored
\* active draft.
Select ==
  /\ screen.open
  /\ \/ \E d \in Unsaved : screen' = [screen EXCEPT !.active = d, !.selected = d.id]
     \/ Visible # {} /\ screen' = [screen EXCEPT !.active = NoDraft, !.selected = None]
  /\ UNCHANGED <<rows, used, store, requestVars, historyVars>>
ClearActive ==
  /\ screen.open
  /\ screen' = [screen EXCEPT !.active = NoDraft, !.selected = None]
  /\ store' = [store EXCEPT !.active = NoDraft]
  /\ UNCHANGED <<rows, used, requestVars, historyVars>>

\* handleDeleteDraft puts the row behind the draft and its components on the
\* list of ids to delete.
DeleteDraft == \E d \in Unsaved :
  /\ screen.open
  /\ LET same == screen.active.id = d.id
     IN  /\ screen' = [screen EXCEPT !.drafts = @ \ {d}, !.deleted = @ \cup Content(d.def),
                         !.active = IF same THEN NoDraft ELSE @,
                         !.selected = IF @ = d.id THEN None ELSE @]
         /\ store' = [store EXCEPT !.drafts = Newest(screen.drafts \ {d}),
                        !.deleted = @ \cup Content(d.def), !.active = IF same THEN NoDraft ELSE @]
  /\ kept' = kept \ Content(d.def) /\ removed' = removed \cup {d.id}
  /\ UNCHANGED <<rows, used, requestVars, foreign>>

\* A batch of drafts alone waits for nothing and deletes no row.
BugDropDrafts == \E gone \in (SUBSET Unsaved) \ {{}} :
  /\ screen.open
  /\ LET left == {d \in screen.drafts : d.def \notin {g.def : g \in gone}}
         shown == screen.selected \in Ids(gone)
     IN  /\ screen' = [screen EXCEPT !.drafts = left, !.active = IF shown THEN NoDraft ELSE @,
                                     !.selected = IF shown THEN None ELSE @]
         /\ store' = [store EXCEPT !.drafts = Newest(left)]
  /\ removed' = removed \cup Ids(gone)
  /\ UNCHANGED <<rows, used, requestVars, kept, foreign>>
DropDrafts == \E gone \in (SUBSET Unsaved) \ {{}} :
  /\ screen.open
  /\ LET left == {d \in screen.drafts : d.id \notin Ids(gone)}
         shown == screen.selected \in Ids(gone)
     IN  /\ screen' = [screen EXCEPT !.drafts = left, !.active = IF shown THEN NoDraft ELSE @,
                                     !.selected = IF shown THEN None ELSE @]
         /\ store' = [store EXCEPT !.drafts = Newest(left)]
  /\ removed' = removed \cup Ids(gone)
  /\ UNCHANGED <<rows, used, requestVars, kept, foreign>>

Deleting == UNION {c.ids : c \in Pending("purge") \cup Pending("delete")}

\* handleSaveToDatabase of the active draft and handleQuickSaveDraft of any: the
\* row exists, so a save takes it, and its components, off the list.
BugUnlisted(d, deleted) == deleted \ {d.def}
Unlisted(d, deleted) == deleted \ Content(d.def)

Save == \E d \in Unsaved \cup {screen.active} :
  /\ screen.open /\ ~ d.saved
  /\ LET taken == [x \in screen.drafts |->
                     IF x.id = d.id \/ x.def = d.def THEN [x EXCEPT !.saved = TRUE] ELSE x]
         drafts == {taken[x] : x \in screen.drafts}
         same == screen.active.id = d.id
         active == [d EXCEPT !.saved = TRUE]
     IN  /\ screen' = [screen EXCEPT !.drafts = drafts, !.active = IF same THEN active ELSE @,
                                     !.deleted = store.deleted \ {d.def}]
         /\ store' = [drafts |-> Newest(drafts), active |-> IF same THEN active ELSE store.active,
                      deleted |-> Unlisted(d, store.deleted)]
  /\ kept' = kept \cup ((Content(d.def) \cap rows) \ Deleting)
  /\ UNCHANGED <<rows, used, requestVars, removed, foreign>>

\* handleUpdateCustomName of a draft or a saved strategy writes the drafts, and
\* the active one if it is that one's.
Renamed(ours) ==
  store' = [store EXCEPT !.drafts = Newest(screen.drafts),
              !.active = IF ours /\ screen.active # NoDraft THEN screen.active ELSE @]
Rename ==
  /\ screen.open
  /\ \/ \E d \in Unsaved : Renamed(screen.active.id = d.id)
     \/ \E v \in Visible : Renamed(screen.active.def = v)
  /\ UNCHANGED <<rows, used, screen, requestVars, historyVars>>

-----------------------------------------------------------------------------
(* Deleting saved strategies, one or a batch with drafts                   *)

StartDelete == \E ids \in (SUBSET Visible) \ {{}}, gone \in SUBSET Unsaved :
  /\ screen.open /\ deletes < MaxDeletes
  /\ calls' = calls \cup {[kind |-> "delete", mount |-> screen.mount, ids |-> ids, gone |-> Ids(gone),
                           drafts |-> screen.drafts, selected |-> screen.selected]}
  /\ deletes' = deletes + 1
  /\ kept' = kept \ ids
  /\ removed' = removed \cup Ids(gone) \cup Ids({d \in screen.drafts : d.def \in ids})
  /\ UNCHANGED <<rows, used, store, screen, made, foreign>>

\* A refusal is swallowed; the drafts are those captured at the click.
FinishDelete == \E c \in Pending("delete") : \E deleted \in SUBSET c.ids :
  /\ Answered(c) /\ rows' = rows \ deleted
  /\ LET left == {d \in c.drafts : d.id \notin c.gone /\ d.def \notin c.ids}
     IN  /\ store' = [store EXCEPT !.drafts = Newest(left), !.deleted = @ \cup c.ids]
         /\ screen' = IF ~ Mounted(c) THEN screen
                      ELSE [screen EXCEPT !.drafts = left, !.deleted = @ \cup c.ids,
                              !.active = IF c.selected \in c.gone THEN NoDraft ELSE @,
                              !.selected = IF c.selected \in c.gone THEN None ELSE @]
  /\ UNCHANGED <<used, made, deletes, kept, removed>>

ScreenNext ==
  \/ Open \/ Leave
  \/ Generate \/ Select \/ ClearActive \/ DeleteDraft \/ DropDrafts \/ Save \/ Rename
  \/ StartDelete
  \/ FinishPurge \/ FinishGenerate \/ FailGenerate \/ FinishDelete

-----------------------------------------------------------------------------
(* What the screen promises                                                *)

\* A saved strategy and its components survive until the user asks for their
\* deletion: no later mount and no later request deletes them, whatever was on
\* the list before they were saved.  A purge or a deletion that was already under
\* way when they were saved may still take them.
SavedSurvives == kept \subseteq rows

\* While no request of an earlier mount answers, localStorage holds the newest
\* drafts of the screen, and what a later mount will delete is not shown.
StorageIsTheScreen ==
  screen.open /\ ~ foreign =>
    store.drafts = Newest(screen.drafts) /\ store.deleted \cap Visible = {}

\* A draft leaves localStorage because the user removed it, because newer drafts
\* fill it, or because a deletion that was clicked before it was made writes the
\* drafts of that moment.  A removed one comes back only with such a deletion,
\* while it is still on the screen, or when a request of an earlier mount has
\* made the screen differ from localStorage.
DraftsChangeForACause ==
  [][LET finished == {c \in calls \ calls' : c.kind = "delete"}
     IN  /\ \A i \in Ids(store.drafts) \ Ids(store'.drafts) :
              \/ i \in removed' \/ foreign \/ Crowded(i, screen'.drafts)
              \/ \E c \in finished : i \notin Ids(c.drafts) \/ Crowded(i, c.drafts)
         /\ \A i \in removed \cap (Ids(store'.drafts) \ Ids(store.drafts)) :
              \/ foreign \/ i \in Ids(screen.drafts)
              \/ \E c \in finished : i \in Ids(c.drafts)]_screenVars

\* What localStorage holds is what the screen shows, and never costs a saved
\* strategy.
StorageIsTrue == SavedSurvives /\ StorageIsTheScreen
=============================================================================
