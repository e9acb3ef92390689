---------------------------- MODULE StrategyTable ----------------------------
(***************************************************************************)
(* The table of saved strategies and drafts (strategy.tsx): tabs, search,  *)
(* pages, ticks that outlive all of them, and the two modals that confirm  *)
(* a deletion.  Rows are numbered by age and change under the table when   *)
(* the screen around it saves, generates, deletes or refetches.            *)
(***************************************************************************)
EXTENDS Integers, FiniteSets

CONSTANTS
  Rows,       \* rows there may be, a newer one has a larger number
  Tab,        \* tab of each row besides "all": drafts, composite or source
  Queries,    \* sets of rows a search text matches; Rows is the empty text
  PageSizes   \* rows shown on a page

ASSUME TableAssumption ==
  Rows \subseteq Nat /\ IsFiniteSet(Rows) /\ PageSizes \subseteq Nat \ {0} /\ PageSizes # {}

VARIABLES
  table,  \* rows, tab, query, size, page, ticked, modal and the rows it lists
  sent,   \* rows whose deletion was requested and is not finished
  shown   \* history: rows that were on display, or counted by the button that
          \* ticks all filtered rows when it was pressed

tableVars == <<table, sent, shown>>

-----------------------------------------------------------------------------
(* What is on display                                                      *)

Filtered(t) == {r \in t.rows \cap t.query : t.tab \in {"all", Tab[r]}}
TotalPages(t) == LET n == Cardinality(Filtered(t))
                 IN  IF n = 0 THEN 1 ELSE (n + t.size - 1) \div t.size
BugCurrentPage(t) == t.page
CurrentPage(t) == IF t.page < TotalPages(t) THEN t.page ELSE TotalPages(t)
Place(t, r) == Cardinality({s \in Filtered(t) : s >= r})
Displayed(t) == {r \in Filtered(t) :
  (CurrentPage(t) - 1) * t.size < Place(t, r) /\ Place(t, r) <= CurrentPage(t) * t.size}

\* Numbers of the page buttons; the others are behind an ellipsis.
Buttons(current, total) ==
  IF total <= 7 THEN 1 .. total
  ELSE IF current <= 4 THEN 1 .. 5 \cup {total}
  ELSE IF current >= total - 3 THEN {1} \cup (total - 4) .. total
  ELSE {1, total} \cup (current - 1) .. (current + 1)

TableInit ==
  /\ table = [ rows |-> Rows, tab |-> "all", query |-> Rows,
               size |-> CHOOSE n \in PageSizes : \A m \in PageSizes : n <= m,
               page |-> 1, ticked |-> {}, modal |-> "none", listed |-> {} ]
  /\ sent = {}
  /\ shown = Displayed(table)

\* An overlay covers the table while a modal is open.
Uncovered == table.modal = "none"
Show(t) == table' = t /\ shown' = shown \cup Displayed(t)

-----------------------------------------------------------------------------
(* Filters and pages                                                       *)

SetTab == \E tab \in {"all", "source", "composite", "drafts"} :
  /\ Uncovered
  /\ tab = "drafts" => \E r \in table.rows : Tab[r] = "drafts"
  /\ Show([table EXCEPT !.tab = tab, !.page = 1]) /\ UNCHANGED sent
SetQuery == \E q \in Queries :
  Uncovered /\ Show([table EXCEPT !.query = q, !.page = 1]) /\ UNCHANGED sent
SetSize == \E n \in PageSizes :
  /\ Uncovered /\ Filtered(table) # {}
  /\ Show([table EXCEPT !.size = n, !.page = 1]) /\ UNCHANGED sent

\* Previous steps from the page asked for, which may be beyond the last one:
\* after rows went away the first presses may show the same page again.
PreviousPage ==
  /\ Uncovered /\ CurrentPage(table) > 1
  /\ Show([table EXCEPT !.page = @ - 1]) /\ UNCHANGED sent
NextPage ==
  /\ Uncovered /\ CurrentPage(table) < TotalPages(table)
  /\ Show([table EXCEPT !.page = @ + 1]) /\ UNCHANGED sent
GoToPage == \E n \in Buttons(CurrentPage(table), TotalPages(table)) :
  /\ Uncovered /\ Filtered(table) # {}
  /\ Show([table EXCEPT !.page = n]) /\ UNCHANGED sent

-----------------------------------------------------------------------------
(* Ticks                                                                   *)

Tick == \E r \in Displayed(table) :
  /\ Uncovered
  /\ Show([table EXCEPT !.ticked = IF r \in @ THEN @ \ {r} ELSE @ \cup {r}]) /\ UNCHANGED sent
TickDisplayed ==
  /\ Uncovered /\ Displayed(table) # {}
  /\ Show([table EXCEPT !.ticked = IF Displayed(table) \subseteq @ THEN @ \ Displayed(table)
                                   ELSE @ \cup Displayed(table)])
  /\ UNCHANGED sent

\* The ticks become the filtered rows: those outside the filter are dropped.
Swept(t) == Filtered(t)
TickFiltered ==
  /\ Uncovered
  /\ table.ticked # {} /\ Cardinality(table.ticked) < Cardinality(Filtered(table))
  /\ table' = [table EXCEPT !.ticked = Swept(table)]
  /\ shown' = shown \cup Filtered(table)
  /\ UNCHANGED sent
ClearTicks ==
  /\ Uncovered /\ table.ticked # {}
  /\ Show([table EXCEPT !.ticked = {}]) /\ UNCHANGED sent

-----------------------------------------------------------------------------
(* Deletion                                                                *)

AskDelete == \E r \in Displayed(table) :
  /\ Uncovered
  /\ Show([table EXCEPT !.modal = "one", !.listed = {r}]) /\ UNCHANGED sent
AskBatch ==
  /\ Uncovered /\ table.ticked # {}
  /\ Show([table EXCEPT !.modal = "batch", !.listed = table.rows \cap table.ticked])
  /\ UNCHANGED sent
CloseModal ==
  /\ ~ Uncovered
  /\ Show([table EXCEPT !.modal = "none", !.listed = {}]) /\ UNCHANGED sent

\* The tick of a row deleted alone stays, also when the row comes back.
Confirm ==
  /\ ~ Uncovered
  /\ sent' = sent \cup table.listed
  /\ Show([table EXCEPT !.modal = "none", !.listed = {},
                        !.ticked = IF table.modal = "batch" THEN {} ELSE @])

\* The screen hides the rows whether or not the backend deleted them.
FinishDeletes ==
  /\ sent # {} /\ sent' = {}
  /\ Show([table EXCEPT !.rows = @ \ sent])
Refresh == \E r \in Rows :
  Show([table EXCEPT !.rows = IF r \in @ THEN @ \ {r} ELSE @ \cup {r}]) /\ UNCHANGED sent

TableNext ==
  \/ SetTab \/ SetQuery \/ SetSize \/ PreviousPage \/ NextPage \/ GoToPage
  \/ Tick \/ TickDisplayed \/ TickFiltered \/ ClearTicks
  \/ AskDelete \/ AskBatch \/ CloseModal \/ Confirm \/ FinishDeletes \/ Refresh

-----------------------------------------------------------------------------
(* What the table promises                                                 *)

\* As long as a row passes the filters the page shows one, and the buttons
\* lead to this page and to the next ones, however the rows changed since the
\* page was chosen.
PageShowsRows ==
  /\ Filtered(table) # {} => Displayed(table) # {}
  /\ LET here == CurrentPage(table)  last == TotalPages(table)
     IN  {1, here, last} \cup ((here - 1) .. (here + 1) \cap 1 .. last)
           \subseteq Buttons(here, last)

\* The footer of a long table never hides the pages next to the one it shows.
ButtonsAreSound ==
  \A last \in 1 .. 12 : \A here \in 1 .. last :
    /\ Buttons(here, last) \subseteq 1 .. last
    /\ {1, here, last} \cup ((here - 1) .. (here + 1) \cap 1 .. last) \subseteq Buttons(here, last)

\* A row is deleted only if it was on display or among the filtered rows the
\* user ticked: tabs, searches and pages never let one slip in.
NoUnseenDeletion == sent \cup table.listed \subseteq shown

TableIsTrue == PageShowsRows /\ ButtonsAreSound /\ NoUnseenDeletion
=============================================================================
