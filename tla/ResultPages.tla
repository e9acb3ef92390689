----------------------------- MODULE ResultPages -----------------------------
(***************************************************************************)
(* How the browser pages through the trades of an Experiment: the backtest *)
(* screen (BacktestLive) fetches them all in batches and slices them, the  *)
(* page of one Experiment (ExperimentDetail) keeps a stack of cursors.     *)
(* The trades of an Experiment never change and are numbered in the order  *)
(* of the backend; a cursor is the last trade it returned, 0 for none.     *)
(***************************************************************************)
EXTENDS Integers, Sequences, FiniteSets

CONSTANTS
  Trades,      \* number of trades of each Experiment
  Batch,       \* trades of a batch
  MaxBatches,  \* batches fetched at most
  TableSizes,  \* rows of a page of the backtest screen
  DetailSize   \* rows of a page of the other one

Experiments == DOMAIN Trades
NoResult == "none"

ASSUME PagesAssumption ==
  /\ NoResult \notin Experiments /\ \A e \in Experiments : Trades[e] \in Nat
  /\ Batch \in Nat \ {0} /\ MaxBatches \in Nat \ {0} /\ DetailSize \in Nat \ {0}
  /\ TableSizes \subseteq Nat \ {0} /\ TableSizes # {}

VARIABLES
  result,  \* backtest screen: Experiment, batches, page, highlighted trade
  detail   \* page of an Experiment: cursors, page that arrived, highlight, replay

pagesVars == <<result, detail>>

-----------------------------------------------------------------------------
(* pageTrades of the backend                                               *)

Least(a, b) == IF a < b THEN a ELSE b
BugPageTrades(e, cursor, limit) ==
  [ items |-> cursor .. Least(cursor + limit - 1, Trades[e]),
    next |-> IF cursor + limit < Trades[e] THEN cursor + limit ELSE 0 ]
PageTrades(e, cursor, limit) ==
  [ items |-> (cursor + 1) .. Least(cursor + limit, Trades[e]),
    next |-> IF cursor + limit < Trades[e] THEN cursor + limit ELSE 0 ]

-----------------------------------------------------------------------------
(* Backtest screen                                                         *)

First(S) == CHOOSE n \in S : \A m \in S : n <= m
Result(e, size) ==
  [ shown |-> e, state |-> IF e = NoResult THEN "idle" ELSE "loading", got |-> {}, total |-> 0,
    cursor |-> 0, batches |-> 0, size |-> size, page |-> 0, lit |-> <<>> ]

\* A finished Candidate is bound to its Experiment; the graph is cleared.
Bind == \E e \in Experiments \ {result.shown} :
  result' = Result(e, result.size) /\ UNCHANGED detail
ClearResult ==
  /\ result.shown # NoResult
  /\ result' = Result(NoResult, result.size) /\ UNCHANGED detail

FetchBatch ==
  /\ result.state = "loading"
  /\ LET page == PageTrades(result.shown, result.cursor, Batch)
         got == result.got \cup page.items
         more == /\ page.items # {} /\ page.next # 0
                 /\ Cardinality(got) < Trades[result.shown]
                 /\ result.batches + 1 < MaxBatches
     IN  result' = [result EXCEPT !.got = got, !.total = Trades[result.shown], !.cursor = page.next,
                                  !.batches = @ + 1, !.state = IF more THEN "loading" ELSE "ready"]
  /\ UNCHANGED detail
FetchFails ==
  /\ result.state = "loading"
  /\ result' = [result EXCEPT !.state = "failed", !.got = {}, !.total = 0] /\ UNCHANGED detail

\* Nothing is shown before the last batch arrived.
Loaded == IF result.state = "ready" THEN result.got ELSE {}
TablePages == LET n == IF result.state = "ready" THEN result.total ELSE 0
              IN  IF n = 0 THEN 1 ELSE (n + result.size - 1) \div result.size
Slice == {t \in Loaded : result.page * result.size < t /\ t <= (result.page + 1) * result.size}

GoTo(page) == result' = [result EXCEPT !.page = page, !.lit = <<>>] /\ UNCHANGED detail
TurnTradePage ==
  \/ result.page < TablePages - 1 /\ GoTo(result.page + 1)
  \/ result.page > 0 /\ GoTo(result.page - 1)
GoToTradePage == \E page \in 0 .. TablePages - 1 : GoTo(page)
ChangeTradeSize == \E size \in TableSizes :
  result' = [result EXCEPT !.size = size, !.page = 0, !.lit = <<>>] /\ UNCHANGED detail
HighlightTrade == \E t \in Slice :
  /\ result' = [result EXCEPT !.lit = IF @ = <<t>> THEN <<>> ELSE <<t>>]
  /\ UNCHANGED detail

-----------------------------------------------------------------------------
(* Page of one Experiment                                                  *)

Waiting == [ arrived |-> FALSE ]
Detail(e) == [ shown |-> e, cursors |-> <<0>>, page |-> Waiting, lit |-> <<>>,
               replay |-> NoResult, moved |-> FALSE ]

\* Another Experiment in the same page starts its cursors and its highlight
\* anew, but keeps the replay job that was asked for.
ShowExperiment == \E e \in Experiments \ {detail.shown} :
  /\ detail' = [Detail(e) EXCEPT !.replay = detail.replay, !.moved = detail.replay # NoResult]
  /\ UNCHANGED result

Top == detail.cursors[Len(detail.cursors)]
DetailArrives ==
  /\ detail.shown # NoResult /\ ~ detail.page.arrived
  /\ LET page == PageTrades(detail.shown, Top, DetailSize)
     IN  detail' = [detail EXCEPT !.page = [arrived |-> TRUE, items |-> page.items, next |-> page.next]]
  /\ UNCHANGED result
NextCursor ==
  /\ detail.page.arrived /\ detail.page.next # 0
  /\ detail' = [detail EXCEPT !.cursors = Append(@, detail.page.next), !.page = Waiting]
  /\ UNCHANGED result
PreviousCursor ==
  /\ Len(detail.cursors) > 1
  /\ detail' = [detail EXCEPT !.cursors = SubSeq(@, 1, Len(@) - 1), !.page = Waiting]
  /\ UNCHANGED result
HighlightDetail ==
  /\ detail.page.arrived
  /\ \E t \in detail.page.items : detail' = [detail EXCEPT !.lit = <<t>>]
  /\ UNCHANGED result
AskReplay ==
  /\ detail.shown # NoResult
  /\ detail' = [detail EXCEPT !.replay = detail.shown, !.moved = FALSE] /\ UNCHANGED result

PagesInit ==
  /\ result = Result(NoResult, First(TableSizes)) /\ detail = Detail(NoResult)
PagesNext ==
  \/ Bind \/ ClearResult \/ FetchBatch \/ FetchFails \/ TurnTradePage \/ GoToTradePage
  \/ ChangeTradeSize \/ HighlightTrade
  \/ ShowExperiment \/ DetailArrives \/ NextCursor \/ PreviousCursor \/ HighlightDetail \/ AskReplay

-----------------------------------------------------------------------------
(* What the pages promise                                                  *)

\* Every batch continues where the last one ended, and a page of the table is
\* empty only when there are no trades or when it lies beyond the batches that
\* are fetched, although the page buttons lead there.
TableShowsTrades ==
  result.state = "ready" =>
    /\ result.got = 1 .. Least(Trades[result.shown], MaxBatches * Batch)
    /\ result.page < TablePages
    /\ Slice = {} => \/ Trades[result.shown] = 0
                     \/ result.page * result.size >= MaxBatches * Batch

\* The highlighted trade is on the page that is shown, so that the backend,
\* which refuses the trades of another Experiment, can mark it.
HighlightIsOnPage ==
  result.lit # <<>> => result.state = "ready" /\ result.lit[1] \in Slice

\* The rows are those that the footer counts, whatever was turned back and
\* forth, and the replay that is shown is one of this Experiment as long as
\* the page was not given another one since.
DetailShowsTrades ==
  /\ detail.page.arrived /\ detail.page.items # {} =>
       LET start == (Len(detail.cursors) - 1) * DetailSize + 1
       IN  detail.page.items = start .. Least(start + DetailSize - 1, Trades[detail.shown])
  /\ detail.lit # <<>> => detail.lit[1] \in 1 .. Trades[detail.shown]
  /\ detail.replay # NoResult /\ ~ detail.moved => detail.replay = detail.shown

PagesAreTrue == TableShowsTrades /\ HighlightIsOnPage /\ DetailShowsTrades
=============================================================================
