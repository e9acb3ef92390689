------------------------------ MODULE MCScreens ------------------------------
(* Instance for TLC: screens of the browser and parts of them, which share  *)
(* nothing but the tab they are shown in; a behaviour uses one of them.     *)
EXTENDS StrategyScreen, BacktestScreen, SearchForm,
        StrategyTable, StrategyBuilder, NewsScreen, ResultPages,
        MarketChart, MarketScreen, AppSession

VARIABLE part  \* the one that is used

researchVars == <<screenVars, btVars, formVars, tableVars, builderVars,
                  newsVars, pagesVars>>
shellVars == <<chartVars, marketVars, sessionVars>>
screensVars == <<researchVars, shellVars, part>>

Names == {"strategy", "backtest", "form", "table", "builder", "news", "pages",
          "chart", "market", "session"}
Init ==
  /\ part \in Names
  /\ ScreenInit /\ BacktestInit /\ FormInit
  /\ TableInit /\ BuilderInit /\ NewsInit /\ PagesInit
  /\ ChartInit /\ MarketInit /\ SessionInit
  /\ part = "builder" \/ builder = NewComposite
  /\ part = "news" \/ browser = [version |-> "v4", sources |-> <<>>, healing |-> TRUE]
  /\ part = "market" \/ (supported = Pairs /\ layout = DefaultLayout)
  /\ part = "session" \/ created = {}

Next ==
  \/ /\ part = "strategy" /\ ScreenNext
     /\ UNCHANGED <<btVars, formVars, tableVars, builderVars, newsVars, pagesVars, shellVars, part>>
  \/ /\ part = "backtest" /\ BacktestNext
     /\ UNCHANGED <<screenVars, formVars, tableVars, builderVars, newsVars, pagesVars, shellVars, part>>
  \/ /\ part = "form" /\ FormNext
     /\ UNCHANGED <<screenVars, btVars, tableVars, builderVars, newsVars, pagesVars, shellVars, part>>
  \/ /\ part = "table" /\ TableNext
     /\ UNCHANGED <<screenVars, btVars, formVars, builderVars, newsVars, pagesVars, shellVars, part>>
  \/ /\ part = "builder" /\ BuilderNext
     /\ UNCHANGED <<screenVars, btVars, formVars, tableVars, newsVars, pagesVars, shellVars, part>>
  \/ /\ part = "news" /\ NewsNext
     /\ UNCHANGED <<screenVars, btVars, formVars, tableVars, builderVars, pagesVars, shellVars, part>>
  \/ /\ part = "pages" /\ PagesNext
     /\ UNCHANGED <<screenVars, btVars, formVars, tableVars, builderVars, newsVars, shellVars, part>>
  \/ /\ part = "chart" /\ ChartNext
     /\ UNCHANGED <<researchVars, marketVars, sessionVars, part>>
  \/ /\ part = "market" /\ MarketNext
     /\ UNCHANGED <<researchVars, chartVars, sessionVars, part>>
  \/ /\ part = "session" /\ SessionNext
     /\ UNCHANGED <<researchVars, chartVars, marketVars, part>>

\* The timer of a mounted query fires.
Spec == Init /\ [][Next]_screensVars /\ WF_btVars(part = "backtest" /\ Poll)

\* What runs is what the form shows, what is shown exists, the form of a search
\* and the builders of strategies offer what their checks accept, no deletion
\* reaches a row the user did not choose, and every page shows its rows; charts
\* and the line above them are of what was asked for, and the query cache of the
\* page is of the account that is signed in.
ScreensAreTrue ==
  CASE part = "backtest" -> ScreenIsTrue
    [] part = "form" -> FormIsCoherent
    [] part = "table" -> TableIsTrue
    [] part = "builder" -> BuilderIsTrue
    [] part = "news" -> NewsIsTrue
    [] part = "pages" -> PagesAreTrue
    [] part = "chart" -> ChartIsTrue
    [] part = "market" -> MarketIsTrue
    [] part = "session" -> SessionIsTrue
    [] part = "strategy" -> TRUE

\* A composite of two definitions, and its components.
MCDefs == 1 .. 3
MCParts == [d \in MCDefs |-> IF d = 3 THEN {1, 2} ELSE {}]

MCCategory == [d \in MCDefs |-> CASE d = 1 -> "trend" [] d = 2 -> "momentum" [] OTHER -> "none"]

\* The texts 1, 2 and 1e1.
MCSizes == {[parsed |-> 1, number |-> 1], [parsed |-> 2, number |-> 2], [parsed |-> 1, number |-> 10]}

\* Rows of the three kinds, and a search that matches two of them.
MCRows == 1 .. 3
MCTab == [r \in MCRows |-> CASE r = 1 -> "composite" [] r = 2 -> "source" [] OTHER -> "drafts"]
MCQueries == {MCRows, {1, 3}}

\* Weights in parts of six; the second parameter is no integer.
MCMembers == {1, 2}
MCGroups == {MCMembers, {2}}
MCWeightEdits == {-3, 9}
MCLimits == [i \in {"ma", "rsi"} |->
  IF i = "ma" THEN [min |-> 2, max |-> 8, default |-> 4, integer |-> TRUE]
  ELSE [min |-> 0, max |-> 4, default |-> 2, integer |-> FALSE]]

MCSourceMode == <<"WEBSITE">>

\* Fewer trades than a batch, more, and more than all batches.
MCTrades == [e \in {"few", "many", "most"} |->
  CASE e = "few" -> 2 [] e = "many" -> 5 [] OTHER -> 8]
=============================================================================
