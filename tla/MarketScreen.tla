----------------------------- MODULE MarketScreen -----------------------------
(***************************************************************************)
(* The market screen (market.tsx) and its layout, which outlives it        *)
(* (state.ts, main.tsx): charts that come and go, the states they report,  *)
(* the line that sums them up, and the list of recent trades.  A trade is  *)
(* its pair; MarketChart has what a chart does by itself.                  *)
(***************************************************************************)
EXTENDS Integers, FiniteSets, Sequences

CONSTANTS
  Pairs,        \* the pairs a layout may name
  DefaultPair,  \* BTCUSDT
  Frames,       \* number of timeframes, in the order they are offered
  MaxPanels     \* charts of a layout (four)

ASSUME MarketScreenAssumption ==
  /\ DefaultPair \in Pairs /\ Frames \in Nat \ {0} /\ MaxPanels \in Nat \ {0}

VARIABLES
  layout,     \* panels in order, realtime, selected pair, primary panel (0: none)
  saved,      \* what the browser keeps of it
  market,     \* whether it is open, capabilities, states of the charts, trades
  supported,  \* the pairs of the provider
  strange     \* history: states left by charts a fallback dropped, and whether the
              \* title named another pair than the selected one since the list
              \* of trades was cleared

marketVars == <<layout, saved, market, supported, strange>>

PanelIds == 1 .. MaxPanels
Panel(id, pair, frame) == [id |-> id, pair |-> pair, frame |-> frame]
DefaultLayout == [panels |-> <<>>, live |-> TRUE, pair |-> DefaultPair, primary |-> 0]
Positions(l) == 1 .. Len(l.panels)
IdsOf(l) == {l.panels[i].id : i \in Positions(l)}
WithId(l, id) == l.panels[CHOOSE i \in Positions(l) : l.panels[i].id = id]

\* The primary panel; a panel that is gone leaves the first one.
Primary(l) ==
  IF l.primary \in IdsOf(l) THEN WithId(l, l.primary)
  ELSE IF l.panels # <<>> THEN l.panels[1]
  ELSE Panel(1, l.pair, 1)

\* validateMarketLayout; what is not valid is not kept.
Valid(l) == Len(l.panels) <= MaxPanels /\ Cardinality(IdsOf(l)) = Len(l.panels)
Persisted(l) == IF Valid(l) THEN l ELSE DefaultLayout

NoStates == [id \in PanelIds |-> "none"]
Closed == [open |-> FALSE, caps |-> "loading", states |-> NoStates, trades |-> {}]

-----------------------------------------------------------------------------
(* What a change of the layout does                                        *)

\* The effect of each chart that is new or shows something else reports
\* first; a chart that went away reports nothing any more.
Reporting(states, before, l) ==
  [id \in PanelIds |->
     IF id \notin IdsOf(l) THEN states[id]
     ELSE IF id \in IdsOf(before) /\ WithId(before, id) = WithId(l, id) /\ before.live = l.live
          THEN states[id]
     ELSE IF l.live THEN "CONNECTING" ELSE "PAUSED"]

\* A layout with a pair the provider does not have gives way to the default.
Stale(l, caps) == caps = "ready" /\ \E i \in Positions(l) : l.panels[i].pair \notin supported
Settled(l, caps) == IF Stale(l, caps) THEN DefaultLayout ELSE l

Change(before, l, scr) ==
  LET to == Settled(l, scr.caps)
      states == Reporting(scr.states, before, l)
      cleared == Cardinality({Primary(k).pair : k \in {before, l, to}}) > 1
      mismatch == to.pair # Primary(to).pair
  IN  /\ layout' = to /\ saved' = Persisted(to)
      /\ market' = [scr EXCEPT !.states = states, !.trades = IF cleared THEN {} ELSE @]
      /\ strange' = [ghosts |-> IF Stale(l, scr.caps) THEN {id \in PanelIds : states[id] # "none"}
                                ELSE strange.ghosts \ IdsOf(to),
                     mismatch |-> mismatch \/ (strange.mismatch /\ ~cleared)]
      /\ UNCHANGED supported

OnScreen == market.open
Ready == OnScreen /\ market.caps = "ready"
SetLayout(l) == Change(layout, l, market)
NoPanels(l) == [l EXCEPT !.panels = <<>>]
NothingStrange == [ghosts |-> {}, mismatch |-> layout.pair # Primary(layout).pair]

MarketInit ==
  /\ supported \in {Pairs, Pairs \ {DefaultPair}}
  /\ layout \in {DefaultLayout} \cup
       {[DefaultLayout EXCEPT !.panels = <<Panel(1, DefaultPair, 1)>>, !.pair = p] : p \in Pairs}
  /\ saved = layout /\ market = Closed
  /\ strange = NothingStrange

\* The screen opens: every chart starts, and the capabilities are asked for.
OpenMarket ==
  /\ ~OnScreen
  /\ Change(NoPanels(layout), layout, [Closed EXCEPT !.open = TRUE])
LeaveMarket ==
  /\ OnScreen
  /\ market' = Closed /\ strange' = NothingStrange
  /\ UNCHANGED <<layout, saved, supported>>

\* The page is loaded anew: readMarketLayout.
ReloadPage ==
  /\ layout' = Persisted(saved) /\ market' = Closed
  /\ strange' = [ghosts |-> {}, mismatch |-> layout'.pair # Primary(layout').pair]
  /\ UNCHANGED <<saved, supported>>

Capabilities == \E answer \in {"ready", "failed"} :
  /\ OnScreen /\ market.caps = "loading"
  /\ Change(layout, layout, [market EXCEPT !.caps = answer])

-----------------------------------------------------------------------------
(* The controls                                                            *)

UpdatePanel(id, pair, frame) ==
  SetLayout([layout EXCEPT !.panels = [i \in Positions(layout) |->
    IF @[i].id = id THEN Panel(id, pair, frame) ELSE @[i]]])
PickOfPanel == \E id \in IdsOf(layout), p \in supported, f \in 1 .. Frames :
  /\ Ready /\ (p = WithId(layout, id).pair \/ f = WithId(layout, id).frame)
  /\ UpdatePanel(id, p, f)

\* updatePrimary: without a chart it makes one and selects its pair; with one
\* the selected pair stays.
PickOfPrimary == \E p \in supported \cup {Primary(layout).pair}, f \in 1 .. Frames :
  /\ Ready /\ (p = Primary(layout).pair \/ f = Primary(layout).frame)
  /\ IF layout.panels = <<>>
     THEN SetLayout([layout EXCEPT !.pair = p, !.panels = <<Panel(1, p, f)>>])
     ELSE UpdatePanel(Primary(layout).id, p, f)

BugNextId(l) == Len(l.panels) + 1
NextId(l) == CHOOSE id \in PanelIds \ IdsOf(l) : \A j \in 1 .. (id - 1) : j \in IdsOf(l)
NextFrame(l) ==
  LET free == {f \in 1 .. Frames : \A i \in Positions(l) : l.panels[i].frame # f}
  IN  IF free = {} THEN 1 ELSE CHOOSE f \in free : \A g \in free : f <= g
AddChart ==
  /\ OnScreen /\ Len(layout.panels) < MaxPanels
  /\ SetLayout([layout EXCEPT !.panels =
       Append(@, Panel(NextId(layout), layout.pair, NextFrame(layout)))])

\* removePanel: the others stay in their order, and the last chart stays; the
\* state of a removed one goes with it.
Rank(S, i) == Cardinality({j \in S : j <= i})
WithoutPanel(panels, id) ==
  LET others == {i \in DOMAIN panels : panels[i].id # id}
  IN  [n \in 1 .. Cardinality(others) |-> panels[CHOOSE i \in others : Rank(others, i) = n]]
BugForgetState(id) == market
ForgetState(id) == [market EXCEPT !.states[id] = "none"]
RemoveChart == \E id \in IdsOf(layout) :
  /\ OnScreen /\ Len(layout.panels) > 1
  /\ Change(layout, [layout EXCEPT !.panels = WithoutPanel(@, id)], ForgetState(id))

UsePrimary == \E id \in IdsOf(layout) :
  OnScreen /\ SetLayout([layout EXCEPT !.primary = id])
ToggleLive == OnScreen /\ SetLayout([layout EXCEPT !.live = ~@])

-----------------------------------------------------------------------------
(* What the charts report                                                  *)

\* The shared socket tells all charts how it stands, and how the provider does.
Report == \E status \in {"CONNECTED", "RECONNECTING", "ERROR"} :
  /\ OnScreen /\ layout.live
  /\ market' = [market EXCEPT !.states =
       [id \in PanelIds |-> IF id \in IdsOf(layout) THEN status ELSE @[id]]]
  /\ UNCHANGED <<layout, saved, supported, strange>>

\* addTick: trades of another than the selected pair are dropped, also those
\* of the pair the list is titled with.
Listed(trades, pair) == (trades \cup {pair}) \cap {layout.pair}
Traded == \E i \in Positions(layout) :
  /\ OnScreen /\ layout.live /\ layout.panels[i].pair = layout.pair
  /\ market' = [market EXCEPT !.trades = Listed(@, layout.panels[i].pair)]
  /\ UNCHANGED <<layout, saved, supported, strange>>

MarketNext ==
  \/ OpenMarket \/ LeaveMarket \/ ReloadPage \/ Capabilities
  \/ PickOfPanel \/ PickOfPrimary \/ AddChart \/ RemoveChart \/ UsePrimary \/ ToggleLive
  \/ Report \/ Traded

-----------------------------------------------------------------------------
(* What the screen says                                                    *)

\* The line at the top, from all states there are.
Summary ==
  LET reported == {market.states[id] : id \in PanelIds} \ {"none"}
  IN  IF layout.panels = <<>> THEN "No active charts"
      ELSE IF ~layout.live THEN "Realtime paused"
      ELSE IF "ERROR" \in reported THEN "Connection error"
      ELSE IF "RECONNECTING" \in reported THEN "Reconnecting"
      ELSE IF "CONNECTING" \in reported THEN "Connecting"
      ELSE IF reported = {"CONNECTED"} THEN "Receiving data"
      ELSE "Waiting for connection"

StatesOf(ids) == {market.states[id] : id \in ids}

\* What the screen says is what its charts say: a removed chart has no say,
\* and only one a fallback dropped may still spoil the line.
SummaryIsOfCharts ==
  OnScreen =>
    /\ {id \in PanelIds : market.states[id] # "none"} = IdsOf(layout) \cup strange.ghosts
    /\ Summary = "Receiving data" => StatesOf(IdsOf(layout)) = {"CONNECTED"}
    /\ Summary = "Connection error" => "ERROR" \in StatesOf(IdsOf(layout) \cup strange.ghosts)

\* The trades listed are of one pair, and of the pair in the title unless it
\* was not the selected one at some time since the list was cleared.
TradesAreOfTitle ==
  /\ Cardinality(market.trades) <= 1
  /\ strange.mismatch \/ market.trades \subseteq {Primary(layout).pair}

\* Charts that are added, removed and reloaded keep names of their own, so
\* that what the browser keeps is the layout on display.
LayoutIsKept == saved = layout /\ Valid(layout)

MarketIsTrue == SummaryIsOfCharts /\ TradesAreOfTitle /\ LayoutIsKept
=============================================================================
