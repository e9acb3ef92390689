------------------------------ MODULE MarketChart ------------------------------
(***************************************************************************)
(* One chart of the market screen (market.tsx): the history it asks for,   *)
(* the live candles it merges, the reconnections that hold live candles    *)
(* back until the history is there (api.ts), and the drawing, which is     *)
(* updated and seldom replaced.  Other charts keep the socket open when    *)
(* this one changes.  A candle is one of a time slot; of its content only  *)
(* whether the slot is closed is kept.                                     *)
(***************************************************************************)
EXTENDS Integers, FiniteSets, Sequences

CONSTANTS
  Streams,     \* the streams (pair and timeframe) a chart can show
  Window,      \* closed candles of a history page (1000)
  Kept,        \* candles a chart keeps when live ones are merged (1000)
  MaxCloses,   \* bound: slots that end
  MaxAsked,    \* bound: history requests in flight
  MaxOnWire,   \* bound: candles on their way
  MaxUpsets    \* bound: what disturbs the chart: a selection, a press of
               \* reload, a lost connection, a failed or incomplete answer,
               \* a candle that overtakes another

Slots == 1 .. (Window + 1 + MaxCloses)

ASSUME ChartAssumption ==
  /\ Streams # {}
  /\ Window \in Nat /\ Kept \in Nat /\ Kept >= Window /\ Window > MaxCloses  \* no answer is a page late
  /\ {MaxCloses, MaxAsked, MaxOnWire, MaxUpsets} \subseteq Nat

VARIABLES
  chart,   \* stream, live or paused, candles, what is drawn, effect that runs
  asked,   \* history requests in flight, and what the backend answered
  link,    \* the shared socket: state, reconnecting, reconciliation, queue
  wire,    \* candles on their way to the page
  now,     \* the slot that is forming
  causes   \* history: upsets, why a closed candle may not be shown, whether the
           \* list had a gap since the chart started

chartVars == <<chart, asked, link, wire, now, causes>>

Nothing == [shown |-> FALSE]
Candle(s, closed) == [shown |-> TRUE, of |-> s, closed |-> closed]
Blank == [n \in Slots |-> Nothing]
ShownIn(candles) == {n \in Slots : candles[n].shown}
Lowest(ns) == CHOOSE n \in ns : \A m \in ns : n <= m
Highest(ns) == CHOOSE n \in ns : \A m \in ns : n >= m
ClosedIn(candles) == {n \in ShownIn(candles) : candles[n].closed}

\* What went out before the chart started was not shown.
NoCause == [missed |-> 1 .. Window, overtaken |-> {}, paged |-> 0, ragged |-> FALSE, upsets |-> 0]
NewLink == [state |-> "connecting", again |-> FALSE, waits |-> 0, queue |-> <<>>]

Request(id, n, s) == [id |-> id, effect |-> n, of |-> s, read |-> FALSE, upto |-> 0, gap |-> {}]
Seamless(candles) ==
  LET ns == ShownIn(candles)
  IN  \A n \in ns : n = Highest(ns) \/ (candles[n].closed /\ n + 1 \in ns)
RaggedIn(candles) == causes.ragged \/ ~Seamless(candles)

FreeId == Lowest({i \in 1 .. MaxAsked : \A r \in asked : r.id # i})
MayAsk == Cardinality(asked) < MaxAsked
Asked(n, s) == asked \cup {Request(FreeId, n, s)}

ChartInit ==
  LET s == CHOOSE x \in Streams : TRUE
  IN /\ chart = [of |-> s, live |-> TRUE, candles |-> Blank, drawn |-> Blank, effect |-> 1, dead |-> FALSE]
     /\ asked = {Request(1, 1, s)}
     /\ link = NewLink /\ wire = <<>> /\ now = Window + 1 /\ causes = NoCause

Alive == ~chart.dead
Calm == causes.upsets < MaxUpsets
Upset(c) == [c EXCEPT !.upsets = @ + 1]

-----------------------------------------------------------------------------
(* What is drawn                                                           *)

\* chartUpdatePlan: whether a list is drawn anew.
BugReplaces(prev, next) ==
  ShownIn(prev) = {} \/ Cardinality(ShownIn(prev)) > Cardinality(ShownIn(next))
Replaces(prev, next) ==
  \/ ShownIn(prev) = {} \/ Cardinality(ShownIn(prev)) > Cardinality(ShownIn(next))
  \/ Lowest(ShownIn(prev)) # Lowest(ShownIn(next))

\* CandleVisual: a list is drawn anew, or its changes are; the series accepts
\* none below its newest candle, and the exception takes the page down.
Shows(c, next) ==
  LET changed == {n \in ShownIn(next) : next[n] # c.candles[n]}
      refused == \E n \in changed, m \in ShownIn(c.drawn) : n < m
  IN  IF ShownIn(next) = {} \/ Replaces(c.candles, next)
      THEN [c EXCEPT !.candles = next, !.drawn = next]
      ELSE [c EXCEPT !.candles = next, !.dead = refused,
                     !.drawn = IF refused THEN @
                               ELSE [n \in Slots |-> IF n \in changed THEN next[n] ELSE @[n]]]

-----------------------------------------------------------------------------
(* The chart starts over                                                   *)

StartOver(s, live) ==
  /\ Alive /\ Calm /\ MayAsk
  /\ chart' = [of |-> s, live |-> live, candles |-> Blank, drawn |-> Blank,
               effect |-> chart.effect + 1, dead |-> FALSE]
  /\ asked' = Asked(chart.effect + 1, s)
  /\ causes' = [NoCause EXCEPT !.missed = 1 .. (now - 1), !.upsets = causes.upsets + 1]
  /\ UNCHANGED now

\* The stream is subscribed to, unless another chart shows it.
ShowStream == \E s \in Streams \ {chart.of} :
  /\ StartOver(s, chart.live) /\ UNCHANGED wire
  /\ \/ UNCHANGED link
     \/ link.state = "up" /\ link' = [link EXCEPT !.state = "open"]

\* The switch pauses all charts of the page, so their socket is closed.
ToggleRealtime ==
  /\ StartOver(chart.of, ~chart.live)
  /\ wire' = <<>>
  /\ link' = IF chart.live THEN [NewLink EXCEPT !.state = "none"] ELSE NewLink
Reload ==
  /\ Alive /\ Calm /\ MayAsk
  /\ asked' = Asked(chart.effect, chart.of)
  /\ causes' = Upset(causes)
  /\ UNCHANGED <<chart, link, wire, now>>

-----------------------------------------------------------------------------
(* History                                                                 *)

\* The backend reads the newest closed candles.  What its provider cannot
\* deliver is left out; without any candle, or without an answer, it fails.
Read == \E r \in asked :
  LET newest == (now - Window) .. (now - 1)
  IN \E gap \in {{}, newest} \cup {{n} : n \in newest} :
       /\ Alive /\ ~r.read /\ (gap # {} => Calm)
       /\ asked' = (asked \ {r}) \cup {[r EXCEPT !.read = TRUE, !.upto = now - 1, !.gap = gap]}
       /\ causes' = IF gap = {} THEN causes ELSE Upset(causes)
       /\ UNCHANGED <<chart, link, wire, now>>

PageOfHistory(r) == ((r.upto - Window + 1) .. r.upto) \ r.gap

\* What a page wipes out: candles of a page read later, and live ones that
\* arrived since, but none while a reconnection holds them back for this page.
WipedOut(r) == {n \in ShownIn(chart.candles) :
  r.upto < n /\ (r.id = link.waits => n <= causes.paged)}

\* loadHistory, from its answer on.  A page replaces the list.  An answer for
\* an earlier effect is dropped, and a failure leaves the list alone.
ForThisEffect(r) == r.effect = chart.effect
LoadHistory == \E r \in asked :
  LET page == PageOfHistory(r)
      next == [n \in Slots |-> IF n \in page THEN Candle(r.of, TRUE) ELSE Nothing]
  IN  /\ Alive /\ r.read
      /\ asked' = asked \ {r}
      /\ IF ForThisEffect(r) /\ page # {}
         THEN /\ chart' = Shows(chart, next)
              /\ causes' = [causes EXCEPT
                   !.missed = (@ \ page) \cup r.gap,
                   !.overtaken = (@ \ page) \cup WipedOut(r), !.paged = r.upto,
                   !.ragged = RaggedIn(next)]
         ELSE UNCHANGED <<chart, causes>>
      /\ UNCHANGED <<link, wire, now>>

-----------------------------------------------------------------------------
(* Live candles                                                            *)

\* mergeCandle, and the newest candles that are kept.
BugMerged(candles, m) == [candles EXCEPT ![m.slot] = Candle(m.of, m.closed)]
Merged(candles, m) ==
  LET next == [candles EXCEPT ![m.slot] =
                 IF @.shown /\ @.closed /\ ~m.closed THEN @ ELSE Candle(m.of, m.closed)]
  IN  IF Cardinality(ShownIn(next)) > Kept THEN [next EXCEPT ![Lowest(ShownIn(next))] = Nothing] ELSE next

\* What the chart shows after some messages; those for others are ignored.
\* React renders once for messages that are handled in one go.
Taken(c, candles, m) == IF c.live /\ m.of = c.of THEN Merged(candles, m) ELSE candles
MergeAll(c, ms) ==
  LET after[i \in 0 .. Len(ms)] ==
        IF i = 0 THEN c.candles ELSE Taken(c, after[i - 1], ms[i])
  IN  Shows(c, after[Len(ms)])

Message(s, n, closed) == [of |-> s, slot |-> n, closed |-> closed]
ClosesIn(ms) == {m.slot : m \in {x \in ms : x.of = chart.of /\ x.closed}}
Served == link.state = "up"

\* A trade updates the candle that is forming; one that changes nothing but
\* the content is left out.
OnItsWay == {wire[i] : i \in DOMAIN wire} \cup {link.queue[i] : i \in DOMAIN link.queue}
Trade ==
  /\ Alive /\ Served /\ Len(wire) < MaxOnWire
  /\ ~chart.candles[now].shown /\ Message(chart.of, now, FALSE) \notin OnItsWay
  /\ wire' = Append(wire, Message(chart.of, now, FALSE))
  /\ UNCHANGED <<chart, asked, link, now, causes>>

\* A slot ends: its candle is stored, and sent to those who are subscribed.
CloseSlot ==
  /\ Alive /\ now < Window + 1 + MaxCloses
  /\ Served => Len(wire) < MaxOnWire
  /\ now' = now + 1
  /\ wire' = IF Served THEN Append(wire, Message(chart.of, now, TRUE)) ELSE wire
  /\ causes' = IF Served THEN causes ELSE [causes EXCEPT !.missed = @ \cup {now}]
  /\ UNCHANGED <<chart, asked, link>>

\* The stream handles the candles of a provider concurrently: one may be sent
\* before another that was received first.
Overtake == \E i \in 1 .. (Len(wire) - 1) :
  /\ Alive /\ Calm
  /\ wire' = [wire EXCEPT ![i] = wire[i + 1], ![i + 1] = wire[i]]
  /\ causes' = Upset(causes)
  /\ UNCHANGED <<chart, asked, link, now>>

BugHeldBack == FALSE
HeldBack == link.waits # 0
Arrive ==
  /\ Alive /\ wire # <<>>
  /\ wire' = Tail(wire)
  /\ IF HeldBack
     THEN link' = [link EXCEPT !.queue = Append(@, Head(wire))] /\ UNCHANGED <<chart, causes>>
     ELSE /\ chart' = MergeAll(chart, <<Head(wire)>>)
          /\ causes' = [causes EXCEPT !.ragged = RaggedIn(chart'.candles)]
          /\ UNCHANGED link
  /\ UNCHANGED <<asked, now>>

-----------------------------------------------------------------------------
(* The connection                                                          *)

\* The first connection only subscribes.  A later one asks for the history
\* as well and waits for it, unless an earlier one still does.
Connect ==
  /\ Alive /\ link.state \in {"connecting", "lost"}
  /\ IF link.again /\ ~HeldBack
     THEN /\ MayAsk
          /\ asked' = Asked(chart.effect, chart.of)
          /\ link' = [link EXCEPT !.state = "open", !.again = FALSE, !.waits = FreeId]
     ELSE link' = [link EXCEPT !.state = "open", !.again = FALSE] /\ UNCHANGED asked
  /\ UNCHANGED <<chart, wire, now, causes>>

\* The gateway has subscribed: candles that closed before were not sent.
Subscribed ==
  /\ Alive /\ link.state = "open"
  /\ link' = [link EXCEPT !.state = "up"]
  /\ UNCHANGED <<chart, asked, wire, now, causes>>

\* reconcileMarket ends, when the history has arrived or failed (loadHistory
\* never throws): what was held back goes to the charts there are.
Reconciled ==
  /\ Alive /\ link.waits # 0 /\ \A r \in asked : r.id # link.waits
  /\ link' = [link EXCEPT !.waits = 0, !.queue = <<>>]
  /\ chart' = MergeAll(chart, link.queue)
  /\ causes' = [causes EXCEPT !.ragged = RaggedIn(chart'.candles)]
  /\ UNCHANGED <<asked, wire, now>>

Lose ==
  /\ Alive /\ link.state \in {"connecting", "open", "up"} /\ Calm
  /\ link' = [link EXCEPT !.state = "lost", !.again = TRUE]
  /\ wire' = <<>>
  /\ causes' = [Upset(causes) EXCEPT !.missed = @ \cup ClosesIn({wire[i] : i \in DOMAIN wire})]
  /\ UNCHANGED <<chart, asked, now>>

ChartNext ==
  \/ ShowStream \/ ToggleRealtime \/ Reload \/ Read \/ LoadHistory
  \/ Trade \/ CloseSlot \/ Overtake \/ Arrive \/ Connect \/ Subscribed \/ Reconciled \/ Lose

-----------------------------------------------------------------------------
(* What a chart promises                                                   *)

\* "A late response/message for the prior selection is ignored"
\* (openspec/specs/frontend-spec.md): no candle is of another stream.
CandlesAreOfStream == \A n \in ShownIn(chart.candles) : chart.candles[n].of = chart.of

\* A candle above the oldest one shown whose slot has ended is shown closed,
\* unless its close is on its way, went out while the page was not served,
\* was missing in a page, or was wiped out by a page read before it.
GapsHaveCause ==
  (Alive /\ chart.live /\ ShownIn(chart.candles) # {}) =>
    \A n \in Lowest(ShownIn(chart.candles)) .. (now - 1) :
      n \in ClosedIn(chart.candles) \cup ClosesIn(OnItsWay) \cup causes.missed \cup causes.overtaken

\* The drawing is the list, and the page stays up, until the list has a gap:
\* a page that fills it takes the page down (see Shows).
DrawingIsCurrent == causes.ragged \/ (Alive /\ chart.drawn = chart.candles)

ChartIsTrue == CandlesAreOfStream /\ GapsHaveCause /\ DrawingIsCurrent
=============================================================================
