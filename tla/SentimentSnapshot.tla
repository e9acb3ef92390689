------------------------- MODULE SentimentSnapshot -------------------------
(***************************************************************************)
(* Sentiment (src/modules/sentiment) and what a backtest reads of it: the  *)
(* results of single articles, snapshots sealed from them and found again  *)
(* by their content, the scope that pins one, and the point a candle sees. *)
(*                                                                         *)
(* Instants are numbers, candles open at the multiples of Frame.  A row of *)
(* `snaps' stands for its hash, so equal content is the same snapshot;     *)
(* `rows' in it is history: the results its points were made from.         *)
(***************************************************************************)
EXTENDS Integers, FiniteSets, FiniteSetsExt, TLC

CONSTANTS
  NewsItems,       \* news items
  Primary,        \* the model a scope asks for first
  Fallback,       \* and the one it asks for when that fails
  Scores,         \* scores a model gives
  Horizon,        \* bound: the last instant of publication
  Frame,          \* duration of a candle
  Ranges,         \* half-open ranges <<from, to>> asked for
  Spans,          \* aggregation windows asked for
  Requests,       \* requests served concurrently
  Keys,           \* idempotency keys of scopes
  MaxResults,     \* bound: results
  MaxAsked        \* bound: requests that arrive

ASSUME SentimentAssumption ==
  /\ Horizon \in Nat /\ MaxResults \in Nat /\ MaxAsked \in Nat /\ Frame \in Nat \ {0} /\ Spans \subseteq Nat \ {0}
  /\ \A r \in Ranges : r[1] \in Nat /\ r[2] \in Nat /\ r[1] < r[2]

VARIABLES
  results,   \* sentiment_results joined with news_items
  snaps,     \* sentiment_dataset_snapshots with their points
  scopes,    \* backtest_benchmark_scopes
  asked,     \* what each request is doing
  arrivals,  \* requests that have arrived
  ran        \* history: the sentiment each backtest of a scope has read
sentimentVars == <<results, snaps, scopes, asked, arrivals, ran>>

Models == {Primary, Fallback}
NoSnapshot == [none |-> TRUE]
NotAsked == [stage |-> "idle"]

SentimentInit ==
  /\ results = {} /\ snaps = {} /\ scopes = {} /\ ran = {} /\ arrivals = 0
  /\ asked = [r \in Requests |-> NotAsked]

GoOn(r, stage) == asked' = [asked EXCEPT ![r].stage = stage]

(* One result for an article and a model: a second one is not inserted. *)
AnalyzeArticle == \E a \in NewsItems, m \in Models, at \in 0 .. Horizon, s \in Scores :
  /\ Cardinality(results) < MaxResults
  /\ \A x \in results : x.id = a => x.model # m /\ x.at = at
  /\ results' = results \cup {[id |-> a, model |-> m, at |-> at, score |-> s]}
  /\ UNCHANGED <<snaps, scopes, asked, arrivals, ran>>

(***************************************************************************)
(* The window an instant falls into, named by its end, which is included.  *)
(***************************************************************************)
CeilDiv(n, d) == (n + d - 1) \div d
BugEnd(cmd, at) == cmd.from + Max({1, (at - cmd.from) \div cmd.span}) * cmd.span
End(cmd, at) == cmd.from + Max({1, CeilDiv(at - cmd.from, cmd.span)}) * cmd.span

(* readForSnapshot and the filter of aggregateSnapshotPoints. *)
Used(cmd) == {x \in results : /\ x.model = cmd.model
                              /\ cmd.from <= x.at /\ x.at < cmd.to
                              /\ End(cmd, x.at) <= cmd.to}
Behind(cmd, rows, t) == {x \in rows : End(cmd, x.at) = t}
ScoreOf(x) == x.score
(* Twelve times the average, a whole number for up to four results. *)
Average(set) == (12 * MapThenSumSet(ScoreOf, set)) \div Cardinality(set)
Points(cmd, rows) == {[at |-> t, score |-> Average(Behind(cmd, rows, t))] :
                        t \in {End(cmd, x.at) : x \in rows}}

(***************************************************************************)
(* A request: a snapshot alone, or a scope, which seals one of its own     *)
(* range with the candle as the window.                                    *)
(***************************************************************************)
AskSnapshot(r) == \E g \in Ranges, m \in Models, w \in Spans :
  /\ asked[r] = NotAsked /\ arrivals < MaxAsked /\ arrivals' = arrivals + 1
  /\ asked' = [asked EXCEPT ![r] = [stage |-> "read", scope |-> FALSE, rows |-> {},
                                    cmd |-> [from |-> g[1], to |-> g[2], span |-> w, model |-> m]]]
  /\ UNCHANGED <<results, snaps, scopes, ran>>
AskScope(r) == \E g \in Ranges, k \in Keys :
  /\ asked[r] = NotAsked /\ arrivals < MaxAsked /\ arrivals' = arrivals + 1
  /\ asked' = [asked EXCEPT ![r] = [stage |-> "read", scope |-> TRUE, key |-> k, range |-> g,
                                    rows |-> {},
                                    cmd |-> [from |-> g[1], to |-> g[2], span |-> Frame,
                                             model |-> Primary]]]
  /\ UNCHANGED <<results, snaps, scopes, ran>>

(* createSnapshot is over: a scope tries the second model before it goes without. *)
SealEnds(r, snap) ==
  IF ~ asked[r].scope THEN asked' = [asked EXCEPT ![r] = NotAsked]
  ELSE asked' = [asked EXCEPT ![r] = [stage |-> "create", scope |-> TRUE, key |-> @.key,
                                      range |-> @.range, snap |-> snap]]
SealFails(r) ==
  IF asked[r].scope /\ asked[r].cmd.model = Primary
  THEN asked' = [asked EXCEPT ![r].stage = "read", ![r].cmd.model = Fallback]
  ELSE SealEnds(r, NoSnapshot)

(* The results are read and aggregated; an empty snapshot is refused. *)
Aggregate(r) ==
  LET rows == Used(asked[r].cmd) IN
  /\ asked[r].stage = "read"
  /\ IF rows = {} THEN SealFails(r)
     ELSE asked' = [asked EXCEPT ![r].stage = "find", ![r].rows = rows]
  /\ UNCHANGED <<results, snaps, scopes, arrivals, ran>>

(* The transaction of insertSealed: look for the hash, and insert unless it is there. *)
Same(cmd, points) == {s \in snaps : s.cmd = cmd /\ s.points = points}
Find(r) ==
  LET q == asked[r]
      same == Same(q.cmd, Points(q.cmd, q.rows)) IN
  /\ q.stage = "find"
  /\ IF same = {} THEN GoOn(r, "insert") ELSE \E s \in same : SealEnds(r, s)
  /\ UNCHANGED <<results, snaps, scopes, arrivals, ran>>
Insert(r) ==
  LET q == asked[r]
      new == [cmd |-> q.cmd, points |-> Points(q.cmd, q.rows), rows |-> q.rows] IN
  /\ q.stage = "insert"
  /\ IF Same(q.cmd, new.points) = {}
     THEN snaps' = snaps \cup {new} /\ SealEnds(r, new)
     ELSE SealFails(r) /\ UNCHANGED snaps     \* the unique key of the hash
  /\ UNCHANGED <<results, scopes, arrivals, ran>>

(***************************************************************************)
(* createBenchmarkScope: a known key answers with its scope; else the      *)
(* candles are captured and the snapshot must reach over all their closes, *)
(* or the scope is made without one.                                       *)
(***************************************************************************)
Closes(range) == {t \in range[1] .. range[2] + Frame : t % Frame = 0
                                                    /\ range[1] <= t - Frame /\ t - Frame < range[2]}
Covers(snap, range) ==
  snap # NoSnapshot /\ \A t \in Closes(range) : snap.cmd.from <= t /\ t <= snap.cmd.to
CreateScope(r) ==
  LET q == asked[r] IN
  /\ q.stage = "create"
  /\ asked' = [asked EXCEPT ![r] = NotAsked]
  /\ scopes' = IF \E s \in scopes : s.key = q.key THEN scopes
               ELSE scopes \cup {[key |-> q.key, range |-> q.range,
                                  snap |-> IF Covers(q.snap, q.range) THEN q.snap ELSE NoSnapshot]}
  /\ UNCHANGED <<results, snaps, arrivals, ran>>
(* A caller of the module may also pin any sealed snapshot; one that does not reach is refused. *)
PinScope == \E k \in Keys, g \in Ranges, s \in snaps :
  /\ \A x \in scopes : x.key # k
  /\ Covers(s, g)
  /\ scopes' = scopes \cup {[key |-> k, range |-> g, snap |-> s]}
  /\ UNCHANGED <<results, snaps, asked, arrivals, ran>>

(***************************************************************************)
(* loadSentiment: a submission, a worker and a replay verification each    *)
(* read the point of every close, and refuse the snapshot unless all its   *)
(* points were read.                                                       *)
(***************************************************************************)
ReadAt(snap, close) ==
  {p \in snap.points : /\ snap.cmd.from < close /\ close <= snap.cmd.to
                       /\ End(snap.cmd, close) = close /\ p.at = close}
Found(s) == {t \in Closes(s.range) : ReadAt(s.snap, t) # {}}
Loads(s) == Cardinality(Found(s)) >= Cardinality(s.snap.points)
Backtest == \E s \in scopes :
  /\ s.snap # NoSnapshot /\ Loads(s)
  /\ ran' = ran \cup {[scope |-> s, seen |-> [t \in Closes(s.range) |-> ReadAt(s.snap, t)]]}
  /\ UNCHANGED <<results, snaps, scopes, asked, arrivals>>

SentimentNext ==
  \/ AnalyzeArticle \/ PinScope \/ Backtest
  \/ \E r \in Requests : \/ AskSnapshot(r) \/ AskScope(r) \/ Aggregate(r)
                         \/ Find(r) \/ Insert(r) \/ CreateScope(r)

----------------------------------------------------------------------------
(* What a candle reads was published by its close and no earlier than the  *)
(* window that ends there, or at the very start of the snapshot.           *)
NeverAhead ==
  \A b \in ran : \A t \in DOMAIN b.seen : b.seen[t] # {} =>
    \A x \in Behind(b.scope.snap.cmd, b.scope.snap.rows, t) :
      x.at <= t /\ (x.at > t - b.scope.snap.cmd.span \/ x.at = b.scope.snap.cmd.from)
(* Every article of the snapshot is seen by exactly one candle. *)
NothingDropped ==
  \A b \in ran : \A x \in b.scope.snap.rows :
    Cardinality({t \in DOMAIN b.seen : /\ b.seen[t] # {}
                                       /\ x \in Behind(b.scope.snap.cmd, b.scope.snap.rows, t)}) = 1
(* A sealed snapshot is one content, and it is still what its articles say. *)
SealedOnce ==
  \A s, t \in snaps : /\ s.cmd = t.cmd /\ s.points = t.points => s = t
                      /\ \A x \in s.rows : x \in results
(* SentimentIsPast: no lookahead and nothing lost between the articles and *)
(* the candles of a backtest (aggregateSnapshotPoints, pointForCandle and  *)
(* loadSentiment compute the same windows in three places).                *)
SentimentIsPast == NeverAhead /\ NothingDropped /\ SealedOnce
=============================================================================
