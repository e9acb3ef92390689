# Cryptox: TLA+ verification project

Cryptox backtests trading strategies. Users, or an automatic *Search Run*,
submit backtest *Candidates*; a worker process simulates each one on stored
candles; the backend evaluates the trades, scores and ranks them and publishes
an *Experiment* and a Leaderboard entry. Around that core the backend keeps a
candle store fed by Binance, a gateway that streams prices to browsers, news
with sentiment, strategies and users, and a React frontend shows them.

This directory holds TLA+ modules for the parts of that system whose behaviour
depends on order, concurrency and failure, the configurations with which TLC
checks them, and proofs for TLAPS. Source paths below are relative to the
repository; `PROJECT.json` gives, for every definition, the lines it models.

## 1. Inventory

| Part | State it keeps | Operations | Module |
|---|---|---|---|
| Backtesting: submission, outbox, cancellation (`modules/backtesting/application/service.ts`, `infrastructure/postgres-repository.ts`) | `backtest_candidates`, `backtest_attempts`, `queue_dispatches` | submit, dispatchOne, reconcileQueue, cancelManualCandidate, cancelSearchCandidates | `BacktestLifecycle` |
| Queue (`infrastructure/queue/adapter.ts`) | BullMQ job and lock in Redis | enqueue, remove, failed event, reconcileTerminalJobs | `BacktestLifecycle` |
| Backtest worker (`apps/backtest-worker`) | none of its own | processQueueJob, runClaimedAttempt | `BacktestLifecycle` |
| Completion pipeline | claim token, generation, lease, count on the Candidate row | processCompletion, reconcileCompletions | `BacktestLifecycle` |
| Simulator (`modules/backtesting/domain/simulator.ts`) | its loop variables | simulateBacktest | `Simulation` |
| Replay verification | verification row and job | startReplayVerification, processReplayVerification, reconcileQueue | `ReplayVerification` |
| Search orchestrator (`modules/search/application/service.ts`) | `search_runs` row, promise chain per run | start, pause, resume, cancel, fillAvailableSlots, reconcileRunningRuns | `SearchRun` |
| Search generators (`modules/search/domain`, mapping in `app.module.ts`) | fingerprints, search space | random, domain-guided and genetic generation, submit | `SearchCandidates` |
| Leaderboard (`modules/leaderboard`) | entries of a scope | submit, deletion of Experiments | `Leaderboard` |
| Realtime market stream (`modules/market-data/application/subscription-manager.ts`, `service.ts`, `infrastructure/binance-adapter.ts`) | subscribers, chain of reconciliations, connection, timer, generation, status | subscribeMarketData, unsubscribe, setSubscriptions, connect, finishConnection, handleDisconnect, shutdown | `MarketStream` |
| Market gateway and the page's shared socket (`apps/backend/src/market.gateway.ts`, `apps/frontend/src/api.ts`) | subscriptions per socket; charts per page | command, handleDisconnect, marketSocket | `MarketGateway` |
| Candle store and cache (`modules/market-data`) | rows, cached window, datasets | persist, readCandles, syncMissing, createDatasetSnapshot, reconcileProviderSubscriptions | `CandleStore` |
| Strategy (`modules/strategy`) | definitions, composites, generation audits, and the cascade over backtests | defineStrategy, defineComposite, generateStrategy, deleteDefinition, deleteComposite | `StrategyLibrary` |
| News (`modules/news`) | articles, extraction templates, verdicts | collect, applyTemplate, healTemplate | `NewsIngestion` |
| Sentiment (`modules/sentiment`) | results, snapshots, the scopes that pin one | analyze, createSnapshot, readSnapshot | `SentimentSnapshot` |
| Accounts (`modules/auth`) and the session of the page (`apps/frontend/src/main.tsx`, `api.ts`) | users, tokens; what the page shows | register, login, verify, logout | `AppSession` |
| Frontend screens (`features.tsx`, `strategy.tsx`, `news.tsx`, `market.tsx`) | React state, localStorage, the query cache | section 2 | eleven modules |
| Evaluation and ranking formulas, HTTP controllers, contracts, migrations, scripts | nothing that matters here | | none |

### How the parts interact

A submission inserts the Candidate and its outbox row in one transaction. A
dispatcher (the tail of the submission, the backend's timer, or a worker that
starts) turns the outbox row into a BullMQ job. BullMQ delivers the job at least
once. A delivery claims the Candidate with a fence and a 60 s lease, simulates
it, and writes its outcome under that fence. A callback or the timer then runs
`processCompletion`: it claims the row with a token, a generation and a lease,
and publishes the Experiment, with its Leaderboard entry, and releases the claim
in one transaction, or records a failure. A terminal outcome triggers the Search
Run's fill, which counts the run's Candidates under a row lock and submits new
ones, each on a connection of its own. Pause, resume and cancel come from the
owner at any time.

Browsers hold subscriptions through the gateway. Each subscribe and unsubscribe
queues a reconciliation on one promise chain; it reads the union of the
subscribers and hands it to the subscription manager, which replaces its one
Binance websocket when the union changed. Websocket events, the answers of the
historical reads after an opening, and the reconnection timer reach the manager
as callbacks that captured the generation of their connection. Every candle
that comes is upserted and followed by a rewrite of the cached window, without
a transaction around the two.

Strategies are read, checked and written in separate statements; a delete is a
cascade of up to ten. News calls go through their sources one by one and store
and judge each article on its own. The frontend keeps drafts, deleted ids and
presets in localStorage, and applies answers that come late to whatever screen
is mounted then.

### What is hard here, and what must hold

* **Several writers of one row.** Worker deliveries, recovery, completion
  processors and cancellations update the Candidate row. Fences, claim
  tokens and status predicates decide who loses. An Experiment must rest on an
  Attempt that succeeded, outcomes must be final, a cancelled Candidate must
  stay cancelled, audit data must never be ranked.
* **At-least-once everything.** Enqueues are repeated, jobs redelivered,
  callbacks lost. No submission may be lost; budgets of attempts and claims
  hold.
* **Crashes between two commits.** Outbox, lease expiry and reconciliation
  must bring every Candidate to an outcome.
* **Stale copies.** Pause, resume, cancellations and the error path of a fill
  read a row without a lock and write all its columns back later. A completion
  reads the board, and another one commits before it writes.
* **Late callbacks.** A socket that was replaced still opens, fails, drops and
  answers. The generation must keep it from touching the state of its
  successor; CONNECTED must be true. On the page an answer meets another
  mount, another selection or another session.
* **Read, decide, write.** Candles, strategies, templates and articles are
  looked up before an await and written after it. A closed candle must not be
  reopened, a version not given twice, one template be in force.
* **Numeric edges.** Rounding, gaps through a stop, zero quantities, the last
  candle of a range; half-open intervals of time for sentiment.
* **Resource limits.** One provider websocket; `maxInFlight`, `maxCandidates`,
  the completion budget, the places of the board.

Every hazard is listed in `PROJECT.json` with its line and the properties that
would catch it.

## 2. Modules

| Module | What it is |
|---|---|
| `CandidateLifecycle` | Abstract specification: the transition contract of a Candidate's public status that nobody cancels, and when its Experiment exists. |
| `BacktestLifecycle` | The pipeline behind one Candidate: outbox, queue, deliveries, recovery, completion, cancellation. |
| `BacktestProperties`, `MCBacktestLifecycle` | Its properties and the refinement of `CandidateLifecycle`; symmetry for TLC. |
| `Backtest_proofs` | Type correctness and safety under every fault; the contract without cancellation; the simulator and the board. |
| `SearchRun`, `SearchProperties` | One Search Run: fills, owner commands and crashes around its row and its Candidates. |
| `SearchCandidates` | What a generated Candidate consists of: the three generators, and the mapping back to the strategy library. |
| `SentimentSnapshot` | Results of articles, snapshots found by their content, scopes that pin one, the point a candle sees. |
| `ReplayVerification` | Row, job, leases and recovery of the verification of an Experiment. |
| `Search_proofs` | The proofs about the run, its candidates, sentiment and replay. |
| `MCSearch`, `MCSearchRun` | The four parts above side by side; the loop with the screen that shows it. |
| `MarketStream`, `StreamProperties`, `MCMarketStream` | The realtime stream of one backend: callers, chain, manager, websockets. |
| `MarketGateway`, `GatewayProperties`, `MCMarketGateway`, `Gateway_proofs` | The charts of one page, the socket they share, and the handlers of the gateway. |
| `CandleStore`, `CandleProperties`, `MCCandleStore`, `Candle_proofs` | Rows, cached window and datasets of one pair and timeframe. |
| `NewsIngestion`, `NewsProperties` | Calls of collect and of the template operations on one domain. |
| `Ingestion_proofs` | The proofs about what comes in from outside: the market stream and the news. |
| `StrategyLibrary`, `Library_proofs` | Definitions, composites, generation and deletion, with their properties; the proofs about them. |
| `Simulation`, `Leaderboard` | The loop of the simulator; the board of a scope. |
| `MCServices` | News, library, simulation and leaderboard side by side. |
| `StrategyScreen`, `StrategyTable`, `StrategyBuilder` | Drafts and deleted strategies with localStorage; the table with its ticks and modals; both builders. |
| `BacktestScreen`, `ResultPages` | Presets, the run and the Experiment shown; the pages of its trades on both screens. |
| `SearchForm`, `SearchScreen` | The rules of the setup form; the polled status and the controls of a run. |
| `MarketChart`, `MarketScreen` | One chart with history, live candles and drawing; the layout and the summary line. |
| `NewsScreen`, `AppSession` | Sources, crawls, banner and feed; accounts, tokens, late answers and navigation. |
| `Displays_proofs` | The proofs about market screen, chart, news screen and pages of trades. |
| `MCScreens` | All screens but `SearchScreen` side by side. |
| `Screens_proofs` | The proofs about the other screens, and about all of them side by side. |

Parts that share no state are explored side by side in one run: a variable
`part`, chosen initially, says which one moves, and the sum of their state
spaces is explored, never the product.

A definition named `Bug...` stands before the definition it perverts: it is the
plausible slip (a dropped fence, an off-by-one, a forgotten reset) with which
`PROJECT.json` tries each property. Nothing uses it.

### Granularity

A transaction that locks its rows, and a single SQL statement, is one action. A
read through the pool followed by a write is two. A process crash is an action
that may come between any two of them. What a process remembers of a row is a
record in its own variable (`proc`, `canceller`, `fill`, `user`, `tx`, `req`),
and the write uses the remembered copy exactly where the code does. In the
browser one task of the event loop is one step; a `setState` of a screen that is
gone has no effect, while writing localStorage or the query cache has.

### `BacktestLifecycle` and the code

| Variables | In the code |
|---|---|
| `cand` | lifecycle columns of `backtest_candidates`. Fences and leases are named by the delivery that took them, tokens by the claim; 0 is NULL. |
| `attempts` | `backtest_attempts` by attempt number. `audit` marks trades of an Attempt that finished after cancellation. |
| `experiment` | the Attempt from which the Experiment was built |
| `dispatch`, `dispatcher` | outbox row; progress of each `dispatchOne` |
| `job`, `worker` | the BullMQ job with `attemptsMade`, lock and stall count; each delivery |
| `proc`, `claims` | each `processCompletion`, and the tokens handed out |
| `canceller` | each cancellation, with the row it read |
| `expiredLeases`, `expiredClaims` | leases that lie in the past; time itself is not modelled |

One Candidate is enough: every statement of the repository addresses one
Candidate by id, and nothing but the process pools is shared between two of
them. BullMQ is modelled from how the adapter uses it: `attempts` equals
`maxAttempts`, finished jobs are kept (so that `add` with the same job id is a
no-op), `attemptsMade` grows on a reported failure and not on a stall, a job
whose lock is held cannot be removed.

### The search and the code

In `SearchRun`, `run` is the row (its state and `next_iteration`), `cands` the
Candidate of each iteration number (the unique index on run and iteration),
`lock` the row lock of `withRunLock` and `getByOwnerForUpdate`, `fill` the fill
each backend process is in with its copy of the row, `user` the commands.
Elapsed time and the best score are choices made when the stop condition is
evaluated (`SoftStopMet`), so the properties hold for every clock and every
score. Fingerprints are left out here: an attempt that yields a known one
changes nothing, and running out of attempts is the `fillError` fault.

The Candidates of a run are what the pipeline makes of them, reduced to what is
counted: `QUEUED`; `RUNNING` for the counted statuses after it; `FAILING` for
TERMINAL_FAILURE_PENDING, which no count covers; the outcomes. Two ways back
into the count are kept, because `failCompletion` looks at the claim and not at
the status: a failing `finalizeTerminalFailure` puts a `FAILING` Candidate into
PROCESSING_RESULT again, and so does a completion that was overtaken by a
cancellation (`LATE` is a CANCELLED Candidate whose claim may be open). Such a
Candidate is `RETURNED`; the ones that never left the count are the `Steady`
ones. `STRANDED` and `RETURNED_STRANDED` are counted and in one of the dead ends
that `BacktestProperties` names.

`SearchCandidates` has the fingerprints: `Space` is the search space the run
copied, `library` the rows it goes on to be compared with. Random draws are free
choices, so that one behaviour stands for every seed. In `SentimentSnapshot` a
snapshot is named by its content, as in the code, where the hash of the content
is unique. In `ReplayVerification` the comparison of the replay is a free choice
of the verdict.

### The market and the code

| Variables of `MarketStream` | In the code |
|---|---|
| `phase` | where each caller of `subscribeMarketData` is: awaiting it, subscribed, awaiting the function it returned |
| `subscribers`, `chain`, `waiting` | the service's map; `reconcilePromise` as the queue of calls behind it; the socket whose `connect` the head of the queue awaits |
| `mgr` | `desired`, `connection`, `reconnectTimer` (as the generation its callback captured), `generation`, `reconnectAttempt`, `stopped`, and the last status published |
| `sock` | every websocket ever opened: its state, the streams in its URL, the generation its callbacks captured, and the reconciliation (`finishConnection`) its opening started |

One task of the event loop is one step, with the continuations it releases up
to the next await on the network. An opening that finds its generation over
starts no reconciliation. A malformed message makes the adapter report a
disconnection and mark itself closed without closing the websocket, which stays
open: the state `deaf`. A `connect` whose `connectRealtime` throws is
`ReconcileThrows` or `ReconnectThrows`; one whose socket fails before it opens
is `SocketFails`, where `onDisconnect` comes before the rejection. Delays and
jitter are left out: a pending timer may fire at any time. A subscription is
made and given back at most once per caller; the union is what matters, and a
caller stands for a chart.

`MarketGateway` composes the page and the gateway with the chain of
`MarketStream` in between: `page` is `sharedMarket` of `api.ts`, `server` the
data of each server socket, `wire` the commands under way, `tasks` the handlers
that await Market Data. A handler takes a name that nothing refers to where the
code counts on (`++this.sequence`). In `CandleStore` a process is one asynchronous call and
`proc` its position between the read of the existing row, the decision, the
invalidation of the cache, the upsert and the refresh; prices are reduced to
which version of a candle (forming, closed, corrected) a row has, because that
is all the guards look at.

### The services and the code

`NewsIngestion` models one domain: `template` are the rows of
`news_extraction_templates` by version, `news` the articles by the hash of their
URL, `verdict` the results of the model, `proc` the calls. Whether selectors
match a page and what a model answers is open. `StrategyLibrary` has one
variable per table (`defs`, `comps`, `audits`, `cands`) and `req` for the
statement each request has reached; a Candidate carries how many dependent kinds
of rows it has, which is what the cascade deletes one after another.
`Leaderboard` runs `submit` inside completion transactions under READ COMMITTED:
`tx` holds what each has read, writes appear at `Commit`. `Simulation` is the
loop of `simulateBacktest`, one step per candle, with integer arithmetic that
rounds where the code rounds its decimals.

A screen module keeps the React state of its component, the browser storage
behind it and the requests in flight with what their closures captured. Query
library and React behave as their versions in the lock file do: an entry is
fetched when it is observed unless fresh or invalidated, a mutation's callback of
the latest render also runs after its screen is gone, updates of one task are
batched.

## 3. What TLC checks

Twelve runs; the ten that pass explore their state space completely.

| Run | Instance | Shows |
|---|---|---|
| `cancel_execution` | 2 attempts, 3 deliveries, 1 claim, one manual cancellation; worker crashes, stalls, overruns, failing statements | `ExperimentSound`, `AuditNeverRanked`, `CompletedAttemptIsFinal`, `OnlyOpenClaimRevives` |
| `search_cancel` | 1 attempt, 2 dispatchers, 2 processors, budget 2 with 3 tokens available, a Search cancellation | `OutboxCoversJob`, `ClaimsWithinBudget` |
| `contract` | 2 attempts, 3 deliveries, 2 processors, 2 claims, no cancellation, crashes, overruns, a failing queue and evaluation (no `stall`, `databaseError`, `finalizeError`), fairness | `FailureIsRecorded`, `ImplementsContract`, `EndsUnlessStranded` |
| `search_safety` | the run: 2 backends, 1 command at a time, `maxCandidates` 3, `maxInFlight` 2, 4 iteration numbers, one crash, failing final statements and late completions of its Candidates. Their contents: 3 definitions of 2 families, 2 components, 2 tries, 1 deletion. Sentiment: 2 articles, 2 requests, 2 ranges, of which one does not begin at a candle, windows shorter and longer than a candle. Replay: 2 workers, 3 attempts, 1 stall, 3 claims, 2 recoveries | `BudgetKept`, `CountedInFlightWithinLimit`, `CompletedRunIsDrained`, `ReservedOnlyWhileRunning`, `OnlyUnlockedCopyRevives`; `CandidatesAreFaithful`; `SentimentIsPast`; `ReplayIsSettled` |
| `search_live` | the run with 1 backend that crashes once, all faults and Candidates in dead ends; a screen with 2 runs, 2 controls, 2 selections; fairness | `LoopEnds`, `StatusIsFollowed` |
| `stream` | 2 charts, one stream shared, one retry, 2 faults (failed, dropped or garbled sockets, throwing connects, failed reconciliations), shutdown at any time, fairness | `ConnectedIsTrue`, `OnlyHeldSocketIsLive`, `DesiredIsUnion`, `CallersAnswered`, `RecoversUnlessHistoryFails` |
| `gateway` | 4 charts, of which two share a stream and one asks for a stream nobody serves, 2 connections, 4 changes, fairness | `SubscribersServeCharts`, `SocketsSettle` |
| `candles` | 2 live handlers, a reader, a reconciliation, 3 instants, 1 loss of the stream, 2 calls at a time, one correctable candle, a window of 2 | `CopiesRestOnRows`, `ReconciledUnlessOvertaken`, `ClosedIsFinal` |
| `services` | news: 2 users, 2 articles and an invented one, 2 versions, 1 redirect, 2 calls. Library: 2 owners, 1 family, 2 contents, 2 requests at once and 3 in all, 3 ids. Simulation: every range of up to 6 candles of 6 shapes, under every signal. Leaderboard: 5 Experiments with a tie and one that is not eligible, 2 completions at once, 2 places, 1 rollback, deletion of one Experiment, whole or stopped half way, and of the scope | `CollectionIsSound`, `OwnerAndVerdictStand`; `LibraryIsSound`, `DeletionIsExact`; `TradesAreSound`; `BoardIsTheBest`, `LeavesForBetter` |
| `screens` | ten parts; 1 to 3 drafts, mounts, edits, requests, pages of each; 2 drafts of which localStorage keeps one | `StorageIsTrue`, `DraftsChangeForACause`, `ScreensAreTrue` (one clause per part), `BindsResult` |
| `v_cancelled_revived`, `v_stranded_worker` | end in a violation | section 5 |

What the properties that bundle several statements say:

* `SubscribersServeCharts`: no subscriber of Market Data is left that nothing
  can give back, the list of a socket is what its one subscriber receives, and
  once nothing is under way the server sends what the charts of the page show -
  unless two handlers of the socket overlapped, or a subscription was rejected.
* `CopiesRestOnRows`: a cached closed candle is stored closed, and a sealed
  dataset has a closed candle for each slot of its range.
* `CollectionIsSound`: one version of a template is in force unless template
  operations crossed or one stopped between its two statements; every article a
  finished call found is stored; none is stored that only a model mentioned.
* `LibraryIsSound`: the versions of a family are 1, 2, ... n without equal
  contents, a generation that fails writes nothing, a composite and a Candidate
  name rows that exist unless a deletion ran while they were made.
  `DeletionIsExact`: a deletion removes only rows of its user that mention its
  target, and stops half way only for a cause that is named.
* `TradesAreSound`: Trades follow each other after the warm-up and none is
  stopped in its entry candle; costs and rounding never turn into gains; every
  exit is a price its candle traded at; a longer range keeps the Trades of a
  shorter one, so nothing looks ahead; each Trade starts from the equity the
  previous one left.
* `CountedInFlightWithinLimit`, `CompletedRunIsDrained`: the Candidates that
  were counted ever since they were reserved stay within `maxInFlight`, and a
  COMPLETED run has none of them. Nothing is said of those that a failing
  completion put back into the count.
* `LoopEnds`: a RUNNING run with a budget gets into another state, or it has a
  Candidate in a dead end, for which it waits for ever.
* `BoardIsTheBest`: an eligible Experiment that is not shown, and whose deletion
  has not begun, has lost to K admitted ones; until a first deletion begins the
  board is as full as there are Experiments for it.
* `StorageIsTrue`: a strategy that was saved while no request that deletes it
  was under way survives until its deletion is asked for, and while no request
  of an earlier mount answers localStorage holds the newest drafts of the
  screen, as many as it keeps. `DraftsChangeForACause`: a draft leaves
  localStorage because it was removed, because newer ones fill it, or because a
  deletion writes back the drafts of its click.
* `CandidatesAreFaithful`: what runs is what was generated, it obeys the bounds
  and the categories of the search space as far as descriptors tell, and a
  refusal has one of five named causes.
* `SentimentIsPast`: no candle of a backtest sees an article published after
  its close or before the window that ends there, every article of a snapshot is
  seen by exactly one candle, and a sealed snapshot is one content.
* `ReplayIsSettled`: a verdict is that of the last claim and stays; a completed
  job leaves no open row behind, unless its holder still works or a delivery was
  turned away by the lease of one that did not finish.
* `ScreensAreTrue`: what runs is what the form shows, what is shown exists, the
  form and the builders offer what their checks accept, with the exceptions of
  section 5, no deletion reaches a row the user did not choose, pages show every
  row once, a chart shows the stream that was asked for, and the query cache
  holds no answer to an earlier session.

**Why these bounds.** Two attempts give a retry and a last attempt; three
deliveries give a redelivery of either, so that an old and a new worker overlap
on the same attempt number, the case that the fences exist for. Two claims give
a claim that is not the last and one that is, and a third token in
`search_cancel` lets a budget violation show. Two processors overlap; a third
would meet only claims the other two also meet. In `SearchRun` two fillers
contend for the lock; a budget of three with two slots gives a partial second
fill, and the fourth iteration number is the room in which a violation of the
budget would show. In `stream` two charts overlap without being equal, so the
union grows, shrinks and stays the same; two faults exhaust the one attempt or
hit a connection and its retry. Its `MaxSockets` is the number of callers'
changes plus the faults: a socket is opened by a reconciliation or by a timer,
and each timer costs a fault, so the bound never bites. In `gateway` two
connections give a lost one and its successor. In `candles` three instants give
a closed, a closing and a forming candle around one loss. In `services` two
concurrent calls are what every race here needs, one of them stale; six candles
give a warm-up, an entry, an exit and a re-entry with room for a last candle.
The screens have two mounts, so that an answer can meet the next one. The strategy
screen makes two drafts and its storage holds one: twenty in the code, and the
theorems are about any number. The search form has sizes that read the same as
a number and as an integer and ones that do not.

`CHECK_DEADLOCK FALSE` is given because a Candidate that reached its outcome,
and a run that ended, really stop, because deliveries, claims, calls and mounts
are bounded, and because a stream nobody wants has nothing to do. Symmetry is
used for processes, users, contents and requests in runs without liveness.

**Fairness.** Workers, dispatchers and processors run as soon as they can
(weak fairness). An enqueue that may fail any number of times but not for ever
needs strong fairness. Timers of BullMQ, leases and the reconciliation interval
(`apps/backend/src/compose.ts`, `setInterval` around `reconcileRuntime`) fire.
Nothing has to fail and nobody has to give a command. In `SearchRun` a fill gets
the lock again and again since the timer calls it again and again: strong
fairness on `FillBegin` and on the write of the catch, because others may hold
the lock in between. Backtesting goes on with every counted Candidate (weak
fairness on `Progress`) *unless it is in a dead end*: `v_stranded_worker` and the
other two dead ends show that the code does not end every Candidate, so a
`STRANDED` one never moves, and nothing makes an uncounted one move. In
`MarketStream` promises continue and timers fire; a
socket opens or fails and a historical read is answered or fails, because the
TCP connections under them time out (the code has no timeout of its own). In
`MarketGateway` the page connects, queued reconciliations are answered and a
server socket receives or notices that its page has gone. On the screens the
polling timer of a mounted query fires and its requests are answered. Callers
need not come or go and nobody has to shut down. No liveness is claimed for
news, library, leaderboard and candles: their calls await services that may
never answer, without a timeout.

## 4. What is proved

Each theorem holds for every value of the constants: any number of attempts,
deliveries, claims, processors, cancellations, dispatchers, fills, commands,
charts, connections, calls, articles, candles, requests, families, contents, Experiments,
and any set of faults, unless an assumption is named. `TypeOK` stands for the type invariant of the module.

| Module | Theorem | Statement |
|---|---|---|
| `Backtest_proofs` | `TypeCorrect` | `Spec => []TypeOK` |
| | `ExperimentsAreSound` | `Spec => []ExperimentSound` |
| | `SuccessIsFinal` | `Spec => CompletedAttemptIsFinal` |
| | `RevivalNeedsOpenClaim` | `Spec => OnlyOpenClaimRevives` |
| | `OutboxCovers` | `Spec => []OutboxCoversJob` |
| | `CompletionBudgetKept` | `Spec => []ClaimsWithinBudget` |
| | `AuditsAreNeverRanked` | cancellations do not overlap: `Spec => []AuditNeverRanked` |
| | `OutcomeIsFinal` | no cancellation: `Spec => TerminalIsFinal` |
| | `LifecycleImplementsContract` | no cancellation, no `finalizeError`: `Spec => ImplementsContract` |
| | `FailureKindIsTruthful` | the same: `Spec => []FailureKindTruthful` |
| | `FailuresAreRecorded` | the same, and no `databaseError`, no `stall`: `Spec => []FailureIsRecorded` |
| `Search_proofs` | `SearchTypeCorrect` | `Spec => []TypeOK` |
| | `ReservationsWithinBudget` | `Spec => []BudgetKept` |
| | `ReservationsAreDense` | `Spec => []NoIterationSkipped` |
| | `CompletedRunsAreDrained` | `Spec => []CompletedRunIsDrained` |
| | `FlightStaysWithinLimit` | `Spec => []CountedInFlightWithinLimit` |
| | `ReservationsWhileRunning` | `Spec => ReservedOnlyWhileRunning` |
| | `UnlockedCopiesRevive` | `Spec => OnlyUnlockedCopyRevives` |
| | `CandidatesStayFaithful` | `CandidatesSpec => []CandidatesAreFaithful` |
| | `SentimentIsAlwaysPast` | `SentimentSpec => []SentimentIsPast` |
| | `ReplaysAreSettled` | `ReplaySpec => ReplayIsSettled` |
| `Ingestion_proofs` | `StreamTyped` | `Spec => []TypeOK` |
| | `ConnectedStaysTrue` | `Spec => []ConnectedIsTrue` |
| | `HeldConnectionServes` | `Spec => []ConnectionServesDesired` |
| | `HeldSocketIsOnlyLive` | `Spec => []OnlyHeldSocketIsLive` |
| | `UnionIsServed` | `Spec => []DesiredIsUnion` |
| `Gateway_proofs` | `SubscribersAlwaysServe` | `Spec => []SubscribersServeCharts` |
| `Candle_proofs` | `CopiesAreSound` | `Spec => []CopiesRestOnRows` |
| | `ClosedStaysClosed` | `Spec => ClosedIsFinal` |
| | `ReconciliationIsComplete` | `Spec => []ReconciledUnlessOvertaken` |
| `Ingestion_proofs` | `CollectionStaysSound` | `NewsSpec => []CollectionIsSound` |
| | `OwnersAndVerdictsStand` | `NewsSpec => OwnerAndVerdictStand` |
| `Library_proofs` | `LibraryAlwaysSound` | `LibrarySpec => []LibraryIsSound` |
| | `DeletionsAreExact` | `LibrarySpec => DeletionIsExact` |
| `Backtest_proofs` | `BoardIsAlwaysTheBest` | `BoardSpec => []BoardIsTheBest` |
| | `EvictionIsForBetter` | `BoardSpec => LeavesForBetter` |
| | `TradesAreAlwaysSound` | `SimSpec => []TradesAreSound` |
| `Screens_proofs` | `StorageStaysTrue` | `StrategySpec => []StorageIsTrue` |
| | `DraftsAlwaysChangeForACause` | `StrategySpec => DraftsChangeForACause` |
| | `BacktestScreenStaysTrue` | `BacktestSpec => []ScreenIsTrue` |
| | `TableStaysTrue` | `TableSpec => []TableIsTrue` |
| | `FormStaysCoherent` | `FormSpec => []FormIsCoherent` |
| | `BuilderStaysTrue` | `BuilderSpec => []BuilderIsTrue` |
| | `SessionStaysTrue` | `SessionSpec => []SessionIsTrue` |
| | `ScreensStayTrue` | `Spec => []ScreensAreTrue` |
| `Displays_proofs` | `NewsStaysTrue` | `NewsScreenSpec => []NewsIsTrue` |
| | `PagesStayTrue` | `PagesSpec => []PagesAreTrue` |
| | `MarketStaysTrue` | `MarketSpec => []MarketIsTrue` |
| | `ChartStaysTrue` | `ChartSpec => []ChartIsTrue` |

Every module carries its assumptions on constants as a named `ASSUME`: bounds
are natural numbers, names that the model uses as markers are no data. A few say
more than that. `Leaderboard`: the Experiments are finitely many and scores are
integers (any finite set of numbers has such an order). `Simulation`: the
slippage is at most 100 %; the code accepts more, see section 5.
`CandleStore`: the reader and the reconciliation are no live handlers.
`SearchRun`: a run has a stop condition, which `start` demands.
`SearchCandidates`: every definition of the search space is one of the owner's,
has the parameters that its family describes, and bounds are integers; at least
one component is allowed. `StrategyTable` and `ResultPages`: a page holds
at least one row. `StrategyBuilder`: weights and values are typed as integers
(parts of a whole). `MarketChart`: the list keeps at least a page of candles, and
fewer candles close in a behaviour than a page holds. The last one bounds the
time a behaviour covers, not what may happen in it: without it an answer
could be a whole page behind the chart it arrives at.

**The pipeline.** `TypeInv` strengthens `TypeOK` with what a job and its
deliveries know of each other: a job that is still to run has made fewer than
`MaxAttempts` attempts, so no delivery is numbered above them. `SoundInv` adds
to `ExperimentSound` that a successful Attempt has left the executing states
behind: no fence can be taken any more, so no Attempt is reopened and no later
one can displace it. It survives cancellations, because a cancelled status is
not an executing one and a stale cancellation writes only `CANCELLED`.
`CoverInv` covers the moments around `markDispatchDispatched`: a QUEUED row
whose outbox row is DISPATCHED, *or whose dispatcher is about to mark it*, has a
job, and no cancellation has begun to remove it. `AuditInv` says that a row with
an audited Attempt is CANCELLED and without an open claim. It needs cancellations
that do not overlap, and really so: of two that read the row before either
writes, the second restores the claim columns the first one saw closed, and the
processor that held them can rank the Attempt after all (27 steps; section 5).
`CountInv` shows that the completion budget survives such cancellations, although
they write old counts back: a row and every copy of it carry the count of the
claim they name, only the newest claim may still be held, and a row that is not
at an end counts all claims and names the one that is held. A CANCELLED row
comes back only through a claim that is held, which is the newest, and so with
the right count.

The contract needs more. `HeldInv` says when a row is held: a fence only
while BACKTESTING, a claim only while completion is pending, and the count on
the row is the number of tokens handed out. `ClaimInv` ties a processor that
holds the claim to the row it read: while the token is unchanged the status is
the one it saw, so that `failCompletion`, which checks no status, cannot move a
row a worker or the recovery moved meanwhile. Both are false under cancellation,
and `finalizeError` breaks the contract (the failed statement makes
`failCompletion` put a failing Candidate into `PROCESSING_RESULT`): these are
the assumptions of the theorems. The refinement then has one step per action:
most stutter, the others are named transitions. `KindInv` follows the failure
kind from the Attempts to the row. For `FailureHasAttempts` one needs `AloneInv`
(at most one delivery is live and it holds the job's lock) and `OwnerInv` (the
row is BACKTESTING exactly while its active Attempt, and no other, is RUNNING).
A spurious stall gives two live deliveries, and a failed statement a delivery
that ends without closing its Attempt; with either an abandoned Attempt stays
RUNNING beside a FAILED Candidate, which is why both are excluded.

**The Search Run.** `RunInv` is inductive. `LockInv`: a fill that is `locked`,
`filling` or `saving`, or a cancellation, holds the lock, and the row stays
RUNNING under such a fill. `DenseInv`: every iteration number below the
`next_iteration` of the row *and of every copy anybody holds* has its
Candidate. This is why stale saves by pause, resume or the catch are harmless
to reservations: they can only turn the counter back, and the numbers they turn
it back to exist already, so that a fill that uses them again inserts nothing.
`BudgetInv`: no reservation lies beyond the budget, and a filling fill has only
the slots the budget leaves. `DrainInv`: a copy that says COMPLETED was made
when nothing that counts was in flight, and only the lock holder can reserve.
Both counts are of the `Steady` Candidates, which only a reservation adds to: a
fill counts them and the returned ones, so it never has more room than the
steady ones leave, while a returned one may come on top at any time.
`FlightInv` bounds what a fill may still add: the steady Candidates *without
the one whose number it uses next*, together with the slots it has left, are at
most `MaxInFlight`. The exception is for the number of a submission that threw,
which may exist already and is used again.

**The market stream.** `StreamInv` is inductive. Its parts: no socket
carries a generation above the manager's, and one of the current generation is
alive and for the streams desired now; the held connection is of the current
generation; CONNECTED comes with an open socket of the current generation whose
history is reconciled; a chain that is empty, or whose only entry already waits,
has handed the union over. The last part is why no change is lost: whoever
changes the subscribers queues a reconciliation behind that change, and only a
reconciliation that starts reads the union. `OnlyHeldSocketIsLive` needs that,
as long as no reconciliation failed, a pending timer means that no connection
is held, so `Reconnect` has nothing to leave open.

**The gateway.** `GatewayInv` is inductive. A client sends what changes, never
what it wants, so the invariant has to say what the commands on the wire add up
to: `After(l, q)` is the list that `l` becomes by the commands `q`, where the
last one that names a stream decides, and `WireInv` says that the list the
handlers of the page's socket will leave, followed by the commands under way, is
what the charts show. Sending a command applies it at the end of the wire,
reading one applies it at the head, and a new connection starts from nothing,
where the UNSUBSCRIBEs kept from the time without one do no harm. `IdInv` ties a
subscriber to the handler that makes it and, afterwards, to the function its
socket gives it back with; `SocketInv` says that of the handlers of a socket
that did not overlap at most one has a list to subscribe, and that the list the
socket keeps between handlers is that of its one subscriber. A connection that
is still to come has left no trace (`FreshInv`). What overlapping handlers do to
a socket is in section 5 and excluded by `tally.overlapped`, not by a fairness
or an order of the model.

**The candle store.** Everything rests on a closed row never being reopened:
the upsert's own guard looks at the row it meets, not at the one the process
read. So what was complete when it was read stays backed: `StoreInv` says of the
rows a process holds, of the cache and of the dataset that their closed slots
are closed in the store. `SyncInv` follows one reconciliation: unless the stream
was lost again, the range it works on begins at the last closed candle before
the loss, and what is missing of it is what it has still to persist. The
exception `overtaken` is a live close stored between the loss and the read of
the boundary; the code has the gap there (section 5).

**News.** `NewsInv` has four parts: types; a stored row has an owner and a text,
and a verdict needs a row; what a call found is stored, or still in its loop
(`Kept`); and `TemplateForce`. A template operation that runs while another call
is changing templates marks the history variable `crossed`; while there is no
such mark, and none for an operation that stopped half way, at most one call is
between its statements, and what every call looked up before still stands.

**The strategy library.** A request reads, checks and writes in statements that
commit one by one, and no transaction holds them together, so `LibraryInv` says
what is still true of what a request remembers. `ShapeInv` is what a request
knows of itself, stage by stage. `RecordInv`: an id names one row of one table
for good, the rows prepared but not yet written included; this is what makes
"the row that was deleted" a notion that survives interleaving. `HistoryInv`: in
a family that lost no row the versions below a row are taken, and with other
contents (`Follows`). It is claimed of prepared rows too, and a row stored
meanwhile cannot spoil it, because the unique key lets only one of two rows with
a version in. That there are no gaps and no repetition follows by counting: the
rows of a family correspond one to one to `1 .. n`. `PartsInv`, `RefsInv` and
`AuditInv`: what a row refers to is stored, or a delete and a use of it
overlapped, which the history variable `overlap` records. Beside them stand the
two views of that overlap: `UserOK` (what a request has checked is still there,
or its delete overlapped) and `DeleteOK` (what a delete has behind it is gone, or
somebody used its target meanwhile). `DeleteOK` goes statement by statement
through the four layers of rows below a Candidate. The steps are proved over
frame lemmas: rows go only by a delete that names them, and come only from a
request or a worker that holds what they refer to.

**The leaderboard.** A completion decides on reads that are out of date when it
commits, and there is no lock. `BoardInv` shows why the board is right all the
same: what it has read remains true of the Experiments *ever admitted*, whose
scores and times of entry never change. Who has lost to K of them has lost for
good, an eviction commits with the entry of a strictly better one, and more than
K rows may be active without one of the best K being missing. The deletion of a
strategy takes the entry and the Experiment in two commits; between them the
Experiment is `leaving`, and what is claimed of those still stored is not
disturbed by it, since `added` of a deleted entry keeps counting as admitted.

**The simulator.** `Sound` holds of the loop's variables between any two
statements of a step, not only between candles: one lemma for each of opening,
closing, protective exits, forced close, signal. The arithmetic (rounding to
the nearest, percentages, the sign of a profit) is in lemmas of its own. With
tiny prices a stop level may round to the market price itself, which is why a
stop is only "no gain" and a take "no loss". `LongerRangeKeepsTrades` compares
two steps from the same state and needs no induction over the range. All this is
for a slippage of at most 100 % (`InputIsValid`).

**Generated Candidates.** The rules (bounds, order of the parameters, categories,
size) hold when a candidate is drawn, because the generators end with them;
what can go wrong is the way from there to the run. `SubmissionInv` says what a
submission knows between its statements: a component that was mapped to an id is
described by the row of that id, *if there is still one*, since rows keep their
ids and contents for good (`LibraryOK`); one that was mapped to a row whose
implementation was replaced is that very row, unmutated; and two components have
one id only when they are the same definition. So what is submitted runs as it
was generated, or it is refused for a deletion, a double, a definition that is
no longer current or a warm-up longer than the scope has. Parameters are kept in
order by proof over `Repaired` and `Mutants` for any bounds, not by enumeration.

**Sentiment.** `SentimentInv`: the points of a snapshot are those of the results
it was made from, none of them before its range; two snapshots of one command
with the same points are one; and what a backtest has read of its scope is what
its snapshot says. Results and snapshots only grow, so all this survives
whatever runs between two statements of a call. The rest is arithmetic of the
grid: the window of a result ends at or after it and less than a span later
(`CeilingBounds`), so what is known at a close is past. That nothing is dropped
follows by counting: `loadSentiment` fails when the candles found fewer points
than there are, there is one point for every window (`PointsOfWindows`), and so
every window was found (`EveryWindowIsFound`).

**Replay.** `ReplayInv`: a RUNNING row carries the last token given out, a
verdict was written under it, and a job that is over has left an open row only
behind the lease of another delivery. A delivery that lost its lease finds
another token in the row, hence the fence.

**The screens.** Each screen is one invariant over what its closures have
captured. *Strategies* (`ScreenInv`): what was saved is on no list of
deletions and in no request that deletes; the draft of a generation under way
has a number nobody has seen; and what a click on delete takes away counts as
removed from that click. That storage holds the newest drafts is kept through
writing an older list because taking the newest of them twice, or of more
drafts that are older, changes nothing (`NewestIsNewest`, `MoreCrowded`); a draft
that is not stored has as many newer ones as storage holds (`FullInv`). *Backtest* (`BtInv`): a request started by an unchanged
form names a scope that holds this form, a chosen preset holds the form unless
edits crossed its creation, and a Candidate tests a scope there is.
*Session* (`SessionInv`): a query whose answer is still wanted was asked with the
token of the page; a change of the token cancels all of them, so that a late
answer of an earlier session finds nobody who wants it.
*Table* (`TableInv`): what is on display, ticked or listed by a modal was seen.
*Form* and *builders*: no category is required and forbidden, and where the two
checks of the form look at the same thing they look at it alike; every member
has a weight; while a save is under way the form holds the name of the click, unless
it was edited since. *News* (`NewsInv`): a message has a timer, or a crawl of
its own that runs, and the page begins within the feed unless the feed shrank.
*Pages* (`PagesInv`): the stack of cursors is where the pages begin; the pages
of the table are counted by a division whose bounds are a lemma.

*The market screen* (`MarketInv`): panels have names of their own, which makes
the layout valid when it is read back, and the states reported are those of its
panels and of the ghosts that a fallback left. *The chart* (`ChartInv`) is the
most intricate one. Every slot that ended is closed in the list, or its close is
on the wire or in the queue of a reconciliation, or a cause is on record, or the
slot is *below all candles* (`CoverInv`). The last case is there because the list
drops its oldest candles; it is longer than the slots still to come, so that
what it drops lies in the first page. `AskedInv` says that while a reconnection
waits for a page, the list gets no closed candle that the page does not have: the
page may replace the list. `DrawnInv`: a list that never had a gap is seamless,
and a step from a seamless list has a plan that draws it exactly.

`ScreensStayTrue` puts them together: a step of the composition is a step of the
screen in use and a stutter of all the others (`OnePartMoves`), so each
screen's theorem holds of the composition's behaviours.

**Only model-checked.** Liveness (`EndsUnlessStranded`, `LoopEnds`,
`StatusIsFollowed`, `CallersAnswered`, `RecoversUnlessHistoryFails`,
`SocketsSettle`, `BindsResult`) is out of reach of the prover. Every other
property of a passing run is stated by a theorem, whose assumptions, where the
table names any, hold in that run.

## 5. Where code and documents disagree

| Run | Property | What happens |
|---|---|---|
| `v_cancelled_revived` | `CancelledIsFinal` | `failCompletion` fences by token but not by status; a cancellation keeps the token. A processor that loses its final write to a cancellation moves the CANCELLED row back to PROCESSING_RESULT, or to FAILED. |
| `v_stranded_worker` | `EventuallyTerminal` | After a worker crash the early redelivery is ignored and completes the job; the later re-enqueue is a no-op on the kept job id. |

The documents' lines are quoted in `PROJECT.json`. Many properties above carry
an exception ("unless ..."); each exception is a place where the code falls
short of what one would expect, or of what its documents say. They are collected
here.

**Backtesting.** A cancellation that read the row before the outcome committed
writes CANCELLED over COMPLETED or FAILED. Two overlapping cancellations of one
Candidate can have its audit Attempt ranked. A processor that dies in the last
claim, and a job that stalled too often with attempts left, strand their
Candidate: with the spent job of `v_stranded_worker` these are the three dead
ends of `EndsUnlessStranded`. With a failing statement or a spurious stall an
abandoned Attempt stays RUNNING beside a FAILED Candidate
(`FailureIsRecorded`). Dispatch recovery takes the 100 oldest rows only.
The simulator accepts any slippage although
`openspec/specs/backtest-log-spec.md` bounds it by 500 basis points; above
100 % a LONG is exited at a negative price, and once that has made the equity
negative a SHORT is entered at one, where costs turn into gains. `TradesAreSound`
and its theorem are about slippage up to 100 % only. A replay delivery that is turned
away by a live lease completes its job, and recovery's re-enqueue is a no-op
(`openspec/specs/backtest-log-spec.md` expects the job to be run again);
transient errors of a replay are recorded as NON_REPLAYABLE.

**Search.** A pause, a resume or the catch of a fill writes a stale copy over
CANCELLED; `OnlyUnlockedCopyRevives` bounds this to the three. A
TERMINAL_FAILURE_PENDING Candidate is counted neither as queued nor as running
although `openspec/specs/search-spec.md` gives it a slot: its slot is refilled,
or its run completes, and then a failing `finalizeTerminalFailure` makes it
count again, so that more than `maxInFlight` are in flight, or one is under a
COMPLETED run. A completion that loses to a cancellation does the same to a
CANCELLED Candidate. Both are why `CountedInFlightWithinLimit` and
`CompletedRunIsDrained` speak of the Candidates that never left the count. A
Candidate in a dead end is counted for ever and keeps its run RUNNING. A
COMPLETED run can be cancelled. A fill that
throws ends the round for the runs behind it. Two components of one family may
mutate into the same definition, and the submission is then refused; a
definition whose implementation was replaced has no descriptor, so its values
and its category escape the rules, and unmutated it is refused.

**Market.** A failed reconciliation schedules a retry while its socket is open;
when that socket drops first, the drop schedules nothing because a timer is
pending, and the timer's generation is over: the stream stays RECONNECTING. A
malformed message, and the retry after a failed reconciliation, leave a
websocket open. In the gateway a chart that closes while the first subscription
of its socket is pending can leave its subscriber behind
(`NoStrandedSubscriber` excepts handlers that overlap). A live close that
arrives before a reconciliation has read its boundary leaves a gap of candles
(`overtaken`), and a correction may be overwritten by a live close that races
it.

**Services.** News: putting a template in force takes two statements, so
one that stops between them leaves no version in force, and two that cross may
leave two; a second user never gets a
row of an article that another one has. Strategies: identical concurrent
definitions have the second refused by the unique key, not returned; deleting a
component of a generated composite fails on the audit's foreign key after its
backtests are gone; a generation inserts a composite again that was deleted
meanwhile. Leaderboard: `submit` takes no lock although
`openspec/specs/ranking-spec.md` says so, and more than ten rows may be active;
an eviction or a rejection that crosses a deletion leaves a place empty, which
is why `BoardStaysFull` is claimed until a first deletion begins. The cascade
that deletes a strategy commits the deletion of the entry before that of the
Experiment; between the two, and for good if it stops there, the Experiment is
off the board although it has lost to nobody, which is why `AbsentHasLost`
leaves an Experiment whose deletion has begun out. Sentiment: of two
concurrent scopes for one range the second one falls back to the other model or
to none when its insert meets the unique hash.

**Frontend.** Polling of a run stops at a terminal or paused status, so a lost
answer to a control request leaves a stale status, and so does a fill that
fails after its run was paused: the run is FAILED and the screen shows PAUSED.
Drafts are written back from
the closure of a request and may lose or resurrect one another. localStorage
keeps the 20 newest drafts and silently drops older ones (`strategy.tsx:125`),
which are gone after the next mount. A strategy that is saved while the purge of
the mount, or a deletion, that names its row is under way is reported as saved
and deleted all the same (`strategy.tsx:2472`): `SavedSurvives` leaves out what
was saved under such a request. A delete
that the backend refuses is reported as success.
The start button of a search and `validateSearchParameters` differ. The button
is enabled, and pressing it ends in an error, when the concurrency or the stop
value is no positive integer, and when a category was allowed after it was
forbidden. It is disabled, although the check would accept, when a strategy
that needs sentiment is selected for a scope without a sentiment snapshot. An
ensemble size that is empty, a fraction or written with an exponent is read as
two different numbers by the two. `ButtonAgreesWithCheck` names these cases and
is about all others.
A logout clears the query cache and the socket, but not localStorage: drafts, the active draft,
deleted ids and custom names (`strategy.tsx:111-196`) lie under keys that do not
depend on the account and are shown to the next one, although
`openspec/specs/frontend-spec.md:412` has drafts cleared. `SessionIsTrue` is
about the query cache and the socket.
A chart whose list has a gap below its newest candle updates an older candle
after "Reload latest history", which the chart library refuses by throwing.
The list of trades follows the selected pair, its title the primary chart. A
late answer of `/auth/me` navigates away from where the user went, and a late 401
of an earlier session ends the new one. Pages of trades beyond 2000 are empty.
A negative weight passes the form and is refused by the backend.

## 6. Not modelled, and what is left

Not modelled, with the reason in `PROJECT.json`: evaluation and ranking formulas
(floating point), HTTP controllers and validation, shared contracts, migrations
and tooling. Of the parts marked *partly*, what is left out is presentation,
parsing of pages and feeds, cursors, statistics that only read, and the signals
of the indicators.

Smaller steps that are merged or left out where no property depends on them: in
`CandleStore` some awaits of a read and of a reconciliation are one step, a
failing read of the cache is left out, and a cached window is not compared with
a range that starts before it; in `MarketChart` the shared socket stays the same
when the only chart is replaced.

Left to do: the **composition of `SearchRun` with `BacktestLifecycle`** for
several Candidates. `SearchRun` has its own description of its Candidates,
failing final statements, late completions and dead ends included; that
`BacktestLifecycle` implements that description is not shown.

A module that is proved about has its parameters as CONSTANTS with named
assumptions, one action per operation, invariants as conjunctions of named
parts and no RECURSIVE operator. `SUBSET X \ Y` is written with parentheses
throughout, since the two parsers bind it differently.
