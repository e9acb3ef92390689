------------------------------ MODULE CandleStore ------------------------------
(***************************************************************************)
(* The candles of one pair and timeframe: live candles, historical reads   *)
(* and the reconciliation of a new stream write the same rows, and every   *)
(* write is followed by a rewrite of the cached window.                    *)
(*                                                                         *)
(* Slots are the intervals of the timeframe grid; slot k is forming at     *)
(* clock k and closed afterwards.  A process is one asynchronous call and  *)
(* a step runs to its next answer from the database, the cache or the      *)
(* provider.  Prices are reduced to which version of a candle a row has.   *)
(***************************************************************************)
EXTENDS Naturals, Sequences, FiniteSets, FiniteSetsExt

CONSTANTS
  Live,        \* handlers of live candles, which are not serialised
  Reader,      \* a call of readCandles or createDatasetSnapshot
  Syncer,      \* reconcileProviderSubscriptions
  MaxClock,    \* bound on the clock
  MaxDrops,    \* bound: how often the stream is lost
  MaxBusy,     \* bound: calls that run at a time
  Correctable, \* closed candles that the provider may correct
  Window       \* LATEST_CANDLE_CACHE_WINDOW

Slots == 1 .. (MaxClock - 1)

ASSUME StoreBounds == /\ MaxClock \in Nat \ {0} /\ MaxDrops \in Nat /\ MaxBusy \in Nat
                      /\ Correctable \subseteq Slots /\ Window \in Nat \ {0}
ASSUME ProcessesDiffer == Reader # Syncer /\ {Reader, Syncer} \cap Live = {}

VARIABLES
  clock,
  truth,     \* the slots the provider has corrected
  store,     \* market_candles
  cache,     \* the cached window
  proc,      \* the processes
  stream,    \* whether live candles arrive, and how often they stopped
  dataset,   \* the dataset that was sealed last, or an empty one
  sync       \* what the last reconciliation promises

storeVars == <<clock, truth, store, cache, proc, stream, dataset, sync>>

Processes == Live \cup {Reader, Syncer}
Versions == {"forming", "closed", "corrected"}
Rows == [Slots -> Versions \cup {"none"}]
Closed(v) == v \in {"closed", "corrected"}
ClosedSlots(rows) == {k \in Slots : Closed(rows[k])}
NoRows == [k \in Slots |-> "none"]

Item == [slot : Slots, version : Versions, historical : BOOLEAN]
Idle == [pc |-> "idle", todo |-> <<>>, rows |-> NoRows, lo |-> 0, hi |-> 0, seal |-> FALSE]

Init ==
  /\ clock = 1 /\ truth = {}
  /\ store = NoRows /\ cache = NoRows
  /\ proc = [p \in Processes |-> Idle]
  /\ stream = [on |-> FALSE, drops |-> 0]
  /\ dataset = [lo |-> 1, hi |-> 0, rows |-> NoRows]
  /\ sync = [lost |-> 0, to |-> 0, overtaken |-> FALSE]

-----------------------------------------------------------------------------
(* Operators                                                               *)

\* missingRanges: the slots of a range without a closed candle.
Missing(rows, lo, hi) == {k \in lo .. hi : ~Closed(rows[k])}

\* refreshCandleCache keeps the latest closed candles and the last forming one.
LatestClosed(rows) ==
  {k \in ClosedSlots(rows) : Cardinality({j \in ClosedSlots(rows) : j > k}) < Window}
Kept(rows) ==
  LET forming == {k \in Slots : rows[k] = "forming"}
  IN [k \in Slots |-> IF k \in LatestClosed(rows) \/ (forming # {} /\ k = Max(forming))
                      THEN rows[k] ELSE "none"]

\* readCachedCandleWindow.  The caller's range has ended, so its end is within
\* the completeness watermark exactly when no closed candle is missing.
Covers(rows, lo, hi) ==
  ClosedSlots(rows) # {} /\ lo >= Min(ClosedSlots(rows)) /\ Missing(rows, lo, hi) = {}

\* fetchHistorical: the candles of some closed slots, in order.
HistoricalItem(k) ==
  [slot |-> k, version |-> IF k \in truth THEN "corrected" ELSE "closed", historical |-> TRUE]
HistoricalItems(slots) ==
  [i \in 1 .. Cardinality(slots) |->
     HistoricalItem(CHOOSE k \in slots : Cardinality({j \in slots : j <= k}) = i)]

MayStart == Cardinality({p \in Processes : proc[p].pc # "idle"}) < MaxBusy

Set(p, changes) == proc' = [proc EXCEPT ![p] = changes]
Goto(p, pc) == Set(p, [proc[p] EXCEPT !.pc = pc])
Item1(p) == Head(proc[p].todo)

-----------------------------------------------------------------------------
(* persist and refreshCandleCache                                          *)

\* A process is done with its first candle, or with all of them.
Advance(p, r) ==
  IF Len(r.todo) > 1 THEN [r EXCEPT !.todo = Tail(@), !.pc = "read"]
  ELSE IF p = Reader THEN [r EXCEPT !.todo = <<>>, !.pc = "reread"]
  ELSE IF p = Syncer THEN [r EXCEPT !.todo = <<>>, !.pc = "verify"]
  ELSE Idle

\* What persist does with a candle, given the row it read.
Decide(item, row) ==
  IF row = item.version \/ (Closed(row) /\ ~(item.historical /\ Closed(item.version))) THEN "skip"
  ELSE IF Closed(row) THEN "invalidate"
  ELSE "upsert"

Decided(p, r) ==
  LET next == Decide(Head(r.todo), store[Head(r.todo).slot])
  IN IF next = "skip" THEN Advance(p, r) ELSE [r EXCEPT !.pc = next]

PersistRead(p) ==
  /\ proc[p].pc = "read"
  /\ Set(p, Decided(p, proc[p]))
  /\ UNCHANGED <<clock, truth, store, cache, stream, dataset, sync>>

\* A cache that fails is recorded and changes nothing.
Invalidate(p) ==
  /\ proc[p].pc = "invalidate"
  /\ cache' \in {NoRows, cache}
  /\ Goto(p, "upsert")
  /\ UNCHANGED <<clock, truth, store, stream, dataset, sync>>

\* ON CONFLICT ... WHERE NOT market_candles.is_closed OR EXCLUDED.is_closed.
BugUpserted(item) == [store EXCEPT ![item.slot] = item.version]
Upserted(item) ==
  IF Closed(store[item.slot]) /\ ~Closed(item.version) THEN store
  ELSE [store EXCEPT ![item.slot] = item.version]

\* A close that is stored after the loss of the stream and before the
\* reconciliation reads its boundary overtakes it.
Upsert(p) ==
  /\ proc[p].pc = "upsert"
  /\ store' = Upserted(Item1(p))
  /\ sync' = [sync EXCEPT !.overtaken =
                @ \/ (/\ Closed(Item1(p).version)
                      /\ ~stream.on \/ proc[Syncer].pc = "boundary")]
  /\ Goto(p, "refresh")
  /\ UNCHANGED <<clock, truth, cache, stream, dataset>>

RefreshRead(p) ==
  /\ proc[p].pc = "refresh"
  /\ Set(p, [proc[p] EXCEPT !.pc = "set", !.rows = store])
  /\ UNCHANGED <<clock, truth, store, cache, stream, dataset, sync>>

AfterSet(p) ==
  LET r == [proc[p] EXCEPT !.rows = NoRows]
  IN IF r.todo # <<>> THEN Advance(p, r) ELSE Idle

\* A reconciliation whose stream was lost meanwhile is not reported.
RefreshSet(p) ==
  /\ proc[p].pc = "set"
  /\ cache' \in {Kept(proc[p].rows), cache}
  /\ Set(p, AfterSet(p))
  /\ sync' = IF p = Syncer /\ proc[p].todo = <<>> /\ stream.on THEN [sync EXCEPT !.to = proc[p].hi + 1] ELSE sync
  /\ UNCHANGED <<clock, truth, store, stream, dataset>>

\* handleCandle: the stream delivered a candle of some slot, and its row is
\* read.  Deliveries of one slot may be late and may cross.
LiveCandle(p) ==
  /\ proc[p].pc = "idle" /\ stream.on /\ MayStart
  /\ \E k \in Slots, v \in {"forming", "closed"} :
       /\ k < clock \/ (k = clock /\ v = "forming")
       /\ LET item == [slot |-> k, version |-> v, historical |-> FALSE]
              r == Decided(p, [Idle EXCEPT !.todo = <<item>>])
          IN r # Idle /\ Set(p, r)
  /\ UNCHANGED <<clock, truth, store, cache, stream, dataset, sync>>

-----------------------------------------------------------------------------
(* readCandles and createDatasetSnapshot                                   *)

\* The cache answers, or the rows are read and what they miss is asked for.
ReadStart ==
  /\ proc[Reader].pc = "idle" /\ clock > 1 /\ MayStart
  /\ \E lo \in 1 .. (clock - 1), seal \in BOOLEAN :
       LET r == [Idle EXCEPT !.lo = lo, !.hi = clock - 1, !.seal = seal]
       IN Set(Reader,
            IF Covers(cache, lo, r.hi)
            THEN IF seal THEN [r EXCEPT !.rows = cache, !.pc = "create"] ELSE Idle
            ELSE IF Missing(store, lo, r.hi) = {} THEN [r EXCEPT !.pc = "reread"]
            ELSE [r EXCEPT !.rows = store, !.pc = "fetch"])
  /\ UNCHANGED <<clock, truth, store, cache, stream, dataset, sync>>

\* syncMissing asks for the missing slots.  The provider may not have them
\* all; if it fails, a page goes on with the rows there are.
Fetched(r) == HistoricalItems(Missing(r.rows, r.lo, r.hi))
Fetch ==
  /\ proc[Reader].pc = "fetch"
  /\ LET r == [proc[Reader] EXCEPT !.rows = NoRows]
     IN \/ \E n \in 1 .. Len(Fetched(proc[Reader])) :
             Set(Reader, [r EXCEPT !.todo = SubSeq(Fetched(proc[Reader]), 1, n), !.pc = "read"])
        \/ Set(Reader, IF r.seal THEN Idle ELSE [r EXCEPT !.pc = "reread"])
  /\ UNCHANGED <<clock, truth, store, cache, stream, dataset, sync>>

\* The rows are read again, for the answer and for the cache.
Reread ==
  /\ proc[Reader].pc = "reread"
  /\ Set(Reader, [proc[Reader] EXCEPT !.rows = store, !.pc = "fill"])
  /\ UNCHANGED <<clock, truth, store, cache, stream, dataset, sync>>
Fill ==
  /\ proc[Reader].pc = "fill"
  /\ cache' \in {Kept(proc[Reader].rows), cache}
  /\ Set(Reader, IF proc[Reader].seal THEN [proc[Reader] EXCEPT !.pc = "create"] ELSE Idle)
  /\ UNCHANGED <<clock, truth, store, stream, dataset, sync>>

\* REQUIRE_COMPLETE, and the transaction that seals the content.
BugSealable(r) == ClosedSlots(r.rows) \cap (r.lo .. r.hi) # {}
Sealable(r) == Missing(r.rows, r.lo, r.hi) = {}
Sealed(r) == [lo |-> r.lo, hi |-> r.hi, rows |-> r.rows]
Create ==
  /\ proc[Reader].pc = "create"
  /\ LET r == proc[Reader]
     IN dataset' = IF Sealable(r) THEN Sealed(r) ELSE dataset
  /\ Set(Reader, Idle)
  /\ UNCHANGED <<clock, truth, store, cache, stream, sync>>

-----------------------------------------------------------------------------
(* reconcileProviderSubscriptions                                          *)

\* The stream opens; its first candles may be delivered before the
\* reconciliation has read the rows.
Connect ==
  /\ ~stream.on /\ proc[Syncer].pc = "idle" /\ MayStart
  /\ stream' = [stream EXCEPT !.on = TRUE]
  /\ Goto(Syncer, "boundary")
  /\ sync' = [sync EXCEPT !.to = 0]
  /\ UNCHANGED <<clock, truth, store, cache, dataset>>

From(rows) == IF ClosedSlots(rows) = {} THEN clock - 1 ELSE Max(ClosedSlots(rows))
Boundary ==
  /\ proc[Syncer].pc = "boundary" /\ clock > 1
  /\ Set(Syncer, [Idle EXCEPT !.lo = From(store), !.hi = clock - 1, !.pc = "history"])
  /\ UNCHANGED <<clock, truth, store, cache, stream, dataset, sync>>

History ==
  /\ proc[Syncer].pc = "history"
  /\ LET r == proc[Syncer]
         items == HistoricalItems(r.lo .. r.hi)
     IN \E n \in 0 .. Len(items) :
          Set(Syncer, IF n = 0 THEN Idle ELSE [r EXCEPT !.todo = SubSeq(items, 1, n), !.pc = "read"])
  /\ UNCHANGED <<clock, truth, store, cache, stream, dataset, sync>>

\* HISTORY_INCOMPLETE, or the cache is refreshed and the stream is CONNECTED.
BugVerified(r) == TRUE
Verified(r) == Missing(store, r.lo, r.hi) = {}
Verify ==
  /\ proc[Syncer].pc = "verify"
  /\ Set(Syncer, IF Verified(proc[Syncer]) THEN [proc[Syncer] EXCEPT !.pc = "refresh"] ELSE Idle)
  /\ UNCHANGED <<clock, truth, store, cache, stream, dataset, sync>>

-----------------------------------------------------------------------------
(* The environment                                                         *)

Tick ==
  /\ clock < MaxClock /\ clock' = clock + 1
  /\ UNCHANGED <<truth, store, cache, proc, stream, dataset, sync>>

Correct ==
  /\ \E k \in Correctable : k < clock /\ k \notin truth /\ truth' = truth \cup {k}
  /\ UNCHANGED <<clock, store, cache, proc, stream, dataset, sync>>

Drop ==
  /\ stream.on /\ stream.drops < MaxDrops
  /\ stream' = [on |-> FALSE, drops |-> stream.drops + 1]
  /\ sync' = [lost |-> IF ClosedSlots(store) = {} THEN 0 ELSE Max(ClosedSlots(store)),
              to |-> 0, overtaken |-> FALSE]
  /\ UNCHANGED <<clock, truth, store, cache, proc, dataset>>

PersistStep(p) == PersistRead(p) \/ Invalidate(p) \/ Upsert(p) \/ RefreshRead(p) \/ RefreshSet(p)
ReaderStep == PersistStep(Reader) \/ Fetch \/ Reread \/ Fill \/ Create
SyncerStep == PersistStep(Syncer) \/ Boundary \/ History \/ Verify

Next ==
  \/ \E p \in Live : LiveCandle(p) \/ PersistStep(p)
  \/ ReadStart \/ ReaderStep \/ Connect \/ SyncerStep
  \/ Tick \/ Correct \/ Drop

Spec == Init /\ [][Next]_storeVars
=============================================================================
