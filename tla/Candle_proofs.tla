----------------------------- MODULE Candle_proofs -----------------------------
(***************************************************************************)
(* The promises of the candle store, proved for any number of live         *)
(* handlers, any clock, any window and any corrections.                    *)
(*                                                                         *)
(* What the proofs rest on is that a closed row is never reopened, so that *)
(* every copy that was complete when it was read stays backed by the rows, *)
(* and that a reconciliation whose stream was not lost since it started    *)
(* begins at the last closed candle before the loss.                       *)
(***************************************************************************)
EXTENDS CandleProperties, FiniteSetTheorems, FunctionTheorems, SequenceTheorems, TLAPS

-----------------------------------------------------------------------------
(* Finite sets of naturals                                                 *)

Below(S, k) == {j \in S : j <= k}

\* Elements of a finite set of naturals have different ranks in it.
LEMMA RanksDiffer ==
  ASSUME NEW S, S \subseteq Nat, IsFiniteSet(S), NEW k \in S, NEW m \in S, k < m
  PROVE  Cardinality(Below(S, k)) < Cardinality(Below(S, m))
<1>1. Below(S, m) \subseteq S /\ Below(S, k) \subseteq Below(S, m)
  <2>1. k \in Nat /\ m \in Nat /\ \A j \in S : j \in Nat OBVIOUS
  <2>2. \A j \in S : j <= k => j <= m BY <2>1
  <2> QED BY <2>2 DEF Below
<1>2. m \in Below(S, m) /\ m \notin Below(S, k) BY DEF Below
<1>3. IsFiniteSet(Below(S, m)) BY <1>1, FS_Subset
<1>4. /\ IsFiniteSet(Below(S, k))
      /\ Cardinality(Below(S, k)) <= Cardinality(Below(S, m))
      /\ Cardinality(Below(S, m)) = Cardinality(Below(S, k)) => Below(S, m) = Below(S, k)
  BY <1>1, <1>3, FS_Subset
<1>5. Cardinality(Below(S, k)) \in Nat /\ Cardinality(Below(S, m)) \in Nat
  BY <1>3, <1>4, FS_CardinalityType
<1> QED BY <1>2, <1>4, <1>5

\* Every rank is taken: the order in which fetched candles are numbered.
LEMMA RanksAreTaken ==
  ASSUME NEW S, S \subseteq Nat, IsFiniteSet(S), NEW i \in 1 .. Cardinality(S)
  PROVE  \E k \in S : Cardinality(Below(S, k)) = i
<1> DEFINE n == Cardinality(S)
<1> DEFINE rank == [k \in S |-> Cardinality(Below(S, k))]
<1>1. n \in Nat BY FS_CardinalityType
<1>2. ASSUME NEW k \in S PROVE rank[k] \in 1 .. n
  <2>1. Below(S, k) \subseteq S /\ k \in Below(S, k) BY DEF Below
  <2>2. IsFiniteSet(Below(S, k)) /\ Cardinality(Below(S, k)) <= n BY <2>1, FS_Subset
  <2>3. Cardinality(Below(S, k)) \in Nat BY <2>2, FS_CardinalityType
  <2>4. Cardinality(Below(S, k)) # 0 BY <2>1, <2>2, FS_EmptySet
  <2> QED BY <1>1, <2>2, <2>3, <2>4
<1>3. ASSUME NEW k \in S, NEW m \in S, rank[k] = rank[m] PROVE k = m
  <2>1. k \in Nat /\ m \in Nat OBVIOUS
  <2>2. CASE k < m
    <3>1. rank[k] < rank[m] BY <2>2, RanksDiffer
    <3>2. rank[k] \in Nat /\ rank[m] \in Nat BY <1>1, <1>2
    <3> QED BY <1>3, <3>1, <3>2
  <2>3. CASE m < k
    <3>1. rank[m] < rank[k] BY <2>3, RanksDiffer
    <3>2. rank[k] \in Nat /\ rank[m] \in Nat BY <1>1, <1>2
    <3> QED BY <1>3, <3>1, <3>2
  <2> QED BY <2>1, <2>2, <2>3
<1>4. rank \in [S -> 1 .. n] BY <1>2
<1>5. rank \in Injection(S, 1 .. n)
  <2> HIDE DEF rank, n
  <2> QED BY <1>3, <1>4 DEF Injection, IsInjective
<1>6. IsFiniteSet(1 .. n) /\ Cardinality(1 .. n) = n BY <1>1, FS_Interval
<1>7. rank \in Surjection(S, 1 .. n)
  <2> HIDE DEF rank
  <2> QED BY <1>5, <1>6, FS_Injection
<1>8. PICK k \in S : rank[k] = i
  <2> HIDE DEF rank
  <2> QED BY <1>7 DEF Surjection
<1> QED BY <1>8

\* A set of naturals that is finite and not empty has a greatest element.
LEMMA MaxIsGreatest ==
  ASSUME NEW S, S \subseteq Nat, IsFiniteSet(S), S # {}
  PROVE  Max(S) \in S /\ \A y \in S : Max(S) >= y
<1>1. Cardinality(S) \in Nat /\ Cardinality(S) # 0 BY FS_CardinalityType, FS_EmptySet
<1>2. Cardinality(S) \in 1 .. Cardinality(S) BY <1>1
<1>3. PICK k \in S : Cardinality(Below(S, k)) = Cardinality(S)
  <2> \E k \in S : Cardinality(Below(S, k)) = Cardinality(S) BY <1>2, RanksAreTaken
  <2> QED OBVIOUS
<1>4. Below(S, k) \in SUBSET S BY DEF Below
<1>5. Below(S, k) = S BY <1>3, <1>4, FS_Subset
<1>6. \A y \in S : k >= y BY <1>5 DEF Below
<1> QED BY <1>6 DEF Max

-----------------------------------------------------------------------------
(* The model's operators                                                   *)

LEMMA SlotsAreFinite ==
  /\ Slots \subseteq Nat /\ IsFiniteSet(Slots)
  /\ \A S \in SUBSET Slots : S \subseteq Nat /\ IsFiniteSet(S) /\ Cardinality(S) \in Nat
<1>1. Slots \subseteq Nat BY StoreBounds DEF Slots
<1>2. IsFiniteSet(Slots) BY StoreBounds, FS_Interval DEF Slots
<1>3. ASSUME NEW S \in SUBSET Slots PROVE IsFiniteSet(S) BY <1>2, FS_Subset
<1>4. ASSUME NEW S \in SUBSET Slots PROVE Cardinality(S) \in Nat BY <1>3, FS_CardinalityType
<1> QED BY <1>1, <1>2, <1>3, <1>4

\* The greatest closed slot, if there is a closed one.
LEMMA LastClosed ==
  ASSUME NEW rows, ClosedSlots(rows) # {}
  PROVE  Max(ClosedSlots(rows)) \in ClosedSlots(rows)
<1>1. ClosedSlots(rows) \in SUBSET Slots BY DEF ClosedSlots
<1> QED BY <1>1, SlotsAreFinite, MaxIsGreatest

\* fetchHistorical answers with closed candles of slots it was asked for.
LEMMA FetchedItems ==
  ASSUME NEW S \in SUBSET Slots
  PROVE  /\ HistoricalItems(S) \in Seq(Item)
         /\ Len(HistoricalItems(S)) \in Nat
<1> DEFINE n == Cardinality(S)
<1> DEFINE at(i) == CHOOSE k \in S : Cardinality({j \in S : j <= k}) = i
<1>1. n \in Nat /\ IsFiniteSet(S) /\ S \subseteq Nat BY SlotsAreFinite
<1>2. ASSUME NEW i \in 1 .. n PROVE at(i) \in Slots
  <2>1. \E k \in S : Cardinality({j \in S : j <= k}) = i BY <1>1, RanksAreTaken DEF Below
  <2> QED BY <2>1
<1>3. ASSUME NEW i \in 1 .. n PROVE HistoricalItem(at(i)) \in Item
  <2> HIDE DEF at
  <2> QED BY <1>2, Zenon DEF HistoricalItem, Item, Versions
<1>4. HistoricalItems(S) = [i \in 1 .. n |-> HistoricalItem(at(i))] BY DEF HistoricalItems
<1>5. [i \in 1 .. n |-> HistoricalItem(at(i))] \in Seq(Item)
  <2> DEFINE item(i) == HistoricalItem(at(i))
  <2>1. \A i \in 1 .. n : item(i) \in Item BY <1>3
  <2> HIDE DEF item, at, n
  <2>2. [i \in 1 .. n |-> item(i)] \in Seq(Item) BY <1>1, <2>1
  <2> QED BY <2>2 DEF item
<1>6. HistoricalItems(S) \in Seq(Item) BY <1>4, <1>5, Zenon
<1> QED BY <1>6, LenProperties

\* The cached window has rows that were read, and no others.
LEMMA KeptRows ==
  ASSUME NEW rows \in Rows
  PROVE  Kept(rows) \in Rows /\ ClosedSlots(Kept(rows)) \subseteq ClosedSlots(rows)
<1> DEFINE keep(k) == k \in LatestClosed(rows)
                      \/ ({j \in Slots : rows[j] = "forming"} # {} /\ k = Max({j \in Slots : rows[j] = "forming"}))
<1>1. Kept(rows) = [k \in Slots |-> IF keep(k) THEN rows[k] ELSE "none"] BY Zenon DEF Kept
<1> HIDE DEF keep
<1>2. Kept(rows) \in Rows BY <1>1 DEF Rows
<1>3. ASSUME NEW k \in ClosedSlots(Kept(rows)) PROVE k \in ClosedSlots(rows)
  <2>1. k \in Slots /\ Closed(Kept(rows)[k]) BY <1>3 DEF ClosedSlots
  <2>2. Kept(rows)[k] = rows[k] BY <1>1, <2>1 DEF Closed
  <2> QED BY <2>1, <2>2 DEF ClosedSlots
<1> QED BY <1>2, <1>3

LEMMA NoRowsAreClosed == NoRows \in Rows /\ ClosedSlots(NoRows) = {}
<1>1. NoRows \in Rows BY DEF NoRows, Rows
<1>2. \A k \in Slots : ~Closed(NoRows[k]) BY DEF NoRows, Closed
<1> QED BY <1>1, <1>2 DEF ClosedSlots

\* An upsert reopens no row, and only a closed candle closes one.
LEMMA UpsertedRows ==
  ASSUME store \in Rows, NEW item \in Item
  PROVE  /\ Upserted(item) \in Rows
         /\ ClosedSlots(store) \subseteq ClosedSlots(Upserted(item))
         /\ ~Closed(item.version) => ClosedSlots(Upserted(item)) = ClosedSlots(store)
<1>1. item.slot \in Slots /\ item.version \in Versions BY DEF Item
<1>2. CASE Closed(store[item.slot]) /\ ~Closed(item.version)
  BY <1>2, Zenon DEF Upserted
<1>3. CASE ~(Closed(store[item.slot]) /\ ~Closed(item.version))
  <2>1. Upserted(item) = [store EXCEPT ![item.slot] = item.version] BY <1>3, Zenon DEF Upserted
  <2>2. Upserted(item) \in Rows BY <1>1, <2>1 DEF Rows, Versions
  <2>3. \A k \in Slots : Upserted(item)[k] = IF k = item.slot THEN item.version ELSE store[k]
    BY <1>1, <2>1 DEF Rows
  <2>4. \A k \in Slots : Closed(store[k]) => Closed(Upserted(item)[k])
    BY <1>3, <2>3
  <2>5. ~Closed(item.version) => \A k \in Slots : Closed(Upserted(item)[k]) => Closed(store[k])
    BY <2>3
  <2> QED BY <2>2, <2>4, <2>5 DEF ClosedSlots
<1> QED BY <1>2, <1>3

\* Nothing is missing of a range when every slot of it is closed.
LEMMA NothingMissing ==
  ASSUME NEW rows, NEW lo \in Slots, NEW hi \in Slots
  PROVE  /\ Missing(rows, lo, hi) \in SUBSET Slots
         /\ lo .. hi \subseteq Slots
         /\ Missing(rows, lo, hi) = {} <=> lo .. hi \subseteq ClosedSlots(rows)
<1>1. lo .. hi \subseteq Slots BY StoreBounds DEF Slots
<1> QED BY <1>1 DEF Missing, ClosedSlots

-----------------------------------------------------------------------------
(* The inductive invariant                                                 *)

Pcs == {"idle", "read", "invalidate", "upsert", "refresh", "set", "fetch", "reread",
        "fill", "create", "boundary", "history", "verify"}
Calls == [pc : Pcs, todo : Seq(Item), rows : Rows, lo : Nat, hi : Nat, seal : BOOLEAN]
Writing == {"read", "invalidate", "upsert"}

Types ==
  /\ clock \in 1 .. MaxClock /\ truth \subseteq Correctable
  /\ store \in Rows /\ cache \in Rows
  /\ proc \in [Processes -> Calls]
  /\ stream \in [on : BOOLEAN, drops : 0 .. MaxDrops]
  /\ sync \in [lost : Nat, to : Nat, overtaken : BOOLEAN]

\* A call that writes has a candle to write; the range of a read or of a
\* reconciliation is one of slots.
CallOK(p, r) ==
  /\ r.pc \in Writing => r.todo # <<>>
  /\ (p \in {Reader, Syncer} /\ r.pc \notin {"idle", "boundary"}) => r.lo \in Slots /\ r.hi \in Slots
CallsAreOK == \A p \in Processes : CallOK(p, proc[p])

\* Whatever was read is still closed in the rows.
RowsBackCalls == \A p \in Processes : ClosedSlots(proc[p].rows) \subseteq ClosedSlots(store)
RowsBackCache == ClosedSlots(cache) \subseteq ClosedSlots(store)
RowsBackDataset ==
  /\ dataset.lo .. dataset.hi \subseteq ClosedSlots(dataset.rows)
  /\ ClosedSlots(dataset.rows) \subseteq ClosedSlots(store)

StoreInv == Types /\ CallsAreOK /\ RowsBackCalls /\ RowsBackCache /\ RowsBackDataset

\* Until a reconciliation reads its boundary the last closed candle is the one
\* before the loss, and from there on the boundary is that candle, unless a
\* close overtook it or the stream was lost again.
Last(rows) == IF ClosedSlots(rows) = {} THEN 0 ELSE Max(ClosedSlots(rows))
Pending == ~stream.on \/ proc[Syncer].pc = "boundary"
Reconciling == stream.on /\ proc[Syncer].pc \notin {"idle", "boundary"}
SyncInv ==
  /\ Pending /\ ~sync.overtaken => sync.lost = Last(store)
  /\ Reconciling /\ ~sync.overtaken /\ sync.lost > 0 => proc[Syncer].lo = sync.lost
  /\ proc[Syncer].pc \in {"refresh", "set"} /\ proc[Syncer].todo = <<>> =>
       Missing(store, proc[Syncer].lo, proc[Syncer].hi) = {}
  /\ ReconciledUnlessOvertaken

-----------------------------------------------------------------------------
(* Calls                                                                   *)

LEMMA IdleCall ==
  /\ Idle \in Calls /\ \A p \in Processes : CallOK(p, Idle)
  /\ Idle.rows = NoRows /\ Idle.pc = "idle" /\ Idle.todo = <<>>
<1>1. NoRows \in Rows BY NoRowsAreClosed
<1> QED BY <1>1 DEF Idle, Calls, Pcs, CallOK, Writing

\* Nobody's call but the one of the step changes.
LEMMA CallUpdate ==
  ASSUME Types, CallsAreOK, RowsBackCalls,
         NEW p \in Processes, NEW r \in Calls, Set(p, r), CallOK(p, r),
         ClosedSlots(r.rows) \subseteq ClosedSlots(store'),
         ClosedSlots(store) \subseteq ClosedSlots(store')
  PROVE  /\ proc' \in [Processes -> Calls] /\ CallsAreOK' /\ RowsBackCalls'
         /\ proc'[p] = r
         /\ \A q \in Processes \ {p} : proc'[q] = proc[q]
<1>1. proc \in [Processes -> Calls] /\ proc' = [proc EXCEPT ![p] = r] BY DEF Types, Set
<1>2. /\ proc' \in [Processes -> Calls] /\ proc'[p] = r
      /\ \A q \in Processes \ {p} : proc'[q] = proc[q]
  BY <1>1
<1>3. CallsAreOK'
  <2> SUFFICES ASSUME NEW q \in Processes PROVE CallOK(q, proc'[q]) BY DEF CallsAreOK, CallOK
  <2> QED BY <1>2, Zenon DEF CallsAreOK
<1>4. RowsBackCalls'
  <2> SUFFICES ASSUME NEW q \in Processes PROVE ClosedSlots(proc'[q].rows) \subseteq ClosedSlots(store')
    BY DEF RowsBackCalls, ClosedSlots
  <2>1. CASE q = p BY <1>2, <2>1
  <2>2. CASE q # p BY <1>2, <2>2 DEF RowsBackCalls
  <2> QED BY <2>1, <2>2
<1> QED BY <1>2, <1>3, <1>4

\* A call that is done with a candle goes on with the next, or answers.
LEMMA AdvanceCall ==
  ASSUME NEW p \in Processes, NEW r \in Calls, r.todo # <<>>,
         p \in {Reader, Syncer} => r.lo \in Slots /\ r.hi \in Slots,
         NEW a, a = Advance(p, r)
  PROVE  /\ a \in Calls /\ CallOK(p, a)
         /\ ClosedSlots(a.rows) \subseteq ClosedSlots(r.rows)
         /\ p = Syncer => a.lo = r.lo /\ a.hi = r.hi /\ a.pc \in {"read", "verify"}
<1>1. /\ r.todo \in Seq(Item) /\ r.rows \in Rows /\ r.lo \in Nat /\ r.hi \in Nat /\ r.seal \in BOOLEAN
      /\ r.pc \in Pcs
  BY DEF Calls
<1>2. <<>> \in Seq(Item) /\ Len(<<>>) = 0 BY EmptySeq
<1>3. CASE Len(r.todo) > 1
  <2>1. a = [r EXCEPT !.todo = Tail(r.todo), !.pc = "read"] BY <1>3, Zenon DEF Advance
  <2>2. Tail(r.todo) \in Seq(Item) /\ Len(Tail(r.todo)) = Len(r.todo) - 1 BY <1>1, HeadTailProperties
  <2>3. Len(r.todo) \in Nat BY <1>1, LenProperties
  <2>4. Tail(r.todo) # <<>>
    <3>1. \A n \in Nat : n > 1 => n - 1 # 0 OBVIOUS
    <3>2. Len(Tail(r.todo)) # 0 BY <1>3, <2>2, <2>3, <3>1, Zenon
    <3> QED BY <1>2, <3>2, Zenon
  <2>5. /\ a.todo = Tail(r.todo) /\ a.pc = "read" /\ a.rows = r.rows /\ a.lo = r.lo /\ a.hi = r.hi
        /\ a \in Calls
    BY <1>1, <2>1, <2>2 DEF Calls, Pcs
  <2> QED BY <2>4, <2>5 DEF CallOK, Writing
<1>4. CASE ~(Len(r.todo) > 1) /\ p = Reader
  <2>1. a = [r EXCEPT !.todo = <<>>, !.pc = "reread"] BY <1>4, Zenon DEF Advance
  <2>2. /\ a.pc = "reread" /\ a.rows = r.rows /\ a.lo = r.lo /\ a.hi = r.hi
        /\ a \in Calls
    BY <1>1, <1>2, <2>1 DEF Calls, Pcs
  <2> QED BY <1>4, <2>2, ProcessesDiffer DEF CallOK, Writing
<1>5. CASE ~(Len(r.todo) > 1) /\ p = Syncer
  <2>1. a = [r EXCEPT !.todo = <<>>, !.pc = "verify"] BY <1>5, ProcessesDiffer, Zenon DEF Advance
  <2>2. /\ a.pc = "verify" /\ a.rows = r.rows /\ a.lo = r.lo /\ a.hi = r.hi
        /\ a \in Calls
    BY <1>1, <1>2, <2>1 DEF Calls, Pcs
  <2> QED BY <1>5, <2>2 DEF CallOK, Writing
<1>6. CASE ~(Len(r.todo) > 1) /\ p \notin {Reader, Syncer}
  <2>1. a = Idle BY <1>6, Zenon DEF Advance
  <2> QED BY <1>6, <2>1, IdleCall, NoRowsAreClosed
<1> QED BY <1>3, <1>4, <1>5, <1>6

LEMMA DecidedCall ==
  ASSUME NEW p \in Processes, NEW r \in Calls, r.todo # <<>>,
         p \in {Reader, Syncer} => r.lo \in Slots /\ r.hi \in Slots,
         NEW a, a = Decided(p, r)
  PROVE  /\ a \in Calls /\ CallOK(p, a)
         /\ ClosedSlots(a.rows) \subseteq ClosedSlots(r.rows)
         /\ p = Syncer => a.lo = r.lo /\ a.hi = r.hi /\ a.pc \in Writing \cup {"verify"}
<1> DEFINE next == Decide(Head(r.todo), store[Head(r.todo).slot])
<1>1. next \in {"skip", "invalidate", "upsert"} BY DEF Decide
<1>2. a = IF next = "skip" THEN Advance(p, r) ELSE [r EXCEPT !.pc = next] BY DEF Decided
<1> HIDE DEF next
<1>3. CASE next = "skip" BY <1>2, <1>3, AdvanceCall DEF Writing
<1>4. CASE next # "skip"
  <2>1. /\ r.todo \in Seq(Item) /\ r.rows \in Rows /\ r.lo \in Nat /\ r.hi \in Nat /\ r.seal \in BOOLEAN
        /\ a = [r EXCEPT !.pc = next]
    BY <1>2, <1>4 DEF Calls
  <2>2. /\ a \in Calls /\ a.pc = next /\ a.todo = r.todo /\ a.rows = r.rows
        /\ a.lo = r.lo /\ a.hi = r.hi
    BY <1>1, <1>4, <2>1 DEF Calls, Pcs
  <2> QED BY <1>1, <1>4, <2>2 DEF CallOK, Writing
<1> QED BY <1>3, <1>4

-----------------------------------------------------------------------------
(* Every step keeps every copy backed by the rows                          *)

LEMMA StoreInit == Init => StoreInv
<1> SUFFICES ASSUME Init PROVE StoreInv OBVIOUS
<1>1. \A p \in Processes : proc[p] = Idle BY DEF Init
<1>2. Types BY IdleCall, NoRowsAreClosed, StoreBounds DEF Init, Types
<1>3. CallsAreOK BY <1>1, IdleCall, Zenon DEF CallsAreOK
<1>4. RowsBackCalls BY <1>1, IdleCall, NoRowsAreClosed, Zenon DEF RowsBackCalls
<1>5. RowsBackCache /\ RowsBackDataset
  BY NoRowsAreClosed DEF Init, RowsBackCache, RowsBackDataset
<1> QED BY <1>2, <1>3, <1>4, <1>5 DEF StoreInv

\* A step that leaves the rows alone and writes neither cache nor dataset.
LEMMA CallOnly ==
  ASSUME StoreInv, NEW p \in Processes, NEW r \in Calls, Set(p, r), CallOK(p, r),
         ClosedSlots(r.rows) \subseteq ClosedSlots(store),
         UNCHANGED <<clock, truth, store, cache, stream, dataset, sync>>
  PROVE  StoreInv'
<1>1. proc' \in [Processes -> Calls] /\ CallsAreOK' /\ RowsBackCalls'
  BY CallUpdate DEF StoreInv
<1>2. Types' BY <1>1 DEF StoreInv, Types
<1>3. RowsBackCache' BY DEF StoreInv, RowsBackCache, ClosedSlots
<1>4. RowsBackDataset' BY DEF StoreInv, RowsBackDataset, ClosedSlots
<1> QED BY <1>1, <1>2, <1>3, <1>4 DEF StoreInv

\* A refresh of the cache sets rows that were read, or fails.
LEMMA CacheStep ==
  ASSUME StoreInv, NEW p \in Processes, NEW r \in Calls, Set(p, r), CallOK(p, r),
         ClosedSlots(r.rows) \subseteq ClosedSlots(store),
         NEW rows \in Rows, ClosedSlots(rows) \subseteq ClosedSlots(store),
         cache' \in {rows, cache}, sync' \in [lost : Nat, to : Nat, overtaken : BOOLEAN],
         UNCHANGED <<clock, truth, store, stream, dataset>>
  PROVE  StoreInv'
<1>1. proc' \in [Processes -> Calls] /\ CallsAreOK' /\ RowsBackCalls'
  BY CallUpdate DEF StoreInv
<1>2. Types' BY <1>1 DEF StoreInv, Types
<1>3. ClosedSlots(cache') \subseteq ClosedSlots(store') BY DEF StoreInv, RowsBackCache
<1>4. RowsBackCache' BY <1>3 DEF RowsBackCache, ClosedSlots
<1>5. RowsBackDataset' BY DEF StoreInv, RowsBackDataset, ClosedSlots
<1> QED BY <1>1, <1>2, <1>4, <1>5 DEF StoreInv

\* The call of a process, for the steps below.
LEMMA CallTypes ==
  ASSUME StoreInv, NEW p \in Processes
  PROVE  /\ proc[p] \in Calls /\ CallOK(p, proc[p])
         /\ proc[p].todo \in Seq(Item) /\ proc[p].rows \in Rows
         /\ proc[p].lo \in Nat /\ proc[p].hi \in Nat /\ proc[p].seal \in BOOLEAN
         /\ ClosedSlots(proc[p].rows) \subseteq ClosedSlots(store)
<1>1. proc[p] \in Calls BY DEF StoreInv, Types
<1> QED BY <1>1 DEF StoreInv, CallsAreOK, RowsBackCalls, Calls

\* Going on in the code of a process.
LEMMA GotoCall ==
  ASSUME StoreInv, NEW p \in Processes, NEW pc \in Pcs,
         pc \in Writing => proc[p].todo # <<>>,
         p \in {Reader, Syncer} /\ pc \notin {"idle", "boundary"} =>
           proc[p].lo \in Slots /\ proc[p].hi \in Slots,
         NEW r, r = [proc[p] EXCEPT !.pc = pc]
  PROVE  r \in Calls /\ CallOK(p, r) /\ r.rows = proc[p].rows /\ r.pc = pc
         /\ r.lo = proc[p].lo /\ r.hi = proc[p].hi /\ r.todo = proc[p].todo
<1>1. proc[p] \in Calls BY CallTypes
<1>2. /\ r \in Calls /\ r.pc = pc /\ r.todo = proc[p].todo /\ r.rows = proc[p].rows
      /\ r.lo = proc[p].lo /\ r.hi = proc[p].hi
  BY <1>1 DEF Calls
<1> QED BY <1>2 DEF CallOK

LEMMA PersistReadStep ==
  ASSUME StoreInv, NEW p \in Processes, PersistRead(p)
  PROVE  StoreInv'
<1> DEFINE r == Decided(p, proc[p])
<1>1. /\ Set(p, r) /\ proc[p].pc = "read"
      /\ UNCHANGED <<clock, truth, store, cache, stream, dataset, sync>>
  BY DEF PersistRead
<1>2. proc[p] \in Calls /\ CallOK(p, proc[p]) /\ ClosedSlots(proc[p].rows) \subseteq ClosedSlots(store)
  BY CallTypes
<1>3. r \in Calls /\ CallOK(p, r) /\ ClosedSlots(r.rows) \subseteq ClosedSlots(proc[p].rows)
  BY <1>1, <1>2, DecidedCall DEF CallOK, Writing
<1> HIDE DEF r
<1> QED BY <1>1, <1>2, <1>3, CallOnly

LEMMA InvalidateStep ==
  ASSUME StoreInv, NEW p \in Processes, Invalidate(p)
  PROVE  StoreInv'
<1> DEFINE r == [proc[p] EXCEPT !.pc = "upsert"]
<1>1. /\ Set(p, r) /\ proc[p].pc = "invalidate" /\ cache' \in {NoRows, cache}
      /\ UNCHANGED <<clock, truth, store, stream, dataset, sync>>
  BY DEF Invalidate, Goto
<1>2. CallOK(p, proc[p]) /\ ClosedSlots(proc[p].rows) \subseteq ClosedSlots(store) BY CallTypes
<1>3. r \in Calls /\ CallOK(p, r) /\ r.rows = proc[p].rows
  BY <1>1, <1>2, GotoCall DEF Pcs, Writing, CallOK
<1> HIDE DEF r
<1>4. sync' \in [lost : Nat, to : Nat, overtaken : BOOLEAN] BY <1>1 DEF StoreInv, Types
<1> QED BY <1>1, <1>2, <1>3, <1>4, CacheStep, NoRowsAreClosed

\* What an upsert does to the rows and to the call that makes it.
LEMMA UpsertEffect ==
  ASSUME StoreInv, NEW p \in Processes, Upsert(p)
  PROVE  LET r == [proc[p] EXCEPT !.pc = "refresh"]
         IN  /\ Set(p, r) /\ proc[p].pc = "upsert" /\ proc[p].todo # <<>>
             /\ Item1(p) \in Item /\ store' = Upserted(Item1(p)) /\ store' \in Rows
             /\ ClosedSlots(store) \subseteq ClosedSlots(store')
             /\ ~Closed(Item1(p).version) => ClosedSlots(store') = ClosedSlots(store)
             /\ r \in Calls /\ CallOK(p, r) /\ r.rows = proc[p].rows /\ r.pc = "refresh"
             /\ r.lo = proc[p].lo /\ r.hi = proc[p].hi /\ r.todo = proc[p].todo
<1> DEFINE r == [proc[p] EXCEPT !.pc = "refresh"]
<1>1. Set(p, r) /\ proc[p].pc = "upsert" /\ store' = Upserted(Item1(p)) BY DEF Upsert, Goto
<1>2. CallOK(p, proc[p]) /\ proc[p].todo \in Seq(Item) BY CallTypes
<1>3. proc[p].todo # <<>> BY <1>1, <1>2 DEF CallOK, Writing
<1>4. Item1(p) \in Item BY <1>2, <1>3, HeadTailProperties DEF Item1
<1>5. store \in Rows BY DEF StoreInv, Types
<1>6. /\ store' \in Rows /\ ClosedSlots(store) \subseteq ClosedSlots(store')
      /\ ~Closed(Item1(p).version) => ClosedSlots(store') = ClosedSlots(store)
  BY <1>1, <1>4, <1>5, UpsertedRows
<1>7. /\ r \in Calls /\ CallOK(p, r) /\ r.rows = proc[p].rows /\ r.pc = "refresh"
      /\ r.lo = proc[p].lo /\ r.hi = proc[p].hi /\ r.todo = proc[p].todo
  BY <1>1, <1>2, GotoCall DEF Pcs, Writing, CallOK
<1> HIDE DEF r
<1>8. /\ Set(p, r) /\ proc[p].pc = "upsert" /\ proc[p].todo # <<>>
      /\ Item1(p) \in Item /\ store' = Upserted(Item1(p)) /\ store' \in Rows
      /\ ClosedSlots(store) \subseteq ClosedSlots(store')
      /\ ~Closed(Item1(p).version) => ClosedSlots(store') = ClosedSlots(store)
      /\ r \in Calls /\ CallOK(p, r) /\ r.rows = proc[p].rows /\ r.pc = "refresh"
      /\ r.lo = proc[p].lo /\ r.hi = proc[p].hi /\ r.todo = proc[p].todo
  BY <1>1, <1>3, <1>4, <1>6, <1>7, Zenon
<1> QED BY <1>8 DEF r

LEMMA UpsertStep ==
  ASSUME StoreInv, NEW p \in Processes, Upsert(p)
  PROVE  StoreInv'
<1> DEFINE r == [proc[p] EXCEPT !.pc = "refresh"]
<1>1. /\ Set(p, r) /\ r \in Calls /\ CallOK(p, r) /\ r.rows = proc[p].rows
      /\ store' \in Rows /\ ClosedSlots(store) \subseteq ClosedSlots(store')
  BY UpsertEffect
<1> HIDE DEF r
<1>2. ClosedSlots(r.rows) \subseteq ClosedSlots(store') BY <1>1, CallTypes
<1>3. proc' \in [Processes -> Calls] /\ CallsAreOK' /\ RowsBackCalls'
  BY <1>1, <1>2, CallUpdate DEF StoreInv
<1>4. sync' \in [lost : Nat, to : Nat, overtaken : BOOLEAN]
      /\ UNCHANGED <<clock, truth, cache, stream, dataset>>
  BY DEF Upsert, StoreInv, Types
<1>5. Types' BY <1>1, <1>3, <1>4 DEF StoreInv, Types
<1>6. RowsBackCache'
  <2>1. ClosedSlots(cache) \subseteq ClosedSlots(store') BY <1>1 DEF StoreInv, RowsBackCache
  <2> QED BY <1>4, <2>1 DEF RowsBackCache, ClosedSlots
<1>7. RowsBackDataset'
  <2>1. ClosedSlots(dataset.rows) \subseteq ClosedSlots(store')
    BY <1>1 DEF StoreInv, RowsBackDataset
  <2> QED BY <1>4, <2>1 DEF RowsBackDataset, StoreInv, ClosedSlots
<1> QED BY <1>3, <1>5, <1>6, <1>7 DEF StoreInv

LEMMA RefreshReadStep ==
  ASSUME StoreInv, NEW p \in Processes, RefreshRead(p)
  PROVE  StoreInv'
<1> DEFINE r == [proc[p] EXCEPT !.pc = "set", !.rows = store]
<1>1. /\ Set(p, r) /\ proc[p].pc = "refresh"
      /\ UNCHANGED <<clock, truth, store, cache, stream, dataset, sync>>
  BY DEF RefreshRead
<1>2. proc[p] \in Calls /\ CallOK(p, proc[p]) /\ store \in Rows BY CallTypes DEF StoreInv, Types
<1>3. r \in Calls /\ r.pc = "set" /\ r.rows = store /\ r.lo = proc[p].lo /\ r.hi = proc[p].hi
  BY <1>2 DEF Calls, Pcs
<1>4. CallOK(p, r) BY <1>1, <1>2, <1>3 DEF CallOK, Writing
<1> HIDE DEF r
<1> QED BY <1>1, <1>3, <1>4, CallOnly

\* After a refresh a call goes on with its next candle, or answers.
LEMMA AfterSetCall ==
  ASSUME StoreInv, NEW p \in Processes, proc[p].pc = "set", NEW a, a = AfterSet(p)
  PROVE  /\ a \in Calls /\ CallOK(p, a) /\ ClosedSlots(a.rows) = {}
         /\ p = Syncer => \/ a.pc = "idle"
                          \/ /\ a.lo = proc[p].lo /\ a.hi = proc[p].hi
                             /\ a.pc \in {"read", "verify"}
<1> DEFINE r == [proc[p] EXCEPT !.rows = NoRows]
<1>1. proc[p] \in Calls /\ CallOK(p, proc[p]) BY CallTypes
<1>2. /\ r \in Calls /\ r.rows = NoRows /\ r.todo = proc[p].todo
      /\ r.lo = proc[p].lo /\ r.hi = proc[p].hi
  BY <1>1, NoRowsAreClosed DEF Calls
<1>3. a = IF r.todo # <<>> THEN Advance(p, r) ELSE Idle BY DEF AfterSet
<1> HIDE DEF r
<1>4. CASE r.todo # <<>>
  <2>1. p \in {Reader, Syncer} => r.lo \in Slots /\ r.hi \in Slots BY <1>1, <1>2 DEF CallOK
  <2>2. /\ a \in Calls /\ CallOK(p, a) /\ ClosedSlots(a.rows) \subseteq ClosedSlots(r.rows)
        /\ p = Syncer => a.lo = r.lo /\ a.hi = r.hi /\ a.pc \in {"read", "verify"}
    BY <1>2, <1>3, <1>4, <2>1, AdvanceCall
  <2> QED BY <1>2, <2>2, NoRowsAreClosed
<1>5. CASE r.todo = <<>>
  <2>1. a = Idle BY <1>3, <1>5
  <2> QED BY <2>1, IdleCall, NoRowsAreClosed
<1> QED BY <1>4, <1>5

LEMMA RefreshSetStep ==
  ASSUME StoreInv, NEW p \in Processes, RefreshSet(p)
  PROVE  StoreInv'
<1> DEFINE r == AfterSet(p)
<1>1. /\ Set(p, r) /\ proc[p].pc = "set" /\ cache' \in {Kept(proc[p].rows), cache}
      /\ sync' = IF p = Syncer /\ proc[p].todo = <<>> /\ stream.on THEN [sync EXCEPT !.to = proc[p].hi + 1] ELSE sync
      /\ UNCHANGED <<clock, truth, store, stream, dataset>>
  BY DEF RefreshSet
<1>2. proc[p].rows \in Rows /\ ClosedSlots(proc[p].rows) \subseteq ClosedSlots(store)
      /\ proc[p].hi \in Nat
  BY CallTypes
<1>3. Kept(proc[p].rows) \in Rows /\ ClosedSlots(Kept(proc[p].rows)) \subseteq ClosedSlots(store)
  BY <1>2, KeptRows
<1>4. r \in Calls /\ CallOK(p, r) /\ ClosedSlots(r.rows) = {} BY <1>1, AfterSetCall
<1>5. sync' \in [lost : Nat, to : Nat, overtaken : BOOLEAN]
  BY <1>1, <1>2 DEF StoreInv, Types
<1> HIDE DEF r
<1> QED BY <1>1, <1>3, <1>4, <1>5, CacheStep

LEMMA LiveCandleStep ==
  ASSUME StoreInv, NEW p \in Live, LiveCandle(p)
  PROVE  StoreInv'
<1>1. p \in Processes /\ p \notin {Reader, Syncer} BY ProcessesDiffer DEF Processes
<1>2. PICK k \in Slots, v \in {"forming", "closed"} :
        LET item == [slot |-> k, version |-> v, historical |-> FALSE]
            r == Decided(p, [Idle EXCEPT !.todo = <<item>>])
        IN r # Idle /\ Set(p, r)
  BY DEF LiveCandle
<1> DEFINE item == [slot |-> k, version |-> v, historical |-> FALSE]
<1> DEFINE i == [Idle EXCEPT !.todo = <<item>>]
<1> DEFINE r == Decided(p, i)
<1>3. Set(p, r) /\ UNCHANGED <<clock, truth, store, cache, stream, dataset, sync>>
  BY <1>2 DEF LiveCandle
<1>4. item \in Item BY DEF Item, Versions
<1>5. <<item>> \in Seq(Item) /\ <<item>> # <<>>
  <2> HIDE DEF item
  <2> QED BY <1>4
<1>6. i \in Calls /\ i.todo = <<item>> /\ i.rows = NoRows
  <2> HIDE DEF item
  <2> QED BY <1>5, NoRowsAreClosed DEF Idle, Calls, Pcs
<1> HIDE DEF i, item
<1>7. r \in Calls /\ CallOK(p, r) /\ ClosedSlots(r.rows) \subseteq ClosedSlots(i.rows)
  BY <1>1, <1>5, <1>6, DecidedCall
<1> HIDE DEF r
<1> QED BY <1>1, <1>3, <1>6, <1>7, CallOnly, NoRowsAreClosed

\* A read of closed slots begins: the cache answers it, or the rows are read.
LEMMA ReadStartStep ==
  ASSUME StoreInv, ReadStart
  PROVE  StoreInv'
<1>1. PICK lo \in 1 .. (clock - 1), seal \in BOOLEAN :
        LET r == [Idle EXCEPT !.lo = lo, !.hi = clock - 1, !.seal = seal]
        IN Set(Reader,
             IF Covers(cache, lo, r.hi)
             THEN IF seal THEN [r EXCEPT !.rows = cache, !.pc = "create"] ELSE Idle
             ELSE IF Missing(store, lo, r.hi) = {} THEN [r EXCEPT !.pc = "reread"]
             ELSE [r EXCEPT !.rows = store, !.pc = "fetch"])
  BY DEF ReadStart
<1> DEFINE r == [Idle EXCEPT !.lo = lo, !.hi = clock - 1, !.seal = seal]
<1> DEFINE hit == [r EXCEPT !.rows = cache, !.pc = "create"]
<1> DEFINE reread == [r EXCEPT !.pc = "reread"]
<1> DEFINE fetch == [r EXCEPT !.rows = store, !.pc = "fetch"]
<1>2. PICK c \in {Idle, hit, reread, fetch} : Set(Reader, c) BY <1>1
<1>3. /\ UNCHANGED <<clock, truth, store, cache, stream, dataset, sync>>
      /\ Reader \in Processes
  BY DEF ReadStart, Processes
<1>4. lo \in Slots /\ clock - 1 \in Slots /\ lo \in Nat /\ clock - 1 \in Nat
  BY StoreBounds DEF StoreInv, Types, Slots
<1>5. store \in Rows /\ cache \in Rows /\ ClosedSlots(cache) \subseteq ClosedSlots(store)
  BY DEF StoreInv, Types, RowsBackCache
<1>6. r \in Calls /\ r.lo = lo /\ r.hi = clock - 1 /\ r.pc = "idle" /\ r.todo = <<>> /\ r.rows = NoRows
  <2>1. /\ Idle \in Calls /\ Idle.pc = "idle" /\ Idle.todo = <<>> /\ Idle.rows = NoRows
    BY IdleCall
  <2> QED BY <1>4, <2>1 DEF Calls
<1> HIDE DEF r
<1>7. /\ hit \in Calls /\ hit.pc = "create" /\ hit.rows = cache
      /\ hit.lo = lo /\ hit.hi = clock - 1
  BY <1>5, <1>6 DEF Calls, Pcs
<1>8. /\ reread \in Calls /\ reread.pc = "reread" /\ reread.rows = NoRows
      /\ reread.lo = lo /\ reread.hi = clock - 1
  BY <1>6 DEF Calls, Pcs
<1>9. /\ fetch \in Calls /\ fetch.pc = "fetch" /\ fetch.rows = store
      /\ fetch.lo = lo /\ fetch.hi = clock - 1
  BY <1>5, <1>6 DEF Calls, Pcs
<1> HIDE DEF hit, reread, fetch
<1>10. c \in Calls /\ CallOK(Reader, c) /\ ClosedSlots(c.rows) \subseteq ClosedSlots(store)
  <2>1. CASE c = Idle BY <1>3, <2>1, IdleCall, NoRowsAreClosed
  <2>2. CASE c = hit BY <1>4, <1>5, <1>7, <2>2 DEF CallOK, Writing
  <2>3. CASE c = reread BY <1>4, <1>8, <2>3, NoRowsAreClosed DEF CallOK, Writing
  <2>4. CASE c = fetch BY <1>4, <1>9, <2>4 DEF CallOK, Writing
  <2> QED BY <1>2, <2>1, <2>2, <2>3, <2>4
<1> QED BY <1>2, <1>3, <1>10, CallOnly

\* A call that goes on to persist the first n of the candles it was answered.
Answered(c, items, n) == [c EXCEPT !.todo = SubSeq(items, 1, n), !.pc = "read"]

\* The first n of the candles that were asked for.
LEMMA FetchedCall ==
  ASSUME NEW p \in Processes, NEW c \in Calls, NEW items \in Seq(Item),
         NEW n \in 1 .. Len(items),
         p \in {Reader, Syncer} => c.lo \in Slots /\ c.hi \in Slots,
         NEW r, r = Answered(c, items, n)
  PROVE  /\ r \in Calls /\ CallOK(p, r) /\ r.rows = c.rows /\ r.pc = "read"
         /\ r.lo = c.lo /\ r.hi = c.hi
<1>1. Len(items) \in Nat BY LenProperties
<1>2. \A i \in 1 .. n : items[i] \in Item
  <2>1. \A i \in 1 .. n : i \in 1 .. Len(items) BY <1>1
  <2> QED BY <1>1, <2>1, ElementOfSeq
<1>3. SubSeq(items, 1, n) \in Seq(Item) /\ Len(SubSeq(items, 1, n)) = n
  <2>1. n \in Int /\ 1 \in Int /\ 1 <= n /\ n - 1 + 1 = n BY <1>1
  <2> QED BY <1>2, <2>1, SubSeqProperties
<1>4. SubSeq(items, 1, n) # <<>>
  <2>1. n # 0 BY <1>1
  <2>2. Len(<<>>) = 0 BY EmptySeq
  <2> QED BY <1>3, <2>1, <2>2, Zenon
<1>5. r \in Calls /\ r.todo = SubSeq(items, 1, n) /\ r.rows = c.rows /\ r.pc = "read"
      /\ r.lo = c.lo /\ r.hi = c.hi
  BY <1>3 DEF Answered, Calls, Pcs
<1> QED BY <1>4, <1>5 DEF CallOK, Writing

LEMMA FetchStep ==
  ASSUME StoreInv, Fetch
  PROVE  StoreInv'
<1> DEFINE r == [proc[Reader] EXCEPT !.rows = NoRows]
<1> DEFINE S == Missing(proc[Reader].rows, proc[Reader].lo, proc[Reader].hi)
<1>1. /\ proc[Reader].pc = "fetch" /\ Reader \in Processes
      /\ UNCHANGED <<clock, truth, store, cache, stream, dataset, sync>>
  BY DEF Fetch, Processes
<1>2. proc[Reader] \in Calls /\ CallOK(Reader, proc[Reader]) BY <1>1, CallTypes
<1>3. proc[Reader].lo \in Slots /\ proc[Reader].hi \in Slots BY <1>1, <1>2 DEF CallOK
<1>4. S \in SUBSET Slots BY <1>3, NothingMissing
<1>5. /\ r \in Calls /\ r.rows = NoRows /\ r.lo = proc[Reader].lo /\ r.hi = proc[Reader].hi
      /\ r.pc = "fetch"
  BY <1>1, <1>2, NoRowsAreClosed DEF Calls
<1>6. \/ \E n \in 1 .. Len(HistoricalItems(S)) :
           Set(Reader, [r EXCEPT !.todo = SubSeq(HistoricalItems(S), 1, n), !.pc = "read"])
      \/ Set(Reader, Idle)
      \/ Set(Reader, [r EXCEPT !.pc = "reread"])
  BY DEF Fetch, Fetched
<1> HIDE DEF r, S
<1>7. ASSUME NEW n \in 1 .. Len(HistoricalItems(S)), NEW c,
             c = [r EXCEPT !.todo = SubSeq(HistoricalItems(S), 1, n), !.pc = "read"],
             Set(Reader, c)
      PROVE  StoreInv'
  <2>1. c \in Calls /\ CallOK(Reader, c) /\ c.rows = NoRows
    <3>1. HistoricalItems(S) \in Seq(Item) BY <1>4, FetchedItems
    <3>2. c = Answered(r, HistoricalItems(S), n) BY <1>7 DEF Answered
    <3>3. r.lo \in Slots /\ r.hi \in Slots /\ r \in Calls /\ r.rows = NoRows BY <1>3, <1>5
    <3> QED BY <1>1, <3>1, <3>2, <3>3, FetchedCall
  <2> QED BY <1>1, <1>7, <2>1, CallOnly, NoRowsAreClosed
<1>8. CASE Set(Reader, Idle)
  BY <1>1, <1>8, CallOnly, IdleCall, NoRowsAreClosed
<1>9. CASE Set(Reader, [r EXCEPT !.pc = "reread"])
  <2> DEFINE c == [r EXCEPT !.pc = "reread"]
  <2>1. c \in Calls /\ c.rows = NoRows /\ c.pc = "reread" /\ c.lo = r.lo /\ c.hi = r.hi
    BY <1>5 DEF Calls, Pcs
  <2>2. Set(Reader, c) BY <1>9
  <2>3. CallOK(Reader, c) BY <1>3, <1>5, <2>1 DEF CallOK, Writing
  <2> HIDE DEF c
  <2> QED BY <1>1, <2>1, <2>2, <2>3, CallOnly, NoRowsAreClosed
<1> QED BY <1>6, <1>7, <1>8, <1>9

LEMMA RereadStep ==
  ASSUME StoreInv, Reread
  PROVE  StoreInv'
<1> DEFINE r == [proc[Reader] EXCEPT !.rows = store, !.pc = "fill"]
<1>1. /\ Set(Reader, r) /\ proc[Reader].pc = "reread" /\ Reader \in Processes
      /\ UNCHANGED <<clock, truth, store, cache, stream, dataset, sync>>
  BY DEF Reread, Processes
<1>2. proc[Reader] \in Calls /\ CallOK(Reader, proc[Reader]) /\ store \in Rows
  BY <1>1, CallTypes DEF StoreInv, Types
<1>3. r \in Calls /\ r.pc = "fill" /\ r.rows = store /\ r.lo = proc[Reader].lo /\ r.hi = proc[Reader].hi
  BY <1>2 DEF Calls, Pcs
<1>4. CallOK(Reader, r) BY <1>1, <1>2, <1>3 DEF CallOK, Writing
<1> HIDE DEF r
<1> QED BY <1>1, <1>3, <1>4, CallOnly

LEMMA FillStep ==
  ASSUME StoreInv, Fill
  PROVE  StoreInv'
<1> DEFINE r == [proc[Reader] EXCEPT !.pc = "create"]
<1>1. /\ Set(Reader, IF proc[Reader].seal THEN r ELSE Idle)
      /\ cache' \in {Kept(proc[Reader].rows), cache}
      /\ proc[Reader].pc = "fill" /\ Reader \in Processes
      /\ UNCHANGED <<clock, truth, store, stream, dataset, sync>>
  BY DEF Fill, Processes
<1>2. /\ CallOK(Reader, proc[Reader]) /\ proc[Reader].rows \in Rows
      /\ ClosedSlots(proc[Reader].rows) \subseteq ClosedSlots(store)
  BY <1>1, CallTypes
<1>3. r \in Calls /\ CallOK(Reader, r) /\ r.rows = proc[Reader].rows
  BY <1>1, <1>2, GotoCall DEF Pcs, Writing, CallOK
<1> HIDE DEF r
<1>4. PICK c \in {r, Idle} : Set(Reader, c) BY <1>1
<1>5. c \in Calls /\ CallOK(Reader, c) /\ ClosedSlots(c.rows) \subseteq ClosedSlots(store)
  BY <1>1, <1>2, <1>3, <1>4, IdleCall, NoRowsAreClosed
<1>6. Kept(proc[Reader].rows) \in Rows /\ ClosedSlots(Kept(proc[Reader].rows)) \subseteq ClosedSlots(store)
  BY <1>2, KeptRows
<1>7. sync' \in [lost : Nat, to : Nat, overtaken : BOOLEAN] BY <1>1 DEF StoreInv, Types
<1> QED BY <1>1, <1>4, <1>5, <1>6, <1>7, CacheStep

\* Only a range without a missing candle is sealed.
LEMMA CreateStep ==
  ASSUME StoreInv, Create
  PROVE  StoreInv'
<1> DEFINE r == proc[Reader]
<1>1. /\ Set(Reader, Idle) /\ r.pc = "create" /\ Reader \in Processes
      /\ dataset' = IF Sealable(r) THEN Sealed(r) ELSE dataset
      /\ UNCHANGED <<clock, truth, store, cache, stream, sync>>
  BY DEF Create, Processes
<1>2. CallOK(Reader, r) /\ ClosedSlots(r.rows) \subseteq ClosedSlots(store) BY <1>1, CallTypes
<1>3. r.lo \in Slots /\ r.hi \in Slots BY <1>1, <1>2 DEF CallOK
<1> HIDE DEF r
<1>4. proc' \in [Processes -> Calls] /\ CallsAreOK' /\ RowsBackCalls'
  BY <1>1, CallUpdate, IdleCall, NoRowsAreClosed DEF StoreInv
<1>5. Types' BY <1>1, <1>4 DEF StoreInv, Types
<1>6. RowsBackCache' BY <1>1 DEF StoreInv, RowsBackCache, ClosedSlots
<1>7. /\ dataset'.lo .. dataset'.hi \subseteq ClosedSlots(dataset'.rows)
      /\ ClosedSlots(dataset'.rows) \subseteq ClosedSlots(store')
  <2>1. CASE Sealable(r)
    <3>1. r.lo .. r.hi \subseteq ClosedSlots(r.rows) BY <1>3, <2>1, NothingMissing DEF Sealable
    <3>2. dataset'.lo = r.lo /\ dataset'.hi = r.hi /\ dataset'.rows = r.rows
      BY <1>1, <2>1 DEF Sealed
    <3> QED BY <1>1, <1>2, <3>1, <3>2
  <2>2. CASE ~Sealable(r) BY <1>1, <2>2 DEF StoreInv, RowsBackDataset
  <2> QED BY <2>1, <2>2
<1>8. RowsBackDataset' BY <1>7 DEF RowsBackDataset, ClosedSlots
<1> QED BY <1>4, <1>5, <1>6, <1>8 DEF StoreInv

LEMMA ConnectStep ==
  ASSUME StoreInv, Connect
  PROVE  StoreInv'
<1> DEFINE r == [proc[Syncer] EXCEPT !.pc = "boundary"]
<1>1. /\ Set(Syncer, r) /\ proc[Syncer].pc = "idle" /\ Syncer \in Processes
      /\ stream' = [stream EXCEPT !.on = TRUE] /\ sync' = [sync EXCEPT !.to = 0]
      /\ UNCHANGED <<clock, truth, store, cache, dataset>>
  BY DEF Connect, Goto, Processes
<1>2. r \in Calls /\ CallOK(Syncer, r) /\ r.rows = proc[Syncer].rows
  BY <1>1, GotoCall DEF Pcs, Writing
<1> HIDE DEF r
<1>3. ClosedSlots(r.rows) \subseteq ClosedSlots(store) BY <1>1, <1>2, CallTypes
<1>4. proc' \in [Processes -> Calls] /\ CallsAreOK' /\ RowsBackCalls'
  BY <1>1, <1>2, <1>3, CallUpdate DEF StoreInv
<1>5. stream' \in [on : BOOLEAN, drops : 0 .. MaxDrops]
      /\ sync' \in [lost : Nat, to : Nat, overtaken : BOOLEAN]
  BY <1>1 DEF StoreInv, Types
<1>6. Types' BY <1>1, <1>4, <1>5 DEF StoreInv, Types
<1>7. RowsBackCache' BY <1>1 DEF StoreInv, RowsBackCache, ClosedSlots
<1>8. RowsBackDataset' BY <1>1 DEF StoreInv, RowsBackDataset, ClosedSlots
<1> QED BY <1>4, <1>6, <1>7, <1>8 DEF StoreInv

LEMMA BoundaryCall ==
  ASSUME StoreInv, Boundary,
         NEW r, r = [Idle EXCEPT !.lo = From(store), !.hi = clock - 1, !.pc = "history"]
  PROVE  /\ Set(Syncer, r) /\ Syncer \in Processes /\ proc[Syncer].pc = "boundary"
         /\ UNCHANGED <<clock, truth, store, cache, stream, dataset, sync>>
         /\ r \in Calls /\ CallOK(Syncer, r) /\ r.rows = NoRows /\ r.lo = From(store)
         /\ r.pc = "history"
<1>1. /\ Set(Syncer, r) /\ Syncer \in Processes /\ proc[Syncer].pc = "boundary" /\ clock > 1
      /\ UNCHANGED <<clock, truth, store, cache, stream, dataset, sync>>
  BY DEF Boundary, Processes
<1>2. clock - 1 \in Slots /\ clock - 1 \in Nat BY <1>1, StoreBounds DEF StoreInv, Types, Slots
<1>3. From(store) \in Slots
  <2>1. ClosedSlots(store) \subseteq Slots BY DEF ClosedSlots
  <2> QED BY <1>2, <2>1, LastClosed DEF From
<1>4. From(store) \in Nat BY <1>3, SlotsAreFinite
<1>5. Idle \in Calls /\ Idle.rows = NoRows /\ Idle.todo = <<>> BY IdleCall
<1>6. r \in Calls /\ r.rows = NoRows /\ r.lo = From(store) /\ r.hi = clock - 1 /\ r.pc = "history"
  BY <1>2, <1>4, <1>5 DEF Calls, Pcs
<1>7. CallOK(Syncer, r) BY <1>2, <1>3, <1>6 DEF CallOK, Writing
<1> QED BY <1>1, <1>6, <1>7

LEMMA BoundaryStep ==
  ASSUME StoreInv, Boundary
  PROVE  StoreInv'
<1>1. PICK r : r = [Idle EXCEPT !.lo = From(store), !.hi = clock - 1, !.pc = "history"] OBVIOUS
<1>2. /\ Set(Syncer, r) /\ Syncer \in Processes
      /\ UNCHANGED <<clock, truth, store, cache, stream, dataset, sync>>
      /\ r \in Calls /\ CallOK(Syncer, r) /\ ClosedSlots(r.rows) \subseteq ClosedSlots(store)
  BY <1>1, BoundaryCall, NoRowsAreClosed
<1> QED BY <1>2, CallOnly

\* The history that came begins where the reconciliation asked for it.
LEMMA HistoryCall ==
  ASSUME StoreInv, History
  PROVE  \E r \in Calls :
           /\ Set(Syncer, r) /\ CallOK(Syncer, r) /\ r.rows \in {NoRows, proc[Syncer].rows}
           /\ \/ r = Idle
              \/ r.pc = "read" /\ r.lo = proc[Syncer].lo /\ r.hi = proc[Syncer].hi
<1> DEFINE c == proc[Syncer]
<1> DEFINE items == HistoricalItems(c.lo .. c.hi)
<1>1. c.pc = "history" /\ Syncer \in Processes BY DEF History, Processes
<1>2. c \in Calls /\ CallOK(Syncer, c) BY <1>1, CallTypes
<1>3. c.lo \in Slots /\ c.hi \in Slots BY <1>1, <1>2 DEF CallOK
<1>4. items \in Seq(Item) /\ Len(items) \in Nat BY <1>3, NothingMissing, FetchedItems
<1>5. PICK n \in 0 .. Len(items) :
        Set(Syncer, IF n = 0 THEN Idle ELSE [c EXCEPT !.todo = SubSeq(items, 1, n), !.pc = "read"])
  BY DEF History
<1> HIDE DEF items
<1>6. CASE n = 0
  <2>1. Set(Syncer, Idle) BY <1>5, <1>6
  <2> QED BY <1>1, <2>1, IdleCall
<1>7. CASE n # 0
  <2>1. Set(Syncer, Answered(c, items, n)) BY <1>5, <1>7 DEF Answered
  <2>2. n \in 1 .. Len(items) BY <1>4, <1>7
  <2>3. /\ Answered(c, items, n) \in Calls /\ CallOK(Syncer, Answered(c, items, n))
        /\ Answered(c, items, n).rows = c.rows /\ Answered(c, items, n).pc = "read"
        /\ Answered(c, items, n).lo = c.lo /\ Answered(c, items, n).hi = c.hi
    <3> HIDE DEF c
    <3> QED BY <1>1, <1>2, <1>3, <1>4, <2>2, FetchedCall
  <2> QED BY <2>1, <2>3
<1> QED BY <1>6, <1>7

LEMMA HistoryStep ==
  ASSUME StoreInv, History
  PROVE  StoreInv'
<1>1. Syncer \in Processes /\ UNCHANGED <<clock, truth, store, cache, stream, dataset, sync>>
  BY DEF History, Processes
<1>2. PICK r \in Calls : Set(Syncer, r) /\ CallOK(Syncer, r) /\ r.rows \in {NoRows, proc[Syncer].rows}
  BY HistoryCall
<1>3. ClosedSlots(r.rows) \subseteq ClosedSlots(store) BY <1>1, <1>2, CallTypes, NoRowsAreClosed
<1> QED BY <1>1, <1>2, <1>3, CallOnly

LEMMA VerifyCall ==
  ASSUME StoreInv, Verify
  PROVE  \E r \in Calls :
           /\ Set(Syncer, r) /\ CallOK(Syncer, r) /\ ClosedSlots(r.rows) \subseteq ClosedSlots(store)
           /\ \/ r = Idle
              \/ /\ r.pc = "refresh" /\ r.lo = proc[Syncer].lo /\ r.hi = proc[Syncer].hi
                 /\ Missing(store, r.lo, r.hi) = {}
<1> DEFINE r == [proc[Syncer] EXCEPT !.pc = "refresh"]
<1>1. /\ Set(Syncer, IF Verified(proc[Syncer]) THEN r ELSE Idle)
      /\ proc[Syncer].pc = "verify" /\ Syncer \in Processes
  BY DEF Verify, Processes
<1>2. CallOK(Syncer, proc[Syncer]) /\ ClosedSlots(proc[Syncer].rows) \subseteq ClosedSlots(store)
  BY <1>1, CallTypes
<1>3. /\ r \in Calls /\ CallOK(Syncer, r) /\ r.rows = proc[Syncer].rows /\ r.pc = "refresh"
      /\ r.lo = proc[Syncer].lo /\ r.hi = proc[Syncer].hi
  BY <1>1, <1>2, GotoCall DEF Pcs, Writing, CallOK
<1> HIDE DEF r
<1>4. CASE Verified(proc[Syncer])
  <2>1. Set(Syncer, r) BY <1>1, <1>4
  <2>2. Missing(store, r.lo, r.hi) = {} BY <1>3, <1>4 DEF Verified
  <2> QED BY <1>2, <1>3, <2>1, <2>2
<1>5. CASE ~Verified(proc[Syncer])
  <2>1. Set(Syncer, Idle) BY <1>1, <1>5
  <2> QED BY <1>1, <2>1, IdleCall, NoRowsAreClosed
<1> QED BY <1>4, <1>5

LEMMA VerifyStep ==
  ASSUME StoreInv, Verify
  PROVE  StoreInv'
<1>1. Syncer \in Processes /\ UNCHANGED <<clock, truth, store, cache, stream, dataset, sync>>
  BY DEF Verify, Processes
<1>2. PICK r \in Calls : /\ Set(Syncer, r) /\ CallOK(Syncer, r)
                         /\ ClosedSlots(r.rows) \subseteq ClosedSlots(store)
  BY VerifyCall
<1> QED BY <1>1, <1>2, CallOnly

\* The clock, the provider and the stream touch no rows and no copy.
LEMMA OutsideStep ==
  ASSUME StoreInv, Tick \/ Correct \/ Drop
  PROVE  StoreInv'
<1>1. UNCHANGED <<store, cache, proc, dataset>> BY DEF Tick, Correct, Drop
<1>2. Types'
  <2>1. CASE Tick
    <3>1. clock' \in 1 .. MaxClock BY <2>1, StoreBounds DEF Tick, StoreInv, Types
    <3> QED BY <1>1, <2>1, <3>1 DEF Tick, StoreInv, Types
  <2>2. CASE Correct
    <3>1. truth' \subseteq Correctable BY <2>2 DEF Correct, StoreInv, Types
    <3> QED BY <1>1, <2>2, <3>1 DEF Correct, StoreInv, Types
  <2>3. CASE Drop
    <3>1. stream' \in [on : BOOLEAN, drops : 0 .. MaxDrops]
      BY <2>3, StoreBounds DEF Drop, StoreInv, Types
    <3>2. ClosedSlots(store) # {} => Max(ClosedSlots(store)) \in Nat
      <4>1. ClosedSlots(store) \subseteq Slots BY DEF ClosedSlots
      <4> QED BY <4>1, LastClosed, SlotsAreFinite
    <3>3. sync' \in [lost : Nat, to : Nat, overtaken : BOOLEAN] BY <2>3, <3>2 DEF Drop
    <3> QED BY <1>1, <2>3, <3>1, <3>3 DEF Drop, StoreInv, Types
  <2> QED BY <2>1, <2>2, <2>3
<1>3. CallsAreOK' BY <1>1 DEF StoreInv, CallsAreOK, CallOK
<1>4. RowsBackCalls' BY <1>1 DEF StoreInv, RowsBackCalls, ClosedSlots
<1>5. RowsBackCache' BY <1>1 DEF StoreInv, RowsBackCache, ClosedSlots
<1>6. RowsBackDataset' BY <1>1 DEF StoreInv, RowsBackDataset, ClosedSlots
<1> QED BY <1>2, <1>3, <1>4, <1>5, <1>6 DEF StoreInv

LEMMA PersistStepKeeps ==
  ASSUME StoreInv, NEW p \in Processes, PersistStep(p)
  PROVE  StoreInv'
BY PersistReadStep, InvalidateStep, UpsertStep, RefreshReadStep, RefreshSetStep DEF PersistStep

LEMMA StoreNext ==
  ASSUME StoreInv, [Next]_storeVars
  PROVE  StoreInv'
<1>1. Live \subseteq Processes /\ Reader \in Processes /\ Syncer \in Processes BY DEF Processes
<1>2. CASE \E p \in Live : LiveCandle(p) \/ PersistStep(p)
  BY <1>1, <1>2, LiveCandleStep, PersistStepKeeps
<1>3. CASE ReadStart \/ ReaderStep
  BY <1>1, <1>3, ReadStartStep, PersistStepKeeps, FetchStep, RereadStep, FillStep, CreateStep
  DEF ReaderStep
<1>4. CASE Connect \/ SyncerStep
  BY <1>1, <1>4, ConnectStep, PersistStepKeeps, BoundaryStep, HistoryStep, VerifyStep DEF SyncerStep
<1>5. CASE Tick \/ Correct \/ Drop BY <1>5, OutsideStep
<1>6. CASE UNCHANGED storeVars
  BY <1>6 DEF storeVars, StoreInv, Types, CallsAreOK, CallOK, RowsBackCalls, RowsBackCache,
              RowsBackDataset, ClosedSlots
<1> QED BY <1>2, <1>3, <1>4, <1>5, <1>6 DEF Next

LEMMA StoreInvIsInvariant == Spec => []StoreInv
<1>1. StoreInv /\ [Next]_storeVars => StoreInv' BY StoreNext
<1> QED BY <1>1, StoreInit, PTL DEF Spec

-----------------------------------------------------------------------------
(* The promises                                                            *)

LEMMA StoreInvImplies == StoreInv => CopiesRestOnRows
<1> SUFFICES ASSUME StoreInv PROVE CopiesRestOnRows OBVIOUS
<1>1. ASSUME NEW p \in Processes
      PROVE  /\ proc[p].todo \in Seq(Item) /\ proc[p].rows \in Rows
             /\ proc[p].pc \in {"read", "invalidate", "upsert"} => proc[p].todo # <<>>
  BY <1>1, CallTypes DEF CallOK, Writing
<1>2. TypeOK BY <1>1 DEF StoreInv, Types, TypeOK
<1>3. CachedClosedIsStored BY DEF StoreInv, RowsBackCache, CachedClosedIsStored
<1>4. DatasetIsComplete BY DEF StoreInv, RowsBackDataset, DatasetIsComplete
<1> QED BY <1>2, <1>3, <1>4 DEF CopiesRestOnRows

\* No copy knows a close the rows do not have, and a sealed dataset has every
\* candle of its range, whatever refreshes, fetches and seals cross
\* (refreshCandleCache, createDatasetSnapshot).
THEOREM CopiesAreSound == Spec => []CopiesRestOnRows
BY StoreInvIsInvariant, StoreInvImplies, PTL

LEMMA RowsStayClosed ==
  ASSUME StoreInv, [Next]_storeVars
  PROVE  ClosedSlots(store) \subseteq ClosedSlots(store')
<1>1. Live \subseteq Processes /\ Reader \in Processes /\ Syncer \in Processes BY DEF Processes
<1>2. CASE \E p \in Processes : Upsert(p) BY <1>2, UpsertEffect
<1>3. CASE store' = store BY <1>3
<1>4. (\E p \in Processes : Upsert(p)) \/ store' = store
  BY <1>1 DEF Next, LiveCandle, PersistStep, PersistRead, Invalidate, RefreshRead, RefreshSet,
    ReadStart, ReaderStep, Fetch, Reread, Fill, Create, Connect, SyncerStep, Boundary, History,
    Verify, Tick, Correct, Drop, storeVars
<1> QED BY <1>2, <1>3, <1>4

\* A candle that was stored closed is never forming again, in whatever order
\* its versions are read, decided and upserted (persist, upsert).
THEOREM ClosedStaysClosed == Spec => ClosedIsFinal
<1>1. StoreInv /\ [Next]_storeVars =>
        [\A k \in Slots : Closed(store[k]) => Closed(store'[k])]_storeVars
  BY RowsStayClosed DEF ClosedSlots
<1> QED BY <1>1, StoreInvIsInvariant, PTL DEF Spec, ClosedIsFinal

-----------------------------------------------------------------------------
(* The reconciliation                                                      *)

LEMMA SyncInit == Init => SyncInv
<1> SUFFICES ASSUME Init PROVE SyncInv OBVIOUS
<1>1. ClosedSlots(store) = {} /\ Syncer \in Processes BY NoRowsAreClosed DEF Init, Processes
<1>2. proc[Syncer].pc = "idle" BY <1>1, IdleCall DEF Init
<1> QED BY <1>1, <1>2 DEF Init, SyncInv, Last, Reconciling, ReconciledUnlessOvertaken

\* A step that writes no row and does not move the promise: what the
\* reconciliation may do meanwhile.
LEMMA SyncMoves ==
  ASSUME SyncInv, UNCHANGED <<store, sync, stream>>,
         proc'[Syncer].pc = "boundary" => proc[Syncer].pc = "boundary",
         proc'[Syncer].pc \notin {"idle", "boundary"} =>
           proc[Syncer].pc \notin {"idle", "boundary"} /\ proc'[Syncer].lo = proc[Syncer].lo,
         proc'[Syncer].pc \in {"refresh", "set"} /\ proc'[Syncer].todo = <<>> =>
           Missing(store, proc'[Syncer].lo, proc'[Syncer].hi) = {}
  PROVE  SyncInv'
<1>1. Pending' => Pending BY DEF Pending
<1>2. Last(store') = Last(store) BY DEF Last, ClosedSlots
<1>3. (Pending /\ ~sync.overtaken => sync.lost = Last(store))' BY <1>1, <1>2 DEF SyncInv, Last
<1>4. (Reconciling /\ ~sync.overtaken /\ sync.lost > 0 => proc[Syncer].lo = sync.lost)'
  BY DEF SyncInv, Reconciling
<1>5. (proc[Syncer].pc \in {"refresh", "set"} /\ proc[Syncer].todo = <<>> =>
         Missing(store, proc[Syncer].lo, proc[Syncer].hi) = {})'
  BY DEF Missing
<1>6. ReconciledUnlessOvertaken' BY DEF SyncInv, ReconciledUnlessOvertaken, Missing
<1> QED BY <1>3, <1>4, <1>5, <1>6 DEF SyncInv

\* Steps of the others that write no row.
LEMMA SyncOfOthers ==
  ASSUME StoreInv, SyncInv, UNCHANGED <<store, sync, stream>>,
         NEW p \in Processes \ {Syncer}, NEW r, Set(p, r)
  PROVE  SyncInv'
<1>1. proc'[Syncer] = proc[Syncer] BY DEF StoreInv, Types, Set
<1>2. proc[Syncer].pc \in {"refresh", "set"} /\ proc[Syncer].todo = <<>> =>
        Missing(store, proc[Syncer].lo, proc[Syncer].hi) = {}
  BY DEF SyncInv
<1> QED BY <1>1, <1>2, SyncMoves

\* What the reconciliation's own steps leave it.
LEMMA SyncOfSyncer ==
  ASSUME StoreInv, SyncInv, UNCHANGED <<store, sync, stream>>,
         NEW r, Set(Syncer, r),
         r.pc = "boundary" => proc[Syncer].pc = "boundary",
         r.pc \notin {"idle", "boundary"} =>
           proc[Syncer].pc \notin {"idle", "boundary"} /\ r.lo = proc[Syncer].lo,
         r.pc \in {"refresh", "set"} /\ r.todo = <<>> => Missing(store, r.lo, r.hi) = {}
  PROVE  SyncInv'
<1>1. proc'[Syncer] = r BY DEF StoreInv, Types, Set, Processes
<1> QED BY <1>1, SyncMoves

LEMMA SyncPersistRead ==
  ASSUME StoreInv, SyncInv, NEW p \in Processes, PersistRead(p)
  PROVE  SyncInv'
<1>1. /\ Set(p, Decided(p, proc[p])) /\ proc[p].pc = "read" /\ UNCHANGED <<store, sync, stream>>
  BY DEF PersistRead
<1>2. CASE p # Syncer BY <1>1, <1>2, SyncOfOthers
<1>3. CASE p = Syncer
  <2>1. PICK r : r = Decided(p, proc[p]) OBVIOUS
  <2>2. proc[p] \in Calls /\ CallOK(p, proc[p]) BY CallTypes
  <2>3. r.lo = proc[p].lo /\ r.pc \in Writing \cup {"verify"}
    BY <1>1, <1>3, <2>1, <2>2, DecidedCall DEF CallOK, Writing
  <2> QED BY <1>1, <1>3, <2>1, <2>3, SyncOfSyncer DEF Writing
<1> QED BY <1>2, <1>3

LEMMA SyncInvalidate ==
  ASSUME StoreInv, SyncInv, NEW p \in Processes, Invalidate(p)
  PROVE  SyncInv'
<1>1. PICK r : r = [proc[p] EXCEPT !.pc = "upsert"] OBVIOUS
<1>2. /\ Set(p, r) /\ proc[p].pc = "invalidate" /\ UNCHANGED <<store, sync, stream>>
  BY <1>1 DEF Invalidate, Goto
<1>3. CASE p # Syncer BY <1>2, <1>3, SyncOfOthers
<1>4. CASE p = Syncer
  <2>1. CallOK(p, proc[p]) BY CallTypes
  <2>2. r.pc = "upsert" /\ r.lo = proc[p].lo
    BY <1>1, <1>2, <2>1, GotoCall DEF Pcs, Writing, CallOK
  <2> QED BY <1>2, <1>4, <2>2, SyncOfSyncer
<1> QED BY <1>3, <1>4

LEMMA SyncRefreshRead ==
  ASSUME StoreInv, SyncInv, NEW p \in Processes, RefreshRead(p)
  PROVE  SyncInv'
<1>1. PICK r : r = [proc[p] EXCEPT !.pc = "set", !.rows = store] OBVIOUS
<1>2. /\ Set(p, r) /\ proc[p].pc = "refresh" /\ UNCHANGED <<store, sync, stream>>
  BY <1>1 DEF RefreshRead
<1>3. CASE p # Syncer BY <1>2, <1>3, SyncOfOthers
<1>4. CASE p = Syncer
  <2>1. proc[p] \in Calls BY CallTypes
  <2>2. r.pc = "set" /\ r.lo = proc[p].lo /\ r.hi = proc[p].hi /\ r.todo = proc[p].todo
    BY <1>1, <2>1 DEF Calls
  <2>3. r.todo = <<>> => Missing(store, r.lo, r.hi) = {} BY <1>2, <1>4, <2>2 DEF SyncInv
  <2> QED BY <1>2, <1>4, <2>2, <2>3, SyncOfSyncer
<1> QED BY <1>3, <1>4

\* A close that is stored before the boundary overtakes the reconciliation;
\* afterwards it only fills what the reconciliation would find missing.
LEMMA SyncUpsert ==
  ASSUME StoreInv, SyncInv, NEW p \in Processes, Upsert(p)
  PROVE  SyncInv'
<1>1. PICK r : r = [proc[p] EXCEPT !.pc = "refresh"] OBVIOUS
<1>2. /\ Set(p, r) /\ proc[p].pc = "upsert" /\ proc[p].todo # <<>>
      /\ ClosedSlots(store) \subseteq ClosedSlots(store')
      /\ ~Closed(Item1(p).version) => ClosedSlots(store') = ClosedSlots(store)
      /\ r \in Calls /\ r.pc = "refresh" /\ r.lo = proc[p].lo /\ r.hi = proc[p].hi /\ r.todo = proc[p].todo
  BY <1>1, UpsertEffect
<1>3. /\ sync' = [sync EXCEPT !.overtaken =
                   @ \/ (/\ Closed(Item1(p).version)
                         /\ ~stream.on \/ proc[Syncer].pc = "boundary")]
      /\ UNCHANGED <<clock, truth, cache, stream, dataset>>
  BY DEF Upsert
<1>4. /\ sync'.lost = sync.lost /\ sync'.to = sync.to
      /\ sync'.overtaken <=> sync.overtaken \/ (Closed(Item1(p).version) /\ Pending)
  BY <1>3 DEF StoreInv, Types, Pending
<1>5. /\ p # Syncer => proc'[Syncer] = proc[Syncer]
      /\ p = Syncer => proc'[Syncer] = r
  BY <1>2 DEF StoreInv, Types, Set
<1>6. proc'[Syncer].lo = proc[Syncer].lo /\ (proc'[Syncer].pc = "boundary" <=> proc[Syncer].pc = "boundary")
      /\ (proc'[Syncer].pc = "idle" <=> proc[Syncer].pc = "idle")
  BY <1>2, <1>5
<1>7. (Pending /\ ~sync.overtaken => sync.lost = Last(store))'
  <2> SUFFICES ASSUME Pending', ~sync'.overtaken PROVE sync'.lost = Last(store')
    BY DEF Last, ClosedSlots
  <2>1. Pending /\ ~sync.overtaken BY <1>3, <1>4, <1>6 DEF Pending
  <2>2. ~Closed(Item1(p).version) BY <1>4, <2>1
  <2>3. ClosedSlots(store') = ClosedSlots(store) BY <1>2, <2>2
  <2> QED BY <1>4, <2>1, <2>3 DEF SyncInv, Last
<1>8. (Reconciling /\ ~sync.overtaken /\ sync.lost > 0 => proc[Syncer].lo = sync.lost)'
  BY <1>3, <1>4, <1>6 DEF SyncInv, Reconciling
<1>9. ASSUME NEW lo, NEW hi, Missing(store, lo, hi) = {} PROVE Missing(store', lo, hi) = {}
  <2> SUFFICES ASSUME NEW k \in lo .. hi PROVE Closed(store'[k]) BY DEF Missing
  <2>1. Closed(store[k]) BY <1>9 DEF Missing
  <2>2. CASE k \in Slots BY <1>2, <2>1, <2>2 DEF ClosedSlots
  <2>3. CASE k \notin Slots
    <3>1. PICK item \in Item : store' = Upserted(item) BY UpsertEffect
    <3>2. store'[k] = store[k]
      BY <2>3, <3>1 DEF Upserted, Item, StoreInv, Types, Rows
    <3> QED BY <2>1, <3>2
  <2> QED BY <2>2, <2>3
<1>10. (proc[Syncer].pc \in {"refresh", "set"} /\ proc[Syncer].todo = <<>> =>
          Missing(store, proc[Syncer].lo, proc[Syncer].hi) = {})'
  <2> SUFFICES ASSUME proc'[Syncer].pc \in {"refresh", "set"}, proc'[Syncer].todo = <<>>
               PROVE  Missing(store', proc'[Syncer].lo, proc'[Syncer].hi) = {}
    BY DEF Missing
  <2>1. proc'[Syncer] = proc[Syncer] BY <1>2, <1>5
  <2>2. Missing(store, proc[Syncer].lo, proc[Syncer].hi) = {} BY <2>1 DEF SyncInv
  <2> QED BY <1>9, <2>1, <2>2
<1>11. ReconciledUnlessOvertaken'
  <2> SUFFICES ASSUME sync'.to > 0, sync'.lost > 0, ~sync'.overtaken
               PROVE  Missing(store', sync'.lost, sync'.to - 1) = {}
    BY DEF ReconciledUnlessOvertaken, Missing
  <2>1. Missing(store, sync.lost, sync.to - 1) = {} BY <1>4 DEF SyncInv, ReconciledUnlessOvertaken
  <2> QED BY <1>4, <1>9, <2>1
<1> QED BY <1>7, <1>8, <1>10, <1>11 DEF SyncInv

\* The last refresh of a reconciliation promises what it verified, if its
\* stream is still there.
LEMMA SyncRefreshSet ==
  ASSUME StoreInv, SyncInv, NEW p \in Processes, RefreshSet(p)
  PROVE  SyncInv'
<1>1. PICK r : r = AfterSet(p) OBVIOUS
<1>2. /\ Set(p, r) /\ proc[p].pc = "set"
      /\ sync' = IF p = Syncer /\ proc[p].todo = <<>> /\ stream.on
                 THEN [sync EXCEPT !.to = proc[p].hi + 1] ELSE sync
      /\ UNCHANGED <<clock, truth, store, stream, dataset>>
  BY <1>1 DEF RefreshSet
<1>3. CASE p # Syncer BY <1>2, <1>3, SyncOfOthers
<1>4. CASE p = Syncer
  <2>1. proc'[Syncer] = r BY <1>2, <1>4 DEF StoreInv, Types, Set
  <2>2. \/ r.pc = "idle"
        \/ r.lo = proc[Syncer].lo /\ r.hi = proc[Syncer].hi /\ r.pc \in {"read", "verify"}
    BY <1>1, <1>2, <1>4, AfterSetCall
  <2>3. CASE sync' = sync BY <1>2, <1>4, <2>2, <2>3, SyncOfSyncer
  <2>4. CASE sync' # sync
    <3>1. proc[Syncer].todo = <<>> /\ stream.on /\ sync' = [sync EXCEPT !.to = proc[Syncer].hi + 1]
      BY <1>2, <1>4, <2>4
    <3>2. proc[Syncer].hi \in Nat /\ proc[Syncer].lo \in Nat BY <1>4, CallTypes
    <3>3. /\ sync'.lost = sync.lost /\ sync'.overtaken = sync.overtaken
          /\ sync'.to = proc[Syncer].hi + 1 /\ sync'.to - 1 = proc[Syncer].hi
      BY <3>1, <3>2 DEF StoreInv, Types
    <3>4. (Pending /\ ~sync.overtaken => sync.lost = Last(store))'
      BY <1>2, <2>1, <2>2, <3>1 DEF Pending
    <3>5. (Reconciling /\ ~sync.overtaken /\ sync.lost > 0 => proc[Syncer].lo = sync.lost)'
      BY <1>2, <1>4, <2>1, <2>2, <3>3 DEF SyncInv, Reconciling
    <3>6. (proc[Syncer].pc \in {"refresh", "set"} /\ proc[Syncer].todo = <<>> =>
             Missing(store, proc[Syncer].lo, proc[Syncer].hi) = {})'
      BY <2>1, <2>2
    <3>7. ReconciledUnlessOvertaken'
      <4> SUFFICES ASSUME sync'.lost > 0, ~sync'.overtaken
                   PROVE  Missing(store', sync'.lost, sync'.to - 1) = {}
        BY DEF ReconciledUnlessOvertaken, Missing
      <4>1. Reconciling BY <1>2, <1>4, <3>1 DEF Reconciling
      <4>2. proc[Syncer].lo = sync.lost BY <3>3, <4>1 DEF SyncInv
      <4>3. Missing(store, proc[Syncer].lo, proc[Syncer].hi) = {} BY <1>2, <1>4, <3>1 DEF SyncInv
      <4> QED BY <1>2, <3>3, <4>2, <4>3
    <3> QED BY <3>4, <3>5, <3>6, <3>7 DEF SyncInv
  <2> QED BY <2>3, <2>4
<1> QED BY <1>3, <1>4

LEMMA SyncPersist ==
  ASSUME StoreInv, SyncInv, NEW p \in Processes, PersistStep(p)
  PROVE  SyncInv'
BY SyncPersistRead, SyncInvalidate, SyncUpsert, SyncRefreshRead, SyncRefreshSet DEF PersistStep

LEMMA SyncOfReads ==
  ASSUME StoreInv, SyncInv,
         \/ \E p \in Live : LiveCandle(p)
         \/ ReadStart \/ Fetch \/ Reread \/ Fill \/ Create
  PROVE  SyncInv'
<1>1. UNCHANGED <<store, sync, stream>> BY DEF LiveCandle, ReadStart, Fetch, Reread, Fill, Create
<1>2. \E p \in Live \cup {Reader} : \E r : Set(p, r)
  <2>1. ASSUME NEW p \in Live, LiveCandle(p) PROVE \E r : Set(p, r)
    BY <2>1 DEF LiveCandle
  <2>2. ReadStart \/ Fetch \/ Reread \/ Fill \/ Create => \E r : Set(Reader, r)
    BY DEF ReadStart, Fetch, Reread, Fill, Create
  <2> QED BY <2>1, <2>2
<1>3. \A p \in Live \cup {Reader} : p \in Processes \ {Syncer} BY ProcessesDiffer DEF Processes
<1> QED BY <1>1, <1>2, <1>3, SyncOfOthers

LEMMA SyncConnect ==
  ASSUME StoreInv, SyncInv, Connect
  PROVE  SyncInv'
<1>1. PICK r : r = [proc[Syncer] EXCEPT !.pc = "boundary"] OBVIOUS
<1>2. /\ Set(Syncer, r) /\ ~stream.on /\ UNCHANGED <<store>> /\ Syncer \in Processes
      /\ sync' = [sync EXCEPT !.to = 0]
  BY <1>1 DEF Connect, Goto, Processes
<1>3. proc[Syncer] \in Calls BY <1>2, CallTypes
<1>4. proc'[Syncer] = r BY <1>2 DEF StoreInv, Types, Set
<1>5. proc'[Syncer].pc = "boundary" BY <1>1, <1>3, <1>4 DEF Calls
<1>6. sync'.to = 0 /\ sync'.lost = sync.lost /\ sync'.overtaken = sync.overtaken
  BY <1>2 DEF StoreInv, Types
<1>7. (Pending /\ ~sync.overtaken => sync.lost = Last(store))'
  BY <1>2, <1>6 DEF SyncInv, Pending, Last, ClosedSlots
<1>8. (Reconciling /\ ~sync.overtaken /\ sync.lost > 0 => proc[Syncer].lo = sync.lost)'
  BY <1>5 DEF Reconciling
<1>9. (proc[Syncer].pc \in {"refresh", "set"} /\ proc[Syncer].todo = <<>> =>
         Missing(store, proc[Syncer].lo, proc[Syncer].hi) = {})'
  BY <1>5
<1>10. ReconciledUnlessOvertaken' BY <1>6 DEF ReconciledUnlessOvertaken
<1> QED BY <1>7, <1>8, <1>9, <1>10 DEF SyncInv

\* The boundary is the last closed candle, which is the one before the loss
\* when no close overtook it.
LEMMA SyncBoundary ==
  ASSUME StoreInv, SyncInv, Boundary
  PROVE  SyncInv'
<1>1. PICK r : r = [Idle EXCEPT !.lo = From(store), !.hi = clock - 1, !.pc = "history"] OBVIOUS
<1>2. /\ Set(Syncer, r) /\ Syncer \in Processes /\ proc[Syncer].pc = "boundary"
      /\ UNCHANGED <<store, stream, sync>>
      /\ r.lo = From(store) /\ r.pc = "history"
  BY <1>1, BoundaryCall
<1>3. proc'[Syncer] = r BY <1>2 DEF StoreInv, Types, Set
<1>4. (Pending /\ ~sync.overtaken => sync.lost = Last(store))'
  <2>1. Pending BY <1>2 DEF Pending
  <2> QED BY <1>2, <2>1 DEF SyncInv, Last, ClosedSlots
<1>5. (Reconciling /\ ~sync.overtaken /\ sync.lost > 0 => proc[Syncer].lo = sync.lost)'
  <2> SUFFICES ASSUME ~sync.overtaken, sync.lost > 0 PROVE r.lo = sync.lost
    BY <1>2, <1>3 DEF Reconciling
  <2>1. sync.lost = Last(store) BY <1>2 DEF SyncInv, Pending
  <2>2. ClosedSlots(store) # {} BY <2>1 DEF Last
  <2> QED BY <1>2, <2>1, <2>2 DEF From, Last
<1>6. (proc[Syncer].pc \in {"refresh", "set"} /\ proc[Syncer].todo = <<>> =>
         Missing(store, proc[Syncer].lo, proc[Syncer].hi) = {})'
  BY <1>2, <1>3
<1>7. ReconciledUnlessOvertaken' BY <1>2 DEF SyncInv, ReconciledUnlessOvertaken, Missing
<1> QED BY <1>4, <1>5, <1>6, <1>7 DEF SyncInv

LEMMA SyncHistory ==
  ASSUME StoreInv, SyncInv, History
  PROVE  SyncInv'
<1>1. proc[Syncer].pc = "history" /\ UNCHANGED <<store, sync, stream>> BY DEF History
<1>2. PICK r \in Calls : /\ Set(Syncer, r)
                         /\ r = Idle \/ (r.pc = "read" /\ r.lo = proc[Syncer].lo)
  BY HistoryCall
<1>3. r.pc = "idle" \/ (r.pc = "read" /\ r.lo = proc[Syncer].lo) BY <1>2, IdleCall
<1> QED BY <1>1, <1>2, <1>3, SyncOfSyncer

LEMMA SyncVerify ==
  ASSUME StoreInv, SyncInv, Verify
  PROVE  SyncInv'
<1>1. proc[Syncer].pc = "verify" /\ UNCHANGED <<store, sync, stream>> BY DEF Verify
<1>2. PICK r \in Calls :
        /\ Set(Syncer, r)
        /\ \/ r = Idle
           \/ r.pc = "refresh" /\ r.lo = proc[Syncer].lo /\ Missing(store, r.lo, r.hi) = {}
  BY VerifyCall
<1>3. \/ r.pc = "idle"
      \/ r.pc = "refresh" /\ r.lo = proc[Syncer].lo /\ Missing(store, r.lo, r.hi) = {}
  BY <1>2, IdleCall
<1> QED BY <1>1, <1>2, <1>3, SyncOfSyncer

\* The loss of the stream notes the last closed candle.
LEMMA SyncDrop ==
  ASSUME StoreInv, SyncInv, Drop
  PROVE  SyncInv'
<1>1. /\ stream' = [on |-> FALSE, drops |-> stream.drops + 1]
      /\ sync' = [lost |-> Last(store), to |-> 0, overtaken |-> FALSE]
      /\ UNCHANGED <<store, proc>>
  BY DEF Drop, Last
<1>2. (Pending /\ ~sync.overtaken => sync.lost = Last(store))' BY <1>1 DEF Last, ClosedSlots
<1>3. (Reconciling /\ ~sync.overtaken /\ sync.lost > 0 => proc[Syncer].lo = sync.lost)'
  BY <1>1 DEF Reconciling
<1>4. (proc[Syncer].pc \in {"refresh", "set"} /\ proc[Syncer].todo = <<>> =>
         Missing(store, proc[Syncer].lo, proc[Syncer].hi) = {})'
  BY <1>1 DEF SyncInv, Missing
<1>5. ReconciledUnlessOvertaken' BY <1>1 DEF ReconciledUnlessOvertaken
<1> QED BY <1>2, <1>3, <1>4, <1>5 DEF SyncInv

LEMMA SyncNext ==
  ASSUME StoreInv, SyncInv, [Next]_storeVars
  PROVE  SyncInv'
<1>1. Live \subseteq Processes /\ Reader \in Processes /\ Syncer \in Processes BY DEF Processes
<1>2. CASE \E p \in Live : LiveCandle(p) \/ PersistStep(p) BY <1>1, <1>2, SyncOfReads, SyncPersist
<1>3. CASE ReadStart \/ ReaderStep BY <1>1, <1>3, SyncOfReads, SyncPersist DEF ReaderStep
<1>4. CASE Connect \/ SyncerStep
  BY <1>1, <1>4, SyncConnect, SyncPersist, SyncBoundary, SyncHistory, SyncVerify DEF SyncerStep
<1>5. CASE Drop BY <1>5, SyncDrop
<1>6. CASE Tick \/ Correct \/ UNCHANGED storeVars
  <2>1. UNCHANGED <<store, sync, stream, proc>> BY <1>6 DEF Tick, Correct, storeVars
  <2> QED BY <2>1 DEF SyncInv, Pending, Reconciling, Last, ClosedSlots, Missing, ReconciledUnlessOvertaken
<1> QED BY <1>2, <1>3, <1>4, <1>5, <1>6 DEF Next

\* A reconciliation that succeeded leaves no hole since the last candle before
\* the loss, unless a live close was stored before it read its boundary
\* (reconcileProviderSubscriptions).
THEOREM ReconciliationIsComplete == Spec => []ReconciledUnlessOvertaken
<1>1. StoreInv /\ SyncInv /\ [Next]_storeVars => SyncInv' BY SyncNext
<1>2. SyncInv => ReconciledUnlessOvertaken BY DEF SyncInv
<1> QED BY <1>1, <1>2, SyncInit, StoreInvIsInvariant, PTL DEF Spec
=============================================================================
