---------------------------- MODULE CandleProperties ----------------------------
(***************************************************************************)
(* What the candle store promises to charts, backtests and the stream.     *)
(***************************************************************************)
EXTENDS CandleStore

\* The state has its types, and a process that persists has a candle to
\* persist.
TypeOK ==
  /\ clock \in 1 .. MaxClock /\ truth \subseteq Correctable
  /\ store \in Rows /\ cache \in Rows
  /\ \A p \in Processes :
       /\ proc[p].todo \in Seq(Item) /\ proc[p].rows \in Rows
       /\ proc[p].pc \in {"read", "invalidate", "upsert"} => proc[p].todo # <<>>
  /\ stream \in [on : BOOLEAN, drops : 0 .. MaxDrops]
  /\ sync \in [lost : Nat, to : Nat, overtaken : BOOLEAN]

\* A candle that was stored closed is never forming again, whatever order the
\* reads and upserts of its versions come in (persist, upsert).
ClosedIsFinal ==
  [][\A k \in Slots : Closed(store[k]) => Closed(store'[k])]_storeVars

\* The cached window never claims a closed candle the database does not have:
\* a cache hit is as complete as the rows would be, however refreshes cross.
CachedClosedIsStored == ClosedSlots(cache) \subseteq ClosedSlots(store)

\* A dataset has a closed candle for every slot of its range, all of which are
\* stored: neither a provider with gaps nor the cache makes an incomplete one.
DatasetIsComplete ==
  dataset.lo .. dataset.hi \subseteq ClosedSlots(dataset.rows) \cap ClosedSlots(store)

\* When a reconciliation has succeeded no candle is missing since the last one
\* before the loss of the stream, unless a later close was
\* stored in between.
ReconciledUnlessOvertaken ==
  (sync.to > 0 /\ sync.lost > 0 /\ ~sync.overtaken) => Missing(store, sync.lost, sync.to - 1) = {}

\* No copy knows a close the rows do not have: neither the cached window nor a
\* sealed dataset, whoever writes in between (refreshCandleCache, create).
CopiesRestOnRows == TypeOK /\ CachedClosedIsStored /\ DatasetIsComplete
=============================================================================
