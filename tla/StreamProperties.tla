---------------------------- MODULE StreamProperties ----------------------------
(***************************************************************************)
(* What the realtime market stream must guarantee.                         *)
(***************************************************************************)
EXTENDS MarketStream

\* Every variable stays in its domain; the head of the chain, when it waits,
\* waits for a socket that was opened.
TypeOK ==
  /\ phase \in [Callers -> Phases]
  /\ subscribers \in SUBSET Callers
  /\ chain \in Seq(Callers)
  /\ waiting \in Sockets \cup {0}
  /\ waiting # 0 => chain # <<>> /\ sock[waiting].state # "unused"
  /\ mgr \in Manager
  /\ sock \in [Sockets -> Socket]
  /\ faults \in 0 .. MaxFaults

-----------------------------------------------------------------------------
(* The upstream connection                                                 *)

\* CONNECTED is never claimed for a stream that is gone, is still being
\* reconciled or lacks a subscription: there is an open socket of the current
\* generation, for exactly the desired streams, whose history is reconciled.
ConnectedIsTrue ==
  mgr.status = "CONNECTED" =>
    \E k \in Sockets : /\ sock[k].state = "open"
                       /\ sock[k].gen = mgr.gen
                       /\ sock[k].subs = mgr.desired
                       /\ sock[k].history = "done"

\* The connection that the manager holds is for the streams it desires now.
ConnectionServesDesired ==
  mgr.conn # 0 => /\ sock[mgr.conn].subs = mgr.desired
                  /\ sock[mgr.conn].state \in {"opening", "open"}

HistoryFailed == \E k \in Sockets : sock[k].history = "failed"

\* Through every change of subscriptions, drop, retry and shutdown, no
\* websocket is live but the one the manager holds and can close, unless a
\* reconciliation failed (then Reconnect replaces a connection it does not
\* close) or a malformed message came (then the adapter leaves it open).
OnlyHeldSocketIsLive ==
  ~HistoryFailed =>
    \A k \in Sockets : sock[k].state \in {"opening", "open"} => k = mgr.conn

-----------------------------------------------------------------------------
(* Subscribers                                                             *)

\* When no reconciliation is queued or running, what the manager desires is
\* the union of the subscribers, in whatever order they came and went and
\* whatever failed meanwhile: no change is lost to a reconciliation that read
\* the union before it.
DesiredIsUnion == chain = <<>> /\ ~mgr.stopped => mgr.desired = Union

\* Every subscribe and unsubscribe call returns, though the reconciliation
\* it waits for is overtaken by a drop, a retry or the shutdown.
CallersAnswered ==
  \A c \in Callers : /\ phase[c] = "joining" ~> phase[c] = "joined"
                     /\ phase[c] = "leaving" ~> phase[c] = "left"

GaveUp == mgr.status = "DISCONNECTED" /\ mgr.timer = 0 /\ mgr.attempt = MaxAttempts

Desired == mgr.desired # {}
Connected == mgr.status = "CONNECTED"

\* A stream that is wanted and lost comes back, or its attempts are used up
\* and DISCONNECTED says so - unless a reconciliation failed.
RecoversUnlessHistoryFails ==
  Desired /\ ~Connected ~> Connected \/ ~Desired \/ GaveUp \/ HistoryFailed
=============================================================================
