------------------------------ MODULE MarketStream ------------------------------
(***************************************************************************)
(* The realtime market stream of one backend: the subscribers of Market    *)
(* Data, the chain of promises that serialises their reconciliations, and  *)
(* the subscription manager that keeps one provider websocket open for the *)
(* union of what they want, with its reconnection timer.                   *)
(*                                                                         *)
(* One event-loop task is one step: a call, a timer, a websocket event or  *)
(* the answer of a historical read, with the continuations it releases     *)
(* before the manager awaits again.  Ticks, candles and delays are left    *)
(* out.                                                                    *)
(***************************************************************************)
EXTENDS Naturals, FiniteSets, Sequences

CONSTANTS
  Callers,       \* subscriptions; each is made and given back at most once
  Wants,         \* the streams each of them is for
  MaxAttempts,   \* reconnectMaxAttempts
  MaxSockets,    \* bound: websockets opened
  MaxFaults      \* bound: what goes wrong at the provider

ASSUME BoundsAreNatural ==
  MaxAttempts \in Nat \ {0} /\ MaxSockets \in Nat /\ MaxFaults \in Nat
ASSUME EverySubscriptionIsForAStream == \A c \in Callers : Wants[c] # {}

VARIABLES
  phase,        \* where each caller is between subscribing and unsubscribing
  subscribers,  \* the service's map of subscribers
  chain,        \* reconcilePromise: the callers whose reconciliation is queued
  waiting,      \* the socket whose readiness the head of the chain awaits, or 0
  mgr,          \* the fields of the subscription manager and the status it gave
  sock,         \* the websockets, with the generation each callback captured
  faults        \* faults so far

vars == <<phase, subscribers, chain, waiting, mgr, sock, faults>>

Sockets == 1 .. MaxSockets
Streams == UNION {Wants[c] : c \in Callers}
Phases == {"idle", "joining", "joined", "leaving", "left"}

\* conn is 0 without a connection; timer is the generation that the pending
\* reconnection captured, and 0 without one.
Manager == [ desired : SUBSET Streams, conn : Sockets \cup {0}, timer : Nat,
             gen : Nat, attempt : 0 .. MaxAttempts, stopped : BOOLEAN,
             status : {"CONNECTED", "RECONNECTING", "DISCONNECTED"} ]

\* A malformed message makes the adapter report a socket as disconnected and
\* leave it open ("deaf" to close, it still delivers).  history is the
\* reconciliation that the opening of the socket started.
Socket == [ state : {"unused", "opening", "open", "deaf", "closed"},
            subs : SUBSET Streams, gen : Nat,
            history : {"none", "running", "done", "failed"} ]

NoSocket == [state |-> "unused", subs |-> {}, gen |-> 0, history |-> "none"]

Init ==
  /\ phase = [c \in Callers |-> "idle"]
  /\ subscribers = {}
  /\ chain = <<>>
  /\ waiting = 0
  /\ mgr = [desired |-> {}, conn |-> 0, timer |-> 0, gen |-> 0, attempt |-> 0,
            stopped |-> FALSE, status |-> "DISCONNECTED"]
  /\ sock = [k \in Sockets |-> NoSocket]
  /\ faults = 0

-----------------------------------------------------------------------------
(* The manager's state after each of its methods                           *)

Fault == faults < MaxFaults /\ faults' = faults + 1

Union == UNION {Wants[c] : c \in subscribers}

\* Whether what socket k's callbacks captured is still the current generation.
BugCurrent(k) == ~mgr.stopped
Current(k) == sock[k].gen = mgr.gen /\ ~mgr.stopped /\ mgr.desired # {}

\* scheduleReconnect, after the caller published status s.
ScheduleReconnect(m, s) ==
  IF m.timer # 0 THEN [m EXCEPT !.status = s]
  ELSE IF m.attempt >= MaxAttempts THEN [m EXCEPT !.status = "DISCONNECTED"]
  ELSE [m EXCEPT !.status = s, !.attempt = @ + 1, !.timer = m.gen]

BugDisconnectStaleTimer(m) ==
  [ScheduleReconnect([m EXCEPT !.conn = 0], "RECONNECTING") EXCEPT !.gen = m.gen + 1]
HandleDisconnect(m) ==
  ScheduleReconnect([m EXCEPT !.gen = @ + 1, !.conn = 0], "RECONNECTING")

Disconnected(k) == IF Current(k) THEN HandleDisconnect(mgr) ELSE mgr

Connecting(m, k) == [m EXCEPT !.conn = k, !.status = "RECONNECTING"]
ConnectFailed(m) == ScheduleReconnect([m EXCEPT !.conn = 0], "DISCONNECTED")

Renewed(next) ==
  [mgr EXCEPT !.desired = next, !.gen = @ + 1, !.timer = 0, !.conn = 0, !.attempt = 0]

BugConnectionClosed == sock
ConnectionClosed ==
  [k \in Sockets |-> IF k = mgr.conn THEN [sock[k] EXCEPT !.state = "closed"] ELSE sock[k]]

Fresh(k) ==
  /\ sock[k].state = "unused"
  /\ \A j \in Sockets : j < k => sock[j].state # "unused"
NewSocket(subs, gen) == [state |-> "opening", subs |-> subs, gen |-> gen, history |-> "none"]

-----------------------------------------------------------------------------
(* Subscribers and the chain of their reconciliations                      *)

\* After shutdown a subscription is rejected.
Subscribe(c) ==
  /\ phase[c] = "idle" /\ ~mgr.stopped
  /\ phase' = [phase EXCEPT ![c] = "joining"]
  /\ subscribers' = subscribers \cup {c}
  /\ chain' = Append(chain, c)
  /\ UNCHANGED <<waiting, mgr, sock, faults>>

\* The function that subscribeMarketData returned; a second call does nothing.
Unsubscribe(c) ==
  /\ phase[c] = "joined"
  /\ phase' = [phase EXCEPT ![c] = "leaving"]
  /\ subscribers' = subscribers \ {c}
  /\ chain' = Append(chain, c)
  /\ UNCHANGED <<waiting, mgr, sock, faults>>

HeadAnswered ==
  /\ phase' = [phase EXCEPT ![Head(chain)] = IF @ = "joining" THEN "joined" ELSE "left"]
  /\ chain' = Tail(chain)
  /\ waiting' = 0

HeadStarts == chain # <<>> /\ waiting = 0

BugUpToDate == mgr.stopped \/ mgr.conn # 0 \/ Union = mgr.desired
UpToDate ==
  \/ mgr.stopped
  \/ Union = mgr.desired /\ (Union = {} \/ mgr.conn # 0 \/ mgr.timer # 0)

ReconcileNothing ==
  /\ HeadStarts /\ UpToDate
  /\ HeadAnswered
  /\ UNCHANGED <<subscribers, mgr, sock, faults>>

ReconcileRelease ==
  /\ HeadStarts /\ ~UpToDate /\ Union = {}
  /\ mgr' = [Renewed({}) EXCEPT !.status = "DISCONNECTED"]
  /\ sock' = ConnectionClosed
  /\ HeadAnswered
  /\ UNCHANGED <<subscribers, faults>>

ReconcileConnect(k) ==
  /\ HeadStarts /\ ~UpToDate /\ Union # {} /\ Fresh(k)
  /\ mgr' = Connecting(Renewed(Union), k)
  /\ sock' = [ConnectionClosed EXCEPT ![k] = NewSocket(Union, mgr.gen + 1)]
  /\ waiting' = k
  /\ UNCHANGED <<phase, subscribers, chain, faults>>

\* connectRealtime throws.
ReconcileThrows ==
  /\ HeadStarts /\ ~UpToDate /\ Union # {} /\ Fault
  /\ mgr' = ConnectFailed(Renewed(Union))
  /\ sock' = ConnectionClosed
  /\ HeadAnswered
  /\ UNCHANGED subscribers

\* connect returns when the socket was closed or failed before it opened,
\* opened for a generation that is over, or its reconciliation ended.
BugReady(k) == sock[k].history \in {"done", "failed"}
Ready(k) ==
  \/ sock[k].history \in {"done", "failed"}
  \/ sock[k].history = "none" /\ sock[k].state # "opening"

ReconcileEnd ==
  /\ waiting # 0 /\ Ready(waiting)
  /\ HeadAnswered
  /\ UNCHANGED <<subscribers, mgr, sock, faults>>

-----------------------------------------------------------------------------
(* The reconnection timer                                                  *)

TimerCurrent == mgr.timer = mgr.gen /\ ~mgr.stopped /\ mgr.desired # {}

TimerStale ==
  /\ mgr.timer # 0 /\ ~TimerCurrent
  /\ mgr' = [mgr EXCEPT !.timer = 0]
  /\ UNCHANGED <<phase, subscribers, chain, waiting, sock, faults>>

\* The connection that is replaced is not closed.
Reconnect(k) ==
  /\ mgr.timer # 0 /\ TimerCurrent /\ Fresh(k)
  /\ mgr' = Connecting([mgr EXCEPT !.timer = 0], k)
  /\ sock' = [sock EXCEPT ![k] = NewSocket(mgr.desired, mgr.gen)]
  /\ UNCHANGED <<phase, subscribers, chain, waiting, faults>>

ReconnectThrows ==
  /\ mgr.timer # 0 /\ TimerCurrent /\ Fault
  /\ mgr' = ConnectFailed([mgr EXCEPT !.timer = 0])
  /\ UNCHANGED <<phase, subscribers, chain, waiting, sock>>

-----------------------------------------------------------------------------
(* Websocket events and the historical reads of a reconciliation           *)

SocketOpens(k) ==
  /\ sock[k].state = "opening"
  /\ sock' = [sock EXCEPT ![k].state = "open",
                          ![k].history = IF Current(k) THEN "running" ELSE "none"]
  /\ UNCHANGED <<phase, subscribers, chain, waiting, mgr, faults>>

\* onDisconnect, and then the rejection of ready reaches connect's catch,
\* which drops the connection whatever generation it belongs to.
SocketFails(k) ==
  /\ sock[k].state = "opening" /\ Fault
  /\ sock' = [sock EXCEPT ![k].state = "closed"]
  /\ mgr' = [Disconnected(k) EXCEPT !.conn = 0]
  /\ UNCHANGED <<phase, subscribers, chain, waiting>>

SocketDrops(k) ==
  /\ sock[k].state \in {"open", "deaf"} /\ Fault
  /\ sock' = [sock EXCEPT ![k].state = "closed"]
  /\ mgr' = IF sock[k].state = "open" THEN Disconnected(k) ELSE mgr
  /\ UNCHANGED <<phase, subscribers, chain, waiting>>

MalformedMessage(k) ==
  /\ sock[k].state = "open" /\ Fault
  /\ sock' = [sock EXCEPT ![k].state = "deaf"]
  /\ mgr' = Disconnected(k)
  /\ UNCHANGED <<phase, subscribers, chain, waiting>>

HistoryDone(k) ==
  /\ sock[k].history = "running"
  /\ sock' = [sock EXCEPT ![k].history = "done"]
  /\ mgr' = IF Current(k) THEN [mgr EXCEPT !.attempt = 0, !.status = "CONNECTED"] ELSE mgr
  /\ UNCHANGED <<phase, subscribers, chain, waiting, faults>>

HistoryFails(k) ==
  /\ sock[k].history = "running" /\ Fault
  /\ sock' = [sock EXCEPT ![k].history = "failed"]
  /\ mgr' = IF Current(k) THEN ScheduleReconnect(mgr, "RECONNECTING") ELSE mgr
  /\ UNCHANGED <<phase, subscribers, chain, waiting>>

Shutdown ==
  /\ ~mgr.stopped
  /\ mgr' = [mgr EXCEPT !.stopped = TRUE, !.gen = @ + 1, !.timer = 0, !.conn = 0,
                        !.desired = {}, !.status = "DISCONNECTED"]
  /\ sock' = ConnectionClosed
  /\ subscribers' = {}
  /\ UNCHANGED <<phase, chain, waiting, faults>>

-----------------------------------------------------------------------------

ReconcileStep ==
  \/ ReconcileNothing \/ ReconcileRelease \/ ReconcileEnd
  \/ \E k \in Sockets : ReconcileConnect(k)

TimerStep == TimerStale \/ \E k \in Sockets : Reconnect(k)

Next ==
  \/ \E c \in Callers : Subscribe(c) \/ Unsubscribe(c)
  \/ ReconcileStep \/ ReconcileThrows
  \/ TimerStep \/ ReconnectThrows
  \/ \E k \in Sockets : \/ SocketOpens(k) \/ SocketFails(k) \/ SocketDrops(k)
                        \/ MalformedMessage(k) \/ HistoryDone(k) \/ HistoryFails(k)
  \/ Shutdown

Spec == Init /\ [][Next]_vars

(* Promises continue and timers fire; a websocket opens or fails and a     *)
(* historical read is answered, since the connections under them time out. *)
Fairness ==
  /\ WF_vars(ReconcileStep)
  /\ WF_vars(TimerStep)
  /\ \A k \in Sockets : WF_vars(SocketOpens(k)) /\ WF_vars(HistoryDone(k))

FairSpec == Spec /\ Fairness
=============================================================================
