--------------------------- MODULE Ingestion_proofs ---------------------------
(***************************************************************************)
(* What comes in from outside: the realtime market stream and the news.    *)
(*                                                                         *)
(* The stream, for any set of subscribers, any number of websockets,       *)
(* faults and attempts: CONNECTED is true when it is claimed, the          *)
(* connection held is for the desired streams and the only live one, and   *)
(* no change of the subscribers is lost.  All of it rests on the           *)
(* generation: a socket of the current generation carries the desired      *)
(* streams and has not been closed, and whatever closes it or changes what *)
(* is desired starts the next generation.                                  *)
(*                                                                         *)
(* The collection of news: the invariant says, of every call at every      *)
(* await, that what it has found is stored or about to be, and that what   *)
(* it has read about the templates still stands, as long as no two         *)
(* template operations crossed and none stopped half way.                  *)
(***************************************************************************)
EXTENDS StreamProperties, NewsProperties, FiniteSetTheorems, FunctionTheorems,
        SequenceTheorems, WellFoundedInduction, TLAPS

-----------------------------------------------------------------------------
(* The market stream: its invariant                                        *)

Used(k) == sock[k].state # "unused"
Live(k) == sock[k].state \in {"opening", "open"}

\* A socket that has not opened has no reconciliation, and one of the current
\* generation is alive and serves the desired streams.
GenerationInv ==
  \A k \in Sockets :
    /\ sock[k].gen <= mgr.gen
    /\ sock[k].state \in {"unused", "opening"} => sock[k].history = "none"
    /\ Used(k) /\ sock[k].gen = mgr.gen =>
         Live(k) /\ sock[k].subs = mgr.desired /\ ~mgr.stopped /\ mgr.desired # {}

\* The connection held is of the current generation, and a pending
\* reconnection does not abandon it, as long as no reconciliation failed.
HeldInv ==
  /\ mgr.conn # 0 => Used(mgr.conn) /\ sock[mgr.conn].gen = mgr.gen
  /\ ~HistoryFailed => /\ mgr.timer # 0 => mgr.conn = 0
                       /\ \A k \in Sockets : Live(k) => k = mgr.conn

\* Unless a queued reconciliation is still to read the union, it is desired.
ChainInv ==
  ~mgr.stopped /\ (chain = <<>> \/ (waiting # 0 /\ Len(chain) = 1)) => mgr.desired = Union

StreamInv == TypeOK /\ GenerationInv /\ HeldInv /\ ConnectedIsTrue /\ ChainInv

-----------------------------------------------------------------------------
(* What the manager's methods leave alone                                  *)

\* scheduleReconnect touches the timer, the attempts and the status only, and
\* never publishes CONNECTED.
LEMMA ScheduleReconnectKeeps ==
  ASSUME NEW m \in Manager, NEW s \in {"RECONNECTING", "DISCONNECTED"}
  PROVE  /\ ScheduleReconnect(m, s) \in Manager
         /\ ScheduleReconnect(m, s).desired = m.desired
         /\ ScheduleReconnect(m, s).conn = m.conn
         /\ ScheduleReconnect(m, s).gen = m.gen
         /\ ScheduleReconnect(m, s).stopped = m.stopped
         /\ ScheduleReconnect(m, s).status # "CONNECTED"
<1>1. m.attempt \in 0 .. MaxAttempts /\ m.gen \in Nat
  BY DEF Manager
<1>2. [m EXCEPT !.status = s] \in Manager /\ [m EXCEPT !.status = "DISCONNECTED"] \in Manager
  BY DEF Manager
<1>3. ASSUME m.attempt < MaxAttempts
      PROVE  [m EXCEPT !.status = s, !.attempt = @ + 1, !.timer = m.gen] \in Manager
  <2>1. m.attempt + 1 \in 0 .. MaxAttempts
    BY <1>1, <1>3, BoundsAreNatural
  <2> QED BY <1>1, <2>1 DEF Manager
<1>4. ScheduleReconnect(m, s) \in Manager
  BY <1>1, <1>2, <1>3, BoundsAreNatural DEF ScheduleReconnect
<1> QED BY <1>4 DEF ScheduleReconnect, Manager

\* handleDisconnect starts the next generation without a connection.
LEMMA HandleDisconnectKeeps ==
  ASSUME NEW m \in Manager
  PROVE  /\ HandleDisconnect(m) \in Manager
         /\ HandleDisconnect(m).desired = m.desired
         /\ HandleDisconnect(m).conn = 0
         /\ HandleDisconnect(m).gen = m.gen + 1
         /\ HandleDisconnect(m).stopped = m.stopped
         /\ HandleDisconnect(m).status # "CONNECTED"
<1> DEFINE n == [m EXCEPT !.gen = @ + 1, !.conn = 0]
<1>1. n.desired = m.desired /\ n.conn = 0 /\ n.gen = m.gen + 1 /\ n.stopped = m.stopped
  BY DEF Manager
<1>2. n \in Manager
  <2>1. [m EXCEPT !.gen = @ + 1] \in Manager
    BY DEF Manager
  <2> QED BY <2>1 DEF Manager
<1>3. HandleDisconnect(m) = ScheduleReconnect(n, "RECONNECTING")
  BY DEF HandleDisconnect
<1> HIDE DEF n
<1> QED BY <1>1, <1>2, <1>3, ScheduleReconnectKeeps

\* A failed connect leaves the generation as it is, without a connection.
LEMMA ConnectFailedKeeps ==
  ASSUME NEW m \in Manager
  PROVE  /\ ConnectFailed(m) \in Manager
         /\ ConnectFailed(m).desired = m.desired
         /\ ConnectFailed(m).conn = 0
         /\ ConnectFailed(m).gen = m.gen
         /\ ConnectFailed(m).stopped = m.stopped
         /\ ConnectFailed(m).status # "CONNECTED"
<1> DEFINE n == [m EXCEPT !.conn = 0]
<1>1. n \in Manager /\ n.desired = m.desired /\ n.conn = 0 /\ n.gen = m.gen
      /\ n.stopped = m.stopped
  BY DEF Manager
<1>2. ConnectFailed(m) = ScheduleReconnect(n, "DISCONNECTED")
  BY DEF ConnectFailed
<1> HIDE DEF n
<1> QED BY <1>1, <1>2, ScheduleReconnectKeeps

\* setSubscriptions starts the next generation for the union, which is a set
\* of known streams.
LEMMA RenewedKeeps ==
  ASSUME TypeOK
  PROVE  /\ Union \in SUBSET Streams
         /\ \A next \in SUBSET Streams :
              /\ Renewed(next) \in Manager
              /\ Renewed(next).desired = next
              /\ Renewed(next).conn = 0
              /\ Renewed(next).timer = 0
              /\ Renewed(next).gen = mgr.gen + 1
              /\ Renewed(next).stopped = mgr.stopped
<1>1. Union \in SUBSET Streams
  BY DEF TypeOK, Union, Streams
<1>2. \A next \in SUBSET Streams :
        /\ Renewed(next) \in Manager
        /\ Renewed(next).desired = next
        /\ Renewed(next).conn = 0
        /\ Renewed(next).timer = 0
        /\ Renewed(next).gen = mgr.gen + 1
        /\ Renewed(next).stopped = mgr.stopped
  <2> SUFFICES ASSUME NEW next \in SUBSET Streams
               PROVE  /\ Renewed(next) \in Manager
                      /\ Renewed(next).desired = next
                      /\ Renewed(next).conn = 0
                      /\ Renewed(next).timer = 0
                      /\ Renewed(next).gen = mgr.gen + 1
                      /\ Renewed(next).stopped = mgr.stopped
    OBVIOUS
  <2>1. mgr \in Manager /\ mgr.gen + 1 \in Nat /\ 0 \in 0 .. MaxAttempts
    BY BoundsAreNatural DEF TypeOK, Manager
  <2>2. Renewed(next) \in Manager
    BY <2>1 DEF Manager, Renewed
  <2> QED BY <2>1, <2>2 DEF Manager, Renewed
<1> QED BY <1>1, <1>2

\* Closing the connection changes no other socket, and of that one the state.
LEMMA ConnectionClosedKeeps ==
  ASSUME TypeOK
  PROVE  /\ ConnectionClosed \in [Sockets -> Socket]
         /\ \A k \in Sockets :
              /\ ConnectionClosed[k].subs = sock[k].subs
              /\ ConnectionClosed[k].gen = sock[k].gen
              /\ ConnectionClosed[k].history = sock[k].history
              /\ ConnectionClosed[k].state =
                   IF k = mgr.conn THEN "closed" ELSE sock[k].state
BY DEF TypeOK, Socket, ConnectionClosed

\* A connect keeps everything but the connection and the status.
LEMMA ConnectingKeeps ==
  ASSUME NEW m \in Manager, NEW k \in Sockets
  PROVE  /\ Connecting(m, k) \in Manager
         /\ Connecting(m, k).desired = m.desired
         /\ Connecting(m, k).conn = k
         /\ Connecting(m, k).timer = m.timer
         /\ Connecting(m, k).gen = m.gen
         /\ Connecting(m, k).stopped = m.stopped
         /\ Connecting(m, k).status = "RECONNECTING"
<1>1. [m EXCEPT !.conn = k] \in Manager
  BY DEF Manager
<1>2. Connecting(m, k) \in Manager
  BY <1>1 DEF Manager, Connecting
<1> QED BY <1>2 DEF Manager, Connecting

\* What an event does to the record of its socket, and to no other.
LEMMA StateSet ==
  ASSUME TypeOK, NEW k \in Sockets, NEW st \in {"opening", "open", "deaf", "closed"},
         sock' = [sock EXCEPT ![k].state = st]
  PROVE  /\ sock' \in [Sockets -> Socket]
         /\ \A j \in Sockets : /\ sock'[j].state = IF j = k THEN st ELSE sock[j].state
                               /\ sock'[j].subs = sock[j].subs
                               /\ sock'[j].gen = sock[j].gen
                               /\ sock'[j].history = sock[j].history
<1>1. [sock[k] EXCEPT !.state = st] \in Socket
  BY DEF TypeOK, Socket
<1>2. sock' \in [Sockets -> Socket]
  BY <1>1 DEF TypeOK
<1> QED BY <1>2 DEF TypeOK, Socket

LEMMA HistorySet ==
  ASSUME TypeOK, NEW k \in Sockets, NEW h \in {"none", "running", "done", "failed"},
         sock' = [sock EXCEPT ![k].history = h]
  PROVE  /\ sock' \in [Sockets -> Socket]
         /\ \A j \in Sockets : /\ sock'[j].history = IF j = k THEN h ELSE sock[j].history
                               /\ sock'[j].state = sock[j].state
                               /\ sock'[j].subs = sock[j].subs
                               /\ sock'[j].gen = sock[j].gen
<1>1. [sock[k] EXCEPT !.history = h] \in Socket
  BY DEF TypeOK, Socket
<1>2. sock' \in [Sockets -> Socket]
  BY <1>1 DEF TypeOK
<1> QED BY <1>2 DEF TypeOK, Socket

\* Opening a socket starts a reconciliation if its generation is current.
LEMMA OpenedSet ==
  ASSUME TypeOK, NEW k \in Sockets, SocketOpens(k)
  PROVE  /\ sock' \in [Sockets -> Socket]
         /\ \A j \in Sockets :
              /\ sock'[j].state = IF j = k THEN "open" ELSE sock[j].state
              /\ sock'[j].history = IF j # k THEN sock[j].history
                                    ELSE IF Current(k) THEN "running" ELSE "none"
              /\ sock'[j].subs = sock[j].subs
              /\ sock'[j].gen = sock[j].gen
<1> DEFINE h == IF Current(k) THEN "running" ELSE "none"
<1>1. [sock[k] EXCEPT !.state = "open", !.history = h] \in Socket
  BY DEF TypeOK, Socket
<1>2. sock' = [sock EXCEPT ![k] = [sock[k] EXCEPT !.state = "open", !.history = h]]
  BY DEF SocketOpens, TypeOK
<1>3. sock' \in [Sockets -> Socket]
  BY <1>1, <1>2 DEF TypeOK
<1> QED BY <1>2, <1>3 DEF TypeOK, Socket

-----------------------------------------------------------------------------
(* Types                                                                   *)

\* Answering the head leaves a chain of callers, and nobody waiting.
LEMMA HeadAnsweredTypes ==
  ASSUME TypeOK, chain # <<>>, HeadAnswered
  PROVE  phase' \in [Callers -> Phases] /\ chain' \in Seq(Callers) /\ waiting' = 0
BY DEF TypeOK, HeadAnswered, Phases

\* A fault is counted within its bound.
LEMMA FaultTypes == TypeOK /\ Fault => faults' \in 0 .. MaxFaults
BY BoundsAreNatural DEF TypeOK, Fault

LEMMA ReconcileTypeKept ==
  ASSUME TypeOK,
         \/ \E c \in Callers : Subscribe(c) \/ Unsubscribe(c)
         \/ ReconcileStep \/ ReconcileThrows
  PROVE  TypeOK'
<1> USE DEF TypeOK
<1>1. ASSUME NEW c \in Callers, Subscribe(c) \/ Unsubscribe(c) PROVE TypeOK'
  <2>1. phase' \in [Callers -> Phases] /\ subscribers' \in SUBSET Callers
    BY <1>1 DEF Subscribe, Unsubscribe, Phases
  <2>2. chain' \in Seq(Callers) /\ chain' # <<>>
    <3>1. chain' = Append(chain, c) /\ Len(chain) \in Nat
      BY <1>1 DEF Subscribe, Unsubscribe
    <3>2. chain' \in Seq(Callers) /\ Len(chain') = Len(chain) + 1
      BY <3>1
    <3> QED BY <3>1, <3>2
  <2> QED BY <1>1, <2>1, <2>2 DEF Subscribe, Unsubscribe
<1>2. CASE ReconcileNothing \/ ReconcileEnd
  BY <1>2, HeadAnsweredTypes DEF ReconcileNothing, ReconcileEnd, HeadStarts
<1>3. CASE ReconcileRelease
  <2>1. [Renewed({}) EXCEPT !.status = "DISCONNECTED"] \in Manager
    BY RenewedKeeps DEF Manager
  <2> QED
    BY <1>3, <2>1, HeadAnsweredTypes, ConnectionClosedKeeps DEF ReconcileRelease, HeadStarts
<1>4. ASSUME NEW k \in Sockets, ReconcileConnect(k) PROVE TypeOK'
  <2>1. Connecting(Renewed(Union), k) \in Manager
    BY RenewedKeeps, ConnectingKeeps
  <2>2. NewSocket(Union, mgr.gen + 1) \in Socket
    BY RenewedKeeps DEF Manager, Socket, NewSocket
  <2>3. sock' \in [Sockets -> Socket] /\ sock'[k].state = "opening"
    BY <1>4, <2>2, ConnectionClosedKeeps DEF ReconcileConnect, NewSocket
  <2>4. k # 0
    BY BoundsAreNatural DEF Sockets
  <2> QED BY <1>4, <2>1, <2>3, <2>4 DEF ReconcileConnect, HeadStarts
<1>5. CASE ReconcileThrows
  <2>1. ConnectFailed(Renewed(Union)) \in Manager
    BY RenewedKeeps, ConnectFailedKeeps
  <2> QED
    BY <1>5, <2>1, HeadAnsweredTypes, ConnectionClosedKeeps, FaultTypes
       DEF ReconcileThrows, HeadStarts
<1> QED BY <1>1, <1>2, <1>3, <1>4, <1>5 DEF ReconcileStep

LEMMA StreamTypeKept ==
  ASSUME TypeOK,
         \/ TimerStep \/ ReconnectThrows \/ Shutdown
         \/ \E k \in Sockets : \/ SocketOpens(k) \/ SocketFails(k) \/ SocketDrops(k)
                               \/ MalformedMessage(k) \/ HistoryDone(k) \/ HistoryFails(k)
  PROVE  TypeOK'
<1> USE DEF TypeOK
<1>1. CASE TimerStale
  <2>1. [mgr EXCEPT !.timer = 0] \in Manager
    BY DEF Manager
  <2> QED BY <1>1, <2>1 DEF TimerStale
<1>2. ASSUME NEW k \in Sockets, Reconnect(k) PROVE TypeOK'
  <2>1. Connecting([mgr EXCEPT !.timer = 0], k) \in Manager
    BY ConnectingKeeps DEF Manager
  <2>2. NewSocket(mgr.desired, mgr.gen) \in Socket
    BY DEF Manager, Socket, NewSocket
  <2>3. sock' \in [Sockets -> Socket] /\ sock'[k].state = "opening"
    BY <1>2, <2>2 DEF Reconnect, NewSocket
  <2>4. waiting # 0 => sock'[waiting].state # "unused"
    BY <1>2, <2>3 DEF Reconnect
  <2> QED BY <1>2, <2>1, <2>3, <2>4 DEF Reconnect
<1>3. CASE ReconnectThrows
  <2>1. ConnectFailed([mgr EXCEPT !.timer = 0]) \in Manager
    BY ConnectFailedKeeps DEF Manager
  <2> QED BY <1>3, <2>1, FaultTypes DEF ReconnectThrows
<1>4. CASE Shutdown
  <2>1. mgr' \in Manager
    <3>1. [mgr EXCEPT !.stopped = TRUE, !.timer = 0, !.conn = 0, !.desired = {},
                      !.status = "DISCONNECTED"] \in Manager
      BY DEF Manager
    <3>2. mgr.gen + 1 \in Nat
      BY DEF Manager
    <3> QED BY <1>4, <3>1, <3>2 DEF Shutdown, Manager
  <2> QED BY <1>4, <2>1, ConnectionClosedKeeps DEF Shutdown
<1>5. ASSUME NEW k \in Sockets, SocketOpens(k) PROVE TypeOK'
  <2>1. sock' \in [Sockets -> Socket] /\ (waiting # 0 => sock'[waiting].state # "unused")
    BY <1>5, OpenedSet
  <2> QED BY <1>5, <2>1 DEF SocketOpens
<1>6. ASSUME NEW k \in Sockets
      PROVE  /\ Disconnected(k) \in Manager
             /\ [Disconnected(k) EXCEPT !.conn = 0] \in Manager
  <2>1. Disconnected(k) \in Manager
    BY HandleDisconnectKeeps DEF Disconnected
  <2> QED BY <2>1 DEF Manager
<1>7. ASSUME NEW k \in Sockets, SocketFails(k) \/ SocketDrops(k) \/ MalformedMessage(k)
      PROVE  TypeOK'
  <2>1. mgr' \in Manager
    BY <1>6, <1>7 DEF SocketFails, SocketDrops, MalformedMessage
  <2>2. sock' \in [Sockets -> Socket] /\ (waiting # 0 => sock'[waiting].state # "unused")
    BY <1>7, StateSet DEF SocketFails, SocketDrops, MalformedMessage
  <2> QED BY <1>7, <2>1, <2>2, FaultTypes DEF SocketFails, SocketDrops, MalformedMessage
<1>8. ASSUME NEW k \in Sockets, HistoryDone(k) \/ HistoryFails(k) PROVE TypeOK'
  <2>1. [mgr EXCEPT !.attempt = 0, !.status = "CONNECTED"] \in Manager
    <3>1. 0 \in 0 .. MaxAttempts
      BY BoundsAreNatural
    <3> QED BY <3>1 DEF Manager
  <2>2. mgr' \in Manager
    BY <1>8, <2>1, ScheduleReconnectKeeps DEF HistoryDone, HistoryFails
  <2>3. sock' \in [Sockets -> Socket] /\ (waiting # 0 => sock'[waiting].state # "unused")
    BY <1>8, HistorySet DEF HistoryDone, HistoryFails
  <2> QED BY <1>8, <2>2, <2>3, FaultTypes DEF HistoryDone, HistoryFails
<1> QED BY <1>1, <1>2, <1>3, <1>4, <1>5, <1>7, <1>8 DEF TimerStep

\* The bounds, the queue and the records stay in their domains.
LEMMA TypeKept == TypeOK /\ [Next]_vars => TypeOK'
<1>1. TypeOK /\ UNCHANGED vars => TypeOK'
  BY DEF TypeOK, vars
<1> QED BY <1>1, ReconcileTypeKept, StreamTypeKept DEF Next

-----------------------------------------------------------------------------
(* Generations                                                             *)

\* A socket whose callbacks pass the generation test is one of the current
\* generation, and the other way round.
LEMMA CurrentIsGeneration ==
  ASSUME TypeOK, GenerationInv, NEW k \in Sockets, Used(k)
  PROVE  Current(k) <=> sock[k].gen = mgr.gen
BY DEF GenerationInv, Current

\* When a step starts the next generation and leaves every socket its own, or
\* fails to open it, no socket is of the current generation.
LEMMA NextGeneration ==
  ASSUME TypeOK, GenerationInv, mgr'.gen = mgr.gen + 1,
         \A j \in Sockets : /\ sock'[j].gen = sock[j].gen
                            /\ sock'[j].history = sock[j].history
                            /\ sock'[j].state \in {"unused", "opening"} =>
                                 sock'[j].state = sock[j].state
  PROVE  GenerationInv'
<1>1. mgr.gen \in Nat /\ \A j \in Sockets : sock[j].gen \in Nat
  BY DEF TypeOK, Manager, Socket
<1> QED BY <1>1 DEF GenerationInv, Used, Live

\* A socket that opens for the current generation carries what is desired.
LEMMA NewSocketOfGeneration ==
  ASSUME NEW k \in Sockets, mgr'.gen \in Nat, ~mgr'.stopped, mgr'.desired # {},
         sock'[k] = NewSocket(mgr'.desired, mgr'.gen),
         \A j \in Sockets : j # k =>
           /\ sock'[j].gen <= mgr'.gen
           /\ sock'[j].state \in {"unused", "opening"} => sock'[j].history = "none"
           /\ sock'[j].state # "unused" /\ sock'[j].gen = mgr'.gen =>
                sock'[j].state \in {"opening", "open"} /\ sock'[j].subs = mgr'.desired
  PROVE  GenerationInv'
<1>1. /\ sock'[k].state = "opening" /\ sock'[k].subs = mgr'.desired
      /\ sock'[k].gen = mgr'.gen /\ sock'[k].history = "none"
  BY DEF NewSocket
<1> QED BY <1>1 DEF GenerationInv, Used, Live

\* A socket that is lost ends the current generation if it belongs to it, and
\* otherwise at most drops the connection.
LEMMA SocketLost ==
  ASSUME TypeOK, GenerationInv, NEW k \in Sockets,
         SocketFails(k) \/ SocketDrops(k) \/ MalformedMessage(k)
  PROVE  /\ Used(k)
         /\ \E st \in {"deaf", "closed"} : sock' = [sock EXCEPT ![k].state = st]
         /\ mgr'.desired = mgr.desired /\ mgr'.stopped = mgr.stopped
         /\ sock[k].gen = mgr.gen =>
              mgr'.gen = mgr.gen + 1 /\ mgr'.conn = 0 /\ mgr'.status # "CONNECTED"
         /\ sock[k].gen # mgr.gen =>
              /\ mgr'.gen = mgr.gen /\ mgr'.timer = mgr.timer /\ mgr'.status = mgr.status
              /\ mgr'.conn = mgr.conn \/ (mgr'.conn = 0 /\ SocketFails(k))
<1>1. Used(k) /\ \E st \in {"deaf", "closed"} : sock' = [sock EXCEPT ![k].state = st]
  BY DEF SocketFails, SocketDrops, MalformedMessage, Used
<1>2. mgr \in Manager
  BY DEF TypeOK
<1>3. CASE sock[k].gen = mgr.gen
  <2>1. Current(k) /\ sock[k].state # "deaf"
    BY <1>1, <1>3, CurrentIsGeneration DEF GenerationInv, Live
  <2> DEFINE d == HandleDisconnect(mgr)
  <2>2. /\ d \in Manager /\ d.gen = mgr.gen + 1 /\ d.conn = 0 /\ d.status # "CONNECTED"
        /\ d.desired = mgr.desired /\ d.stopped = mgr.stopped
    BY <1>2, HandleDisconnectKeeps
  <2>3. mgr' = d \/ mgr' = [d EXCEPT !.conn = 0]
    BY <2>1 DEF SocketFails, SocketDrops, MalformedMessage, Disconnected
  <2> HIDE DEF d
  <2> QED BY <1>1, <1>3, <2>2, <2>3 DEF Manager
<1>4. CASE sock[k].gen # mgr.gen
  <2>1. ~Current(k)
    BY <1>4 DEF Current
  <2>2. Disconnected(k) = mgr
    BY <2>1 DEF Disconnected
  <2>3. mgr' = mgr \/ (mgr' = [mgr EXCEPT !.conn = 0] /\ SocketFails(k))
    <3>1. CASE SocketFails(k)
      BY <2>2, <3>1 DEF SocketFails
    <3>2. CASE SocketDrops(k)
      BY <2>2, <3>2 DEF SocketDrops
    <3>3. CASE MalformedMessage(k)
      BY <2>2, <3>3 DEF MalformedMessage
    <3> QED BY <3>1, <3>2, <3>3
  <2> QED BY <1>1, <1>2, <1>4, <2>3 DEF Manager
<1> QED BY <1>3, <1>4

\* The end of a reconciliation changes neither generation nor connection, and
\* publishes CONNECTED only for the current generation.
LEMMA HistoryEnds ==
  ASSUME TypeOK, GenerationInv, NEW k \in Sockets, HistoryDone(k) \/ HistoryFails(k)
  PROVE  /\ mgr'.desired = mgr.desired /\ mgr'.stopped = mgr.stopped
         /\ mgr'.gen = mgr.gen /\ mgr'.conn = mgr.conn
         /\ HistoryDone(k) => mgr'.timer = mgr.timer
         /\ mgr'.status = "CONNECTED" =>
              mgr.status = "CONNECTED" \/ (HistoryDone(k) /\ sock[k].gen = mgr.gen)
         /\ sock[k].state \notin {"unused", "opening"}
<1>1. mgr \in Manager
  BY DEF TypeOK
<1> DEFINE c == [mgr EXCEPT !.attempt = 0, !.status = "CONNECTED"]
<1>2. /\ c.desired = mgr.desired /\ c.stopped = mgr.stopped /\ c.gen = mgr.gen
      /\ c.conn = mgr.conn /\ c.timer = mgr.timer
  BY <1>1 DEF Manager
<1>3. sock[k].state \notin {"unused", "opening"}
  BY DEF GenerationInv, HistoryDone, HistoryFails
<1>4. CASE HistoryDone(k)
  <2>1. CASE Current(k)
    <3>1. mgr' = c
      BY <1>4, <2>1 DEF HistoryDone
    <3> HIDE DEF c
    <3> QED BY <1>2, <1>3, <1>4, <2>1, <3>1 DEF Current
  <2>2. CASE ~Current(k)
    <3>1. mgr' = mgr
      BY <1>4, <2>2 DEF HistoryDone
    <3> QED BY <1>3, <1>4, <3>1
  <2> QED BY <2>1, <2>2
<1>5. CASE HistoryFails(k)
  <2>1. mgr' = mgr \/ mgr' = ScheduleReconnect(mgr, "RECONNECTING")
    BY <1>5 DEF HistoryFails
  <2>2. ~HistoryDone(k)
    BY <1>5 DEF HistoryDone, HistoryFails, TypeOK, Socket
  <2> QED BY <1>1, <1>3, <2>1, <2>2, ScheduleReconnectKeeps
<1> QED BY <1>4, <1>5

\* The generation argument holds through every step.
LEMMA GenerationKept ==
  ASSUME TypeOK, GenerationInv, [Next]_vars
  PROVE  GenerationInv'
<1> USE DEF GenerationInv, Used, Live
<1>0. mgr \in Manager /\ mgr.gen \in Nat /\ \A j \in Sockets : sock[j].gen \in Nat
  BY DEF TypeOK, Manager, Socket
<1>1. CASE \/ UNCHANGED vars \/ ReconcileNothing \/ ReconcileEnd
           \/ \E c \in Callers : Subscribe(c) \/ Unsubscribe(c)
  BY <1>1 DEF vars, ReconcileNothing, ReconcileEnd, Subscribe, Unsubscribe
<1>2. CASE ReconcileRelease
  <2>1. mgr'.gen = mgr.gen + 1
    BY <1>2, RenewedKeeps DEF ReconcileRelease, Manager
  <2> QED BY <1>2, <2>1, ConnectionClosedKeeps, NextGeneration DEF ReconcileRelease
<1>3. ASSUME NEW k \in Sockets, ReconcileConnect(k) PROVE GenerationInv'
  <2>1. /\ mgr'.gen = mgr.gen + 1 /\ mgr'.desired = Union
        /\ ~mgr'.stopped
    BY <1>3, RenewedKeeps, ConnectingKeeps DEF ReconcileConnect, UpToDate
  <2>2. sock' = [ConnectionClosed EXCEPT ![k] = NewSocket(Union, mgr.gen + 1)]
    BY <1>3 DEF ReconcileConnect
  <2>3. sock'[k] = NewSocket(mgr'.desired, mgr'.gen)
    BY <2>1, <2>2, ConnectionClosedKeeps
  <2>4. \A j \in Sockets : j # k =>
           /\ sock'[j].gen <= mgr.gen + 1 /\ sock'[j].gen # mgr.gen + 1
           /\ sock'[j].state \in {"unused", "opening"} => sock'[j].history = "none"
    BY <1>0, <2>2, ConnectionClosedKeeps
  <2>5. Union # {} /\ mgr.gen + 1 \in Nat
    BY <1>0, <1>3 DEF ReconcileConnect
  <2> QED BY <2>1, <2>3, <2>4, <2>5, NewSocketOfGeneration
<1>4. CASE ReconcileThrows
  <2>1. mgr'.gen = mgr.gen + 1
    BY <1>4, RenewedKeeps, ConnectFailedKeeps DEF ReconcileThrows
  <2> QED BY <1>4, <2>1, ConnectionClosedKeeps, NextGeneration DEF ReconcileThrows
<1>5. CASE TimerStale
  BY <1>5, <1>0 DEF TimerStale, Manager
<1>6. ASSUME NEW k \in Sockets, Reconnect(k) PROVE GenerationInv'
  <2>1. /\ mgr'.gen = mgr.gen /\ mgr'.desired = mgr.desired /\ ~mgr'.stopped
        /\ mgr.desired # {} /\ mgr.desired \in SUBSET Streams
    BY <1>6, <1>0, ConnectingKeeps DEF Reconnect, TimerCurrent, Manager
  <2>2. /\ sock'[k] = NewSocket(mgr'.desired, mgr'.gen)
        /\ \A j \in Sockets : j # k => sock'[j] = sock[j]
    BY <1>6, <2>1 DEF Reconnect, TypeOK
  <2> QED BY <1>0, <2>1, <2>2, NewSocketOfGeneration
<1>7. CASE ReconnectThrows
  <2>1. [mgr EXCEPT !.timer = 0] \in Manager
    BY <1>0 DEF Manager
  <2>2. mgr'.gen = mgr.gen /\ mgr'.desired = mgr.desired /\ mgr'.stopped = mgr.stopped
    BY <1>7, <1>0, <2>1, ConnectFailedKeeps DEF ReconnectThrows, Manager
  <2> QED BY <1>7, <2>2 DEF ReconnectThrows
<1>8. ASSUME NEW k \in Sockets, SocketOpens(k) PROVE GenerationInv'
  <2>1. mgr' = mgr /\ sock[k].state = "opening"
    BY <1>8 DEF SocketOpens
  <2>2. \A j \in Sockets : /\ sock'[j].gen = sock[j].gen /\ sock'[j].subs = sock[j].subs
                           /\ j # k => sock'[j].state = sock[j].state
                                       /\ sock'[j].history = sock[j].history
    BY <1>8, OpenedSet
  <2>3. sock'[k].state = "open"
    BY <1>8, OpenedSet
  <2> QED BY <2>1, <2>2, <2>3
<1>9. ASSUME NEW k \in Sockets, SocketFails(k) \/ SocketDrops(k) \/ MalformedMessage(k)
      PROVE  GenerationInv'
  <2>1. PICK st \in {"deaf", "closed"} : sock' = [sock EXCEPT ![k].state = st]
    BY <1>9, SocketLost
  <2>2. CASE sock[k].gen = mgr.gen
    <3>1. mgr'.gen = mgr.gen + 1
      BY <1>9, <2>2, SocketLost
    <3> QED BY <2>1, <3>1, StateSet, NextGeneration
  <2>3. CASE sock[k].gen # mgr.gen
    <3>1. mgr'.gen = mgr.gen /\ mgr'.desired = mgr.desired /\ mgr'.stopped = mgr.stopped
      BY <1>9, <2>3, SocketLost
    <3> QED BY <2>1, <2>3, <3>1, StateSet
  <2> QED BY <2>2, <2>3
<1>10. ASSUME NEW k \in Sockets, HistoryDone(k) \/ HistoryFails(k) PROVE GenerationInv'
  <2>1. /\ mgr'.gen = mgr.gen /\ mgr'.desired = mgr.desired /\ mgr'.stopped = mgr.stopped
        /\ sock[k].state \notin {"unused", "opening"}
    BY <1>10, HistoryEnds
  <2> QED BY <1>10, <2>1, HistorySet DEF HistoryDone, HistoryFails
<1>11. CASE Shutdown
  <2>1. mgr'.gen = mgr.gen + 1
    BY <1>0, <1>11 DEF Shutdown, Manager
  <2> QED BY <1>11, <2>1, ConnectionClosedKeeps, NextGeneration DEF Shutdown
<1> QED
  BY <1>1, <1>2, <1>3, <1>4, <1>5, <1>6, <1>7, <1>8, <1>9, <1>10, <1>11
     DEF Next, ReconcileStep, TimerStep
-----------------------------------------------------------------------------
(* The connection held                                                     *)

\* A failed reconciliation is never forgotten: histories only go forward.
LEMMA FailureStays ==
  ASSUME TypeOK, GenerationInv, \A j \in Sockets : sock'[j].history = sock[j].history
  PROVE  HistoryFailed' = HistoryFailed
BY DEF HistoryFailed

LEMMA HeldKept ==
  ASSUME TypeOK, TypeOK', GenerationInv, HeldInv, [Next]_vars
  PROVE  HeldInv'
<1> USE DEF Used, Live
<1>0. /\ mgr \in Manager /\ 0 \notin Sockets
      /\ \A k \in Sockets : sock[k].gen \in Nat
  BY BoundsAreNatural DEF TypeOK, Manager, Socket, Sockets
\* Steps that leave no connection, and close the one there was.
<1>1. ASSUME mgr'.conn = 0, sock' = ConnectionClosed PROVE HeldInv'
  BY <1>1, ConnectionClosedKeeps, FailureStays DEF HeldInv
<1>2. CASE \/ UNCHANGED vars \/ ReconcileNothing \/ ReconcileEnd
           \/ \E c \in Callers : Subscribe(c) \/ Unsubscribe(c)
  BY <1>2 DEF HeldInv, HistoryFailed, vars, ReconcileNothing, ReconcileEnd, Subscribe,
     Unsubscribe
<1>3. CASE ReconcileRelease
  <2>1. mgr'.conn = 0
    BY <1>3, RenewedKeeps DEF ReconcileRelease, Manager
  <2> QED BY <1>1, <1>3, <2>1 DEF ReconcileRelease
<1>4. CASE ReconcileThrows
  <2>1. mgr'.conn = 0
    BY <1>4, RenewedKeeps, ConnectFailedKeeps DEF ReconcileThrows
  <2> QED BY <1>1, <1>4, <2>1 DEF ReconcileThrows
<1>5. CASE Shutdown
  <2>1. mgr'.conn = 0
    BY <1>0, <1>5 DEF Shutdown, Manager
  <2> QED BY <1>1, <1>5, <2>1 DEF Shutdown
<1>6. ASSUME NEW k \in Sockets, ReconcileConnect(k) PROVE HeldInv'
  <2>1. mgr'.conn = k /\ mgr'.timer = 0 /\ mgr'.gen = mgr.gen + 1
    BY <1>6, RenewedKeeps, ConnectingKeeps DEF ReconcileConnect
  <2>2. sock' = [ConnectionClosed EXCEPT ![k] = NewSocket(Union, mgr.gen + 1)]
    BY <1>6 DEF ReconcileConnect
  <2>3. /\ sock'[k].state = "opening" /\ sock'[k].gen = mgr.gen + 1
        /\ \A j \in Sockets : j # k => sock'[j] = ConnectionClosed[j]
    BY <2>2, ConnectionClosedKeeps DEF NewSocket
  <2>4. HistoryFailed => HistoryFailed'
    <3>1. sock[k].history = "none"
      BY <1>6 DEF ReconcileConnect, Fresh, GenerationInv
    <3> QED BY <2>3, <3>1, ConnectionClosedKeeps DEF HistoryFailed
  <2> QED BY <2>1, <2>3, <2>4, ConnectionClosedKeeps DEF HeldInv
<1>7. CASE TimerStale
  <2>1. mgr'.conn = mgr.conn /\ mgr'.gen = mgr.gen /\ mgr'.timer = 0 /\ sock' = sock
    BY <1>0, <1>7 DEF TimerStale, Manager
  <2> QED BY <2>1 DEF HeldInv, HistoryFailed
<1>8. ASSUME NEW k \in Sockets, Reconnect(k) PROVE HeldInv'
  <2>1. mgr'.conn = k /\ mgr'.timer = 0 /\ mgr'.gen = mgr.gen
    <3>1. [mgr EXCEPT !.timer = 0] \in Manager
      BY <1>0 DEF Manager
    <3> QED BY <1>0, <1>8, <3>1, ConnectingKeeps DEF Reconnect, Manager
  <2>2. /\ sock'[k] = NewSocket(mgr.desired, mgr.gen)
        /\ \A j \in Sockets : j # k => sock'[j] = sock[j]
    BY <1>8 DEF Reconnect, TypeOK
  <2>3. sock'[k].state = "opening" /\ sock'[k].gen = mgr.gen
    BY <2>2 DEF NewSocket
  <2>4. HistoryFailed => HistoryFailed'
    <3>1. sock[k].history = "none"
      BY <1>8 DEF Reconnect, Fresh, GenerationInv
    <3> QED BY <2>2, <3>1 DEF HistoryFailed
  <2>5. ~HistoryFailed => \A j \in Sockets : ~Live(j)
    BY <1>0, <1>8 DEF Reconnect, HeldInv
  <2> QED BY <2>1, <2>2, <2>3, <2>4, <2>5 DEF HeldInv
<1>9. CASE ReconnectThrows
  <2>1. mgr'.conn = 0 /\ sock' = sock
    <3>1. [mgr EXCEPT !.timer = 0] \in Manager
      BY <1>0 DEF Manager
    <3> QED BY <1>9, <3>1, ConnectFailedKeeps DEF ReconnectThrows
  <2>2. ~HistoryFailed => \A j \in Sockets : ~Live(j)
    BY <1>0, <1>9 DEF ReconnectThrows, HeldInv
  <2> QED BY <2>1, <2>2 DEF HeldInv, HistoryFailed
<1>10. ASSUME NEW k \in Sockets, SocketOpens(k) PROVE HeldInv'
  <2>1. mgr' = mgr /\ sock[k].state = "opening"
    BY <1>10 DEF SocketOpens
  <2>2. HistoryFailed => HistoryFailed'
    <3>1. sock[k].history = "none"
      BY <2>1 DEF GenerationInv
    <3> QED BY <1>10, <3>1, OpenedSet DEF HistoryFailed
  <2> QED BY <1>10, <2>1, <2>2, OpenedSet DEF HeldInv, TypeOK, Manager
<1>11. ASSUME NEW k \in Sockets, SocketFails(k) \/ SocketDrops(k) \/ MalformedMessage(k)
       PROVE  HeldInv'
  <2>1. PICK st \in {"deaf", "closed"} : sock' = [sock EXCEPT ![k].state = st]
    BY <1>11, SocketLost
  <2>2. \A j \in Sockets : /\ sock'[j].state = IF j = k THEN st ELSE sock[j].state
                           /\ sock'[j].gen = sock[j].gen
                           /\ sock'[j].history = sock[j].history
    <3>1. st \in {"opening", "open", "deaf", "closed"} /\ k \in Sockets /\ TypeOK
      OBVIOUS
    <3> HIDE DEF Used, Live
    <3>2. sock' = [sock EXCEPT ![k].state = st]
      BY <2>1
    <3> QED BY ONLY <3>1, <3>2 DEF TypeOK, Socket
  <2>3. HistoryFailed' = HistoryFailed
    BY <2>2, FailureStays
  <2>4. CASE sock[k].gen = mgr.gen
    <3>1. mgr'.conn = 0 /\ Live(k)
      BY <1>11, <2>4, SocketLost DEF GenerationInv
    <3> QED BY <2>2, <2>3, <3>1 DEF HeldInv
  <2>5. CASE sock[k].gen # mgr.gen
    <3>1. /\ mgr'.gen = mgr.gen /\ mgr'.timer = mgr.timer
          /\ mgr'.conn = mgr.conn \/ (mgr'.conn = 0 /\ SocketFails(k))
      BY <1>11, <2>5, SocketLost
    <3>2. k # mgr.conn
      BY <1>0, <2>5 DEF HeldInv
    <3>3. ~HistoryFailed => ~Live(k)
      BY <3>2 DEF HeldInv
    <3>4. SocketFails(k) => Live(k)
      BY DEF SocketFails
    <3>5. mgr.conn \in Sockets \cup {0}
      BY <1>0 DEF Manager
    <3> QED BY <2>2, <2>3, <3>1, <3>2, <3>3, <3>4, <3>5 DEF HeldInv
  <2> QED BY <2>4, <2>5
<1>12. ASSUME NEW k \in Sockets, HistoryDone(k) \/ HistoryFails(k) PROVE HeldInv'
  <2>1. /\ mgr'.gen = mgr.gen /\ mgr'.conn = mgr.conn
        /\ HistoryDone(k) => mgr'.timer = mgr.timer
    BY <1>12, HistoryEnds
  <2>2. PICK h \in {"done", "failed"} :
          sock' = [sock EXCEPT ![k].history = h] /\ (h = "done" => HistoryDone(k))
    BY <1>12 DEF HistoryDone, HistoryFails
  <2>3. \A j \in Sockets : /\ sock'[j].history = IF j = k THEN h ELSE sock[j].history
                           /\ sock'[j].state = sock[j].state
                           /\ sock'[j].gen = sock[j].gen
    <3>1. h \in {"none", "running", "done", "failed"} /\ k \in Sockets /\ TypeOK
      OBVIOUS
    <3> HIDE DEF Used, Live
    <3>2. sock' = [sock EXCEPT ![k].history = h]
      BY <2>2
    <3> QED BY ONLY <3>1, <3>2 DEF TypeOK, Socket
  <2>4. ~HistoryFailed' => HistoryDone(k) /\ ~HistoryFailed
    <3>1. sock[k].history = "running"
      BY <1>12 DEF HistoryDone, HistoryFails
    <3> QED BY <2>2, <2>3, <3>1 DEF HistoryFailed
  <2>5. mgr.conn \in Sockets \cup {0}
    BY <1>0 DEF Manager
  <2> QED BY <2>1, <2>3, <2>4, <2>5 DEF HeldInv
<1> QED
  BY <1>2, <1>3, <1>4, <1>5, <1>6, <1>7, <1>8, <1>9, <1>10, <1>11, <1>12
     DEF Next, ReconcileStep, TimerStep
-----------------------------------------------------------------------------
(* CONNECTED, and the union                                                *)

LEMMA ConnectedKept ==
  ASSUME TypeOK, GenerationInv, ConnectedIsTrue, [Next]_vars
  PROVE  ConnectedIsTrue'
<1>0. mgr \in Manager /\ [mgr EXCEPT !.timer = 0] \in Manager
  BY DEF TypeOK, Manager
<1>1. ASSUME mgr'.status # "CONNECTED" PROVE ConnectedIsTrue'
  BY <1>1 DEF ConnectedIsTrue
<1>2. CASE \/ UNCHANGED vars \/ ReconcileNothing \/ ReconcileEnd
           \/ \E c \in Callers : Subscribe(c) \/ Unsubscribe(c)
  BY <1>2 DEF ConnectedIsTrue, vars, ReconcileNothing, ReconcileEnd, Subscribe, Unsubscribe
<1>3. CASE ReconcileRelease
  <2>1. mgr'.status = "DISCONNECTED"
    BY <1>3, RenewedKeeps DEF ReconcileRelease, Manager
  <2> QED BY <1>1, <2>1
<1>4. ASSUME NEW k \in Sockets, ReconcileConnect(k) PROVE ConnectedIsTrue'
  <2>1. mgr'.status = "RECONNECTING"
    BY <1>4, RenewedKeeps, ConnectingKeeps DEF ReconcileConnect
  <2> QED BY <1>1, <2>1
<1>5. CASE ReconcileThrows \/ ReconnectThrows
  <2>1. mgr'.status # "CONNECTED"
    BY <1>0, <1>5, RenewedKeeps, ConnectFailedKeeps DEF ReconcileThrows, ReconnectThrows
  <2> QED BY <1>1, <2>1
<1>6. CASE TimerStale
  BY <1>0, <1>6 DEF ConnectedIsTrue, TimerStale, Manager
<1>7. ASSUME NEW k \in Sockets, Reconnect(k) PROVE ConnectedIsTrue'
  <2>1. mgr'.status = "RECONNECTING"
    BY <1>0, <1>7, ConnectingKeeps DEF Reconnect
  <2> QED BY <1>1, <2>1
<1>8. ASSUME NEW k \in Sockets, SocketOpens(k) PROVE ConnectedIsTrue'
  <2>1. mgr' = mgr /\ sock[k].state = "opening"
    BY <1>8 DEF SocketOpens
  <2> QED BY <1>8, <2>1, OpenedSet DEF ConnectedIsTrue
<1>9. ASSUME NEW k \in Sockets, SocketFails(k) \/ SocketDrops(k) \/ MalformedMessage(k)
      PROVE  ConnectedIsTrue'
  <2>1. CASE sock[k].gen = mgr.gen
    BY <1>1, <1>9, <2>1, SocketLost
  <2>2. CASE sock[k].gen # mgr.gen
    <3>1. mgr'.gen = mgr.gen /\ mgr'.status = mgr.status /\ mgr'.desired = mgr.desired
      BY <1>9, <2>2, SocketLost
    <3>2. PICK st \in {"deaf", "closed"} : sock' = [sock EXCEPT ![k].state = st]
      BY <1>9, SocketLost
    <3>3. \A j \in Sockets : j # k => sock'[j] = sock[j]
      BY <3>2 DEF TypeOK
    <3> QED BY <2>2, <3>1, <3>3 DEF ConnectedIsTrue
  <2> QED BY <2>1, <2>2
<1>10. ASSUME NEW k \in Sockets, HistoryDone(k) \/ HistoryFails(k) PROVE ConnectedIsTrue'
  <2> SUFFICES ASSUME mgr'.status = "CONNECTED" PROVE ConnectedIsTrue'
    BY <1>1
  <2>1. mgr'.gen = mgr.gen /\ mgr'.desired = mgr.desired
    BY <1>10, HistoryEnds
  <2>2. sock[k].history = "running" /\ \A j \in Sockets : j # k => sock'[j] = sock[j]
    BY <1>10 DEF HistoryDone, HistoryFails, TypeOK
  <2>3. CASE mgr.status = "CONNECTED"
    BY <2>1, <2>2, <2>3 DEF ConnectedIsTrue
  <2>4. CASE mgr.status # "CONNECTED"
    <3>1. HistoryDone(k) /\ sock[k].gen = mgr.gen /\ sock[k].state \notin {"unused", "opening"}
      BY <1>10, <2>4, HistoryEnds
    <3>2. sock[k].state = "open" /\ sock[k].subs = mgr.desired
      BY <3>1 DEF GenerationInv, Used, Live
    <3>3. sock' = [sock EXCEPT ![k].history = "done"]
      BY <3>1 DEF HistoryDone
    <3>4. /\ sock'[k].history = "done" /\ sock'[k].state = "open"
          /\ sock'[k].gen = mgr.gen /\ sock'[k].subs = mgr.desired
      BY <3>1, <3>2, <3>3 DEF TypeOK, Socket
    <3> QED BY <2>1, <3>4 DEF ConnectedIsTrue
  <2> QED BY <2>3, <2>4
<1>11. CASE Shutdown
  <2>1. mgr'.status = "DISCONNECTED"
    BY <1>0, <1>11 DEF Shutdown, Manager
  <2> QED BY <1>1, <2>1
<1> QED
  BY <1>2, <1>3, <1>4, <1>5, <1>6, <1>7, <1>8, <1>9, <1>10, <1>11
     DEF Next, ReconcileStep, TimerStep

LEMMA ChainKept ==
  ASSUME TypeOK, GenerationInv, ChainInv, [Next]_vars
  PROVE  ChainInv'
<1>0. /\ mgr \in Manager /\ [mgr EXCEPT !.timer = 0] \in Manager
      /\ chain \in Seq(Callers) /\ Len(chain) \in Nat
  BY DEF TypeOK, Manager
\* Steps that leave the chain, the subscribers and the desired streams alone.
<1>1. ASSUME UNCHANGED <<chain, waiting, subscribers>>,
             mgr'.desired = mgr.desired, mgr'.stopped = mgr.stopped
      PROVE  ChainInv'
  BY <1>1 DEF ChainInv, Union
\* Steps that read the union.
<1>2. ASSUME subscribers' = subscribers, mgr'.desired = Union PROVE ChainInv'
  BY <1>2 DEF ChainInv, Union
<1>3. CASE UNCHANGED vars
  BY <1>1, <1>3 DEF vars
<1>4. ASSUME NEW c \in Callers, Subscribe(c) \/ Unsubscribe(c) PROVE ChainInv'
  <2>1. chain' = Append(chain, c) /\ waiting' = waiting
    BY <1>4 DEF Subscribe, Unsubscribe
  <2>2. Len(chain') = Len(chain) + 1 /\ (waiting # 0 => Len(chain) # 0)
    BY <1>0, <2>1 DEF TypeOK
  <2>3. chain' # <<>> /\ ~(waiting' # 0 /\ Len(chain') = 1)
    BY <1>0, <2>1, <2>2
  <2> QED BY <2>3 DEF ChainInv
<1>5. CASE ReconcileNothing
  <2>1. /\ waiting' = 0 /\ mgr' = mgr /\ subscribers' = subscribers
        /\ ~mgr.stopped => mgr.desired = Union
    BY <1>5 DEF ReconcileNothing, HeadAnswered, UpToDate
  <2> QED BY <2>1 DEF ChainInv, Union
<1>6. CASE ReconcileRelease
  <2>1. mgr'.desired = Union /\ subscribers' = subscribers
    BY <1>6, RenewedKeeps DEF ReconcileRelease, Manager
  <2> QED BY <1>2, <2>1
<1>7. ASSUME NEW k \in Sockets, ReconcileConnect(k) PROVE ChainInv'
  <2>1. mgr'.desired = Union /\ subscribers' = subscribers
    BY <1>7, RenewedKeeps, ConnectingKeeps DEF ReconcileConnect
  <2> QED BY <1>2, <2>1
<1>8. CASE ReconcileThrows
  <2>1. mgr'.desired = Union /\ subscribers' = subscribers
    BY <1>8, RenewedKeeps, ConnectFailedKeeps DEF ReconcileThrows
  <2> QED BY <1>2, <2>1
<1>9. CASE ReconcileEnd
  <2>1. /\ waiting # 0 /\ waiting' = 0 /\ chain' = Tail(chain) /\ chain # <<>>
        /\ mgr' = mgr /\ subscribers' = subscribers
    BY <1>9 DEF ReconcileEnd, HeadAnswered, TypeOK
  <2>2. chain \in Seq(Callers) /\ Len(chain) \in Nat \ {0}
    BY <1>0, <2>1 DEF TypeOK
  <2>3. Len(chain') = Len(chain) - 1
    BY <2>1, <2>2
  <2>4. chain' = <<>> => Len(chain) = 1
    BY <2>2, <2>3
  <2> QED BY <2>1, <2>4 DEF ChainInv, Union
<1>10. CASE TimerStale
  <2>1. mgr'.desired = mgr.desired /\ mgr'.stopped = mgr.stopped
    BY <1>0, <1>10 DEF TimerStale, Manager
  <2> QED BY <1>1, <1>10, <2>1 DEF TimerStale
<1>11. ASSUME NEW k \in Sockets, Reconnect(k) PROVE ChainInv'
  <2>1. mgr'.desired = mgr.desired /\ mgr'.stopped = mgr.stopped
    BY <1>0, <1>11, ConnectingKeeps DEF Reconnect, Manager
  <2> QED BY <1>1, <1>11, <2>1 DEF Reconnect
<1>12. CASE ReconnectThrows
  <2>1. mgr'.desired = mgr.desired /\ mgr'.stopped = mgr.stopped
    BY <1>0, <1>12, ConnectFailedKeeps DEF ReconnectThrows, Manager
  <2> QED BY <1>1, <1>12, <2>1 DEF ReconnectThrows
<1>13. ASSUME NEW k \in Sockets, SocketOpens(k) PROVE ChainInv'
  BY <1>1, <1>13 DEF SocketOpens
<1>14. ASSUME NEW k \in Sockets, SocketFails(k) \/ SocketDrops(k) \/ MalformedMessage(k)
       PROVE  ChainInv'
  <2>1. mgr'.desired = mgr.desired /\ mgr'.stopped = mgr.stopped
    BY <1>14, SocketLost
  <2> QED BY <1>1, <1>14, <2>1 DEF SocketFails, SocketDrops, MalformedMessage
<1>15. ASSUME NEW k \in Sockets, HistoryDone(k) \/ HistoryFails(k) PROVE ChainInv'
  <2>1. mgr'.desired = mgr.desired /\ mgr'.stopped = mgr.stopped
    BY <1>15, HistoryEnds
  <2> QED BY <1>1, <1>15, <2>1 DEF HistoryDone, HistoryFails
<1>16. CASE Shutdown
  <2>1. mgr'.stopped
    BY <1>0, <1>16 DEF Shutdown, Manager
  <2> QED BY <2>1 DEF ChainInv
<1> QED
  BY <1>3, <1>4, <1>5, <1>6, <1>7, <1>8, <1>9, <1>10, <1>11, <1>12, <1>13, <1>14,
     <1>15, <1>16 DEF Next, ReconcileStep, TimerStep

-----------------------------------------------------------------------------
(* The theorems                                                            *)

LEMMA InitialStream == Init => StreamInv
<1> SUFFICES ASSUME Init PROVE StreamInv
  OBVIOUS
<1>1. mgr \in Manager /\ NoSocket \in Socket
  BY BoundsAreNatural DEF Init, Manager, NoSocket, Socket
<1>2. TypeOK
  BY <1>1, BoundsAreNatural DEF Init, TypeOK, Phases
<1>3. GenerationInv /\ HeldInv /\ ConnectedIsTrue /\ ChainInv
  BY DEF Init, GenerationInv, HeldInv, ConnectedIsTrue, ChainInv, Used, Live, NoSocket, Union
<1> QED BY <1>2, <1>3 DEF StreamInv

\* The inductive invariant of the stream: types, generations, the connection
\* held, the truth of CONNECTED and the union that is still to be read.
THEOREM StreamInvariant == Spec => []StreamInv
<1>1. StreamInv /\ [Next]_vars => StreamInv'
  BY TypeKept, GenerationKept, HeldKept, ConnectedKept, ChainKept DEF StreamInv
<1> QED BY InitialStream, <1>1, PTL DEF Spec

\* The manager, the chain of reconciliations and the sockets stay in their
\* domains; in particular no retry is made beyond reconnectMaxAttempts.
THEOREM StreamTyped == Spec => []TypeOK
<1>1. StreamInv => TypeOK
  BY DEF StreamInv
<1> QED BY StreamInvariant, <1>1, PTL

\* finishConnection publishes CONNECTED only when it is so, and every later
\* step that ends it publishes another status.
THEOREM ConnectedStaysTrue == Spec => []ConnectedIsTrue
<1>1. StreamInv => ConnectedIsTrue
  BY DEF StreamInv
<1> QED BY StreamInvariant, <1>1, PTL

\* setSubscriptions never leaves a connection that serves other streams than
\* the desired ones, and no lost connection is held.
THEOREM HeldConnectionServes == Spec => []ConnectionServesDesired
<1>1. StreamInv => ConnectionServesDesired
  BY DEF StreamInv, TypeOK, Manager, HeldInv, GenerationInv, Used, Live,
     ConnectionServesDesired
<1> QED BY StreamInvariant, <1>1, PTL

\* As long as no reconciliation fails, the manager never has a second live
\* websocket, nor one that it cannot close.
THEOREM HeldSocketIsOnlyLive == Spec => []OnlyHeldSocketIsLive
<1>1. StreamInv => OnlyHeldSocketIsLive
  BY DEF StreamInv, HeldInv, Live, OnlyHeldSocketIsLive
<1> QED BY StreamInvariant, <1>1, PTL

\* The serialised reconciliations lose no subscription and no unsubscription.
THEOREM UnionIsServed == Spec => []DesiredIsUnion
<1>1. StreamInv => DesiredIsUnion
  BY DEF StreamInv, ChainInv, DesiredIsUnion
<1> QED BY StreamInvariant, <1>1, PTL

-----------------------------------------------------------------------------
(* The collection of news                                                  *)

Item == [owner : Readers, text : Kinds]
CallRow ==
  [pc : Labels \cup Articles, user : Readers \cup {Operator}, sources : SUBSET Kinds,
   kind : Kinds \cup {"none"}, auto : BOOLEAN, version : Versions, active : BOOLEAN,
   repaired : BOOLEAN, items : SUBSET Articles, owed : SUBSET Articles, hops : 0 .. MaxRedirects]

\* A call that persists, one that handles a source, one that handles a template.
Storing(c) == c.pc = "persist" \/ c.pc \in Articles
Collecting(c) == Storing(c) \/ c.pc \in Kinds \cup {"interpret", "scrape"}
Templating(c) == c.pc \in {"lookup", "generate", "repair", "deactivate", "store"}

CallOK(c) ==
  /\ c \in CallRow
  /\ Collecting(c) \/ (Templating(c) /\ c.user # Operator) => c.kind \in Kinds /\ c.user \in Readers
  /\ c.pc = "persist" => c.items # {}
  /\ c.pc = "next" => c.user \in Readers
  /\ c.pc = "deactivate" => c.active
  /\ c.pc = "store" /\ ~c.active => c.repaired
  /\ c.repaired => c.pc \in {"deactivate", "store", "scrape"}

\* What a call has found and not failed to store is stored or still in its loop.
Kept(c) ==
  /\ \A a \in c.owed : news[a] # NoItem \/ (a \in c.items /\ Storing(c))
  /\ c.pc \in Articles => c.pc \in c.items /\ news[c.pc] # NoItem

\* Between the two statements of save or of setActiveVersion.
Midway(c) == c.pc = "activate" \/ (c.pc = "store" /\ c.active)

\* What a call has read or written of the templates still holds.
Stands(c) ==
  /\ Midway(c) => InForce \subseteq {c.version}
  /\ c.pc = "repair" => InForce = {c.version}
  /\ (c.pc = "deactivate" /\ c.repaired) \/ (c.pc = "store" /\ ~c.active) =>
       c.version > 0 /\ InForce = {c.version - 1}

NewsTypes ==
  /\ template \in [Versions -> {"absent", "active", "inactive"}]
  /\ news \in [Articles \cup Invented -> Item \cup {NoItem}]
  /\ verdict \in [Articles \cup Invented -> SUBSET Kinds]
  /\ crossed \in BOOLEAN /\ torn \in BOOLEAN
StoredRows == \A a \in Articles \cup Invented :
  /\ a \in Invented => news[a] = NoItem
  /\ verdict[a] # {} => news[a] # NoItem
  /\ \A s, t \in verdict[a] : s = t
Calls == proc \in [Procs -> CallRow] /\ \A p \in Procs : CallOK(proc[p]) /\ Kept(proc[p])
OneForce == \A v, w \in InForce : v = w
SomeForce ==
  \/ \A v \in Versions : template[v] = "absent"
  \/ InForce # {}
  \/ \E p \in Procs : Midway(proc[p])
TemplateForce == ~crossed /\ ~torn =>
  /\ \A p, q \in Procs : Midway(proc[p]) /\ Midway(proc[q]) => p = q
  /\ OneForce
  /\ \A p \in Procs : Stands(proc[p])
  /\ SomeForce
NewsInv == NewsTypes /\ StoredRows /\ Calls /\ TemplateForce

-----------------------------------------------------------------------------
(* Helpers                                                                 *)

LEMMA KindsAre == Kinds = {"WEBSITE", "FEED", "UPLOAD", "CRAWLER"}
<1>1. ASSUME NEW k \in Kinds PROVE k \in {"WEBSITE", "FEED", "UPLOAD", "CRAWLER"}
  <2>1. PICK S \in SourceLists : k \in S BY DEF Kinds
  <2>2. S \in SUBSET {"WEBSITE", "FEED"} \/ S = {"UPLOAD"} \/ S = {"CRAWLER"} BY DEF SourceLists
  <2> QED BY <2>1, <2>2
<1>2. "WEBSITE" \in Kinds /\ "FEED" \in Kinds
  <2> PICK W : W = {"WEBSITE", "FEED"} OBVIOUS
  <2>1. "WEBSITE" \in W /\ "FEED" \in W OBVIOUS
  <2>2. W \in SUBSET {"WEBSITE", "FEED"} OBVIOUS
  <2>3. W # {} BY <2>1
  <2>4. ASSUME NEW V, V \in SUBSET {"WEBSITE", "FEED"}, V # {} PROVE V \in SourceLists
    BY <2>4 DEF SourceLists
  <2>5. W \in SourceLists BY <2>2, <2>3, <2>4
  <2> QED BY <2>1, <2>5 DEF Kinds
<1>3. "UPLOAD" \in Kinds /\ "CRAWLER" \in Kinds
  <2>1. {"UPLOAD"} \in SourceLists /\ {"CRAWLER"} \in SourceLists BY DEF SourceLists
  <2> QED BY <2>1 DEF Kinds
<1> QED BY <1>1, <1>2, <1>3

LEMMA NoKind ==
  /\ "next" \notin Kinds /\ "persist" \notin Kinds /\ "generate" \notin Kinds
  /\ "repair" \notin Kinds /\ "deactivate" \notin Kinds /\ "store" \notin Kinds
  /\ "activate" \notin Kinds /\ "none" \notin Kinds
BY KindsAre

\* The label of a call is no article, and the labels are distinct strings.
LEMMA NoLabel == \A l \in Labels : l \notin Articles
BY ArticlesAreNoLabels

LEMMA KnownLabels ==
  /\ {"idle", "next", "lookup", "generate", "repair", "deactivate", "store", "activate",
      "scrape", "interpret", "persist", "done", "hung"} \subseteq Labels
  /\ Kinds \subseteq Labels
  /\ 0 \in Versions /\ 0 \in 0 .. MaxRedirects
BY NewsBounds DEF Labels, Versions

\* Of finitely many versions one is the latest.
LEMMA LatestIsIn ==
  ASSUME NEW S \in SUBSET Versions, S # {}
  PROVE  Latest(S) \in S
<1> DEFINE above(v) == {w \in S : v < w}
           T == {above(v) : v \in S}
<1>1. S \subseteq Int /\ IsFiniteSet(S)
  <2>1. IsFiniteSet(Versions) /\ Versions \subseteq Int BY NewsBounds, FS_Interval DEF Versions
  <2> QED BY <2>1, FS_Subset
<1>2. IsWellFoundedOn(StrictSubsetOrdering(S), SUBSET S)
  BY <1>1, FS_FiniteSubsetsOfFinite, FS_StrictSubsetOrderingWellFounded
<1>3. T \subseteq SUBSET S /\ T # {} OBVIOUS
<1>4. PICK X \in T : \A Y \in T : <<Y, X>> \notin StrictSubsetOrdering(S)
  <2> HIDE DEF T
  <2> QED BY <1>2, <1>3, WFMin
<1>5. PICK v \in S : X = above(v) BY <1>4
<1>6. ASSUME NEW w \in S PROVE w <= v
  <2> SUFFICES ASSUME v < w PROVE FALSE BY <1>1
  <2>1. above(w) \in T /\ above(w) \in SUBSET S /\ above(v) \in SUBSET S OBVIOUS
  <2>2. ASSUME NEW x \in above(w) PROVE x \in above(v)
    <3>1. x \in S /\ x \in Int /\ v \in Int /\ w \in Int /\ w < x BY <1>1
    <3> QED BY <3>1
  <2>3. w \in above(v) /\ w \notin above(w) BY <1>1
  <2>4. above(w) # above(v) BY <2>3
  <2> HIDE DEF above, T
  <2>5. <<above(w), above(v)>> \in StrictSubsetOrdering(S)
    BY <2>1, <2>2, <2>4 DEF StrictSubsetOrdering
  <2> QED BY <1>4, <1>5, <2>1, <2>5
<1> QED BY <1>6 DEF Latest

\* A call that has nothing of a template in hand, and one whose loop is over.
Away(c) == CallOK(c) /\ Kept(c) /\ c.pc \notin {"generate", "repair", "deactivate", "store", "activate"}
Settled(c) ==
  /\ c \in CallRow
  /\ c.user # Operator => c.kind \in Kinds
  /\ \A a \in c.owed : news[a] # NoItem

LEMMA AwayStands ==
  ASSUME NEW c, Away(c)
  PROVE  Stands(c) /\ ~Midway(c)
BY DEF Away, Stands, Midway

LEMMA OverAway ==
  ASSUME NEW c, c \in CallRow, \A a \in c.owed : news[a] # NoItem, NEW l \in {"done", "hung"}
  PROVE  Away(Over(c, l))
<1> PICK d : d = Over(c, l) OBVIOUS
<1>1. d \in CallRow /\ d.pc = l /\ d.owed = c.owed /\ ~d.repaired
  BY KnownLabels DEF Over, IdleCall, CallRow
<1>2. d.pc \notin Articles /\ d.pc \notin Kinds BY <1>1, NoLabel, KnownLabels, KindsAre
<1> QED BY <1>1, <1>2 DEF Away, CallOK, Kept, Collecting, Storing, Templating

LEMMA LeftAway ==
  ASSUME NEW c, c \in CallRow, c.kind \in Kinds, c.user \in Readers, NEW S \in SUBSET Articles,
         ~c.repaired, \A a \in c.owed : news[a] # NoItem \/ a \in S
  PROVE  Away(Left(c, S))
<1> PICK d : d = Left(c, S) OBVIOUS
<1>0. "next" \notin Articles /\ "persist" \notin Articles /\ "next" \notin Kinds /\ "persist" \notin Kinds
  BY NoLabel, KnownLabels, KindsAre
<1>1. CASE S = {}
  <2>1. d = [c EXCEPT !.pc = "next", !.items = {}, !.kind = "none"] BY <1>1 DEF Left
  <2>2. /\ d \in CallRow /\ d.pc = "next" /\ d.owed = c.owed /\ d.user = c.user /\ ~d.repaired
    BY <2>1, KnownLabels DEF CallRow
  <2> QED BY <1>0, <1>1, <2>2 DEF Away, CallOK, Kept, Collecting, Storing, Templating
<1>2. CASE S # {}
  <2>1. d = [c EXCEPT !.pc = "persist", !.items = S] BY <1>2 DEF Left
  <2>2. /\ d \in CallRow /\ d.pc = "persist" /\ d.owed = c.owed /\ d.user = c.user
        /\ d.items = S /\ d.kind = c.kind /\ ~d.repaired
    BY <2>1, KnownLabels DEF CallRow
  <2> QED BY <1>0, <1>2, <2>2 DEF Away, CallOK, Kept, Collecting, Storing, Templating
<1> QED BY <1>1, <1>2

LEMMA TakeAway ==
  ASSUME NEW c, Settled(c), c.kind \in Kinds, c.user \in Readers, NEW S \in SUBSET Articles
  PROVE  Away(Take(c, S))
<1> PICK b \in BOOLEAN : b = (c.auto \/ "WEBSITE" \notin c.sources) OBVIOUS
<1> PICK d : d = [c EXCEPT !.owed = @ \cup S, !.hops = 0, !.version = 0, !.active = TRUE,
                           !.repaired = FALSE, !.auto = b]
  OBVIOUS
<1>1. /\ d \in CallRow /\ d.owed = c.owed \cup S /\ d.kind = c.kind /\ d.user = c.user
      /\ ~d.repaired
  BY KnownLabels DEF Settled, CallRow
<1>2. \A a \in d.owed : news[a] # NoItem \/ a \in S BY <1>1 DEF Settled
<1>3. Away(Left(d, S)) BY <1>1, <1>2, LeftAway
<1> QED BY <1>3 DEF Take

LEMMA ScrapingAway ==
  ASSUME NEW c, Settled(c), c.kind \in Kinds, c.user \in Readers, NEW S \in SUBSET Articles
  PROVE  Away(Scraping(c, S))
<1> PICK d : d = [c EXCEPT !.pc = "scrape", !.items = S] OBVIOUS
<1>1. /\ d \in CallRow /\ d.pc = "scrape" /\ d.owed = c.owed /\ d.kind = c.kind /\ d.user = c.user
  BY KnownLabels DEF Settled, CallRow
<1>2. "scrape" \notin Articles BY NoLabel, KnownLabels
<1>3. Away(d) BY <1>1, <1>2 DEF Away, CallOK, Kept, Collecting, Storing, Templating, Settled
<1>4. Away(Take(c, S)) BY TakeAway
<1> QED BY <1>3, <1>4 DEF Scraping

LEMMA FailedAway ==
  ASSUME NEW c, Settled(c)
  PROVE  Away(Failed(c))
<1>1. CASE c.user = Operator
  <2>1. Away(Over(c, "done")) BY OverAway DEF Settled
  <2> QED BY <1>1, <2>1 DEF Failed
<1>2. CASE c.user # Operator
  <2>1. c.kind \in Kinds /\ c.user \in Readers /\ c.items \in SUBSET Articles
    BY <1>2 DEF Settled, CallRow
  <2>2. Away(Scraping(c, c.items)) BY <2>1, ScrapingAway
  <2> QED BY <1>2, <2>2 DEF Failed
<1> QED BY <1>1, <1>2

\* A page that was fetched is extracted, or its template is to be repaired.
LEMMA Extracted ==
  ASSUME NEW c, Settled(c), ~c.repaired, NEW d \in Extract(c)
  PROVE  /\ CallOK(d) /\ Kept(d) /\ ~Midway(d)
         /\ InForce = {c.version} => Stands(d)
<1>1. CASE d = [c EXCEPT !.pc = "repair"]
  <2>1. /\ d \in CallRow /\ d.pc = "repair" /\ d.owed = c.owed /\ d.kind = c.kind
        /\ d.user = c.user /\ d.version = c.version /\ ~d.repaired
    BY <1>1, KnownLabels DEF Settled, CallRow
  <2>2. "repair" \notin Articles /\ "repair" \notin Kinds BY NoLabel, KnownLabels, KindsAre
  <2>3. d.user # Operator => d.user \in Readers BY <2>1 DEF CallRow
  <2> QED BY <2>1, <2>2, <2>3
        DEF CallOK, Kept, Collecting, Storing, Templating, Settled, Midway, Stands
<1>2. CASE d # [c EXCEPT !.pc = "repair"]
  <2>1. c.user # Operator /\ d = Scraping(c, Listed[c.kind]) BY <1>2 DEF Extract
  <2>2. c.kind \in Kinds /\ c.user \in Readers BY <2>1 DEF Settled, CallRow
  <2>3. Listed[c.kind] \in SUBSET Articles BY <2>2, NewsBounds
  <2>4. Away(d) BY <2>1, <2>2, <2>3, ScrapingAway
  <2> QED BY <2>4, AwayStands DEF Away
<1> QED BY <1>1, <1>2

\* Only a call that has saved its first template may go on to a repair.
LEMMA Saved ==
  ASSUME NEW c, Settled(c), NEW d \in AfterSave(c)
  PROVE  /\ CallOK(d) /\ Kept(d) /\ ~Midway(d)
         /\ d.pc = "repair" => ~c.repaired /\ d.version = c.version
         /\ d.pc \notin {"deactivate", "store", "activate"}
<1>1. CASE ~c.repaired /\ d = [c EXCEPT !.pc = "repair"]
  <2>1. d.pc = "repair" /\ d.version = c.version BY <1>1 DEF Settled, CallRow
  <2>2. d \in Extract(c) BY <1>1 DEF Extract
  <2> QED BY <1>1, <2>1, <2>2, Extracted
<1>2. CASE ~c.repaired /\ d # [c EXCEPT !.pc = "repair"]
  <2>1. c.user # Operator /\ d = Scraping(c, Listed[c.kind]) BY <1>2 DEF AfterSave, Extract
  <2>2. c.kind \in Kinds /\ c.user \in Readers BY <2>1 DEF Settled, CallRow
  <2>3. Listed[c.kind] \in SUBSET Articles BY <2>2, NewsBounds
  <2>4. Away(d) BY <2>1, <2>2, <2>3, ScrapingAway
  <2> QED BY <2>4, AwayStands DEF Away
<1>3. CASE c.repaired /\ c.user = Operator
  <2>1. d = Over(c, "done") BY <1>3 DEF AfterSave
  <2>2. Away(d) BY <2>1, OverAway DEF Settled
  <2> QED BY <2>2, AwayStands DEF Away
<1>4. CASE c.repaired /\ c.user # Operator
  <2>1. c.kind \in Kinds /\ c.user \in Readers BY <1>4 DEF Settled, CallRow
  <2>2. Listed[c.kind] \in SUBSET Articles BY <2>1, NewsBounds
  <2>3. PICK S \in SUBSET Articles : d = Scraping(c, S) BY <1>4, <2>2 DEF AfterSave
  <2>4. Away(d) BY <2>1, <2>3, ScrapingAway
  <2> QED BY <2>4, AwayStands DEF Away
<1> QED BY <1>1, <1>2, <1>3, <1>4

-----------------------------------------------------------------------------
(* The steps, by what they touch                                           *)

\* A step of one call that leaves the templates and the articles alone.
LEMMA JudgedStep ==
  ASSUME NewsInv, NEW p \in Procs, NEW d, CallOK(d), Kept(d), ~Midway(d),
         ~crossed' /\ ~torn' => ~crossed /\ ~torn /\ ~Midway(proc[p]) /\ Stands(d),
         crossed' \in BOOLEAN, torn' \in BOOLEAN, Becomes(p, d),
         template' = template, news' = news,
         verdict' \in [Articles \cup Invented -> SUBSET Kinds], StoredRows'
  PROVE  NewsInv'
<1>1. proc \in [Procs -> CallRow] /\ d \in CallRow BY DEF NewsInv, Calls, CallOK
<1>2. /\ proc' \in [Procs -> CallRow] /\ proc'[p] = d
      /\ \A q \in Procs \ {p} : proc'[q] = proc[q]
  BY <1>1 DEF Becomes
<1>3. NewsTypes' BY DEF NewsInv, NewsTypes
<1>4. Calls'
  <2>1. ASSUME NEW q \in Procs PROVE (CallOK(proc[q]) /\ Kept(proc[q]))'
    <3>1. CASE q = p BY <3>1, <1>2 DEF CallOK, Kept
    <3>2. CASE q # p
      <4>1. proc'[q] = proc[q] BY <3>2, <1>2
      <4>2. CallOK(proc[q]) /\ Kept(proc[q]) BY DEF NewsInv, Calls
      <4> QED BY <4>1, <4>2 DEF CallOK, Kept
    <3> QED BY <3>1, <3>2
  <2> QED BY <2>1, <1>2 DEF Calls
<1>5. TemplateForce'
  <2> SUFFICES ASSUME ~crossed', ~torn'
               PROVE  /\ (\A q, r \in Procs : Midway(proc[q]) /\ Midway(proc[r]) => q = r)'
                      /\ OneForce' /\ (\A q \in Procs : Stands(proc[q]))' /\ SomeForce'
    BY DEF TemplateForce
  <2>0. TemplateForce /\ ~crossed /\ ~torn /\ ~Midway(proc[p]) /\ Stands(d) BY DEF NewsInv
  <2>1. InForce' = InForce BY DEF InForce
  <2>2. ASSUME NEW q \in Procs
        PROVE  /\ Midway(proc[q])' <=> Midway(proc[q])
               /\ Stands(proc[q])'
    <3>1. CASE q = p BY <3>1, <1>2, <2>0, <2>1 DEF Midway, Stands
    <3>2. CASE q # p
      <4>1. proc'[q] = proc[q] BY <3>2, <1>2
      <4>2. Stands(proc[q]) BY <2>0 DEF TemplateForce
      <4> QED BY <4>1, <4>2, <2>1 DEF Midway, Stands
    <3> QED BY <3>1, <3>2
  <2>3. OneForce' BY <2>0, <2>1 DEF OneForce, TemplateForce
  <2>4. SomeForce' BY <2>0, <2>1, <2>2 DEF SomeForce, TemplateForce
  <2>5. (\A q, r \in Procs : Midway(proc[q]) /\ Midway(proc[r]) => q = r)'
    BY <2>0, <2>2 DEF TemplateForce
  <2> QED BY <2>2, <2>3, <2>4, <2>5
<1> QED BY <1>3, <1>4, <1>5 DEF NewsInv

\* And the verdicts.
LEMMA NewsQuietStep ==
  ASSUME NewsInv, NEW p \in Procs, NEW d, CallOK(d), Kept(d), ~Midway(d),
         ~crossed' /\ ~torn' => ~crossed /\ ~torn /\ ~Midway(proc[p]) /\ Stands(d),
         crossed' \in BOOLEAN, torn' \in BOOLEAN, Becomes(p, d),
         template' = template, news' = news, verdict' = verdict
  PROVE  NewsInv'
<1>1. verdict' \in [Articles \cup Invented -> SUBSET Kinds] /\ StoredRows'
  BY DEF NewsInv, NewsTypes, StoredRows
<1> QED BY <1>1, JudgedStep

\* A statement on the templates: either it crosses another call or no other
\* call relies on what is in force.
LEMMA TemplateStep ==
  ASSUME NewsInv, NEW p \in Procs, NEW d, CallOK(d), Kept(d), Becomes(p, d), Cross(p),
         template' \in [Versions -> {"absent", "active", "inactive"}], torn' \in BOOLEAN,
         news' = news, verdict' = verdict,
         ~crossed' /\ ~torn' =>
           /\ OneForce' /\ Stands(d)'
           /\ (\A v \in Versions : template[v] = "absent")' \/ InForce' # {} \/ Midway(d)
  PROVE  NewsInv'
<1>1. proc \in [Procs -> CallRow] /\ d \in CallRow BY DEF NewsInv, Calls, CallOK
<1>2. /\ proc' \in [Procs -> CallRow] /\ proc'[p] = d
      /\ \A q \in Procs \ {p} : proc'[q] = proc[q]
  BY <1>1 DEF Becomes
<1>3. NewsTypes' /\ StoredRows'
  BY DEF NewsInv, NewsTypes, StoredRows, Cross
<1>4. Calls'
  <2>1. ASSUME NEW q \in Procs PROVE (CallOK(proc[q]) /\ Kept(proc[q]))'
    <3>1. CASE q = p BY <3>1, <1>2 DEF CallOK, Kept
    <3>2. CASE q # p
      <4>1. proc'[q] = proc[q] BY <3>2, <1>2
      <4>2. CallOK(proc[q]) /\ Kept(proc[q]) BY DEF NewsInv, Calls
      <4> QED BY <4>1, <4>2 DEF CallOK, Kept
    <3> QED BY <3>1, <3>2
  <2> QED BY <2>1, <1>2 DEF Calls
<1>5. TemplateForce'
  <2> SUFFICES ASSUME ~crossed', ~torn'
               PROVE  /\ (\A q, r \in Procs : Midway(proc[q]) /\ Midway(proc[r]) => q = r)'
                      /\ OneForce' /\ (\A q \in Procs : Stands(proc[q]))' /\ SomeForce'
    BY DEF TemplateForce
  <2>1. ASSUME NEW q \in Procs \ {p} PROVE ~Midway(proc[q])' /\ Stands(proc[q])'
    <3>1. ~Changing(q) BY DEF Cross
    <3>2. proc'[q] = proc[q] BY <1>2
    <3> QED BY <3>1, <3>2 DEF Changing, Midway, Stands
  <2>2. Stands(proc[p])' BY <1>2 DEF Stands, Midway
  <2>3. Midway(d) => Midway(proc[p])' BY <1>2 DEF Midway
  <2>4. SomeForce' BY <2>3 DEF SomeForce
  <2> QED BY <2>1, <2>2, <2>4
<1> QED BY <1>3, <1>4, <1>5 DEF NewsInv

\* Every step that is over with templates or never had any.
LEMMA AwayStep ==
  ASSUME NewsInv, NEW p \in Procs, NEW d, Away(d), Becomes(p, d), ~Midway(proc[p]),
         UNCHANGED <<template, news, verdict, crossed, torn>>
  PROVE  NewsInv'
<1>1. CallOK(d) /\ Kept(d) /\ ~Midway(d) /\ Stands(d) BY AwayStands DEF Away
<1>2. crossed \in BOOLEAN /\ torn \in BOOLEAN BY DEF NewsInv, NewsTypes
<1> QED BY <1>1, <1>2, NewsQuietStep

\* What a call is, with the facts its label gives.
LEMMA AtLabel ==
  ASSUME NewsInv, NEW p \in Procs
  PROVE  /\ proc[p] \in CallRow /\ CallOK(proc[p]) /\ Kept(proc[p])
         /\ ~Storing(proc[p]) => \A a \in proc[p].owed : news[a] # NoItem
         /\ proc[p].pc \in Labels \ {"persist"} => ~Storing(proc[p])
         /\ Templating(proc[p]) => Settled(proc[p])
<1>1. CallOK(proc[p]) /\ Kept(proc[p]) BY DEF NewsInv, Calls
<1>2. proc[p] \in CallRow BY <1>1 DEF CallOK
<1>3. ~Storing(proc[p]) => \A a \in proc[p].owed : news[a] # NoItem BY <1>1 DEF Kept
<1>4. proc[p].pc \in Labels \ {"persist"} => ~Storing(proc[p]) BY NoLabel DEF Storing
<1>5. Templating(proc[p]) => Settled(proc[p])
  <2>1. Templating(proc[p]) => proc[p].pc \in Labels \ {"persist"} BY KnownLabels DEF Templating
  <2> QED BY <1>1, <1>2, <1>3, <1>4, <2>1 DEF Settled, CallOK
<1> QED BY <1>1, <1>2, <1>3, <1>4, <1>5

-----------------------------------------------------------------------------
(* The actions                                                             *)

LEMMA NewsStarts == NewsInit => NewsInv
<1> SUFFICES ASSUME NewsInit PROVE NewsInv OBVIOUS
<1>0. /\ IdleCall \in CallRow /\ IdleCall.pc = "idle" /\ IdleCall.owed = {} /\ ~IdleCall.repaired
  BY KnownLabels DEF IdleCall, CallRow
<1>1. "idle" \notin Articles /\ "idle" \notin Kinds BY NoLabel, KnownLabels, KindsAre
<1>2. Away(IdleCall)
  BY <1>0, <1>1 DEF Away, CallOK, Kept, Collecting, Storing, Templating
<1>3. \A p \in Procs : proc[p] = IdleCall BY DEF NewsInit
<1>4. Calls BY <1>0, <1>2, <1>3 DEF Calls, NewsInit, Away
<1>5. NewsTypes BY DEF NewsTypes, NewsInit
<1>6. StoredRows
  <2>1. Invented \cap Articles = {} BY NewsBounds
  <2> QED BY <2>1 DEF StoredRows, NewsInit
<1>7. InForce = {} BY DEF InForce, NewsInit
<1>8. (\A p \in Procs : Stands(proc[p]) /\ ~Midway(proc[p])) BY <1>2, <1>3, AwayStands
<1>9. OneForce /\ SomeForce BY <1>7 DEF OneForce, SomeForce, NewsInit
<1>10. TemplateForce BY <1>8, <1>9 DEF TemplateForce
<1> QED BY <1>4, <1>5, <1>6, <1>10 DEF NewsInv

LEMMA CollectInv ==
  ASSUME NewsInv, NEW p \in Procs, NEW u \in Readers, NEW S \in SourceLists, NEW b \in BOOLEAN,
         Collect(p, u, S, b)
  PROVE  NewsInv'
<1> PICK d : d = [IdleCall EXCEPT !.pc = "next", !.user = u, !.sources = S, !.auto = b] OBVIOUS
<1>0. S \in SUBSET Kinds BY DEF Kinds
<1>1. /\ d \in CallRow /\ d.pc = "next" /\ d.owed = {} /\ d.user = u /\ ~d.repaired
  BY <1>0, KnownLabels DEF IdleCall, CallRow
<1>2. "next" \notin Articles /\ "next" \notin Kinds BY NoLabel, KnownLabels, KindsAre
<1>3. Away(d) BY <1>1, <1>2 DEF Away, CallOK, Kept, Collecting, Storing, Templating
<1>4. ~Midway(proc[p]) BY DEF Collect, FirstIdle, At, Midway
<1> QED BY <1>3, <1>4, AwayStep DEF Collect

LEMMA HealInv ==
  ASSUME NewsInv, NEW p \in Procs, NEW b \in BOOLEAN, Heal(p, b)
  PROVE  NewsInv'
<1> PICK d : d = [IdleCall EXCEPT !.pc = "lookup", !.auto = b] OBVIOUS
<1>1. /\ d \in CallRow /\ d.pc = "lookup" /\ d.owed = {} /\ d.user = Operator /\ ~d.repaired
  BY KnownLabels DEF IdleCall, CallRow
<1>2. "lookup" \notin Articles /\ "lookup" \notin Kinds BY NoLabel, KnownLabels, KindsAre
<1>3. Away(d) BY <1>1, <1>2 DEF Away, CallOK, Kept, Collecting, Storing, Templating
<1>4. ~Midway(proc[p]) BY DEF Heal, FirstIdle, At, Midway
<1> QED BY <1>3, <1>4, AwayStep DEF Heal

LEMMA NextSourceInv ==
  ASSUME NewsInv, NEW p \in Procs, NextSource(p)
  PROVE  NewsInv'
<1> PICK c : c = proc[p] OBVIOUS
<1>1. c \in CallRow /\ c.pc = "next" /\ c.user \in Readers /\ ~c.repaired
  BY AtLabel DEF NextSource, At, CallOK
<1>2. \A a \in c.owed : news[a] # NoItem BY <1>1, AtLabel, KnownLabels
<1>3. ~Midway(proc[p]) BY <1>1 DEF Midway
<1>4. ASSUME c.sources # {},
             Becomes(p, [c EXCEPT !.pc = CHOOSE k \in c.sources : TRUE,
                                  !.kind = CHOOSE k \in c.sources : TRUE,
                                  !.sources = @ \ {CHOOSE k \in c.sources : TRUE}])
      PROVE  NewsInv'
  <2> PICK s : s = (CHOOSE k \in c.sources : TRUE) OBVIOUS
  <2> PICK d : d = [c EXCEPT !.pc = s, !.kind = s, !.sources = @ \ {s}] OBVIOUS
  <2>1. s \in c.sources /\ s \in Kinds /\ s \in Labels \ {"persist"}
    <3>1. s \in c.sources BY <1>4
    <3>2. s \in Kinds BY <3>1, <1>1 DEF CallRow
    <3>3. s \in Labels BY <3>2, KnownLabels
    <3>4. s # "persist" BY <3>2, NoKind
    <3> QED BY <3>1, <3>2, <3>3, <3>4
  <2>2. /\ d \in CallRow /\ d.pc = s /\ d.kind = s /\ d.owed = c.owed /\ d.user = c.user
        /\ ~d.repaired
    BY <1>1, <2>1 DEF CallRow
  <2>3. s \notin Articles BY <2>1, NoLabel
  <2>4. Away(d)
    <3>1. s \notin {"next", "persist", "generate", "repair", "deactivate", "store", "activate"}
      BY <2>1, NoKind
    <3>2. ~Storing(d) BY <2>2, <2>3, <3>1 DEF Storing
    <3>3. CallOK(d) BY <1>1, <2>1, <2>2, <3>1 DEF CallOK
    <3>4. Kept(d) BY <1>2, <2>2, <2>3 DEF Kept
    <3> QED BY <2>2, <3>1, <3>3, <3>4 DEF Away
  <2>5. Becomes(p, d) BY <1>4
  <2> QED BY <1>3, <2>4, <2>5, AwayStep DEF NextSource
<1>5. CASE Becomes(p, Over(c, "done"))
  <2>1. Away(Over(c, "done")) BY <1>1, <1>2, OverAway
  <2> QED BY <1>3, <1>5, <2>1, AwayStep DEF NextSource
<1> QED BY <1>4, <1>5 DEF NextSource

\* Going on to another label with nothing else changed.
LEMMA GoesAway ==
  ASSUME NewsInv, NEW p \in Procs, ~Storing(proc[p]), ~proc[p].repaired,
         proc[p].kind \in Kinds, proc[p].user \in Readers,
         NEW l \in {"next", "lookup", "interpret"}
  PROVE  Away([proc[p] EXCEPT !.pc = l])
<1> PICK c : c = proc[p] OBVIOUS
<1> PICK d : d = [c EXCEPT !.pc = l] OBVIOUS
<1>1. /\ d \in CallRow /\ d.pc = l /\ d.owed = c.owed /\ d.user = c.user /\ d.kind = c.kind
      /\ ~d.repaired
  BY AtLabel, KnownLabels DEF CallRow
<1>2. l \notin Articles BY NoLabel, KnownLabels
<1>3. \A a \in d.owed : news[a] # NoItem BY <1>1, AtLabel
<1> QED BY <1>1, <1>2, <1>3 DEF Away, CallOK, Kept, Collecting, Storing, Templating

\* The label of a source comes with its kind and the reader who asked.
LEMMA AtSource ==
  ASSUME NewsInv, NEW p \in Procs, proc[p].pc \in Kinds \cup {"interpret", "scrape"}
  PROVE  /\ ~Storing(proc[p]) /\ Settled(proc[p]) /\ ~Midway(proc[p])
         /\ proc[p].kind \in Kinds /\ proc[p].user \in Readers
         /\ proc[p].pc # "scrape" => ~proc[p].repaired
<1>1. proc[p].pc \in Labels \ {"persist"} BY KnownLabels, KindsAre
<1>2. ~Storing(proc[p]) BY <1>1, AtLabel
<1>3. proc[p].kind \in Kinds /\ proc[p].user \in Readers BY AtLabel DEF CallOK, Collecting
<1>4. Settled(proc[p]) BY <1>2, <1>3, AtLabel DEF Settled
<1>5. ~Midway(proc[p]) BY KindsAre DEF Midway
<1>6. proc[p].pc # "scrape" => ~proc[p].repaired BY AtLabel, NoKind DEF CallOK
<1> QED BY <1>2, <1>3, <1>4, <1>5, <1>6

LEMMA FetchPageInv ==
  ASSUME NewsInv, NEW p \in Procs, FetchPage(p)
  PROVE  NewsInv'
<1>1. proc[p].pc \in Kinds /\ proc[p].pc # "scrape" BY KindsAre DEF FetchPage, At
<1>2. CASE GoesTo(p, "lookup") \/ GoesTo(p, "next")
  <2>1. PICK l \in {"lookup", "next"} : Becomes(p, [proc[p] EXCEPT !.pc = l]) BY <1>2 DEF GoesTo
  <2>2. Away([proc[p] EXCEPT !.pc = l]) BY <1>1, AtSource, GoesAway
  <2> QED BY <1>1, <2>1, <2>2, AtSource, AwayStep DEF FetchPage
<1>3. CASE Becomes(p, Over(proc[p], "hung"))
  <2>1. Away(Over(proc[p], "hung")) BY <1>1, AtSource, OverAway DEF Settled
  <2> QED BY <1>1, <1>3, <2>1, AtSource, AwayStep DEF FetchPage
<1> QED BY <1>2, <1>3 DEF FetchPage

LEMMA FetchFeedInv ==
  ASSUME NewsInv, NEW p \in Procs, FetchFeed(p)
  PROVE  NewsInv'
<1>1. proc[p].pc \in Kinds /\ proc[p].pc # "scrape" BY KindsAre DEF FetchFeed, At
<1>2. CASE GoesTo(p, "next")
  <2>1. Away([proc[p] EXCEPT !.pc = "next"]) BY <1>1, AtSource, GoesAway
  <2> QED BY <1>1, <1>2, <2>1, AtSource, AwayStep DEF FetchFeed, GoesTo
<1>3. CASE Becomes(p, Over(proc[p], "hung"))
  <2>1. Away(Over(proc[p], "hung")) BY <1>1, AtSource, OverAway DEF Settled
  <2> QED BY <1>1, <1>3, <2>1, AtSource, AwayStep DEF FetchFeed
<1>4. ASSUME NEW S \in SUBSET Listed["FEED"], Becomes(p, Take(proc[p], S)) PROVE NewsInv'
  <2>1. S \in SUBSET Articles BY KindsAre, NewsBounds
  <2>2. Away(Take(proc[p], S)) BY <1>1, <2>1, AtSource, TakeAway
  <2> QED BY <1>1, <1>4, <2>2, AtSource, AwayStep DEF FetchFeed
<1> QED BY <1>2, <1>3, <1>4 DEF FetchFeed

LEMMA UploadInv ==
  ASSUME NewsInv, NEW p \in Procs, Upload(p)
  PROVE  NewsInv'
<1>1. proc[p].pc \in Kinds BY KindsAre DEF Upload, At
<1>2. PICK S \in {{}, Listed["UPLOAD"]} : Becomes(p, Take(proc[p], S)) BY DEF Upload
<1>3. S \in SUBSET Articles BY KindsAre, NewsBounds
<1>4. Away(Take(proc[p], S)) BY <1>1, <1>3, AtSource, TakeAway
<1> QED BY <1>1, <1>2, <1>4, AtSource, AwayStep DEF Upload

LEMMA CrawlInv ==
  ASSUME NewsInv, NEW p \in Procs, Crawl(p)
  PROVE  NewsInv'
<1>1. proc[p].pc = "CRAWLER" /\ proc[p].pc \in Kinds /\ proc[p].pc # "scrape" BY KindsAre DEF Crawl, At
<1>2. CASE GoesTo(p, "interpret") \/ GoesTo(p, "next")
  <2>1. PICK l \in {"interpret", "next"} : Becomes(p, [proc[p] EXCEPT !.pc = l]) BY <1>2 DEF GoesTo
  <2>2. Away([proc[p] EXCEPT !.pc = l]) BY <1>1, AtSource, GoesAway
  <2> QED BY <1>1, <2>1, <2>2, AtSource, AwayStep DEF Crawl
<1>3. ASSUME MayRedirect(proc[p].hops), Becomes(p, [proc[p] EXCEPT !.hops = @ + 1]) PROVE NewsInv'
  <2> PICK c : c = proc[p] OBVIOUS
  <2> PICK d : d = [c EXCEPT !.hops = @ + 1] OBVIOUS
  <2>0. c \in CallRow /\ c.hops + 1 \in 0 .. MaxRedirects
    BY <1>3, AtLabel, NewsBounds DEF MayRedirect, CallRow
  <2>1. /\ d \in CallRow /\ d.pc = c.pc /\ d.owed = c.owed /\ d.user = c.user /\ d.kind = c.kind
        /\ d.repaired = c.repaired
    BY <2>0 DEF CallRow
  <2>2. c.pc \notin Articles BY <1>1, NoLabel, KnownLabels
  <2>3. Away(d)
    BY <1>1, <2>1, <2>2, AtSource DEF Settled, Away, CallOK, Kept, Collecting, Storing, Templating
  <2> QED BY <1>1, <1>3, <2>3, AtSource, AwayStep DEF Crawl
<1> QED BY <1>2, <1>3 DEF Crawl

LEMMA InterpretInv ==
  ASSUME NewsInv, NEW p \in Procs, Interpret(p)
  PROVE  NewsInv'
<1>1. proc[p].pc \in Kinds \cup {"interpret", "scrape"} /\ proc[p].pc # "scrape"
  BY DEF Interpret, At
<1>2. CASE GoesTo(p, "next")
  <2>1. Away([proc[p] EXCEPT !.pc = "next"]) BY <1>1, AtSource, GoesAway
  <2> QED BY <1>1, <1>2, <2>1, AtSource, AwayStep DEF Interpret, GoesTo
<1>3. ASSUME NEW S, Becomes(p, Take(proc[p], Supported(S))) PROVE NewsInv'
  <2>1. Supported(S) \in SUBSET Articles BY DEF Supported
  <2>2. Away(Take(proc[p], Supported(S))) BY <1>1, <2>1, AtSource, TakeAway
  <2> QED BY <1>1, <1>3, <2>2, AtSource, AwayStep DEF Interpret
<1> QED BY <1>2, <1>3 DEF Interpret

LEMMA ScrapeInv ==
  ASSUME NewsInv, NEW p \in Procs, Scrape(p)
  PROVE  NewsInv'
<1>1. proc[p].pc \in Kinds \cup {"interpret", "scrape"} BY DEF Scrape, At
<1>2. CASE Becomes(p, Over(proc[p], "hung"))
  <2>1. Away(Over(proc[p], "hung")) BY <1>1, AtSource, OverAway DEF Settled
  <2> QED BY <1>1, <1>2, <2>1, AtSource, AwayStep DEF Scrape
<1>3. ASSUME NEW S \in {{}, Listed["WEBSITE"]}, Becomes(p, Take(proc[p], proc[p].items \cup S))
      PROVE  NewsInv'
  <2>0. proc[p].items \in SUBSET Articles BY AtLabel DEF CallRow
  <2>1. proc[p].items \cup S \in SUBSET Articles BY <2>0, KindsAre, NewsBounds
  <2>2. Away(Take(proc[p], proc[p].items \cup S)) BY <1>1, <2>1, AtSource, TakeAway
  <2> QED BY <1>1, <1>3, <2>2, AtSource, AwayStep DEF Scrape
<1> QED BY <1>2, <1>3 DEF Scrape

LEMMA LookupInv ==
  ASSUME NewsInv, NEW p \in Procs, Lookup(p)
  PROVE  NewsInv'
<1> PICK c : c = proc[p] OBVIOUS
<1>1. /\ c.pc = "lookup" /\ c \in CallRow /\ Settled(c) /\ ~Midway(c) /\ ~c.repaired
      /\ \A a \in c.owed : news[a] # NoItem /\ CallOK(c)
  BY AtLabel DEF Lookup, At, Templating, Midway, Settled, CallOK
<1>2. crossed \in BOOLEAN /\ torn \in BOOLEAN BY DEF NewsInv, NewsTypes
<1>3. CASE InForce = {} /\ GoesTo(p, "generate")
  <2> PICK d : d = [c EXCEPT !.pc = "generate"] OBVIOUS
  <2>1. /\ d \in CallRow /\ d.pc = "generate" /\ d.owed = c.owed /\ d.user = c.user
        /\ d.kind = c.kind /\ ~d.repaired
    BY <1>1, KnownLabels DEF CallRow
  <2>2. "generate" \notin Articles /\ "generate" \notin Kinds BY NoLabel, KnownLabels, NoKind
  <2>3. d.user # Operator => d.user \in Readers BY <2>1 DEF CallRow
  <2>4. CallOK(d) /\ Kept(d) /\ ~Midway(d) /\ Stands(d)
    BY <1>1, <2>1, <2>2, <2>3
       DEF CallOK, Kept, Collecting, Storing, Templating, Settled, Midway, Stands
  <2>5. Becomes(p, d) BY <1>3 DEF Lookup, GoesTo
  <2> QED BY <1>1, <1>2, <2>4, <2>5, NewsQuietStep DEF Lookup
<1>4. CASE /\ InForce # {}
           /\ \E x \in Extract([proc[p] EXCEPT !.version = Latest(InForce)]) : Becomes(p, x)
  <2>2. PICK n \in InForce : n = Latest(InForce)
    BY <1>4, LatestIsIn DEF InForce
  <2>3. n \in Versions BY DEF InForce
  <2> PICK e : e = [c EXCEPT !.version = n] OBVIOUS
  <2>1. PICK d \in Extract(e) : Becomes(p, d) BY <1>4, <2>2 DEF Lookup
  <2>4. /\ e \in CallRow /\ e.owed = c.owed /\ e.user = c.user
        /\ e.kind = c.kind /\ e.version = n /\ ~e.repaired
    BY <1>1, <2>3 DEF CallRow
  <2>5. Settled(e) BY <1>1, <2>4 DEF Settled
  <2>6. CallOK(d) /\ Kept(d) /\ ~Midway(d) /\ (InForce = {e.version} => Stands(d))
    BY <2>1, <2>4, <2>5, Extracted
  <2>7. ASSUME ~crossed, ~torn PROVE Stands(d)
    <3>1. \A v, w \in InForce : v = w BY <2>7 DEF NewsInv, TemplateForce, OneForce
    <3>2. InForce = {e.version} BY <3>1, <2>2, <2>4
    <3> QED BY <3>2, <2>6
  <2> QED BY <1>1, <1>2, <2>1, <2>6, <2>7, NewsQuietStep DEF Lookup
<1>5. CASE Becomes(p, Over(c, "done"))
  <2>1. Away(Over(c, "done")) BY <1>1, OverAway
  <2> QED BY <1>1, <1>2, <1>5, <2>1, AwayStep DEF Lookup
<1> QED BY <1>3, <1>4, <1>5 DEF Lookup

LEMMA GenerateInv ==
  ASSUME NewsInv, NEW p \in Procs, GenerateTemplate(p)
  PROVE  NewsInv'
<1> PICK c : c = proc[p] OBVIOUS
<1>1. /\ c.pc = "generate" /\ c \in CallRow /\ Settled(c) /\ ~Midway(c) /\ ~c.repaired
  BY AtLabel DEF GenerateTemplate, At, Templating, Midway, Settled, CallOK
<1>2. crossed \in BOOLEAN /\ torn \in BOOLEAN BY DEF NewsInv, NewsTypes
<1> PICK d : d = [c EXCEPT !.pc = "deactivate", !.version = 0, !.active = TRUE] OBVIOUS
<1>3. /\ d \in CallRow /\ d.pc = "deactivate" /\ d.owed = c.owed /\ d.user = c.user
      /\ d.kind = c.kind /\ d.active /\ ~d.repaired
  BY <1>1, KnownLabels DEF CallRow
<1>4. "deactivate" \notin Articles /\ "deactivate" \notin Kinds BY NoLabel, KnownLabels, NoKind
<1>5. d.user # Operator => d.user \in Readers BY <1>3 DEF CallRow
<1>6. CallOK(d) /\ Kept(d) /\ ~Midway(d) /\ Stands(d)
  BY <1>1, <1>3, <1>4, <1>5
     DEF CallOK, Kept, Collecting, Storing, Templating, Settled, Midway, Stands
<1>7. Becomes(p, d) BY DEF GenerateTemplate
<1> QED BY <1>1, <1>2, <1>6, <1>7, NewsQuietStep DEF GenerateTemplate

LEMMA RepairInv ==
  ASSUME NewsInv, NEW p \in Procs, Repair(p)
  PROVE  NewsInv'
<1> PICK c : c = proc[p] OBVIOUS
<1>1. /\ c.pc = "repair" /\ c \in CallRow /\ Settled(c) /\ ~Midway(c) /\ CallOK(c)
  BY AtLabel DEF Repair, At, Templating, Midway, Settled, CallOK
<1>2. crossed \in BOOLEAN /\ torn \in BOOLEAN BY DEF NewsInv, NewsTypes
<1>3. CASE c.version = MaxVersion
  <2>1. Becomes(p, Failed(c)) BY <1>3 DEF Repair
  <2>2. Away(Failed(c)) BY <1>1, FailedAway
  <2> QED BY <1>1, <2>1, <2>2, AwayStep DEF Repair
<1>4. CASE c.version # MaxVersion
  <2> PICK d : d = [c EXCEPT !.pc = IF c.auto THEN "deactivate" ELSE "store", !.active = c.auto,
                             !.version = @ + 1, !.repaired = TRUE]
    OBVIOUS
  <2>1. c.version \in Versions /\ c.version + 1 \in Versions /\ c.version + 1 > 0
        /\ (c.version + 1) - 1 = c.version /\ c.auto \in BOOLEAN
    BY <1>1, <1>4, NewsBounds DEF CallRow, Versions
  <2>2. PICK w \in Versions : w = c.version + 1 BY <2>1
  <2>3. /\ d \in CallRow /\ d.pc = (IF c.auto THEN "deactivate" ELSE "store") /\ d.owed = c.owed
        /\ d.user = c.user /\ d.kind = c.kind /\ d.active = c.auto /\ d.repaired = TRUE
        /\ d.version = w
    BY <1>1, <2>1, <2>2, KnownLabels DEF CallRow
  <2>4. "deactivate" \notin Articles /\ "deactivate" \notin Kinds
        /\ "store" \notin Articles /\ "store" \notin Kinds
    BY NoLabel, KnownLabels, NoKind
  <2>5. d.user # Operator => d.user \in Readers BY <2>3 DEF CallRow
  <2>6. d.user # Operator => d.kind \in Kinds BY <1>1, <2>3 DEF Settled
  <2>7. CallOK(d) BY <2>1, <2>3, <2>4, <2>5, <2>6 DEF CallOK, Collecting, Storing, Templating
  <2>8. Kept(d) BY <1>1, <2>1, <2>3, <2>4 DEF Kept, Settled, Storing
  <2>9. ~Midway(d) BY <2>1, <2>3 DEF Midway
  <2>10. ASSUME ~crossed, ~torn PROVE Stands(d)
    <3>1. InForce = {c.version} BY <1>1, <2>10 DEF NewsInv, TemplateForce, Stands
    <3>2. w > 0 /\ w - 1 = c.version BY <2>1, <2>2
    <3> QED BY <2>1, <2>3, <2>9, <3>1, <3>2 DEF Stands
  <2>11. Becomes(p, d) BY <1>4 DEF Repair
  <2> QED BY <1>1, <1>2, <2>7, <2>8, <2>9, <2>10, <2>11, NewsQuietStep DEF Repair
<1> QED BY <1>3, <1>4

LEMMA DeactivateInv ==
  ASSUME NewsInv, NEW p \in Procs, DeactivateOthers(p)
  PROVE  NewsInv'
<1> PICK c : c = proc[p] OBVIOUS
<1>1. /\ c.pc = "deactivate" /\ c \in CallRow /\ Settled(c) /\ ~Midway(c) /\ CallOK(c) /\ c.active
  BY AtLabel DEF DeactivateOthers, At, Templating, Midway, Settled, CallOK
<1>2. CASE Becomes(p, Failed(c)) /\ UNCHANGED <<template, crossed>>
  <2>1. Away(Failed(c)) BY <1>1, FailedAway
  <2> QED BY <1>1, <1>2, <2>1, AwayStep DEF DeactivateOthers
<1>3. CASE template' = Deactivated(Versions \ {c.version}) /\ GoesTo(p, "store") /\ Cross(p)
  <2> PICK d : d = [c EXCEPT !.pc = "store"] OBVIOUS
  <2>1. /\ d \in CallRow /\ d.pc = "store" /\ d.owed = c.owed /\ d.user = c.user
        /\ d.kind = c.kind /\ d.active /\ d.version = c.version
    BY <1>1, KnownLabels DEF CallRow
  <2>2. "store" \notin Articles /\ "store" \notin Kinds BY NoLabel, KnownLabels, NoKind
  <2>3. d.user # Operator => d.user \in Readers BY <2>1 DEF CallRow
  <2>4. CallOK(d) /\ Kept(d)
    BY <1>1, <2>1, <2>2, <2>3 DEF CallOK, Kept, Collecting, Storing, Templating, Settled
  <2>5. Midway(d) BY <2>1 DEF Midway
  <2>6. template \in [Versions -> {"absent", "active", "inactive"}] /\ torn \in BOOLEAN
    BY DEF NewsInv, NewsTypes
  <2>7. template' \in [Versions -> {"absent", "active", "inactive"}]
    BY <1>3, <2>6 DEF Deactivated
  <2>8. \A v \in InForce' : v = c.version BY <1>3, <2>6 DEF Deactivated, InForce
  <2>9. OneForce' BY <2>8 DEF OneForce
  <2>10. Stands(d)' BY <2>1, <2>8 DEF Stands
  <2>11. Becomes(p, d) BY <1>3 DEF GoesTo
  <2> QED BY <1>3, <2>4, <2>5, <2>6, <2>7, <2>9, <2>10, <2>11, TemplateStep DEF DeactivateOthers
<1> QED BY <1>2, <1>3 DEF DeactivateOthers

LEMMA StoreInv ==
  ASSUME NewsInv, NEW p \in Procs, Store(p)
  PROVE  NewsInv'
<1> PICK c : c = proc[p] OBVIOUS
<1>1. /\ c.pc = "store" /\ c \in CallRow /\ Settled(c) /\ CallOK(c)
      /\ c.version \in Versions /\ c.active \in BOOLEAN
  BY AtLabel DEF Store, At, Templating, CallOK, CallRow
<1>2. crossed \in BOOLEAN /\ torn \in BOOLEAN BY DEF NewsInv, NewsTypes
<1>3. crossed' \in BOOLEAN /\ (~crossed' => ~crossed) BY <1>2 DEF Store, Cross
<1>4. template \in [Versions -> {"absent", "active", "inactive"}] BY DEF NewsInv, NewsTypes
<1>5. ~crossed /\ ~torn => Stands(c) BY DEF NewsInv, TemplateForce
<1>6. ASSUME template' = [template EXCEPT ![c.version] = IF c.active THEN "active" ELSE "inactive"],
             NEW d \in AfterSave(c), Becomes(p, d), UNCHANGED torn
      PROVE  NewsInv'
  <2>1. template' \in [Versions -> {"absent", "active", "inactive"}] BY <1>1, <1>4, <1>6
  <2>2. ASSUME ~crossed', ~torn' PROVE InForce' = {c.version} \/ (c.repaired /\ InForce' = {c.version - 1})
    <3>1. Stands(c) BY <1>3, <1>5, <1>6, <2>2
    <3>2. CASE c.active
      <4>1. InForce \subseteq {c.version} BY <1>1, <3>1, <3>2 DEF Stands, Midway
      <4>2. c.version \in InForce' BY <1>1, <1>4, <1>6, <3>2 DEF InForce
      <4>3. ASSUME NEW v \in InForce' PROVE v = c.version
        <5>1. v \in Versions /\ template'[v] = "active" BY DEF InForce
        <5>2. v # c.version => template[v] = "active" BY <1>1, <1>4, <1>6, <5>1
        <5> QED BY <4>1, <5>1, <5>2 DEF InForce
      <4> QED BY <4>2, <4>3
    <3>3. CASE ~c.active
      <4>1. c.repaired /\ InForce = {c.version - 1} /\ c.version > 0
        BY <1>1, <3>1, <3>3 DEF Stands, CallOK
      <4>2. c.version \notin InForce
        <5>1. c.version \in Nat BY <1>1 DEF Versions
        <5>2. c.version # c.version - 1 BY <5>1
        <5> QED BY <4>1, <5>2
      <4>3. InForce' = InForce
        <5>1. ASSUME NEW v \in Versions PROVE template'[v] = "active" <=> template[v] = "active"
          <6>1. CASE v = c.version BY <1>1, <1>4, <1>6, <3>3, <4>2, <6>1 DEF InForce
          <6>2. CASE v # c.version BY <1>1, <1>4, <1>6, <6>2
          <6> QED BY <6>1, <6>2
        <5> QED BY <5>1 DEF InForce
      <4> QED BY <4>1, <4>3
    <3> QED BY <1>1, <3>2, <3>3
  <2>3. CallOK(d) /\ Kept(d) /\ ~Midway(d) BY <1>1, <1>6, Saved
  <2>4. ASSUME ~crossed', ~torn' PROVE OneForce' /\ Stands(d)' /\ InForce' # {}
    <3>1. OneForce' /\ InForce' # {} BY <2>2, <2>4 DEF OneForce
    <3>2. d.pc = "repair" => ~c.repaired /\ d.version = c.version
      BY <1>1, <1>6, Saved
    <3>3. d.pc \notin {"deactivate", "store", "activate"} BY <1>1, <1>6, Saved
    <3>4. Stands(d)' BY <2>2, <2>4, <3>2, <3>3 DEF Stands, Midway
    <3> QED BY <3>1, <3>4
  <2>5. news' = news /\ verdict' = verdict /\ Cross(p) /\ torn' \in BOOLEAN BY <1>2, <1>6 DEF Store
  <2> QED BY <1>6, <2>1, <2>3, <2>4, <2>5, TemplateStep
<1>7. ASSUME Becomes(p, Failed(c)), torn' = (torn \/ c.active), UNCHANGED template
      PROVE  NewsInv'
  <2>1. Away(Failed(c)) BY <1>1, FailedAway
  <2>2. Stands(Failed(c)) /\ ~Midway(Failed(c)) BY <2>1, AwayStands
  <2>3. torn' \in BOOLEAN /\ (~torn' => ~torn /\ ~c.active) BY <1>1, <1>2, <1>7
  <2>4. ~crossed' /\ ~torn' => ~crossed /\ ~torn /\ ~Midway(proc[p])
    BY <1>1, <1>3, <2>3 DEF Midway
  <2>5. news' = news /\ verdict' = verdict BY DEF Store
  <2> QED BY <1>3, <1>7, <2>1, <2>2, <2>3, <2>4, <2>5, NewsQuietStep DEF Away
<1>8. \/ /\ template' = [template EXCEPT ![c.version] = IF c.active THEN "active" ELSE "inactive"]
         /\ \E d \in AfterSave(c) : Becomes(p, d)
         /\ UNCHANGED torn
      \/ Becomes(p, Failed(c)) /\ torn' = (torn \/ c.active) /\ UNCHANGED template
  BY DEF Store
<1> QED BY <1>6, <1>7, <1>8

LEMMA ApplyInv ==
  ASSUME NewsInv, NEW p \in Procs, NEW v \in Versions, Apply(p, v)
  PROVE  NewsInv'
<1> PICK d : d = [IdleCall EXCEPT !.pc = "activate", !.version = v] OBVIOUS
<1>1. /\ d \in CallRow /\ d.pc = "activate" /\ d.owed = {} /\ ~d.repaired
  BY KnownLabels DEF IdleCall, CallRow
<1>2. "activate" \notin Articles /\ "activate" \notin Kinds BY NoLabel, KnownLabels, NoKind
<1>3. CallOK(d) /\ Kept(d) BY <1>1, <1>2 DEF CallOK, Kept, Collecting, Storing, Templating
<1>4. Midway(d) BY <1>1 DEF Midway
<1>5. template \in [Versions -> {"absent", "active", "inactive"}] /\ torn \in BOOLEAN
  BY DEF NewsInv, NewsTypes
<1>6. template' \in [Versions -> {"absent", "active", "inactive"}]
  BY <1>5 DEF Apply, Deactivated
<1>7. InForce' = {} BY <1>5 DEF Apply, Deactivated, InForce
<1>8. OneForce' /\ Stands(d)' BY <1>1, <1>7 DEF OneForce, Stands
<1>9. Becomes(p, d) /\ Cross(p) /\ news' = news /\ verdict' = verdict /\ torn' = torn
  BY DEF Apply
<1> QED BY <1>3, <1>4, <1>5, <1>6, <1>8, <1>9, TemplateStep

LEMMA ActivateInv ==
  ASSUME NewsInv, NEW p \in Procs, Activate(p)
  PROVE  NewsInv'
<1> PICK c : c = proc[p] OBVIOUS
<1>1. /\ c.pc = "activate" /\ c \in CallRow /\ c.version \in Versions /\ Midway(c)
      /\ \A a \in c.owed : news[a] # NoItem
  <2>1. proc[p].pc = "activate" BY DEF Activate, At
  <2>2. proc[p].pc \in Labels \ {"persist"} BY <2>1, KnownLabels
  <2> QED BY <2>1, <2>2, AtLabel DEF Midway, CallRow
<1>2. Away(Over(c, "done")) BY <1>1, OverAway
<1>3. Becomes(p, Over(c, "done")) /\ Cross(p) /\ news' = news /\ verdict' = verdict
  BY DEF Activate
<1>4. template \in [Versions -> {"absent", "active", "inactive"}] /\ torn \in BOOLEAN /\ crossed \in BOOLEAN
  BY DEF NewsInv, NewsTypes
<1>5. ~crossed /\ ~torn => InForce \subseteq {c.version}
  BY <1>1 DEF NewsInv, TemplateForce, Stands
<1>6. CASE template' = [template EXCEPT ![c.version] = "active"] /\ UNCHANGED torn
  <2>1. template' \in [Versions -> {"absent", "active", "inactive"}] BY <1>1, <1>4, <1>6
  <2>2. ASSUME ~crossed', ~torn' PROVE InForce' = {c.version}
    <3>1. ~crossed /\ ~torn BY <1>3, <1>4, <1>6, <2>2 DEF Cross
    <3>2. c.version \in InForce' BY <1>1, <1>4, <1>6 DEF InForce
    <3>3. ASSUME NEW v \in InForce' PROVE v = c.version
      <4>1. v \in Versions /\ template'[v] = "active" BY DEF InForce
      <4>2. v # c.version => template[v] = "active" BY <1>1, <1>4, <1>6, <4>1
      <4> QED BY <1>5, <3>1, <4>1, <4>2 DEF InForce
    <3> QED BY <3>2, <3>3
  <2>3. ASSUME ~crossed', ~torn' PROVE OneForce' /\ Stands(Over(c, "done"))' /\ InForce' # {}
    <3>1. OneForce' /\ InForce' # {} BY <2>2, <2>3 DEF OneForce
    <3>2. Over(c, "done").pc = "done" BY DEF Over, IdleCall
    <3>3. Stands(Over(c, "done"))' BY <3>2 DEF Stands, Midway, Over, IdleCall
    <3> QED BY <3>1, <3>3
  <2> QED BY <1>2, <1>3, <1>4, <1>6, <2>1, <2>3, TemplateStep DEF Away
<1>7. CASE torn' = TRUE /\ UNCHANGED template
  <2>1. Stands(Over(c, "done")) /\ ~Midway(Over(c, "done")) BY <1>2, AwayStands
  <2>2. crossed' \in BOOLEAN BY <1>3, <1>4 DEF Cross
  <2> QED BY <1>2, <1>3, <1>7, <2>1, <2>2, NewsQuietStep DEF Away
<1> QED BY <1>6, <1>7 DEF Activate

\* A row that is written stays written, so that no other call loses one.
LEMMA PersistInv ==
  ASSUME NewsInv, NEW p \in Procs, Persist(p)
  PROVE  /\ NewsInv' /\ verdict' = verdict
         /\ \A b \in Articles : news[b] # NoItem => news'[b].owner = news[b].owner
<1> PICK c : c = proc[p] OBVIOUS
<1> PICK a : a = (CHOOSE x \in c.items : TRUE) OBVIOUS
<1>1. c.pc = "persist" /\ c \in CallRow /\ CallOK(c) /\ Kept(c) BY AtLabel DEF Persist, At
<1>2. /\ c.kind \in Kinds /\ c.user \in Readers /\ ~c.repaired /\ c.items # {} /\ ~Midway(c)
      /\ Storing(c)
  BY <1>1 DEF CallOK, Collecting, Storing, Midway
<1>3. a \in c.items BY <1>2
<1>4. c.items \in SUBSET Articles /\ c.owed \in SUBSET Articles /\ a \in Articles
  BY <1>1, <1>3 DEF CallRow
<1>5. a \notin Invented BY <1>4, NewsBounds
<1>6. UNCHANGED <<template, verdict, crossed, torn>> BY DEF Persist
<1>7. \A b \in c.owed : news[b] # NoItem \/ b \in c.items BY <1>1 DEF Kept
<1>8. ASSUME NEW d, Away(d), Becomes(p, d), UNCHANGED news
      PROVE  NewsInv'
  BY <1>2, <1>6, <1>8, AwayStep
<1>9. ASSUME ~Accepts(news[a], c.user), Becomes(p, Left(c, c.items \ {a})), UNCHANGED news
      PROVE  NewsInv'
  <2>1. news[a] # NoItem BY <1>9 DEF Accepts
  <2>2. \A b \in c.owed : news[b] # NoItem \/ b \in c.items \ {a} BY <1>7, <2>1
  <2>3. c.items \ {a} \in SUBSET Articles BY <1>4
  <2>4. Away(Left(c, c.items \ {a})) BY <1>1, <1>2, <2>2, <2>3, LeftAway
  <2> QED BY <1>8, <1>9, <2>4
<1>10. ASSUME Becomes(p, Skip(c, a)), UNCHANGED news PROVE NewsInv'
  <2> PICK e : e = [c EXCEPT !.owed = @ \ {a}] OBVIOUS
  <2>1. /\ e \in CallRow /\ e.kind = c.kind /\ e.user = c.user /\ e.repaired = c.repaired
        /\ e.owed = c.owed \ {a}
    BY <1>1, <1>4 DEF CallRow
  <2>2. \A b \in e.owed : news[b] # NoItem \/ b \in c.items \ {a} BY <1>7, <2>1
  <2>3. c.items \ {a} \in SUBSET Articles BY <1>4
  <2>4. Away(Left(e, c.items \ {a})) BY <1>2, <2>1, <2>2, <2>3, LeftAway
  <2>5. Skip(c, a) = Left(e, c.items \ {a}) BY DEF Skip
  <2> QED BY <1>8, <1>10, <2>4, <2>5
<1>11. ASSUME Accepts(news[a], c.user), Becomes(p, [c EXCEPT !.pc = a]),
              news' = [news EXCEPT ![a] = [owner |-> c.user, text |-> c.kind]]
       PROVE  NewsInv' /\ \A b \in Articles : news[b] # NoItem => news'[b].owner = news[b].owner
  <2> PICK d : d = [c EXCEPT !.pc = a] OBVIOUS
  <2> PICK row : row = [owner |-> c.user, text |-> c.kind] OBVIOUS
  <2>1. row \in Item /\ row.owner = c.user /\ row # NoItem
    <3>1. row \in Item /\ row.owner = c.user /\ row.text = c.kind BY <1>2 DEF Item
    <3>2. NoItem.text = "none" BY DEF NoItem
    <3> QED BY <1>2, <3>1, <3>2, NoKind
  <2>2. news \in [Articles \cup Invented -> Item \cup {NoItem}] BY DEF NewsInv, NewsTypes
  <2>3. news' = [news EXCEPT ![a] = row] BY <1>11
  <2>4. /\ news' \in [Articles \cup Invented -> Item \cup {NoItem}] /\ news'[a] = row
        /\ \A b \in (Articles \cup Invented) \ {a} : news'[b] = news[b]
    BY <1>4, <2>1, <2>2, <2>3
  <2>5. /\ d \in CallRow /\ d.pc = a /\ d.owed = c.owed /\ d.items = c.items /\ d.kind = c.kind
        /\ d.user = c.user /\ d.repaired = c.repaired
    BY <1>1, <1>4 DEF CallRow
  <2>6. a \notin Labels BY <1>4, NoLabel
  <2>7. a \notin {"next", "persist", "lookup", "generate", "repair", "deactivate", "store", "activate"}
    BY <2>6, KnownLabels
  <2>8. Becomes(p, d) BY <1>11
  <2>9. proc \in [Procs -> CallRow] BY DEF NewsInv, Calls
  <2>10. /\ proc' \in [Procs -> CallRow] /\ proc'[p] = d
         /\ \A q \in Procs \ {p} : proc'[q] = proc[q]
    BY <2>5, <2>8, <2>9 DEF Becomes
  <2>11. NewsTypes' BY <1>6, <2>4 DEF NewsInv, NewsTypes
  <2>12. \A b \in Articles \cup Invented : news[b] # NoItem => news'[b] # NoItem
    BY <2>1, <2>4
  <2>13. StoredRows'
    <3>1. \A b \in Invented : news'[b] = news[b] BY <1>5, <2>4
    <3> QED BY <1>6, <2>12, <3>1 DEF NewsInv, StoredRows
  <2>14. Calls'
    <3>1. CallOK(d) BY <1>2, <2>5, <2>7 DEF CallOK
    <3>2. Storing(d) BY <1>4, <2>5 DEF Storing
    <3>3. Kept(d)'
      <4>1. d.pc \in d.items /\ news'[d.pc] # NoItem BY <1>3, <2>1, <2>4, <2>5
      <4>2. \A b \in d.owed : news'[b] # NoItem \/ b \in d.items BY <1>4, <1>7, <2>5, <2>12
      <4> QED BY <3>2, <4>1, <4>2 DEF Kept, Storing
    <3>4. ASSUME NEW q \in Procs PROVE (CallOK(proc[q]) /\ Kept(proc[q]))'
      <4>1. CASE q = p BY <2>10, <3>1, <3>3, <4>1 DEF CallOK, Kept, Storing, Collecting, Templating
      <4>2. CASE q # p
        <5>1. proc'[q] = proc[q] /\ proc[q] \in CallRow BY <2>9, <2>10, <4>2
        <5>2. CallOK(proc[q]) /\ Kept(proc[q]) BY DEF NewsInv, Calls
        <5>3. CallOK(proc[q])' BY <5>1, <5>2 DEF CallOK, Collecting, Storing, Templating
        <5>4. proc[q].owed \subseteq Articles BY <5>1 DEF CallRow
        <5>5. Kept(proc[q])' BY <2>12, <5>1, <5>2, <5>4 DEF Kept, Storing
        <5> QED BY <5>3, <5>5
      <4> QED BY <4>1, <4>2
    <3> QED BY <2>10, <3>4 DEF Calls
  <2>15. TemplateForce'
    <3> SUFFICES ASSUME ~crossed', ~torn'
                 PROVE  /\ (\A q, r \in Procs : Midway(proc[q]) /\ Midway(proc[r]) => q = r)'
                        /\ OneForce' /\ (\A q \in Procs : Stands(proc[q]))' /\ SomeForce'
      BY DEF TemplateForce
    <3>0. TemplateForce /\ ~crossed /\ ~torn /\ InForce' = InForce BY <1>6 DEF NewsInv, InForce
    <3>2. ASSUME NEW q \in Procs PROVE (Midway(proc[q])' <=> Midway(proc[q])) /\ Stands(proc[q])'
      <4>1. CASE q = p BY <1>2, <2>5, <2>7, <2>10, <4>1 DEF Midway, Stands
      <4>2. CASE q # p
        <5>1. proc'[q] = proc[q] BY <2>10, <4>2
        <5>2. Stands(proc[q]) BY <3>0 DEF TemplateForce
        <5> QED BY <3>0, <5>1, <5>2 DEF Midway, Stands
      <4> QED BY <4>1, <4>2
    <3>3. OneForce' BY <3>0 DEF OneForce, TemplateForce
    <3>4. SomeForce' BY <1>6, <3>0, <3>2 DEF SomeForce, TemplateForce
    <3>5. (\A q, r \in Procs : Midway(proc[q]) /\ Midway(proc[r]) => q = r)'
      BY <3>0, <3>2 DEF TemplateForce
    <3> QED BY <3>2, <3>3, <3>4, <3>5
  <2>16. ASSUME NEW b \in Articles, news[b] # NoItem PROVE news'[b].owner = news[b].owner
    <3>1. CASE b = a BY <1>11, <2>1, <2>4, <2>16, <3>1 DEF Accepts
    <3>2. CASE b # a BY <2>4, <3>2
    <3> QED BY <3>1, <3>2
  <2> QED BY <2>11, <2>13, <2>14, <2>15, <2>16 DEF NewsInv
<1>12. NewsInv' /\ \A b \in Articles : news[b] # NoItem => news'[b].owner = news[b].owner
  BY <1>9, <1>10, <1>11 DEF Persist
<1> QED BY <1>6, <1>12

\* An article is judged after it is stored, and only for the first time.
LEMMA AnalyzeInv ==
  ASSUME NewsInv, NEW p \in Procs, AnalyzeItem(p)
  PROVE  /\ NewsInv' /\ news' = news
         /\ \A b \in Articles : /\ verdict'[b] # {} => news[b] # NoItem
                               /\ verdict[b] \subseteq verdict'[b]
<1> PICK c : c = proc[p] OBVIOUS
<1>1. PICK a \in c.items :
        /\ c.pc = a
        /\ verdict' = [verdict EXCEPT ![a] = Judged(@, c.kind)] \/ UNCHANGED verdict
        /\ Becomes(p, Left(c, c.items \ {a}))
        /\ UNCHANGED <<template, news, crossed, torn>>
  BY DEF AnalyzeItem, At
<1>2. c \in CallRow /\ CallOK(c) /\ Kept(c) BY AtLabel
<1>3. c.items \in SUBSET Articles /\ a \in Articles BY <1>1, <1>2 DEF CallRow
<1>4. a \notin Labels BY <1>3, NoLabel
<1>5. a \notin {"next", "persist", "lookup", "generate", "repair", "deactivate", "store",
                "activate", "scrape"}
  BY <1>4, KnownLabels
<1>6. /\ c.kind \in Kinds /\ c.user \in Readers /\ ~c.repaired /\ ~Midway(c) /\ Storing(c)
      /\ news[a] # NoItem
  BY <1>1, <1>2, <1>3, <1>5 DEF CallOK, Collecting, Storing, Midway, Kept
<1>7. Away(Left(c, c.items \ {a}))
  <2>1. \A b \in c.owed : news[b] # NoItem \/ b \in c.items BY <1>2 DEF Kept
  <2>2. \A b \in c.owed : news[b] # NoItem \/ b \in c.items \ {a} BY <1>6, <2>1
  <2>3. c.items \ {a} \in SUBSET Articles BY <1>3
  <2> QED BY <1>2, <1>6, <2>2, <2>3, LeftAway
<1>8. verdict \in [Articles \cup Invented -> SUBSET Kinds] BY DEF NewsInv, NewsTypes
<1>9. /\ verdict' \in [Articles \cup Invented -> SUBSET Kinds]
      /\ \A b \in Articles \cup Invented : b # a => verdict'[b] = verdict[b]
      /\ verdict'[a] = verdict[a] \/ verdict'[a] = Judged(verdict[a], c.kind)
  <2>1. Judged(verdict[a], c.kind) \in SUBSET Kinds BY <1>3, <1>6, <1>8 DEF Judged
  <2> QED BY <1>1, <1>3, <1>8, <2>1
<1>10. StoredRows'
  <2>1. ASSUME NEW b \in Articles \cup Invented
        PROVE  /\ verdict'[b] # {} => news[b] # NoItem
               /\ \A s, t \in verdict'[b] : s = t
    <3>1. /\ verdict[b] # {} => news[b] # NoItem
          /\ \A s, t \in verdict[b] : s = t
      BY DEF NewsInv, StoredRows
    <3>2. CASE b = a BY <1>6, <1>9, <3>1, <3>2 DEF Judged
    <3>3. CASE b # a BY <1>9, <3>1, <3>3
    <3> QED BY <3>2, <3>3
  <2> QED BY <1>1, <2>1 DEF NewsInv, StoredRows
<1>11. NewsInv'
  <2>1. /\ CallOK(Left(c, c.items \ {a})) /\ Kept(Left(c, c.items \ {a}))
        /\ Stands(Left(c, c.items \ {a})) /\ ~Midway(Left(c, c.items \ {a}))
    BY <1>7, AwayStands DEF Away
  <2>2. crossed' \in BOOLEAN /\ torn' \in BOOLEAN BY <1>1 DEF NewsInv, NewsTypes
  <2> QED BY <1>1, <1>6, <1>9, <1>10, <2>1, <2>2, JudgedStep
<1>12. ASSUME NEW b \in Articles
       PROVE  (verdict'[b] # {} => news[b] # NoItem) /\ verdict[b] \subseteq verdict'[b]
  <2>1. verdict'[b] # {} => news[b] # NoItem BY <1>1, <1>10 DEF StoredRows
  <2>2. verdict[b] \subseteq verdict'[b] BY <1>9 DEF Judged
  <2> QED BY <2>1, <2>2
<1> QED BY <1>1, <1>11, <1>12

-----------------------------------------------------------------------------
(* The invariant and what follows                                          *)

\* What a step does to the stored articles and their verdicts.
TablesStand ==
  \A a \in Articles :
    /\ verdict'[a] # {} => news[a] # NoItem
    /\ news[a] # NoItem => news'[a].owner = news[a].owner
    /\ verdict[a] \subseteq verdict'[a]

LEMMA NewsStep ==
  ASSUME NewsInv, [NewsNext]_newsVars
  PROVE  NewsInv' /\ TablesStand
<1>0. \A a \in Articles : verdict[a] # {} => news[a] # NoItem BY DEF NewsInv, StoredRows
<1>1. news' = news /\ verdict' = verdict => TablesStand BY <1>0 DEF TablesStand
<1>2. CASE UNCHANGED newsVars
  <2>1. NewsInv'
    <3>1. UNCHANGED <<template, news, verdict, proc, crossed, torn>> BY <1>2 DEF newsVars
    <3>2. (\A p \in Procs : CallOK(proc[p]) /\ Kept(proc[p]))'
      BY <3>1 DEF NewsInv, Calls, CallOK, Kept, Collecting, Storing, Templating
    <3>3. NewsTypes' /\ StoredRows' /\ Calls'
      BY <3>1, <3>2 DEF NewsInv, NewsTypes, StoredRows, Calls
    <3>4. InForce' = InForce BY <3>1 DEF InForce
    <3>5. TemplateForce' BY <3>1, <3>4 DEF NewsInv, TemplateForce, OneForce, SomeForce, Stands, Midway
    <3> QED BY <3>3, <3>5 DEF NewsInv
  <2>2. news' = news /\ verdict' = verdict BY <1>2 DEF newsVars
  <2> QED BY <1>1, <2>1, <2>2
<1>3. ASSUME NEW p \in Procs, Call(p) PROVE NewsInv' /\ TablesStand
  <2>1. ASSUME NEW u \in Readers, NEW S \in SourceLists, NEW b \in BOOLEAN, Collect(p, u, S, b)
        PROVE  NewsInv' /\ TablesStand
    BY <1>1, <2>1, CollectInv DEF Collect
  <2>2. ASSUME NEW v \in Versions, Apply(p, v) PROVE NewsInv' /\ TablesStand
    BY <1>1, <2>2, ApplyInv DEF Apply
  <2>3. ASSUME NEW b \in BOOLEAN, Heal(p, b) PROVE NewsInv' /\ TablesStand
    BY <1>1, <2>3, HealInv DEF Heal
  <2> QED BY <1>3, <2>1, <2>2, <2>3 DEF Call
<1>4. ASSUME NEW p \in Procs, Proceed(p) PROVE NewsInv' /\ TablesStand
  <2>1. CASE NextSource(p) BY <1>1, <2>1, NextSourceInv DEF NextSource
  <2>2. CASE FetchPage(p) BY <1>1, <2>2, FetchPageInv DEF FetchPage
  <2>3. CASE FetchFeed(p) BY <1>1, <2>3, FetchFeedInv DEF FetchFeed
  <2>4. CASE Upload(p) BY <1>1, <2>4, UploadInv DEF Upload
  <2>5. CASE Crawl(p) BY <1>1, <2>5, CrawlInv DEF Crawl
  <2>6. CASE Interpret(p) BY <1>1, <2>6, InterpretInv DEF Interpret
  <2>7. CASE Lookup(p) BY <1>1, <2>7, LookupInv DEF Lookup
  <2>8. CASE GenerateTemplate(p) BY <1>1, <2>8, GenerateInv DEF GenerateTemplate
  <2>9. CASE Repair(p) BY <1>1, <2>9, RepairInv DEF Repair
  <2>10. CASE DeactivateOthers(p) BY <1>1, <2>10, DeactivateInv DEF DeactivateOthers
  <2>11. CASE Store(p) BY <1>1, <2>11, StoreInv DEF Store
  <2>12. CASE Scrape(p) BY <1>1, <2>12, ScrapeInv DEF Scrape
  <2>13. CASE Persist(p) BY <1>0, <2>13, PersistInv DEF TablesStand
  <2>14. CASE AnalyzeItem(p)
    <3>1. NewsInv' /\ news' = news BY <2>14, AnalyzeInv
    <3> QED BY <2>14, <3>1, AnalyzeInv DEF TablesStand
  <2>15. CASE Activate(p) BY <1>1, <2>15, ActivateInv DEF Activate
  <2> QED BY <1>4, <2>1, <2>2, <2>3, <2>4, <2>5, <2>6, <2>7, <2>8, <2>9, <2>10, <2>11, <2>12,
             <2>13, <2>14, <2>15 DEF Proceed
<1> QED BY <1>2, <1>3, <1>4 DEF NewsNext

\* What the collection leaves behind, from the invariant.
LEMMA NewsInvImplies == NewsInv => CollectionIsSound
<1> SUFFICES ASSUME NewsInv PROVE CollectionIsSound OBVIOUS
<1>1. NewsTypeOK
  <2>1. template \in [Versions -> {"absent", "active", "inactive"}] BY DEF NewsInv, NewsTypes
  <2>2. ASSUME NEW a \in DOMAIN news
        PROVE  news[a] = NoItem \/ (news[a].owner \in Readers /\ news[a].text \in Kinds)
    <3>1. news[a] \in Item \cup {NoItem} BY DEF NewsInv, NewsTypes
    <3> QED BY <3>1 DEF Item
  <2>3. ASSUME NEW p \in Procs
        PROVE  /\ proc[p].version \in Versions /\ proc[p].hops \in 0 .. MaxRedirects
               /\ proc[p].kind \in Kinds \cup {"none"}
               /\ proc[p].items \cup proc[p].owed \subseteq Articles
    <3>1. proc[p] \in CallRow BY AtLabel
    <3> QED BY <3>1 DEF CallRow
  <2> QED BY <2>1, <2>2, <2>3 DEF NewsTypeOK
<1>2. OneVersionInForce
  <2> SUFFICES ASSUME ~crossed, ~torn, \E v \in Versions : template[v] # "absent",
                      \A p \in Procs : ~At(p, "store") /\ ~At(p, "activate")
               PROVE  Cardinality(InForce) = 1
    BY DEF OneVersionInForce
  <2>1. OneForce /\ SomeForce BY DEF NewsInv, TemplateForce
  <2>2. \A p \in Procs : ~Midway(proc[p]) BY DEF Midway, At
  <2>3. PICK v \in InForce : TRUE BY <2>1, <2>2 DEF SomeForce
  <2>4. InForce = {v} BY <2>1, <2>3 DEF OneForce
  <2> QED BY <2>4, FS_Singleton
<1>3. FoundIsKept
  <2> SUFFICES ASSUME NEW p \in Procs, At(p, "done"), NEW a \in proc[p].owed
               PROVE  news[a] # NoItem
    BY DEF FoundIsKept
  <2>1. proc[p].pc \in Labels \ {"persist"} BY KnownLabels DEF At
  <2> QED BY <2>1, AtLabel
<1>4. NothingInvented BY DEF NewsInv, StoredRows, NothingInvented
<1> QED BY <1>1, <1>2, <1>3, <1>4 DEF CollectionIsSound

\* For any number of calls, articles and template versions: whatever fails, a
\* domain keeps one template in force unless two template operations crossed
\* or one stopped half way, a call that ends has stored what it found, and
\* nothing is stored that only a model made up (collect, save,
\* setActiveVersion, persistAndAnalyze).
THEOREM CollectionStaysSound == NewsSpec => []CollectionIsSound
<1>1. NewsInit => NewsInv BY NewsStarts
<1>2. NewsInv /\ [NewsNext]_newsVars => NewsInv' BY NewsStep
<1>3. NewsInv => CollectionIsSound BY NewsInvImplies
<1> QED BY <1>1, <1>2, <1>3, PTL DEF NewsSpec

\* However calls that store the same article overlap: it is judged only once
\* it is stored, and its owner and its first verdict stand (the upsert of
\* news_items and the insert of sentiment_results).
THEOREM OwnersAndVerdictsStand == NewsSpec => OwnerAndVerdictStand
<1>1. NewsInit => NewsInv BY NewsStarts
<1>2. NewsInv /\ [NewsNext]_newsVars => NewsInv' BY NewsStep
<1>3. ASSUME NewsInv, [NewsNext]_newsVars
      PROVE  [\A a \in Articles :
               /\ verdict'[a] # {} => news[a] # NoItem
               /\ news[a] # NoItem => news'[a].owner = news[a].owner
               /\ verdict[a] \subseteq verdict'[a] /\ Cardinality(verdict'[a]) <= 1]_newsVars
  <2>1. NewsInv' /\ TablesStand BY <1>3, NewsStep
  <2>2. ASSUME NEW a \in Articles PROVE Cardinality(verdict'[a]) <= 1
    <3>1. \A s, t \in verdict'[a] : s = t BY <2>1 DEF NewsInv, StoredRows
    <3>2. CASE verdict'[a] = {} BY <3>2, FS_EmptySet
    <3>3. CASE verdict'[a] # {}
      <4>1. PICK s \in verdict'[a] : TRUE BY <3>3
      <4>2. verdict'[a] = {s} BY <3>1, <4>1
      <4>3. Cardinality(verdict'[a]) = 1 BY <4>2, FS_Singleton
      <4> QED BY <4>3
    <3> QED BY <3>2, <3>3
  <2> QED BY <2>1, <2>2 DEF TablesStand
<1> QED BY <1>1, <1>2, <1>3, PTL DEF NewsSpec, OwnerAndVerdictStand
=============================================================================
