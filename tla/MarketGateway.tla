----------------------------- MODULE MarketGateway -----------------------------
(***************************************************************************)
(* The charts of one browser page and the gateway that serves them: the    *)
(* websocket the charts share, the commands it carries, and the handlers   *)
(* that exchange a socket's one Market Data subscriber for another.        *)
(*                                                                         *)
(* The chain stands for the reconciliations of Market Data (MarketStream), *)
(* which every subscribe and unsubscribe awaits in the order of the calls. *)
(* A server socket is one connection of the page: a reconnection is a new  *)
(* one, and the server notices the loss of the old one when it may.        *)
(***************************************************************************)
EXTENDS Naturals, FiniteSets, Sequences

CONSTANTS
  Charts,       \* the charts of the page
  Key,          \* the stream (pair and timeframe) each of them shows
  Unsupported,  \* the streams no provider serves
  MaxSockets,   \* bound: connections of the page
  MaxChanges    \* bound: charts that open or close

Sockets == 1 .. MaxSockets
Keys == {Key[c] : c \in Charts}
KeysOf(cs) == {Key[c] : c \in cs}

ASSUME UnsupportedAreKeys == Unsupported \subseteq Keys
ASSUME GatewayBoundsAreNatural == MaxSockets \in Nat /\ MaxChanges \in Nat

VARIABLES
  mounted,      \* subscribers of the shared socket: the charts on the page
  page,         \* sharedMarket, and how its socket stands
  wire,         \* commands on their way to each server socket
  server,       \* client.data of each server socket
  tasks,        \* handlers that await Market Data
  subscribers,  \* the subscribers of Market Data, named by the task that made them
  chain,        \* the tasks whose reconciliation is queued, in order
  tally         \* counts, and the sockets where handlers overlapped or a
                \* subscription was rejected

gatewayVars == <<mounted, page, wire, server, tasks, subscribers, chain, tally>>

Command == [action : {"SUBSCRIBE", "UNSUBSCRIBE"}, keys : (SUBSET Keys) \ {{}}]
Close == [action |-> "close", keys |-> {}]
Links == {"none", "connecting", "up", "lost", "over"}
Tasks == [id : Nat, sock : Sockets, next : SUBSET Keys, step : {"leaving", "joining", "closing"}]

NoPage == [link |-> "none", sock |-> 0, keys |-> {}, buffered |-> <<>>]

Init ==
  /\ mounted = {}
  /\ page = NoPage
  /\ wire = [s \in Sockets |-> <<>>]
  /\ server = [s \in Sockets |-> [open |-> FALSE, list |-> {}, unsub |-> 0]]
  /\ tasks = {} /\ subscribers = {} /\ chain = <<>>
  /\ tally = [changes |-> 0, sockets |-> 0, overlapped |-> {}, rejected |-> {}]

-----------------------------------------------------------------------------
(* The page                                                                *)

Send(q, action, keys) ==
  IF keys = {} THEN q ELSE Append(q, [action |-> action, keys |-> keys])

Changed == tally.changes < MaxChanges /\ tally' = [tally EXCEPT !.changes = @ + 1]

serverVars == <<server, tasks, subscribers, chain>>

\* marketSocket: the first chart opens the socket; a later one asks for its
\* stream if the page does not have it and the socket is connected.
Mount(c) ==
  /\ c \notin mounted /\ Changed
  /\ page.link = "none" => tally.sockets < MaxSockets
  /\ mounted' = mounted \cup {c}
  /\ page' = [page EXCEPT !.link = IF @ = "none" THEN "connecting" ELSE @,
                          !.keys = KeysOf(mounted')]
  /\ wire' = IF page.link = "up"
             THEN [wire EXCEPT ![page.sock] = Send(@, "SUBSCRIBE", page'.keys \ page.keys)]
             ELSE wire
  /\ UNCHANGED serverVars

\* The function marketSocket returns.  A socket that is not connected keeps
\* the command for its next connection; the last chart closes the socket.
BugGivenBack(left) == {Key[c] : c \in mounted \ left}
GivenBack(left) == page.keys \ KeysOf(left)
Unmount(c) ==
  /\ c \in mounted /\ Changed
  /\ mounted' = mounted \ {c}
  /\ LET left == Send(<<>>, "UNSUBSCRIBE", GivenBack(mounted'))
     IN /\ page' = IF mounted' = {} THEN NoPage
                   ELSE [page EXCEPT !.keys = KeysOf(mounted'),
                                     !.buffered = IF page.link = "up" THEN @ ELSE @ \o left]
        /\ wire' = IF page.link # "up" THEN wire
                   ELSE [wire EXCEPT ![page.sock] =
                           @ \o left \o IF mounted' = {} THEN <<Close>> ELSE <<>>]
  /\ UNCHANGED serverVars

\* disconnectMarketSocket, when the session ends.
Logout ==
  /\ mounted # {} /\ Changed
  /\ mounted' = {} /\ page' = NoPage
  /\ wire' = IF page.link = "up" THEN [wire EXCEPT ![page.sock] = Append(@, Close)] ELSE wire
  /\ UNCHANGED serverVars

\* The socket connects: what it kept is sent before the handler of "connect"
\* subscribes to what the charts show now.
Resubscribed == Send(page.buffered, "SUBSCRIBE", KeysOf(mounted))
Connect ==
  /\ page.link \in {"connecting", "lost"}
  /\ LET s == tally.sockets + 1
     IN /\ tally' = [tally EXCEPT !.sockets = s]
        /\ page' = [page EXCEPT !.link = "up", !.sock = s, !.keys = KeysOf(mounted), !.buffered = <<>>]
        /\ wire' = [wire EXCEPT ![s] = Resubscribed]
        /\ server' = [server EXCEPT ![s].open = TRUE]
  /\ UNCHANGED <<mounted, tasks, subscribers, chain>>

\* The connection breaks: some of what is on its way is lost with it.
Lose ==
  /\ page.link = "up" /\ tally.sockets < MaxSockets
  /\ page' = [page EXCEPT !.link = "lost"]
  /\ \E n \in 0 .. Len(wire[page.sock]) :
       wire' = [wire EXCEPT ![page.sock] = Append(SubSeq(@, 1, n), Close)]
  /\ UNCHANGED <<mounted, server, tasks, subscribers, chain, tally>>

\* reconnect_failed: the charts show ERROR and nothing connects any more.
GiveUp ==
  /\ page.link \in {"connecting", "lost"}
  /\ page' = [page EXCEPT !.link = "over"]
  /\ UNCHANGED <<mounted, wire, server, tasks, subscribers, chain, tally>>

-----------------------------------------------------------------------------
(* The gateway                                                             *)

TasksOf(s) == {t \in tasks : t.sock = s}
SubscribersOf(s) == {u \in subscribers : u.sock = s}
Live(id) == \E u \in subscribers : u.id = id
\* A name for the next handler that nothing refers to.
InUse == {x.id : x \in tasks \cup subscribers} \cup {server[s].unsub : s \in Sockets}
NewId == CHOOSE id \in 1 .. (Cardinality(InUse) + 1) : id \notin InUse
Without(id) == {u \in subscribers : u.id # id}

\* A command is read while another handler of its socket waits, with the list
\* that one has not yet written, and one of them subscribes.
Overlaps(s, next) ==
  IF \E t \in TasksOf(s) : next # {} \/ t.next # {}
  THEN tally.overlapped \cup {s} ELSE tally.overlapped

\* A handler t from the point where the old subscriber is given back: it
\* subscribes to its list, is refused, or has nothing to subscribe to.
RejectedList(t) == {}
Resume(t, others, queue, old, overlapped) ==
  LET joins == t.next # {} /\ t.next \cap Unsupported = {}
  IN /\ subscribers' = IF joins THEN old \cup {[id |-> t.id, sock |-> t.sock, keys |-> t.next]} ELSE old
     /\ chain' = IF joins THEN Append(queue, t.id) ELSE queue
     /\ tasks' = IF joins THEN others \cup {[t EXCEPT !.step = "joining"]} ELSE others
     /\ server' = [server EXCEPT ![t.sock].unsub = 0,
                                 ![t.sock].list = IF joins THEN @
                                                  ELSE IF t.next = {} THEN {} ELSE RejectedList(t)]
     /\ tally' = [tally EXCEPT !.overlapped = overlapped,
                    !.rejected = IF t.next \cap Unsupported # {} THEN @ \cup {t.sock} ELSE @]

\* A handler gives back the socket's subscriber, if it has one that nobody
\* gave back before, and waits for the reconciliation.
GiveBack(t) ==
  LET old == server[t.sock].unsub
      overlapped == Overlaps(t.sock, t.next)
  IN IF Live(old)
     THEN /\ subscribers' = Without(old)
          /\ chain' = Append(chain, t.id)
          /\ tasks' = tasks \cup {t}
          /\ tally' = [tally EXCEPT !.overlapped = overlapped]
          /\ UNCHANGED server
     ELSE Resume(t, tasks, chain, subscribers, overlapped)

ListAfter(s, m) ==
  IF m.action = "SUBSCRIBE" THEN server[s].list \cup m.keys ELSE server[s].list \ m.keys

\* The handler of "market".  A SUBSCRIBE to what the list already has is only
\* acknowledged.
Receive(s) ==
  /\ wire[s] # <<>> /\ Head(wire[s]) # Close
  /\ wire' = [wire EXCEPT ![s] = Tail(@)]
  /\ LET m == Head(wire[s])
         next == ListAfter(s, m)
     IN IF next # server[s].list \/ m.action = "UNSUBSCRIBE"
        THEN GiveBack([id |-> NewId, sock |-> s, next |-> next, step |-> "leaving"])
        ELSE UNCHANGED serverVars /\ tally' = [tally EXCEPT !.overlapped = Overlaps(s, next)]
  /\ UNCHANGED <<mounted, page>>

\* handleDisconnect.
BugClosed(s) == FALSE
Closed(s) == Live(server[s].unsub)
Disconnect(s) ==
  /\ wire[s] # <<>> /\ Head(wire[s]) = Close
  /\ wire' = [wire EXCEPT ![s] = <<>>]
  /\ tally' = [tally EXCEPT !.overlapped = Overlaps(s, {})]
  /\ IF Closed(s)
     THEN /\ subscribers' = Without(server[s].unsub)
          /\ chain' = Append(chain, NewId)
          /\ tasks' = tasks \cup {[id |-> NewId, sock |-> s, next |-> {}, step |-> "closing"]}
          /\ server' = [server EXCEPT ![s].open = FALSE]
     ELSE /\ server' = [server EXCEPT ![s] = [open |-> FALSE, list |-> {}, unsub |-> 0]]
          /\ UNCHANGED <<subscribers, chain, tasks>>
  /\ UNCHANGED <<mounted, page>>

\* The reconciliation at the head of the chain ends and its handler goes on.
JoinedList(t) == t.next
Reconciled ==
  /\ chain # <<>>
  /\ \E t \in tasks :
       /\ t.id = Head(chain)
       /\ CASE t.step = "leaving" -> Resume(t, tasks \ {t}, Tail(chain), subscribers, tally.overlapped)
            [] t.step = "joining" ->
                 /\ server' = [server EXCEPT ![t.sock].unsub = t.id, ![t.sock].list = JoinedList(t)]
                 /\ tasks' = tasks \ {t} /\ chain' = Tail(chain)
                 /\ UNCHANGED <<subscribers, tally>>
            [] t.step = "closing" ->
                 /\ server' = [server EXCEPT ![t.sock].unsub = 0, ![t.sock].list = {}]
                 /\ tasks' = tasks \ {t} /\ chain' = Tail(chain)
                 /\ UNCHANGED <<subscribers, tally>>
  /\ UNCHANGED <<mounted, page, wire>>

Next ==
  \/ \E c \in Charts : Mount(c) \/ Unmount(c)
  \/ Logout \/ Connect \/ Lose \/ GiveUp
  \/ \E s \in Sockets : Receive(s) \/ Disconnect(s)
  \/ Reconciled

\* Messages are delivered, reconciliations end, and a page that keeps trying
\* to connect connects or gives up.
Fairness ==
  /\ WF_gatewayVars(Connect) /\ WF_gatewayVars(Reconciled)
  /\ \A s \in Sockets : WF_gatewayVars(Receive(s) \/ Disconnect(s))
Spec == Init /\ [][Next]_gatewayVars
FairSpec == Spec /\ Fairness
=============================================================================
