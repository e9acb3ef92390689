--------------------------- MODULE GatewayProperties ---------------------------
(***************************************************************************)
(* What the market gateway promises to the charts and to Market Data.      *)
(***************************************************************************)
EXTENDS MarketGateway

\* The state has its types: every subscriber and every queued reconciliation
\* belongs to a handler that ran.
TypeOK ==
  /\ mounted \subseteq Charts
  /\ page \in [link : Links, sock : 0 .. MaxSockets, keys : SUBSET Keys, buffered : Seq(Command)]
  /\ wire \in [Sockets -> Seq(Command \cup {Close})]
  /\ server \in [Sockets -> [open : BOOLEAN, list : SUBSET Keys, unsub : Nat]]
  /\ tasks \subseteq Tasks
  /\ subscribers \subseteq [id : Nat, sock : Sockets, keys : SUBSET Keys]
  /\ chain \in Seq(Nat)
  /\ tally \in [changes : 0 .. MaxChanges, sockets : 0 .. MaxSockets,
                overlapped : SUBSET Sockets, rejected : SUBSET Sockets]

\* The subscriber that a handler is subscribing, or that the socket holds.
Owned(u) ==
  \/ \E t \in TasksOf(u.sock) : t.step = "joining" /\ t.id = u.id
  \/ server[u.sock].unsub = u.id

\* Unless two handlers of a socket overlapped, one of them subscribing, no
\* subscriber is left behind that nothing can give back (command,
\* handleDisconnect).
NoStrandedSubscriber ==
  \A u \in subscribers : u.sock \in tally.overlapped \/ Owned(u)

\* Between handlers, the list a socket keeps is what its one subscriber
\* receives, after rejections and disconnections too.
ListMatchesSubscriber ==
  \A s \in Sockets :
    (TasksOf(s) = {} /\ s \notin tally.overlapped)
      => server[s].list = UNION {u.keys : u \in SubscribersOf(s)}

Settled(s) == wire[s] = <<>> /\ TasksOf(s) = {}
Spoilt(s) == s \in tally.overlapped \cup tally.rejected

\* Once nothing is on its way the server sends what the charts of the page
\* show: the incremental commands, those kept while the socket was down and
\* the ones of a reconnection add up to it.
SettledServesCharts ==
  (page.link = "up" /\ Settled(page.sock) /\ ~Spoilt(page.sock))
    => server[page.sock].list = KeysOf(mounted)

ServesPage ==
  page.link = "up" /\ KeysOf(mounted) = UNION {u.keys : u \in SubscribersOf(page.sock)}

\* An open page comes to a point where every chart on it receives its stream
\* and nothing else does, unless it stops connecting or the handlers of its
\* socket overlapped or were rejected.
PageIsServed ==
  (mounted # {}) ~> \/ mounted = {} \/ ServesPage \/ page.link = "over"
                    \/ (page.link = "up" /\ Spoilt(page.sock))

\* A socket the page has left gives its stream back, unless its handlers
\* overlapped: "Hidden/unmounted views must release timers and
\* subscriptions" (openspec/specs/frontend-spec.md).
LeftSocketIsReleased ==
  \A s \in Sockets :
    (server[s].open /\ page.sock # s) ~> (SubscribersOf(s) = {} \/ s \in tally.overlapped)

\* Through lost and replaced connections, commands that interleave and sets
\* that are rejected, the subscribers in Market Data are those the sockets own
\* and serve what the page shows (command, handleDisconnect, marketSocket).
SubscribersServeCharts ==
  TypeOK /\ NoStrandedSubscriber /\ ListMatchesSubscriber /\ SettledServesCharts

\* In the end the sockets of a page serve it, and those it has left nothing.
SocketsSettle == PageIsServed /\ LeftSocketIsReleased
=============================================================================
