---------------------------- MODULE Gateway_proofs ----------------------------
(***************************************************************************)
(* The subscribers in Market Data serve the charts of the page, for any    *)
(* charts, streams, connections and changes (SubscribersServeCharts).      *)
(***************************************************************************)
EXTENDS GatewayProperties, FiniteSetTheorems, TLAPS

(* The page and its socket: what it asks for is what its charts show, a    *)
(* socket that is not connected has kept nothing but UNSUBSCRIBEs, and the *)
(* connected one is not being closed.                                      *)
PageInv ==
  /\ page.keys = KeysOf(mounted)
  /\ page.link = "none" <=> mounted = {}
  /\ page.link \in {"connecting", "lost"} => tally.sockets < MaxSockets
  /\ page.link = "up" => /\ page.sock \in 1 .. tally.sockets /\ page.buffered = <<>>
                         /\ wire[page.sock] \in Seq(Command)
  /\ \A i \in 1 .. Len(page.buffered) : page.buffered[i].action = "UNSUBSCRIBE"

(* A connection that is still to come has left no trace.                   *)
FreshInv == \A s \in Sockets : s > tally.sockets =>
  /\ wire[s] = <<>> /\ server[s].list = {} /\ server[s].unsub = 0
  /\ TasksOf(s) = {} /\ SubscribersOf(s) = {}

(* Handlers, subscribers and unsubscribe functions have names of their     *)
(* own: a subscriber has the name of the handler that subscribes it, and   *)
(* afterwards that of the function with which its socket gives it back.    *)
IdInv ==
  /\ IsFiniteSet(tasks) /\ IsFiniteSet(subscribers)
  /\ \A t \in tasks : t.id # 0 /\ \A x \in tasks : x.id = t.id => x = t
  /\ \A u \in subscribers : u.id # 0 /\ \A v \in subscribers : v.id = u.id => v = u
  /\ \A t \in tasks :
       /\ \A s \in Sockets : server[s].unsub # t.id
       /\ \A u \in subscribers : u.id = t.id => t.step = "joining"
       /\ t.step = "joining" => /\ t.next # {}
                                /\ [id |-> t.id, sock |-> t.sock, keys |-> t.next] \in subscribers
       /\ t.step = "closing" => t.next = {}
  /\ \A u \in subscribers, s \in Sockets : server[s].unsub = u.id => u.sock = s

(* A socket whose handlers did not overlap: a handler with a list to       *)
(* subscribe is alone, and no subscriber is there but the one it makes, or *)
(* else the one the socket can give back, which has the list of the        *)
(* socket.                                                                 *)
SocketOK(s) ==
  /\ \A t \in TasksOf(s) : t.next # {} => TasksOf(s) = {t}
  /\ TasksOf(s) # {} =>
       \A u \in SubscribersOf(s) : \E t \in TasksOf(s) : t.id = u.id
  /\ TasksOf(s) = {} =>
       /\ \A u \in SubscribersOf(s) : u.id = server[s].unsub
       /\ server[s].list = UNION {u.keys : u \in SubscribersOf(s)}
SocketInv == \A s \in Sockets \ tally.overlapped : SocketOK(s)

(* What the list of a socket becomes by its handlers in progress, and by   *)
(* the commands on the wire: the last command that names a key decides.    *)
ListNow(s) == IF TasksOf(s) = {} THEN server[s].list ELSE UNION {t.next : t \in TasksOf(s)}
Applied(l, m) == IF m.action = "SUBSCRIBE" THEN l \cup m.keys ELSE l \ m.keys
Unnamed(k, q, i) == \A j \in (i + 1) .. Len(q) : k \notin q[j].keys
After(l, q) == {k \in Keys :
  \/ \E i \in 1 .. Len(q) : q[i].action = "SUBSCRIBE" /\ k \in q[i].keys /\ Unnamed(k, q, i)
  \/ k \in l /\ Unnamed(k, q, 0)}
WireInv ==
  (page.link = "up" /\ ~Spoilt(page.sock)) => After(ListNow(page.sock), wire[page.sock]) = page.keys

GatewayInv == TypeOK /\ PageInv /\ FreshInv /\ IdInv /\ SocketInv /\ WireInv

-----------------------------------------------------------------------------
(* Commands on the wire                                                    *)

LEMMA CommandFields ==
  ASSUME NEW q \in Seq(Command), NEW i \in 1 .. Len(q)
  PROVE  q[i].keys \subseteq Keys /\ q[i].action \in {"SUBSCRIBE", "UNSUBSCRIBE"}
<1>1. q[i] \in Command OBVIOUS
<1> QED BY <1>1 DEF Command

LEMMA AfterNothing ==
  ASSUME NEW l, l \subseteq Keys
  PROVE  After(l, <<>>) = l
<1>1. Len(<<>>) = 0 OBVIOUS
<1> QED BY <1>1 DEF After, Unnamed

\* Sending a command is applying it to the list there will be.
LEMMA AfterAppend ==
  ASSUME NEW l, NEW q \in Seq(Command), NEW m \in Command
  PROVE  After(l, Append(q, m)) = Applied(After(l, q), m)
<1>1. PICK r : r = Append(q, m) OBVIOUS
<1>2. PICK n \in Nat : n = Len(q) OBVIOUS
<1>3. /\ Len(r) = n + 1 /\ r[n + 1] = m
      /\ \A i \in 1 .. n : r[i] = q[i]
  BY <1>1, <1>2
<1>4. m.keys \subseteq Keys /\ m.action \in {"SUBSCRIBE", "UNSUBSCRIBE"} BY DEF Command
<1>5. ASSUME NEW k, NEW i \in 0 .. n
      PROVE  Unnamed(k, r, i) <=> Unnamed(k, q, i) /\ k \notin m.keys
  <2>1. Unnamed(k, r, i) <=> \A j \in (i + 1) .. (n + 1) : k \notin r[j].keys BY <1>3 DEF Unnamed
  <2>2. Unnamed(k, q, i) <=> \A j \in (i + 1) .. n : k \notin q[j].keys BY <1>2 DEF Unnamed
  <2>3. ASSUME NEW j \in (i + 1) .. (n + 1) PROVE j = n + 1 \/ (j \in (i + 1) .. n /\ j \in 1 .. n)
    OBVIOUS
  <2>4. \A j \in (i + 1) .. n : j \in (i + 1) .. (n + 1) /\ j \in 1 .. n OBVIOUS
  <2>5. n + 1 \in (i + 1) .. (n + 1) OBVIOUS
  <2> QED BY <1>3, <2>1, <2>2, <2>3, <2>4, <2>5
<1>6. \A k : Unnamed(k, r, n + 1) BY <1>3 DEF Unnamed
<1>7. ASSUME NEW k \in Keys
      PROVE  k \in After(l, r) <=> k \in Applied(After(l, q), m)
  <2>1. k \in After(l, r) <=>
          \/ \E i \in 1 .. (n + 1) : r[i].action = "SUBSCRIBE" /\ k \in r[i].keys /\ Unnamed(k, r, i)
          \/ k \in l /\ Unnamed(k, r, 0)
    BY <1>3 DEF After
  <2>2. k \in After(l, q) <=>
          \/ \E i \in 1 .. n : q[i].action = "SUBSCRIBE" /\ k \in q[i].keys /\ Unnamed(k, q, i)
          \/ k \in l /\ Unnamed(k, q, 0)
    BY <1>2 DEF After
  <2>3. \A i \in 1 .. (n + 1) : i \in 1 .. n \/ i = n + 1 OBVIOUS
  <2>4. \A i \in 1 .. n : i \in 0 .. n /\ i \in 1 .. (n + 1) OBVIOUS
  <2>5. n + 1 \in 1 .. (n + 1) /\ 0 \in 0 .. n OBVIOUS
  <2>6. CASE k \in m.keys
    <3>1. k \in After(l, r) <=> m.action = "SUBSCRIBE"
      BY <1>3, <1>5, <1>6, <2>1, <2>3, <2>4, <2>5, <2>6
    <3> QED BY <3>1, <2>6, <1>4 DEF Applied
  <2>7. CASE k \notin m.keys
    <3>1. k \in After(l, r) <=> k \in After(l, q)
      BY <1>3, <1>5, <2>1, <2>2, <2>3, <2>4, <2>5, <2>7
    <3> QED BY <3>1, <2>7 DEF Applied
  <2> QED BY <2>6, <2>7
<1>8. After(l, r) \subseteq Keys /\ Applied(After(l, q), m) \subseteq Keys
  BY <1>4 DEF After, Applied
<1> QED BY <1>1, <1>7, <1>8

\* Reading a command is applying it to the list there is.
LEMMA AfterHead ==
  ASSUME NEW l, l \subseteq Keys, NEW q \in Seq(Command), q # <<>>
  PROVE  After(l, q) = After(Applied(l, Head(q)), Tail(q))
<1>1. PICK n \in Nat : n = Len(q) /\ n >= 1 OBVIOUS
<1>2. PICK r : r = Tail(q) OBVIOUS
<1>3. PICK m : m = Head(q) OBVIOUS
<1>4. /\ Len(r) = n - 1 /\ q[1] = m
      /\ \A i \in 1 .. (n - 1) : r[i] = q[i + 1]
  BY <1>1, <1>2, <1>3
<1>5. m.keys \subseteq Keys /\ m.action \in {"SUBSCRIBE", "UNSUBSCRIBE"}
  BY <1>1, <1>4, CommandFields
<1>6. ASSUME NEW k, NEW i \in 0 .. (n - 1)
      PROVE  Unnamed(k, r, i) <=> Unnamed(k, q, i + 1)
  <2>1. Unnamed(k, r, i) <=> \A j \in (i + 1) .. (n - 1) : k \notin r[j].keys BY <1>4 DEF Unnamed
  <2>2. Unnamed(k, q, i + 1) <=> \A j \in (i + 2) .. n : k \notin q[j].keys BY <1>1 DEF Unnamed
  <2>3. \A j \in (i + 1) .. (n - 1) : j + 1 \in (i + 2) .. n /\ j \in 1 .. (n - 1) OBVIOUS
  <2>4. \A j \in (i + 2) .. n : j - 1 \in (i + 1) .. (n - 1) /\ j - 1 \in 1 .. (n - 1)
                                 /\ (j - 1) + 1 = j OBVIOUS
  <2>5. Unnamed(k, q, i + 1) => Unnamed(k, r, i) BY <1>4, <2>1, <2>2, <2>3
  <2>6. Unnamed(k, r, i) => Unnamed(k, q, i + 1) BY <1>4, <2>1, <2>2, <2>4
  <2> QED BY <2>5, <2>6
<1>7. ASSUME NEW k
      PROVE  Unnamed(k, q, 0) <=> k \notin m.keys /\ Unnamed(k, q, 1)
  <2>1. Unnamed(k, q, 0) <=> \A j \in 1 .. n : k \notin q[j].keys BY <1>1 DEF Unnamed
  <2>2. Unnamed(k, q, 1) <=> \A j \in 2 .. n : k \notin q[j].keys BY <1>1 DEF Unnamed
  <2>3. \A j \in 1 .. n : j = 1 \/ j \in 2 .. n OBVIOUS
  <2>4. 1 \in 1 .. n /\ \A j \in 2 .. n : j \in 1 .. n BY <1>1
  <2> QED BY <1>4, <2>1, <2>2, <2>3, <2>4
<1>8. ASSUME NEW k \in Keys
      PROVE  k \in After(l, q) <=> k \in After(Applied(l, m), r)
  <2>1. k \in After(l, q) <=>
          \/ \E i \in 1 .. n : q[i].action = "SUBSCRIBE" /\ k \in q[i].keys /\ Unnamed(k, q, i)
          \/ k \in l /\ Unnamed(k, q, 0)
    BY <1>1 DEF After
  <2>2. k \in After(Applied(l, m), r) <=>
          \/ \E i \in 1 .. (n - 1) : r[i].action = "SUBSCRIBE" /\ k \in r[i].keys /\ Unnamed(k, r, i)
          \/ k \in Applied(l, m) /\ Unnamed(k, r, 0)
    BY <1>4 DEF After
  <2>3. (\E i \in 1 .. n : q[i].action = "SUBSCRIBE" /\ k \in q[i].keys /\ Unnamed(k, q, i)) <=>
          \/ m.action = "SUBSCRIBE" /\ k \in m.keys /\ Unnamed(k, q, 1)
          \/ \E i \in 1 .. (n - 1) : r[i].action = "SUBSCRIBE" /\ k \in r[i].keys /\ Unnamed(k, r, i)
    <3>1. ASSUME NEW i \in 1 .. n, q[i].action = "SUBSCRIBE", k \in q[i].keys, Unnamed(k, q, i), i # 1
          PROVE  \E j \in 1 .. (n - 1) : r[j].action = "SUBSCRIBE" /\ k \in r[j].keys /\ Unnamed(k, r, j)
      <4>1. PICK j \in 1 .. (n - 1) : i = j + 1 BY <3>1, i - 1 \in 1 .. (n - 1), i = (i - 1) + 1
      <4>2. j \in 0 .. (n - 1) /\ r[j] = q[i] BY <1>4, <4>1
      <4>3. Unnamed(k, r, j) BY <1>6, <3>1, <4>1, <4>2
      <4> QED BY <3>1, <4>2, <4>3
    <3>2. ASSUME NEW j \in 1 .. (n - 1), r[j].action = "SUBSCRIBE", k \in r[j].keys, Unnamed(k, r, j)
          PROVE  \E i \in 1 .. n : q[i].action = "SUBSCRIBE" /\ k \in q[i].keys /\ Unnamed(k, q, i)
      <4>1. j \in 0 .. (n - 1) /\ j + 1 \in 1 .. n /\ r[j] = q[j + 1] BY <1>4
      <4>2. Unnamed(k, q, j + 1) BY <1>6, <3>2, <4>1
      <4> QED BY <3>2, <4>1, <4>2
    <3>3. 1 \in 1 .. n BY <1>1
    <3> QED BY <1>4, <3>1, <3>2, <3>3
  <2>4. Unnamed(k, r, 0) <=> Unnamed(k, q, 1)
    <3>1. 0 \in 0 .. (n - 1) /\ 0 + 1 = 1 BY <1>1
    <3>2. Unnamed(k, r, 0) <=> Unnamed(k, q, 0 + 1) BY <1>6, <3>1
    <3> QED BY <3>1, <3>2
  <2>5. k \in Applied(l, m) <=> IF m.action = "SUBSCRIBE" THEN k \in l \/ k \in m.keys
                                ELSE k \in l /\ k \notin m.keys
    BY DEF Applied
  <2> QED BY <1>7, <2>1, <2>2, <2>3, <2>4, <2>5
<1>9. After(l, q) \subseteq Keys /\ After(Applied(l, m), r) \subseteq Keys BY DEF After
<1> QED BY <1>2, <1>3, <1>8, <1>9

\* Commands that only give back leave nothing of nothing.
LEMMA AfterGivingBack ==
  ASSUME NEW q \in Seq(Command), \A i \in 1 .. Len(q) : q[i].action = "UNSUBSCRIBE"
  PROVE  After({}, q) = {}
<1>1. \A i \in 1 .. Len(q) : q[i].action # "SUBSCRIBE" OBVIOUS
<1> QED BY <1>1 DEF After

LEMMA SendTypes ==
  ASSUME NEW q \in Seq(Command), NEW keys \in SUBSET Keys, NEW action \in {"SUBSCRIBE", "UNSUBSCRIBE"}
  PROVE  /\ Send(q, action, keys) \in Seq(Command)
         /\ \A l : After(l, Send(q, action, keys)) = Applied(After(l, q), [action |-> action, keys |-> keys])
<1>1. CASE keys = {}
  <2>1. Send(q, action, keys) = q BY <1>1 DEF Send
  <2>2. ASSUME NEW l PROVE Applied(l, [action |-> action, keys |-> keys]) = l
    BY <1>1 DEF Applied
  <2> QED BY <2>1, <2>2
<1>2. CASE keys # {}
  <2>1. PICK m : m = [action |-> action, keys |-> keys] OBVIOUS
  <2>2. m \in Command BY <1>2, <2>1 DEF Command
  <2>3. Send(q, action, keys) = Append(q, m) BY <1>2, <2>1 DEF Send
  <2> QED BY <2>1, <2>2, <2>3, AfterAppend
<1> QED BY <1>1, <1>2

-----------------------------------------------------------------------------
(* The page                                                                *)

LEMMA KeysOfTypes == \A S : S \subseteq Charts => KeysOf(S) \in SUBSET Keys
BY DEF KeysOf, Keys

LEMMA ServerTypes ==
  ASSUME TypeOK, NEW s \in Sockets
  PROVE  /\ server[s].list \subseteq Keys /\ server[s].unsub \in Nat
         /\ ListNow(s) \subseteq Keys /\ \A t \in tasks : t.next \subseteq Keys
<1>1. \A t \in tasks : t.next \subseteq Keys BY DEF TypeOK, Tasks
<1>2. server[s].list \subseteq Keys /\ server[s].unsub \in Nat BY DEF TypeOK
<1>3. TasksOf(s) \subseteq tasks BY DEF TasksOf
<1>4. UNION {t.next : t \in TasksOf(s)} \subseteq Keys BY <1>1, <1>3
<1> QED BY <1>1, <1>2, <1>4 DEF ListNow

LEMMA ServerFrame ==
  ASSUME tasks' = tasks, subscribers' = subscribers, tally'.overlapped = tally.overlapped,
         \A s \in Sockets : server'[s].list = server[s].list /\ server'[s].unsub = server[s].unsub,
         IdInv, SocketInv
  PROVE  /\ IdInv' /\ SocketInv'
         /\ \A s \in Sockets : /\ ListNow(s)' = ListNow(s)
                               /\ TasksOf(s)' = TasksOf(s) /\ SubscribersOf(s)' = SubscribersOf(s)
<1>1. \A s \in Sockets : TasksOf(s)' = TasksOf(s) /\ SubscribersOf(s)' = SubscribersOf(s)
  BY DEF TasksOf, SubscribersOf
<1>2. \A s \in Sockets : ListNow(s)' = ListNow(s) BY <1>1 DEF ListNow
<1>3. SocketInv' BY <1>1 DEF SocketInv, SocketOK
<1>4. IdInv' BY DEF IdInv
<1> QED BY <1>1, <1>2, <1>3, <1>4

\* What the page does without its connection changing: charts open and close.
LEMMA ChartsChange ==
  ASSUME GatewayInv, UNCHANGED serverVars, NEW n \in 0 .. MaxChanges, tally' = [tally EXCEPT !.changes = n],
         mounted' \subseteq Charts, page'.keys = KeysOf(mounted'),
         page' \in [link : Links, sock : 0 .. MaxSockets, keys : SUBSET Keys, buffered : Seq(Command)],
         page'.link = "none" <=> mounted' = {},
         page'.link \in {"connecting", "lost"} => tally.sockets < MaxSockets,
         page'.link = "up" => page.link = "up" /\ page'.sock = page.sock /\ page'.buffered = <<>>,
         \A i \in 1 .. Len(page'.buffered) : page'.buffered[i].action = "UNSUBSCRIBE",
         wire' \in [Sockets -> Seq(Command \cup {Close})],
         \A s \in Sockets : wire'[s] # wire[s] => page.link = "up" /\ s = page.sock,
         page'.link = "up" => /\ wire'[page.sock] \in Seq(Command)
                              /\ \A l : After(l, wire[page.sock]) = page.keys
                                        => After(l, wire'[page.sock]) = page'.keys
  PROVE  GatewayInv'
<1>1. /\ tally'.overlapped = tally.overlapped /\ tally'.rejected = tally.rejected
      /\ tally'.sockets = tally.sockets
      /\ tally' \in [changes : 0 .. MaxChanges, sockets : 0 .. MaxSockets,
                     overlapped : SUBSET Sockets, rejected : SUBSET Sockets]
  BY DEF GatewayInv, TypeOK
<1>2. TypeOK' BY <1>1 DEF GatewayInv, TypeOK, serverVars
<1>3. /\ IdInv' /\ SocketInv'
      /\ \A s \in Sockets : /\ ListNow(s)' = ListNow(s)
                            /\ TasksOf(s)' = TasksOf(s) /\ SubscribersOf(s)' = SubscribersOf(s)
  BY <1>1, ServerFrame DEF GatewayInv, serverVars
<1>4. page.link = "up" => page.sock \in 1 .. tally.sockets /\ page.sock \in Sockets
  BY DEF GatewayInv, PageInv, TypeOK, Sockets
<1>5. PageInv'
  <2>1. page'.link = "up" => /\ page'.sock \in 1 .. tally'.sockets /\ page'.buffered = <<>>
                             /\ wire'[page'.sock] \in Seq(Command)
    BY <1>1, <1>4
  <2>2. KeysOf(mounted)' = KeysOf(mounted') BY DEF KeysOf
  <2>3. page'.link \in {"connecting", "lost"} => tally'.sockets < MaxSockets BY <1>1
  <2>4. page'.keys = KeysOf(mounted') /\ (page'.link = "none" <=> mounted' = {})
        /\ \A i \in 1 .. Len(page'.buffered) : page'.buffered[i].action = "UNSUBSCRIBE"
    OBVIOUS
  <2> QED BY <2>1, <2>2, <2>3, <2>4 DEF PageInv
<1>6. FreshInv'
  <2> SUFFICES ASSUME NEW s \in Sockets, s > tally.sockets
               PROVE  /\ wire'[s] = <<>> /\ server'[s].list = {} /\ server'[s].unsub = 0
                      /\ TasksOf(s)' = {} /\ SubscribersOf(s)' = {}
    BY <1>1 DEF FreshInv
  <2>1. s # page.sock \/ page.link # "up" BY <1>4 DEF GatewayInv, TypeOK, Sockets
  <2>2. wire'[s] = wire[s] BY <2>1
  <2> QED BY <1>3, <2>2 DEF GatewayInv, FreshInv, serverVars
<1>7. WireInv'
  <2>1. CASE page'.link # "up" BY <2>1 DEF WireInv
  <2>2. CASE page'.link = "up"
    <3>1. PICK s \in Sockets : s = page.sock /\ s = page'.sock BY <1>4, <2>2
    <3>2. (~Spoilt(s))' <=> ~Spoilt(s) BY <1>1 DEF Spoilt
    <3>3. ~Spoilt(s) => After(ListNow(s), wire[s]) = page.keys
      BY <2>2, <3>1 DEF GatewayInv, WireInv
    <3>4. ~Spoilt(s) => After(ListNow(s), wire'[s]) = page'.keys BY <2>2, <3>1, <3>3
    <3>5. ListNow(s)' = ListNow(s) BY <1>3
    <3>6. ~Spoilt(s)' => After(ListNow(s)', wire'[s]) = page'.keys BY <3>2, <3>4, <3>5
    <3> QED BY <3>1, <3>6 DEF WireInv, Spoilt, ListNow, TasksOf
  <2> QED BY <2>1, <2>2
<1> QED BY <1>2, <1>3, <1>5, <1>6, <1>7 DEF GatewayInv

LEMMA MountStep ==
  ASSUME GatewayInv, NEW c \in Charts, Mount(c)
  PROVE  GatewayInv'
<1> USE DEF Changed
<1>1. PICK n : n = tally.changes + 1 OBVIOUS
<1>2. n \in 0 .. MaxChanges /\ tally' = [tally EXCEPT !.changes = n]
  <2>1. tally.changes < MaxChanges /\ tally' = [tally EXCEPT !.changes = n] BY <1>1 DEF Mount
  <2>2. tally.changes \in 0 .. MaxChanges BY DEF GatewayInv, TypeOK
  <2> QED BY <1>1, <2>1, <2>2, GatewayBoundsAreNatural
<1>3. mounted' = mounted \cup {c} /\ mounted' \subseteq Charts /\ mounted' # {}
  BY DEF Mount, GatewayInv, TypeOK
<1>4. KeysOf(mounted') \in SUBSET Keys BY <1>3, KeysOfTypes
<1>5. page \in [link : Links, sock : 0 .. MaxSockets, keys : SUBSET Keys, buffered : Seq(Command)]
  BY DEF GatewayInv, TypeOK
<1>6. /\ page'.keys = KeysOf(mounted') /\ page'.sock = page.sock /\ page'.buffered = page.buffered
      /\ page'.link = IF page.link = "none" THEN "connecting" ELSE page.link
      /\ page' \in [link : Links, sock : 0 .. MaxSockets, keys : SUBSET Keys, buffered : Seq(Command)]
  BY <1>4, <1>5 DEF Mount, Links
<1>7. PICK keys \in SUBSET Keys : keys = page'.keys \ page.keys BY <1>4, <1>6
<1>8. page.link = "up" => page.sock \in Sockets /\ wire[page.sock] \in Seq(Command) /\ page.buffered = <<>>
  BY DEF GatewayInv, PageInv, TypeOK, Sockets
<1>9. wire \in [Sockets -> Seq(Command \cup {Close})] BY DEF GatewayInv, TypeOK
<1>10. PICK sent : sent = Send(wire[page.sock], "SUBSCRIBE", keys) OBVIOUS
<1>11. page.link = "up" => wire' = [wire EXCEPT ![page.sock] = sent] BY <1>7, <1>10 DEF Mount
<1>12. page.link # "up" => wire' = wire BY DEF Mount
<1>13. page.link = "up" => /\ sent \in Seq(Command)
                           /\ \A l : After(l, sent) = After(l, wire[page.sock]) \cup keys
  BY <1>8, <1>10, SendTypes DEF Applied
<1>14. page.link = "up" => sent \in Seq(Command \cup {Close}) BY <1>13
<1>15. wire' \in [Sockets -> Seq(Command \cup {Close})]
       /\ \A s \in Sockets : wire'[s] # wire[s] => page.link = "up" /\ s = page.sock
  BY <1>8, <1>9, <1>11, <1>12, <1>14
<1>16. page.keys = KeysOf(mounted) BY DEF GatewayInv, PageInv
<1>17. page.keys \cup keys = page'.keys BY <1>3, <1>6, <1>7, <1>16 DEF KeysOf
<1>18. page'.link = "up" => /\ wire'[page.sock] \in Seq(Command)
                            /\ \A l : After(l, wire[page.sock]) = page.keys
                                      => After(l, wire'[page.sock]) = page'.keys
  <2> SUFFICES ASSUME page.link = "up"
               PROVE  /\ wire'[page.sock] \in Seq(Command)
                      /\ \A l : After(l, wire[page.sock]) = page.keys
                                => After(l, wire'[page.sock]) = page'.keys
    BY <1>6
  <2>1. wire'[page.sock] = sent BY <1>8, <1>9, <1>11
  <2> QED BY <2>1, <1>13, <1>17
<1>19. UNCHANGED serverVars BY DEF Mount
<1>20. page'.link \in {"connecting", "lost"} => tally.sockets < MaxSockets
  BY <1>6 DEF Mount, GatewayInv, PageInv
<1>21. \A i \in 1 .. Len(page'.buffered) : page'.buffered[i].action = "UNSUBSCRIBE"
  BY <1>6 DEF GatewayInv, PageInv
<1>22. page'.link # "none" BY <1>6
<1>23. page'.link = "up" => page.link = "up" /\ page'.sock = page.sock /\ page'.buffered = <<>>
  BY <1>6, <1>8
<1> QED BY <1>2, <1>3, <1>6, <1>15, <1>18, <1>19, <1>20, <1>21, <1>22, <1>23, ChartsChange

LEMMA PageRecord ==
  ASSUME TypeOK
  PROVE  /\ page \in [link : Links, sock : 0 .. MaxSockets, keys : SUBSET Keys, buffered : Seq(Command)]
         /\ NoPage \in [link : Links, sock : 0 .. MaxSockets, keys : SUBSET Keys, buffered : Seq(Command)]
         /\ NoPage.link = "none" /\ NoPage.keys = {} /\ NoPage.buffered = <<>>
         /\ wire \in [Sockets -> Seq(Command \cup {Close})]
         /\ \A i \in 1 .. Len(NoPage.buffered) : NoPage.buffered[i].action = "UNSUBSCRIBE"
<1>1. <<>> \in Seq(Command) /\ Len(<<>>) = 0 OBVIOUS
<1>2. 0 \in 0 .. MaxSockets BY GatewayBoundsAreNatural
<1>3. /\ NoPage \in [link : Links, sock : 0 .. MaxSockets, keys : SUBSET Keys, buffered : Seq(Command)]
      /\ NoPage.link = "none" /\ NoPage.keys = {} /\ NoPage.buffered = <<>>
  BY <1>1, <1>2 DEF NoPage, Links
<1> QED BY <1>1, <1>3 DEF TypeOK

LEMMA UnmountStep ==
  ASSUME GatewayInv, NEW c \in Charts, Unmount(c)
  PROVE  GatewayInv'
<1> DEFINE PageType == [link : Links, sock : 0 .. MaxSockets, keys : SUBSET Keys, buffered : Seq(Command)]
<1> USE DEF Changed
<1>1. PICK n : n = tally.changes + 1 OBVIOUS
<1>2. n \in 0 .. MaxChanges /\ tally' = [tally EXCEPT !.changes = n]
  <2>1. tally.changes < MaxChanges /\ tally' = [tally EXCEPT !.changes = n] BY <1>1 DEF Unmount
  <2>2. tally.changes \in 0 .. MaxChanges BY DEF GatewayInv, TypeOK
  <2> QED BY <1>1, <2>1, <2>2, GatewayBoundsAreNatural
<1>3. mounted' = mounted \ {c} /\ mounted' \subseteq Charts /\ c \in mounted
  BY DEF Unmount, GatewayInv, TypeOK
<1>4. KeysOf(mounted') \in SUBSET Keys BY <1>3, KeysOfTypes
<1>5. /\ page \in PageType /\ NoPage \in PageType
      /\ NoPage.link = "none" /\ NoPage.keys = {} /\ NoPage.buffered = <<>>
      /\ wire \in [Sockets -> Seq(Command \cup {Close})]
      /\ \A i \in 1 .. Len(NoPage.buffered) : NoPage.buffered[i].action = "UNSUBSCRIBE"
  BY PageRecord DEF GatewayInv
<1>6. PICK keys \in SUBSET Keys : keys = GivenBack(mounted') BY <1>5 DEF GivenBack
<1>7. PICK left : left = Send(<<>>, "UNSUBSCRIBE", keys) OBVIOUS
<1>8. left \in Seq(Command) /\ Len(left) \in {0, 1}
      /\ \A i \in 1 .. Len(left) : left[i].action = "UNSUBSCRIBE"
  <2>1. PICK m : m = [action |-> "UNSUBSCRIBE", keys |-> keys] OBVIOUS
  <2>2. CASE keys = {}
    <3>1. left = <<>> /\ Len(<<>>) = 0 BY <1>7, <2>2 DEF Send
    <3> QED BY <3>1
  <2>3. CASE keys # {}
    <3>1. m \in Command /\ m.action = "UNSUBSCRIBE" BY <2>1, <2>3 DEF Command
    <3>2. left = Append(<<>>, m) BY <1>7, <2>1, <2>3 DEF Send
    <3>3. left = <<m>> /\ Len(left) = 1 /\ left[1] = m BY <3>2
    <3> QED BY <3>1, <3>3
  <2> QED BY <2>2, <2>3
<1>9. page.link = "up" => page.sock \in Sockets /\ wire[page.sock] \in Seq(Command) /\ page.buffered = <<>>
  BY DEF GatewayInv, PageInv, TypeOK, Sockets
<1>10. \A i \in 1 .. Len(page.buffered) : page.buffered[i].action = "UNSUBSCRIBE"
  BY DEF GatewayInv, PageInv
<1>11. PICK kept : kept = page.buffered \o left OBVIOUS
<1>12. kept \in Seq(Command) /\ \A i \in 1 .. Len(kept) : kept[i].action = "UNSUBSCRIBE"
  <2>1. page.buffered \in Seq(Command) BY <1>5
  <2>2. kept \in Seq(Command) /\ Len(kept) = Len(page.buffered) + Len(left) BY <1>8, <1>11, <2>1
  <2>3. ASSUME NEW i \in 1 .. Len(kept) PROVE kept[i].action = "UNSUBSCRIBE"
    <3>1. CASE i <= Len(page.buffered)
      <4>1. kept[i] = page.buffered[i] /\ i \in 1 .. Len(page.buffered) BY <1>11, <1>8, <2>1, <2>2, <3>1
      <4> QED BY <4>1, <1>10
    <3>2. CASE ~(i <= Len(page.buffered))
      <4>1. kept[i] = left[i - Len(page.buffered)] /\ i - Len(page.buffered) \in 1 .. Len(left)
        BY <1>11, <1>8, <2>1, <2>2, <3>2
      <4> QED BY <4>1, <1>8
    <3> QED BY <3>1, <3>2
  <2> QED BY <2>2, <2>3
<1>13. page' = IF mounted' = {} THEN NoPage
               ELSE [page EXCEPT !.keys = KeysOf(mounted'),
                                 !.buffered = IF page.link = "up" THEN page.buffered ELSE kept]
  BY <1>6, <1>7, <1>11 DEF Unmount
<1>14. /\ mounted' = {} => page' = NoPage
       /\ mounted' # {} => /\ page'.link = page.link /\ page'.sock = page.sock
                           /\ page'.buffered = IF page.link = "up" THEN page.buffered ELSE kept
       /\ page'.keys = KeysOf(mounted') /\ page' \in PageType
  <2>1. CASE mounted' = {} BY <1>5, <1>13, <2>1 DEF KeysOf
  <2>2. CASE mounted' # {} BY <1>4, <1>5, <1>12, <1>13, <2>2
  <2> QED BY <2>1, <2>2
<1>15. PICK ending : ending = IF mounted' = {} THEN <<Close>> ELSE <<>> OBVIOUS
<1>16. PICK sent : sent = wire[page.sock] \o left \o ending OBVIOUS
<1>17. wire' = IF page.link # "up" THEN wire ELSE [wire EXCEPT ![page.sock] = sent]
  BY <1>6, <1>7, <1>15, <1>16 DEF Unmount
<1>18. page.link = "up" => sent \in Seq(Command \cup {Close})
  <2>1. PICK CommandOrClose : CommandOrClose = Command \cup {Close} OBVIOUS
  <2>2. PICK end \in CommandOrClose : end = Close BY <2>1
  <2>3. <<end>> \in Seq(CommandOrClose) /\ <<>> \in Seq(CommandOrClose) OBVIOUS
  <2>4. ending \in Seq(CommandOrClose) BY <1>15, <2>2, <2>3
  <2>5. ASSUME NEW q \in Seq(Command) PROVE q \in Seq(CommandOrClose) BY <2>1
  <2>6. page.link = "up" => sent \in Seq(CommandOrClose)
    <3> HIDE <2>1
    <3> QED BY <1>8, <1>9, <1>16, <2>4, <2>5
  <2> QED BY <2>1, <2>6
<1>19. wire' \in [Sockets -> Seq(Command \cup {Close})]
       /\ \A s \in Sockets : wire'[s] # wire[s] => page.link = "up" /\ s = page.sock
  BY <1>5, <1>9, <1>17, <1>18
<1>20. page'.link = "up" => page.link = "up" /\ mounted' # {} BY <1>5, <1>14
<1>21. page'.link = "up" => /\ wire'[page.sock] \in Seq(Command)
                            /\ \A l : After(l, wire[page.sock]) = page.keys
                                      => After(l, wire'[page.sock]) = page'.keys
  <2> SUFFICES ASSUME page'.link = "up"
               PROVE  /\ wire'[page.sock] \in Seq(Command)
                      /\ \A l : After(l, wire[page.sock]) = page.keys
                                => After(l, wire'[page.sock]) = page'.keys
    OBVIOUS
  <2>1. PICK w \in Seq(Command) : w = wire[page.sock] BY <1>9, <1>20
  <2>2. ending = <<>> BY <1>15, <1>20
  <2>3. w \o left \in Seq(Command) BY <1>8
  <2>4. sent = w \o left BY <1>16, <2>1, <2>2, <2>3
  <2>5. w \o left = Send(w, "UNSUBSCRIBE", keys)
    <3>1. CASE keys = {}
      <4>1. left = <<>> BY <1>7, <3>1 DEF Send
      <4> QED BY <3>1, <4>1 DEF Send
    <3>2. CASE keys # {}
      <4>1. PICK m : m = [action |-> "UNSUBSCRIBE", keys |-> keys] OBVIOUS
      <4>2. left = <<m>> BY <1>7, <3>2, <4>1 DEF Send
      <4>3. Send(w, "UNSUBSCRIBE", keys) = Append(w, m) BY <3>2, <4>1 DEF Send
      <4> QED BY <4>2, <4>3
    <3> QED BY <3>1, <3>2
  <2>6. \A l : After(l, sent) = After(l, w) \ keys BY <2>4, <2>5, SendTypes DEF Applied
  <2>7. page.keys = KeysOf(mounted) BY DEF GatewayInv, PageInv
  <2>8. page.keys \ keys = page'.keys BY <1>3, <1>6, <1>14, <2>7 DEF GivenBack, KeysOf
  <2>9. wire'[page.sock] = sent BY <1>5, <1>9, <1>17, <1>20
  <2> QED BY <2>1, <2>3, <2>4, <2>6, <2>8, <2>9
<1>22. UNCHANGED serverVars BY DEF Unmount
<1>23. page.link # "none" BY <1>3 DEF GatewayInv, PageInv
<1>24. page'.link \in {"connecting", "lost"} => tally.sockets < MaxSockets
  BY <1>5, <1>14 DEF GatewayInv, PageInv
<1>25. \A i \in 1 .. Len(page'.buffered) : page'.buffered[i].action = "UNSUBSCRIBE"
  BY <1>5, <1>10, <1>12, <1>14
<1>26. page'.link = "none" <=> mounted' = {} BY <1>5, <1>14, <1>23
<1>27. page'.link = "up" => page.link = "up" /\ page'.sock = page.sock /\ page'.buffered = <<>>
  BY <1>9, <1>14, <1>20
<1> QED BY <1>2, <1>3, <1>14, <1>19, <1>21, <1>22, <1>24, <1>25, <1>26, <1>27, ChartsChange

LEMMA LogoutStep ==
  ASSUME GatewayInv, Logout
  PROVE  GatewayInv'
<1>1. PICK n : n = tally.changes + 1 OBVIOUS
<1>2. n \in 0 .. MaxChanges /\ tally' = [tally EXCEPT !.changes = n]
  <2>1. tally.changes < MaxChanges /\ tally' = [tally EXCEPT !.changes = n] BY <1>1 DEF Logout, Changed
  <2>2. tally.changes \in 0 .. MaxChanges BY DEF GatewayInv, TypeOK
  <2> QED BY <1>1, <2>1, <2>2, GatewayBoundsAreNatural
<1>3. /\ NoPage \in [link : Links, sock : 0 .. MaxSockets, keys : SUBSET Keys, buffered : Seq(Command)]
      /\ NoPage.link = "none" /\ NoPage.keys = {} /\ NoPage.buffered = <<>>
      /\ wire \in [Sockets -> Seq(Command \cup {Close})]
      /\ \A i \in 1 .. Len(NoPage.buffered) : NoPage.buffered[i].action = "UNSUBSCRIBE"
  BY PageRecord DEF GatewayInv
<1>4. mounted' = {} /\ page' = NoPage /\ UNCHANGED serverVars BY DEF Logout
<1>5. KeysOf(mounted') = {} BY <1>4 DEF KeysOf
<1>6. page.link = "up" => page.sock \in Sockets /\ wire[page.sock] \in Seq(Command)
  BY DEF GatewayInv, PageInv, TypeOK, Sockets
<1>7. PICK CommandOrClose : CommandOrClose = Command \cup {Close} OBVIOUS
<1>8. PICK end \in CommandOrClose : end = Close BY <1>7
<1>9. PICK sent : sent = Append(wire[page.sock], end) OBVIOUS
<1>10. page.link = "up" => sent \in Seq(CommandOrClose)
  <2> SUFFICES ASSUME page.link = "up" PROVE sent \in Seq(CommandOrClose) OBVIOUS
  <2>1. wire[page.sock] \in Seq(CommandOrClose) BY <1>3, <1>6, <1>7
  <2> HIDE <1>7
  <2> QED BY <1>8, <1>9, <2>1
<1>11. wire' = IF page.link = "up" THEN [wire EXCEPT ![page.sock] = sent] ELSE wire
  BY <1>8, <1>9 DEF Logout
<1>12. wire' \in [Sockets -> Seq(Command \cup {Close})]
       /\ \A s \in Sockets : wire'[s] # wire[s] => page.link = "up" /\ s = page.sock
  BY <1>3, <1>6, <1>7, <1>10, <1>11
<1>13. page'.link = "none" BY <1>3, <1>4
<1>14. page'.keys = KeysOf(mounted') /\ mounted' \subseteq Charts
  BY <1>3, <1>4, <1>5
<1>15. page' \in [link : Links, sock : 0 .. MaxSockets, keys : SUBSET Keys, buffered : Seq(Command)]
       /\ \A i \in 1 .. Len(page'.buffered) : page'.buffered[i].action = "UNSUBSCRIBE"
  BY <1>3, <1>4
<1>16. page'.link = "none" <=> mounted' = {} BY <1>4, <1>13
<1>17. page'.link # "up" /\ page'.link \notin {"connecting", "lost"} BY <1>13
<1> QED BY <1>2, <1>4, <1>12, <1>14, <1>15, <1>16, <1>17, ChartsChange

\* The connection breaks or is given up: the charts stay.
LEMMA LinkStep ==
  ASSUME GatewayInv, UNCHANGED <<mounted, server, tasks, subscribers, chain, tally>>,
         NEW link \in {"lost", "over"}, page' = [page EXCEPT !.link = link],
         page.link # "none", link = "lost" => tally.sockets < MaxSockets,
         wire' \in [Sockets -> Seq(Command \cup {Close})],
         \A s \in Sockets : wire'[s] # wire[s] => page.link = "up" /\ s = page.sock
  PROVE  GatewayInv'
<1>1. PICK n : n = tally.changes OBVIOUS
<1>2. n \in 0 .. MaxChanges /\ tally' = [tally EXCEPT !.changes = n]
  <2>1. tally' = tally OBVIOUS
  <2> QED BY <1>1, <2>1 DEF GatewayInv, TypeOK
<1>3. page \in [link : Links, sock : 0 .. MaxSockets, keys : SUBSET Keys, buffered : Seq(Command)]
  BY DEF GatewayInv, TypeOK
<1>4. link \in Links BY DEF Links
<1>5. /\ page' \in [link : Links, sock : 0 .. MaxSockets, keys : SUBSET Keys, buffered : Seq(Command)]
      /\ page'.link = link /\ page'.keys = page.keys /\ page'.buffered = page.buffered
  BY <1>3, <1>4
<1>6. mounted' = mounted /\ UNCHANGED serverVars BY DEF serverVars
<1>7. page'.keys = KeysOf(mounted') BY <1>5, <1>6 DEF GatewayInv, PageInv
<1>8. mounted' \subseteq Charts BY <1>6 DEF GatewayInv, TypeOK
<1>9. page'.link = "none" <=> mounted' = {} BY <1>5, <1>6 DEF GatewayInv, PageInv
<1>10. page'.link \in {"connecting", "lost"} => tally.sockets < MaxSockets BY <1>5
<1>11. page'.link # "up" BY <1>5
<1>12. \A i \in 1 .. Len(page'.buffered) : page'.buffered[i].action = "UNSUBSCRIBE"
  BY <1>5 DEF GatewayInv, PageInv
<1> QED BY <1>2, <1>5, <1>6, <1>7, <1>8, <1>9, <1>10, <1>11, <1>12, ChartsChange

LEMMA LoseStep ==
  ASSUME GatewayInv, Lose
  PROVE  GatewayInv'
<1>1. /\ page.link = "up" /\ tally.sockets < MaxSockets /\ page' = [page EXCEPT !.link = "lost"]
      /\ UNCHANGED <<mounted, server, tasks, subscribers, chain, tally>>
  BY DEF Lose
<1>2. page.sock \in Sockets /\ wire[page.sock] \in Seq(Command)
      /\ wire \in [Sockets -> Seq(Command \cup {Close})]
  BY <1>1 DEF GatewayInv, PageInv, TypeOK, Sockets
<1>3. PICK n \in 0 .. Len(wire[page.sock]) :
        wire' = [wire EXCEPT ![page.sock] = Append(SubSeq(wire[page.sock], 1, n), Close)]
  BY DEF Lose
<1>4. PICK CommandOrClose : CommandOrClose = Command \cup {Close} OBVIOUS
<1>5. PICK end \in CommandOrClose : end = Close BY <1>4
<1>6. PICK sent : sent = Append(SubSeq(wire[page.sock], 1, n), end) OBVIOUS
<1>7. sent \in Seq(CommandOrClose)
  <2>1. PICK w \in Seq(CommandOrClose) : w = wire[page.sock] BY <1>2, <1>4
  <2>2. \A i \in 1 .. n : w[i] \in CommandOrClose BY <1>3, <2>1
  <2>3. SubSeq(w, 1, n) \in Seq(CommandOrClose) BY <1>3, <2>1, <2>2
  <2> HIDE <1>4
  <2> QED BY <1>5, <1>6, <2>1, <2>3
<1>8. wire' = [wire EXCEPT ![page.sock] = sent] BY <1>3, <1>5, <1>6
<1>9. wire' \in [Sockets -> Seq(Command \cup {Close})]
      /\ \A s \in Sockets : wire'[s] # wire[s] => page.link = "up" /\ s = page.sock
  BY <1>1, <1>2, <1>4, <1>7, <1>8
<1> QED BY <1>1, <1>9, LinkStep

LEMMA GiveUpStep ==
  ASSUME GatewayInv, GiveUp
  PROVE  GatewayInv'
<1>1. /\ page.link \in {"connecting", "lost"} /\ page' = [page EXCEPT !.link = "over"]
      /\ UNCHANGED <<mounted, server, tasks, subscribers, chain, tally>> /\ wire' = wire
  BY DEF GiveUp
<1>2. wire \in [Sockets -> Seq(Command \cup {Close})] BY DEF GatewayInv, TypeOK
<1> QED BY <1>1, <1>2, LinkStep

LEMMA ConnectStep ==
  ASSUME GatewayInv, Connect
  PROVE  GatewayInv'
<1>1. PICK s : s = tally.sockets + 1 OBVIOUS
<1>2. /\ page.link \in {"connecting", "lost"}
      /\ tally' = [tally EXCEPT !.sockets = s]
      /\ page' = [page EXCEPT !.link = "up", !.sock = s, !.keys = KeysOf(mounted), !.buffered = <<>>]
      /\ wire' = [wire EXCEPT ![s] = Resubscribed]
      /\ server' = [server EXCEPT ![s].open = TRUE]
      /\ UNCHANGED <<mounted, tasks, subscribers, chain>>
  BY <1>1 DEF Connect
<1>3. tally \in [changes : 0 .. MaxChanges, sockets : 0 .. MaxSockets,
                 overlapped : SUBSET Sockets, rejected : SUBSET Sockets]
  BY DEF GatewayInv, TypeOK
<1>4. tally.sockets < MaxSockets /\ s > tally.sockets /\ s \in Sockets /\ s \in 0 .. MaxSockets /\ s >= 1
  <2>1. tally.sockets < MaxSockets BY <1>2 DEF GatewayInv, PageInv
  <2>2. tally.sockets \in 0 .. MaxSockets BY <1>3
  <2> QED BY <1>1, <2>1, <2>2, GatewayBoundsAreNatural DEF Sockets
<1>5. /\ tally'.overlapped = tally.overlapped /\ tally'.rejected = tally.rejected
      /\ tally'.sockets = s
      /\ tally' \in [changes : 0 .. MaxChanges, sockets : 0 .. MaxSockets,
                     overlapped : SUBSET Sockets, rejected : SUBSET Sockets]
  BY <1>2, <1>3, <1>4
<1>6. KeysOf(mounted) \in SUBSET Keys BY KeysOfTypes DEF GatewayInv, TypeOK
<1>7. page \in [link : Links, sock : 0 .. MaxSockets, keys : SUBSET Keys, buffered : Seq(Command)]
  BY DEF GatewayInv, TypeOK
<1>8. PICK none \in Seq(Command) : none = <<>> /\ Len(none) = 0
  <2>1. <<>> \in Seq(Command) /\ Len(<<>>) = 0 OBVIOUS
  <2> QED BY <2>1
<1>9. /\ page' \in [link : Links, sock : 0 .. MaxSockets, keys : SUBSET Keys, buffered : Seq(Command)]
      /\ page'.link = "up" /\ page'.sock = s /\ page'.keys = KeysOf(mounted) /\ page'.buffered = none
  <2>1. "up" \in Links BY DEF Links
  <2>2. page' = [page EXCEPT !.link = "up", !.sock = s, !.keys = KeysOf(mounted), !.buffered = none]
    BY <1>2, <1>8
  <2> QED BY <1>4, <1>6, <1>7, <2>1, <2>2
<1>10. PICK sent \in Seq(Command) : sent = Resubscribed
                                    /\ \A l : After(l, sent) = After(l, page.buffered) \cup KeysOf(mounted)
  <2>1. page.buffered \in Seq(Command) BY <1>7
  <2>2. PICK keys \in SUBSET Keys : keys = KeysOf(mounted) BY <1>6
  <2>3. "SUBSCRIBE" \in {"SUBSCRIBE", "UNSUBSCRIBE"} OBVIOUS
  <2> QED BY <2>1, <2>2, <2>3, SendTypes DEF Resubscribed, Applied
<1>11. wire \in [Sockets -> Seq(Command \cup {Close})] BY DEF GatewayInv, TypeOK
<1>12. sent \in Seq(Command \cup {Close}) OBVIOUS
<1>13. wire' \in [Sockets -> Seq(Command \cup {Close})]
       /\ wire'[s] = sent /\ \A x \in Sockets : x # s => wire'[x] = wire[x]
  BY <1>2, <1>4, <1>10, <1>11, <1>12
<1>14. server \in [Sockets -> [open : BOOLEAN, list : SUBSET Keys, unsub : Nat]]
  BY DEF GatewayInv, TypeOK
<1>15. server' \in [Sockets -> [open : BOOLEAN, list : SUBSET Keys, unsub : Nat]]
       /\ \A x \in Sockets : server'[x].list = server[x].list /\ server'[x].unsub = server[x].unsub
  BY <1>2, <1>14
<1>16. TypeOK' BY <1>2, <1>5, <1>9, <1>13, <1>15 DEF GatewayInv, TypeOK
<1>17. /\ IdInv' /\ SocketInv'
       /\ \A x \in Sockets : /\ ListNow(x)' = ListNow(x)
                             /\ TasksOf(x)' = TasksOf(x) /\ SubscribersOf(x)' = SubscribersOf(x)
  BY <1>2, <1>5, <1>15, ServerFrame DEF GatewayInv
<1>18. PageInv'
  <2>1. mounted' = mounted /\ KeysOf(mounted') = KeysOf(mounted) BY <1>2
  <2>2. mounted # {} BY <1>2 DEF GatewayInv, PageInv
  <2>3. s \in 1 .. s BY <1>4 DEF Sockets
  <2>4. \A i \in 1 .. Len(page'.buffered) : page'.buffered[i].action = "UNSUBSCRIBE" BY <1>8, <1>9
  <2> QED BY <1>5, <1>8, <1>9, <1>10, <1>13, <2>1, <2>2, <2>3, <2>4 DEF PageInv
<1>19. FreshInv'
  <2> SUFFICES ASSUME NEW x \in Sockets, x > s
               PROVE  /\ wire'[x] = <<>> /\ server'[x].list = {} /\ server'[x].unsub = 0
                      /\ TasksOf(x)' = {} /\ SubscribersOf(x)' = {}
    BY <1>5 DEF FreshInv
  <2>1. x > tally.sockets /\ x # s BY <1>1, <1>3, <1>4 DEF Sockets
  <2> QED BY <1>13, <1>15, <1>17, <2>1 DEF GatewayInv, FreshInv
<1>20. WireInv'
  <2>1. TasksOf(s) = {} /\ server[s].list = {} BY <1>4 DEF GatewayInv, FreshInv
  <2>2. ListNow(s) = {} BY <2>1 DEF ListNow
  <2>3. After({}, page.buffered) = {} BY <1>7, AfterGivingBack DEF GatewayInv, PageInv
  <2>4. After(ListNow(s), sent) = KeysOf(mounted) BY <1>10, <2>2, <2>3
  <2>5. ListNow(s)' = ListNow(s) BY <1>4, <1>17
  <2>6. After(ListNow(s)', wire'[s]) = page'.keys BY <1>9, <1>13, <2>4, <2>5
  <2> QED BY <1>9, <2>6 DEF WireInv, ListNow, TasksOf
<1> QED BY <1>16, <1>17, <1>18, <1>19, <1>20 DEF GatewayInv

-----------------------------------------------------------------------------
(* Names of handlers                                                       *)

LEMMA IdsAreFinite ==
  ASSUME NEW S, IsFiniteSet(S)
  PROVE  IsFiniteSet({x.id : x \in S})
<1>1. PICK T : T = {x.id : x \in S} OBVIOUS
<1>2. PICK f : f = [x \in S |-> x.id] OBVIOUS
<1>3. f \in Surjection(S, T) BY <1>1, <1>2 DEF Surjection
<1> QED BY <1>1, <1>3, FS_Surjection

LEMMA UnsubsAreFinite == IsFiniteSet({server[s].unsub : s \in Sockets})
<1>1. IsFiniteSet(Sockets) BY FS_Interval, GatewayBoundsAreNatural DEF Sockets
<1>2. PICK T : T = {server[s].unsub : s \in Sockets} OBVIOUS
<1>3. PICK f : f = [s \in Sockets |-> server[s].unsub] OBVIOUS
<1>4. f \in Surjection(Sockets, T) BY <1>2, <1>3 DEF Surjection
<1> QED BY <1>1, <1>2, <1>4, FS_Surjection

\* There is always a name for another handler.
LEMMA NewIdIsNew ==
  ASSUME IsFiniteSet(tasks), IsFiniteSet(subscribers)
  PROVE  /\ NewId \in Nat /\ NewId # 0
         /\ \A t \in tasks : t.id # NewId
         /\ \A u \in subscribers : u.id # NewId
         /\ \A s \in Sockets : server[s].unsub # NewId
<1>1. IsFiniteSet(tasks \cup subscribers) BY FS_Union
<1>2. IsFiniteSet({x.id : x \in tasks \cup subscribers}) BY <1>1, IdsAreFinite
<1>3. IsFiniteSet(InUse) BY <1>2, UnsubsAreFinite, FS_Union DEF InUse
<1>4. PICK n \in Nat : n = Cardinality(InUse) BY <1>3, FS_CardinalityType
<1>5. \E id \in 1 .. (n + 1) : id \notin InUse
  <2> SUFFICES ASSUME \A id \in 1 .. (n + 1) : id \in InUse PROVE FALSE OBVIOUS
  <2>1. 1 .. (n + 1) \in SUBSET InUse OBVIOUS
  <2>2. Cardinality(1 .. (n + 1)) <= n BY <1>3, <1>4, <2>1, FS_Subset
  <2>3. Cardinality(1 .. (n + 1)) = n + 1 BY FS_Interval
  <2> QED BY <2>2, <2>3
<1>6. NewId \in 1 .. (n + 1) /\ NewId \notin InUse BY <1>4, <1>5 DEF NewId
<1> QED BY <1>6 DEF InUse

-----------------------------------------------------------------------------
(* The gateway                                                             *)

LEMMA OverlapsTypes ==
  ASSUME TypeOK, NEW s \in Sockets, NEW next
  PROVE  /\ tally.overlapped \subseteq Overlaps(s, next)
         /\ Overlaps(s, next) \subseteq tally.overlapped \cup {s}
         /\ Overlaps(s, next) \in SUBSET Sockets
         /\ s \notin Overlaps(s, next) =>
              /\ s \notin tally.overlapped
              /\ \A t \in TasksOf(s) : t.next = {} /\ next = {}
<1>1. tally.overlapped \in SUBSET Sockets BY DEF TypeOK
<1> QED BY <1>1 DEF Overlaps

\* A step at one socket keeps what the others have, and what the page gets.
LEMMA OneSocket ==
  ASSUME GatewayInv, mounted' = mounted, page' = page, NEW s \in Sockets, s <= tally.sockets,
         tally'.sockets = tally.sockets,
         tally.overlapped \subseteq tally'.overlapped, tally.rejected \subseteq tally'.rejected,
         \A x \in Sockets : x # s => /\ wire'[x] = wire[x] /\ server'[x] = server[x]
                                     /\ TasksOf(x)' = TasksOf(x) /\ SubscribersOf(x)' = SubscribersOf(x),
         TypeOK', IdInv', s \notin tally'.overlapped => SocketOK(s)',
         wire[s] \in Seq(Command) => wire'[s] \in Seq(Command),
         (wire[s] \in Seq(Command) /\ s \notin tally'.overlapped \cup tally'.rejected)
           => After(ListNow(s)', wire'[s]) = After(ListNow(s), wire[s])
  PROVE  GatewayInv'
<1>1. \A x \in Sockets : x # s => ListNow(x)' = ListNow(x) BY DEF ListNow
<1>2. PageInv'
  <2>1. page.link = "up" => page.sock \in Sockets BY DEF GatewayInv, PageInv, TypeOK, Sockets
  <2>2. page.link = "up" => wire'[page.sock] \in Seq(Command) BY <2>1 DEF GatewayInv, PageInv
  <2> QED BY <2>2 DEF GatewayInv, PageInv
<1>3. FreshInv'
  <2> SUFFICES ASSUME NEW x \in Sockets, x > tally.sockets
               PROVE  /\ wire'[x] = <<>> /\ server'[x].list = {} /\ server'[x].unsub = 0
                      /\ TasksOf(x)' = {} /\ SubscribersOf(x)' = {}
    BY DEF FreshInv
  <2>1. x # s BY DEF GatewayInv, TypeOK, Sockets
  <2> QED BY <2>1 DEF GatewayInv, FreshInv
<1>4. SocketInv'
  <2> SUFFICES ASSUME NEW x \in Sockets, x \notin tally'.overlapped PROVE SocketOK(x)' BY DEF SocketInv
  <2>1. CASE x = s BY <2>1
  <2>2. CASE x # s
    <3>1. SocketOK(x) BY DEF GatewayInv, SocketInv
    <3> QED BY <2>2, <3>1 DEF SocketOK
  <2> QED BY <2>1, <2>2
<1>5. WireInv'
  <2>1. CASE page.link # "up" BY <2>1 DEF WireInv
  <2>2. CASE page.link = "up"
    <3>1. PICK x \in Sockets : x = page.sock /\ x = page'.sock
      BY <2>2 DEF GatewayInv, PageInv, TypeOK, Sockets
    <3>2. wire[x] \in Seq(Command) BY <2>2, <3>1 DEF GatewayInv, PageInv
    <3>3. ~Spoilt(x)' => ~Spoilt(x) BY DEF Spoilt
    <3>4. ~Spoilt(x) => After(ListNow(x), wire[x]) = page.keys
      BY <2>2, <3>1 DEF GatewayInv, WireInv
    <3>5. ~Spoilt(x)' => After(ListNow(x)', wire'[x]) = After(ListNow(x), wire[x])
      BY <1>1, <3>2 DEF Spoilt
    <3>6. ~Spoilt(x)' => After(ListNow(x)', wire'[x]) = page'.keys BY <3>3, <3>4, <3>5
    <3> QED BY <3>1, <3>6 DEF WireInv, Spoilt, ListNow, TasksOf
  <2> QED BY <2>1, <2>2
<1> QED BY <1>2, <1>3, <1>4, <1>5 DEF GatewayInv

\* What Resume does, told in two cases: the handler makes the subscriber u
\* and goes on as j, or its socket is left without a list.
Resumed(t, others, queue, overlapped, u, j) ==
  /\ u = [id |-> t.id, sock |-> t.sock, keys |-> t.next]
  /\ u.id = t.id /\ u.sock = t.sock /\ u.keys = t.next
  /\ j.id = t.id /\ j.sock = t.sock /\ j.next = t.next /\ j.step = "joining"
  /\ server' \in [Sockets -> [open : BOOLEAN, list : SUBSET Keys, unsub : Nat]]
  /\ \A x \in Sockets : x # t.sock => server'[x] = server[x]
  /\ server'[t.sock].unsub = 0
  /\ tally'.overlapped = overlapped /\ tally'.sockets = tally.sockets
  /\ tally.rejected \subseteq tally'.rejected
  /\ t.next \cap Unsupported # {} => t.sock \in tally'.rejected
  /\ overlapped \in SUBSET Sockets =>
       tally' \in [changes : 0 .. MaxChanges, sockets : 0 .. MaxSockets,
                   overlapped : SUBSET Sockets, rejected : SUBSET Sockets]
  /\ \/ /\ t.next # {} /\ t.next \cap Unsupported = {}
        /\ subscribers' = subscribers \cup {u} /\ tasks' = others \cup {j}
        /\ chain' = Append(queue, t.id)
     \/ /\ t.next = {} \/ t.next \cap Unsupported # {}
        /\ subscribers' = subscribers /\ tasks' = others /\ chain' = queue
        /\ server'[t.sock].list = {}

LEMMA ResumeCases ==
  ASSUME TypeOK, NEW t \in Tasks, NEW others, NEW queue, NEW overlapped,
         Resume(t, others, queue, subscribers, overlapped)
  PROVE  \E u \in [id : Nat, sock : Sockets, keys : SUBSET Keys], j \in Tasks :
           Resumed(t, others, queue, overlapped, u, j)
<1>1. t.id \in Nat /\ t.sock \in Sockets /\ t.next \in SUBSET Keys BY DEF Tasks
<1>2. PICK u : u = [id |-> t.id, sock |-> t.sock, keys |-> t.next] OBVIOUS
<1>3. PICK j : j = [t EXCEPT !.step = "joining"] OBVIOUS
<1>4. /\ u \in [id : Nat, sock : Sockets, keys : SUBSET Keys]
      /\ u.id = t.id /\ u.sock = t.sock /\ u.keys = t.next
  BY <1>1, <1>2
<1>5. j \in Tasks /\ j.id = t.id /\ j.sock = t.sock /\ j.next = t.next /\ j.step = "joining"
  BY <1>3 DEF Tasks
<1>6. server \in [Sockets -> [open : BOOLEAN, list : SUBSET Keys, unsub : Nat]] BY DEF TypeOK
<1>7. tally \in [changes : 0 .. MaxChanges, sockets : 0 .. MaxSockets,
                 overlapped : SUBSET Sockets, rejected : SUBSET Sockets]
  BY DEF TypeOK
<1>8. PICK refused : refused = IF t.next \cap Unsupported # {}
                                 THEN tally.rejected \cup {t.sock} ELSE tally.rejected
  OBVIOUS
<1>9. tally' = [tally EXCEPT !.overlapped = overlapped, !.rejected = refused]
  BY <1>8 DEF Resume
<1>10. refused \in SUBSET Sockets /\ tally.rejected \subseteq refused
       /\ (t.next \cap Unsupported # {} => t.sock \in refused)
  BY <1>1, <1>7, <1>8
<1>11. /\ tally'.overlapped = overlapped /\ tally'.sockets = tally.sockets
       /\ tally.rejected \subseteq tally'.rejected
       /\ t.next \cap Unsupported # {} => t.sock \in tally'.rejected
       /\ overlapped \in SUBSET Sockets =>
            tally' \in [changes : 0 .. MaxChanges, sockets : 0 .. MaxSockets,
                        overlapped : SUBSET Sockets, rejected : SUBSET Sockets]
  BY <1>7, <1>9, <1>10
<1>12. CASE t.next # {} /\ t.next \cap Unsupported = {}
  <2>1. /\ subscribers' = subscribers \cup {u} /\ tasks' = others \cup {j}
        /\ chain' = Append(queue, t.id)
    BY <1>2, <1>3, <1>12 DEF Resume
  <2>2. server' = [server EXCEPT ![t.sock].unsub = 0, ![t.sock].list = @]
    BY <1>12 DEF Resume
  <2>3. /\ server' \in [Sockets -> [open : BOOLEAN, list : SUBSET Keys, unsub : Nat]]
        /\ \A x \in Sockets : x # t.sock => server'[x] = server[x]
        /\ server'[t.sock].unsub = 0 /\ server'[t.sock].list = server[t.sock].list
    BY <1>1, <1>6, <2>2
  <2> QED BY <1>2, <1>4, <1>5, <1>11, <1>12, <2>1, <2>3 DEF Resumed
<1>13. CASE t.next = {} \/ t.next \cap Unsupported # {}
  <2>1. subscribers' = subscribers /\ tasks' = others /\ chain' = queue BY <1>13 DEF Resume
  <2>2. server' = [server EXCEPT ![t.sock].unsub = 0, ![t.sock].list = {}]
    BY <1>13 DEF Resume, RejectedList
  <2>3. /\ server' \in [Sockets -> [open : BOOLEAN, list : SUBSET Keys, unsub : Nat]]
        /\ \A x \in Sockets : x # t.sock => server'[x] = server[x]
        /\ server'[t.sock].unsub = 0 /\ server'[t.sock].list = {}
    BY <1>1, <1>6, <2>2
  <2> QED BY <1>2, <1>4, <1>5, <1>11, <1>13, <2>1, <2>3 DEF Resumed
<1> QED BY <1>12, <1>13

LEMMA ResumeKeeps ==
  ASSUME GatewayInv, NEW t \in Tasks, t.id # 0, t.step = "leaving",
         NEW others, others \subseteq tasks, tasks \subseteq others \cup {t}, t \notin others,
         \A x \in tasks : x.id = t.id => x = t, \A u \in subscribers : u.id # t.id,
         \A x \in Sockets : server[x].unsub # t.id,
         NEW queue \in Seq(Nat), NEW overlapped \in SUBSET Sockets,
         Resume(t, others, queue, subscribers, overlapped),
         mounted' = mounted, page' = page, wire' \in [Sockets -> Seq(Command \cup {Close})]
  PROVE  /\ TypeOK' /\ IdInv'
         /\ \A x \in Sockets : x # t.sock =>
              server'[x] = server[x] /\ TasksOf(x)' = TasksOf(x) /\ SubscribersOf(x)' = SubscribersOf(x)
<1>1. /\ TypeOK /\ IdInv BY DEF GatewayInv
<1>0. PICK u \in [id : Nat, sock : Sockets, keys : SUBSET Keys], j \in Tasks :
        Resumed(t, others, queue, overlapped, u, j)
  BY <1>1, ResumeCases
<1>2. /\ u = [id |-> t.id, sock |-> t.sock, keys |-> t.next]
      /\ u.id = t.id /\ u.sock = t.sock /\ u.keys = t.next
      /\ j.id = t.id /\ j.sock = t.sock /\ j.next = t.next /\ j.step = "joining"
      /\ server' \in [Sockets -> [open : BOOLEAN, list : SUBSET Keys, unsub : Nat]]
      /\ \A x \in Sockets : x # t.sock => server'[x] = server[x]
      /\ server'[t.sock].unsub = 0
      /\ tally' \in [changes : 0 .. MaxChanges, sockets : 0 .. MaxSockets,
                     overlapped : SUBSET Sockets, rejected : SUBSET Sockets]
      /\ \/ /\ t.next # {}
            /\ subscribers' = subscribers \cup {u} /\ tasks' = others \cup {j}
            /\ chain' = Append(queue, t.id)
         \/ /\ subscribers' = subscribers /\ tasks' = others /\ chain' = queue
  BY <1>0 DEF Resumed
<1>3. t.id \in Nat BY DEF Tasks
<1>4. chain' \in Seq(Nat)
  <2>1. Append(queue, t.id) \in Seq(Nat) BY <1>3
  <2> QED BY <1>2, <2>1
<1>5. tasks' \subseteq Tasks /\ subscribers' \subseteq [id : Nat, sock : Sockets, keys : SUBSET Keys]
  BY <1>1, <1>2 DEF TypeOK
<1>6. TypeOK' BY <1>1, <1>2, <1>4, <1>5 DEF TypeOK
<1>7. \A x \in Sockets : x # t.sock => TasksOf(x)' = TasksOf(x) /\ SubscribersOf(x)' = SubscribersOf(x)
  BY <1>2 DEF TasksOf, SubscribersOf
<1>8. \A x \in others : x \in tasks /\ x.id # t.id
  BY <1>1
<1>9. \A x \in Sockets : server'[x].unsub = server[x].unsub \/ server'[x].unsub = 0 BY <1>2
<1>10. IsFiniteSet(tasks') /\ IsFiniteSet(subscribers')
  <2>1. IsFiniteSet(others) BY <1>1, FS_Subset DEF IdInv
  <2>2. IsFiniteSet(others \cup {j}) BY <2>1, FS_AddElement
  <2>3. IsFiniteSet(subscribers \cup {u}) BY <1>1, FS_AddElement DEF IdInv
  <2> QED BY <1>1, <1>2, <2>1, <2>2, <2>3 DEF IdInv
<1>11. IdInv'
  <2>1. \A x \in tasks' : x.id # 0 /\ \A y \in tasks' : y.id = x.id => y = x
    BY <1>1, <1>2, <1>8 DEF IdInv
  <2>2. \A v \in subscribers' : v.id # 0 /\ \A w \in subscribers' : w.id = v.id => w = v
    BY <1>1, <1>2 DEF IdInv
  <2>3. ASSUME NEW x \in tasks'
        PROVE  /\ \A s \in Sockets : server'[s].unsub # x.id
               /\ \A v \in subscribers' : v.id = x.id => x.step = "joining"
               /\ x.step = "joining" => /\ x.next # {}
                                        /\ [id |-> x.id, sock |-> x.sock, keys |-> x.next] \in subscribers'
               /\ x.step = "closing" => x.next = {}
    <3>1. CASE x \in others
      <4>1. x \in tasks /\ x.id # t.id /\ x.id # 0 BY <1>1, <1>8, <3>1 DEF IdInv
      <4> QED BY <1>1, <1>2, <1>9, <4>1 DEF IdInv
    <3>2. CASE x \notin others
      <4>1. x = j /\ t.next # {} /\ u \in subscribers' BY <1>2, <3>2
      <4>2. \A s \in Sockets : server'[s].unsub # x.id BY <1>2, <1>9, <4>1
      <4>3. [id |-> x.id, sock |-> x.sock, keys |-> x.next] = u BY <1>2, <4>1
      <4> QED BY <1>2, <4>1, <4>2, <4>3
    <3> QED BY <3>1, <3>2
  <2>4. ASSUME NEW v \in subscribers', NEW s \in Sockets, server'[s].unsub = v.id PROVE v.sock = s
    <3>1. v.id # 0 BY <2>2
    <3>2. server[s].unsub = v.id BY <1>9, <2>4, <3>1
    <3>3. v \in subscribers BY <1>2, <3>2
    <3> QED BY <1>1, <3>2, <3>3 DEF IdInv
  <2> QED BY <1>10, <2>1, <2>2, <2>3, <2>4 DEF IdInv
<1> QED BY <1>2, <1>6, <1>7, <1>11

\* The socket gets the list of the handler, unless it is refused: the other
\* handlers of a socket that did not overlap have none to subscribe.
LEMMA ResumeServes ==
  ASSUME GatewayInv, NEW t \in Tasks, NEW others, t \notin others, NEW queue, NEW overlapped,
         Resume(t, others, queue, subscribers, overlapped),
         \A x \in others : x.sock = t.sock => x.next = {} /\ t.next = {},
         \A u \in SubscribersOf(t.sock) : \E x \in others : x.sock = t.sock /\ x.id = u.id
  PROVE  /\ SocketOK(t.sock)'
         /\ t.next \cap Unsupported = {} => ListNow(t.sock)' = t.next
<1>1. PICK s \in Sockets : s = t.sock /\ s = t'.sock BY DEF Tasks
<1>0. PICK u \in [id : Nat, sock : Sockets, keys : SUBSET Keys], j \in Tasks :
        Resumed(t, others, queue, overlapped, u, j)
  BY ResumeCases DEF GatewayInv
<1>2. /\ u.id = t.id /\ u.sock = s /\ u.keys = t.next
      /\ j.id = t.id /\ j.sock = s /\ j.next = t.next
      /\ \/ /\ t.next # {}
            /\ subscribers' = subscribers \cup {u} /\ tasks' = others \cup {j}
         \/ /\ t.next = {} \/ t.next \cap Unsupported # {}
            /\ subscribers' = subscribers /\ tasks' = others
            /\ server'[s].list = {}
  BY <1>0, <1>1 DEF Resumed
<1>3. CASE t.next # {} /\ subscribers' = subscribers \cup {u} /\ tasks' = others \cup {j}
  <2>1. \A x \in others : x.sock # s BY <1>1, <1>3
  <2>2. TasksOf(s)' = {j} BY <1>2, <1>3, <2>1 DEF TasksOf
  <2>3. SubscribersOf(s) = {} BY <1>1, <2>1
  <2>4. SubscribersOf(s)' = {u} BY <1>2, <1>3, <2>3 DEF SubscribersOf
  <2>5. ListNow(s)' = t.next BY <1>2, <2>2 DEF ListNow
  <2>6. SocketOK(s)' BY <1>2, <2>2, <2>4 DEF SocketOK
  <2> QED BY <1>1, <2>5, <2>6
<1>4. CASE /\ t.next = {} \/ t.next \cap Unsupported # {}
           /\ subscribers' = subscribers /\ tasks' = others /\ server'[s].list = {}
  <2>1. PICK O : O = {x \in others : x.sock = s} OBVIOUS
  <2>2. TasksOf(s)' = O BY <1>4, <2>1 DEF TasksOf
  <2>3. SubscribersOf(s)' = SubscribersOf(s) BY <1>4 DEF SubscribersOf
  <2>4. \A x \in O : x.next = {} BY <1>1, <2>1
  <2>5. UNION {x.next : x \in O} = {} BY <2>4
  <2>6. ListNow(s)' = {} BY <1>4, <2>2, <2>5 DEF ListNow
  <2>7. \A v \in SubscribersOf(s) : \E x \in O : x.id = v.id BY <1>1, <2>1
  <2>8. O = {} => SubscribersOf(s) = {} BY <2>7
  <2>9. UNION {v.keys : v \in {}} = {} OBVIOUS
  <2>10. SocketOK(s)' BY <1>4, <2>2, <2>3, <2>4, <2>7, <2>8, <2>9 DEF SocketOK
  <2> QED BY <1>1, <1>4, <2>6, <2>10
<1> QED BY <1>2, <1>3, <1>4

\* A handler that gives the subscriber of its socket back waits: its name is
\* new, and the socket keeps its function until it goes on.
LEMMA GiveBackKeeps ==
  ASSUME GatewayInv, NEW s \in Sockets, NEW t \in Tasks, t.sock = s,
         t.id # 0, t.step = "leaving" \/ (t.step = "closing" /\ t.next = {}),
         \A x \in tasks : x.id # t.id, \A u \in subscribers : u.id # t.id,
         \A x \in Sockets : server[x].unsub # t.id,
         tasks' = tasks \cup {t}, subscribers' = Without(server[s].unsub),
         \A x \in Sockets : server'[x].list = server[x].list /\ server'[x].unsub = server[x].unsub
  PROVE  /\ IdInv'
         /\ \A x \in Sockets : x # s => TasksOf(x)' = TasksOf(x) /\ SubscribersOf(x)' = SubscribersOf(x)
         /\ (s \notin tally.overlapped /\ Live(server[s].unsub)) => TasksOf(s) = {}
         /\ (s \notin tally.overlapped /\ TasksOf(s) = {}) => SocketOK(s)' /\ ListNow(s)' = t.next
<1>1. IdInv /\ TypeOK BY DEF GatewayInv
<1>2. PICK old : old = server[s].unsub OBVIOUS
<1>3. subscribers' = {u \in subscribers : u.id # old} BY <1>2 DEF Without
<1>4. \A u \in subscribers : u.id = old => u.sock = s BY <1>1, <1>2 DEF IdInv
<1>5. \A x \in Sockets : x # s => TasksOf(x)' = TasksOf(x) /\ SubscribersOf(x)' = SubscribersOf(x)
  BY <1>3, <1>4 DEF TasksOf, SubscribersOf
<1>6. IsFiniteSet(tasks') /\ IsFiniteSet(subscribers')
  <2>1. IsFiniteSet(tasks \cup {t}) BY <1>1, FS_AddElement DEF IdInv
  <2>2. IsFiniteSet(subscribers') BY <1>1, <1>3, FS_Subset DEF IdInv
  <2> QED BY <2>1, <2>2
<1>7. IdInv'
  <2>1. \A x \in tasks' : x.id # 0 /\ \A y \in tasks' : y.id = x.id => y = x
    BY <1>1 DEF IdInv
  <2>2. \A v \in subscribers' : v.id # 0 /\ \A w \in subscribers' : w.id = v.id => w = v
    BY <1>1, <1>3 DEF IdInv
  <2>3. ASSUME NEW x \in tasks'
        PROVE  /\ \A z \in Sockets : server'[z].unsub # x.id
               /\ \A v \in subscribers' : v.id = x.id => x.step = "joining"
               /\ x.step = "joining" => /\ x.next # {}
                                        /\ [id |-> x.id, sock |-> x.sock, keys |-> x.next] \in subscribers'
               /\ x.step = "closing" => x.next = {}
    <3>1. CASE x \in tasks
      <4>1. x.id # old BY <1>1, <1>2, <3>1 DEF IdInv
      <4>2. PICK v : v = [id |-> x.id, sock |-> x.sock, keys |-> x.next] OBVIOUS
      <4>3. v.id = x.id BY <4>2
      <4>4. x.step = "joining" => x.next # {} /\ v \in subscribers'
        BY <1>1, <1>3, <3>1, <4>1, <4>2, <4>3 DEF IdInv
      <4>5. \A z \in Sockets : server'[z].unsub # x.id BY <1>1, <3>1 DEF IdInv
      <4>6. \A w \in subscribers' : w.id = x.id => x.step = "joining" BY <1>1, <1>3, <3>1 DEF IdInv
      <4>7. x.step = "closing" => x.next = {} BY <1>1, <3>1 DEF IdInv
      <4> QED BY <4>2, <4>4, <4>5, <4>6, <4>7
    <3>2. CASE x = t
      <4>1. x.step # "joining" BY <3>2
      <4>2. \A v \in subscribers' : v.id # x.id BY <1>3, <3>2
      <4> QED BY <3>2, <4>1, <4>2
    <3> QED BY <3>1, <3>2
  <2>4. \A v \in subscribers', z \in Sockets : server'[z].unsub = v.id => v.sock = z
    BY <1>1, <1>3 DEF IdInv
  <2> QED BY <1>6, <2>1, <2>2, <2>3, <2>4 DEF IdInv
<1>8. s \notin tally.overlapped => SocketOK(s) BY DEF GatewayInv, SocketInv
<1>9. ASSUME s \notin tally.overlapped, Live(old) PROVE TasksOf(s) = {}
  <2>1. PICK u \in subscribers : u.id = old BY <1>9 DEF Live
  <2>2. u \in SubscribersOf(s) BY <1>4, <2>1 DEF SubscribersOf
  <2>3. ASSUME TasksOf(s) # {} PROVE FALSE
    <3>1. PICK x \in TasksOf(s) : x.id = u.id BY <1>8, <1>9, <2>2, <2>3 DEF SocketOK
    <3>2. x \in tasks BY <3>1 DEF TasksOf
    <3>3. server[s].unsub # x.id BY <1>1, <3>2 DEF IdInv
    <3> QED BY <1>2, <2>1, <3>1, <3>3
  <2> QED BY <2>3
<1>10. ASSUME s \notin tally.overlapped, TasksOf(s) = {} PROVE SocketOK(s)' /\ ListNow(s)' = t.next
  <2>1. TasksOf(s)' = {t} BY <1>10 DEF TasksOf
  <2>2. SubscribersOf(s)' = {} BY <1>2, <1>3, <1>8, <1>10 DEF SubscribersOf, SocketOK
  <2>3. ListNow(s)' = t.next BY <2>1 DEF ListNow
  <2> QED BY <2>1, <2>2, <2>3 DEF SocketOK
<1> QED BY <1>2, <1>5, <1>7, <1>9, <1>10

\* The command at the head of a wire.
LEMMA CommandRead ==
  ASSUME GatewayInv, NEW s \in Sockets, wire[s] # <<>>
  PROVE  /\ s <= tally.sockets /\ wire \in [Sockets -> Seq(Command \cup {Close})]
         /\ wire[s] \in Seq(Command) => Tail(wire[s]) \in Seq(Command) /\ Head(wire[s]) # Close
         /\ Tail(wire[s]) \in Seq(Command \cup {Close})
         /\ Head(wire[s]) # Close => Head(wire[s]) \in Command
<1>1. wire \in [Sockets -> Seq(Command \cup {Close})] BY DEF GatewayInv, TypeOK
<1>2. PICK CommandOrClose : CommandOrClose = Command \cup {Close} OBVIOUS
<1>3. wire[s] \in Seq(CommandOrClose) BY <1>1, <1>2
<1>4. Tail(wire[s]) \in Seq(CommandOrClose) /\ Head(wire[s]) \in CommandOrClose
  <2> HIDE <1>2
  <2> QED BY <1>3
<1>5. Close \notin Command BY DEF Close, Command
<1>6. wire[s] \in Seq(Command) => Tail(wire[s]) \in Seq(Command) /\ Head(wire[s]) \in Command
  OBVIOUS
<1>7. s <= tally.sockets
  <2>1. tally.sockets \in Nat BY DEF GatewayInv, TypeOK
  <2>2. ~(s > tally.sockets) BY DEF GatewayInv, FreshInv
  <2> QED BY <2>1, <2>2 DEF Sockets
<1> QED BY <1>1, <1>2, <1>4, <1>5, <1>6, <1>7

\* What a handler is given by its command: the list it will subscribe to.
LEMMA ListAfterTypes ==
  ASSUME TypeOK, NEW s \in Sockets, NEW m \in Command
  PROVE  /\ ListAfter(s, m) = Applied(server[s].list, m)
         /\ ListAfter(s, m) \in SUBSET Keys
         /\ m.keys # {} /\ m.action \in {"SUBSCRIBE", "UNSUBSCRIBE"}
<1>1. m.keys \subseteq Keys /\ m.keys # {} /\ m.action \in {"SUBSCRIBE", "UNSUBSCRIBE"} BY DEF Command
<1>2. server[s].list \subseteq Keys BY ServerTypes
<1> QED BY <1>1, <1>2 DEF ListAfter, Applied

\* When the handlers of a socket do not overlap, the command takes effect on
\* the list that the socket will have.
LEMMA AppliesToListNow ==
  ASSUME TypeOK, NEW s \in Sockets, NEW m \in Command,
         \A t \in TasksOf(s) : t.next = {} /\ ListAfter(s, m) = {}
  PROVE  Applied(ListNow(s), m) = ListAfter(s, m)
<1>1. /\ ListAfter(s, m) = Applied(server[s].list, m)
      /\ m.keys # {} /\ m.action \in {"SUBSCRIBE", "UNSUBSCRIBE"}
  BY ListAfterTypes
<1>2. CASE TasksOf(s) = {} BY <1>1, <1>2 DEF ListNow
<1>3. CASE TasksOf(s) # {}
  <2>1. ListAfter(s, m) = {} BY <1>3
  <2>2. m.action = "UNSUBSCRIBE" BY <1>1, <2>1 DEF Applied
  <2>3. UNION {t.next : t \in TasksOf(s)} = {} OBVIOUS
  <2>4. ListNow(s) = {} BY <1>3, <2>3 DEF ListNow
  <2> QED BY <2>1, <2>2, <2>4 DEF Applied
<1> QED BY <1>2, <1>3

LEMMA ReceiveStep ==
  ASSUME GatewayInv, NEW s \in Sockets, Receive(s)
  PROVE  GatewayInv'
<1>1. /\ TypeOK /\ IdInv /\ wire[s] # <<>> /\ Head(wire[s]) # Close
      /\ wire' = [wire EXCEPT ![s] = Tail(wire[s])] /\ mounted' = mounted /\ page' = page
  BY DEF GatewayInv, Receive
<1>2. /\ s <= tally.sockets /\ wire \in [Sockets -> Seq(Command \cup {Close})]
      /\ wire[s] \in Seq(Command) => Tail(wire[s]) \in Seq(Command)
      /\ Tail(wire[s]) \in Seq(Command \cup {Close})
      /\ Head(wire[s]) \in Command
  BY <1>1, CommandRead
<1>3. PICK m \in Command : m = Head(wire[s]) BY <1>2
<1>4. PICK next \in SUBSET Keys : next = ListAfter(s, m) BY <1>1, ListAfterTypes
<1>5. /\ wire' \in [Sockets -> Seq(Command \cup {Close})] /\ wire'[s] = Tail(wire[s])
      /\ \A x \in Sockets : x # s => wire'[x] = wire[x]
  BY <1>1, <1>2
<1>6. /\ tally.overlapped \subseteq Overlaps(s, next) /\ Overlaps(s, next) \in SUBSET Sockets
      /\ s \notin Overlaps(s, next) =>
           s \notin tally.overlapped /\ \A t \in TasksOf(s) : t.next = {} /\ next = {}
  BY <1>1, OverlapsTypes
<1>7. s \notin Overlaps(s, next) => Applied(ListNow(s), m) = next
  BY <1>1, <1>4, <1>6, AppliesToListNow
<1>8. wire[s] \in Seq(Command) => After(ListNow(s), wire[s]) = After(Applied(ListNow(s), m), wire'[s])
  BY <1>1, <1>3, <1>5, AfterHead, ServerTypes
<1>9. tally \in [changes : 0 .. MaxChanges, sockets : 0 .. MaxSockets,
                 overlapped : SUBSET Sockets, rejected : SUBSET Sockets]
  BY <1>1 DEF TypeOK
<1>10. s \notin Overlaps(s, next) => SocketOK(s) BY <1>6 DEF GatewayInv, SocketInv
<1>11. ASSUME UNCHANGED serverVars, tally' = [tally EXCEPT !.overlapped = Overlaps(s, next)],
              next = server[s].list, m.action # "UNSUBSCRIBE"
       PROVE  GatewayInv'
  <2>1. /\ tally'.overlapped = Overlaps(s, next) /\ tally'.rejected = tally.rejected
        /\ tally'.sockets = tally.sockets
        /\ tally' \in [changes : 0 .. MaxChanges, sockets : 0 .. MaxSockets,
                       overlapped : SUBSET Sockets, rejected : SUBSET Sockets]
    BY <1>6, <1>9, <1>11
  <2>2. TypeOK' BY <1>1, <1>5, <1>11, <2>1 DEF TypeOK, serverVars
  <2>3. \A x \in Sockets : TasksOf(x)' = TasksOf(x) /\ SubscribersOf(x)' = SubscribersOf(x)
    BY <1>11 DEF TasksOf, SubscribersOf, serverVars
  <2>4. IdInv' BY <1>1, <1>11 DEF IdInv, serverVars
  <2>5. ListNow(s)' = ListNow(s) BY <1>11, <2>3 DEF ListNow, serverVars
  <2>6. s \notin tally'.overlapped => SocketOK(s)' BY <1>10, <1>11, <2>1, <2>3 DEF SocketOK, serverVars
  <2>7. s \notin tally'.overlapped => ListNow(s)' = Applied(ListNow(s), m)
    <3> SUFFICES ASSUME s \notin Overlaps(s, next) PROVE ListNow(s) = next BY <1>7, <2>1, <2>5
    <3>1. m.keys # {} /\ m.keys \subseteq next
      <4>1. m.keys # {} /\ m.action = "SUBSCRIBE" BY <1>1, <1>11, ListAfterTypes
      <4> QED BY <1>4, <4>1 DEF ListAfter
    <3>2. next # {} BY <3>1
    <3>3. TasksOf(s) = {} BY <1>6, <3>2
    <3> QED BY <1>11, <3>3 DEF ListNow
  <2>8. server' = server BY <1>11 DEF serverVars
  <2> QED BY <1>1, <1>2, <1>5, <1>6, <1>8, <2>1, <2>2, <2>3, <2>4, <2>6, <2>7, <2>8, OneSocket
<1>12. ASSUME GiveBack([id |-> NewId, sock |-> s, next |-> next, step |-> "leaving"])
       PROVE  GatewayInv'
  <2>1. PICK t : t = [id |-> NewId, sock |-> s, next |-> next, step |-> "leaving"] OBVIOUS
  <2>2. /\ NewId \in Nat /\ NewId # 0
        /\ \A x \in tasks : x.id # NewId
        /\ \A u \in subscribers : u.id # NewId
        /\ \A x \in Sockets : server[x].unsub # NewId
    BY <1>1, NewIdIsNew DEF IdInv
  <2>3. /\ t \in Tasks /\ t.id # 0 /\ t.sock = s /\ t.next = next /\ t.step = "leaving"
        /\ \A x \in tasks : x.id # t.id
        /\ \A u \in subscribers : u.id # t.id
        /\ \A x \in Sockets : server[x].unsub # t.id
    BY <2>1, <2>2 DEF Tasks
  <2>4. GiveBack(t) BY <1>12, <2>1
  <2>5. t \notin tasks BY <2>3
  <2>6. CASE Live(server[s].unsub)
    <3>1. /\ subscribers' = Without(server[s].unsub)
          /\ chain' = Append(chain, t.id) /\ tasks' = tasks \cup {t}
          /\ tally' = [tally EXCEPT !.overlapped = Overlaps(s, next)]
          /\ server' = server
      BY <2>3, <2>4, <2>6 DEF GiveBack
    <3>2. /\ IdInv'
          /\ \A x \in Sockets : x # s => TasksOf(x)' = TasksOf(x) /\ SubscribersOf(x)' = SubscribersOf(x)
          /\ (s \notin tally.overlapped /\ Live(server[s].unsub)) => TasksOf(s) = {}
          /\ (s \notin tally.overlapped /\ TasksOf(s) = {}) => SocketOK(s)' /\ ListNow(s)' = t.next
      <4>1. \A x \in Sockets : server'[x].list = server[x].list /\ server'[x].unsub = server[x].unsub
        BY <3>1
      <4>2. t.step = "leaving" \/ (t.step = "closing" /\ t.next = {}) BY <2>3
      <4> QED BY <2>3, <3>1, <4>1, <4>2, GiveBackKeeps
    <3>3. /\ tally'.overlapped = Overlaps(s, next) /\ tally'.rejected = tally.rejected
          /\ tally'.sockets = tally.sockets
          /\ tally' \in [changes : 0 .. MaxChanges, sockets : 0 .. MaxSockets,
                         overlapped : SUBSET Sockets, rejected : SUBSET Sockets]
      BY <1>6, <1>9, <3>1
    <3>4. TypeOK'
      <4>1. t.id \in Nat /\ chain \in Seq(Nat) BY <1>1, <2>3 DEF Tasks, TypeOK
      <4>2. chain' \in Seq(Nat) BY <3>1, <4>1
      <4>3. tasks' \subseteq Tasks BY <1>1, <2>3, <3>1 DEF TypeOK
      <4>4. subscribers' \subseteq [id : Nat, sock : Sockets, keys : SUBSET Keys]
        BY <1>1, <3>1 DEF TypeOK, Without
      <4> QED BY <1>1, <1>5, <3>1, <3>3, <4>2, <4>3, <4>4 DEF TypeOK
    <3>5. s \notin tally'.overlapped => SocketOK(s)' /\ ListNow(s)' = Applied(ListNow(s), m)
      BY <1>6, <1>7, <2>3, <2>6, <3>2, <3>3
    <3> QED BY <1>1, <1>2, <1>5, <1>6, <1>8, <3>1, <3>2, <3>3, <3>4, <3>5, OneSocket
  <2>7. CASE ~Live(server[s].unsub)
    <3>1. Resume(t, tasks, chain, subscribers, Overlaps(s, next)) BY <2>3, <2>4, <2>7 DEF GiveBack
    <3>2. chain \in Seq(Nat) BY <1>1 DEF TypeOK
    <3>3. PICK others : others = tasks OBVIOUS
    <3>4. PICK over \in SUBSET Sockets : over = Overlaps(s, next) BY <1>6
    <3>5. /\ TypeOK' /\ IdInv'
          /\ \A x \in Sockets : x # t.sock =>
               server'[x] = server[x] /\ TasksOf(x)' = TasksOf(x) /\ SubscribersOf(x)' = SubscribersOf(x)
      <4>1. Resume(t, others, chain, subscribers, over) BY <3>1, <3>3, <3>4
      <4>2. others \subseteq tasks /\ tasks \subseteq others \cup {t} /\ t \notin others
            /\ \A x \in tasks : x.id = t.id => x = t
        BY <2>3, <2>5, <3>3
      <4> QED BY <1>1, <1>5, <2>3, <3>2, <4>1, <4>2, ResumeKeeps
    <3>6. /\ tally'.overlapped = over /\ tally'.sockets = tally.sockets
          /\ tally.rejected \subseteq tally'.rejected
          /\ t.next \cap Unsupported # {} => s \in tally'.rejected
      BY <1>1, <2>3, <3>1, <3>4, ResumeCases DEF Resumed
    <3>7. s \notin over => SocketOK(s)' /\ (t.next \cap Unsupported = {} => ListNow(s)' = t.next)
      <4> SUFFICES ASSUME s \notin over
                   PROVE  SocketOK(s)' /\ (t.next \cap Unsupported = {} => ListNow(s)' = t.next)
        OBVIOUS
      <4>1. \A x \in tasks : x.sock = t.sock => x.next = {} /\ t.next = {}
        BY <1>6, <2>3, <3>4 DEF TasksOf
      <4>2. \A u \in SubscribersOf(t.sock) : \E x \in tasks : x.sock = t.sock /\ x.id = u.id
        <5>1. SocketOK(s) BY <1>10, <3>4
        <5>2. \A u \in SubscribersOf(s) : u \in subscribers BY DEF SubscribersOf
        <5>3. TasksOf(s) = {} => SubscribersOf(s) = {} BY <2>7, <5>1, <5>2 DEF SocketOK, Live
        <5> QED BY <2>3, <5>1, <5>3 DEF SocketOK, TasksOf
      <4>3. SocketOK(t.sock)' /\ (t.next \cap Unsupported = {} => ListNow(t.sock)' = t.next)
        BY <2>3, <2>5, <3>1, <4>1, <4>2, ResumeServes
      <4> QED BY <2>3, <4>3
    <3>8. s \notin tally'.overlapped \cup tally'.rejected => ListNow(s)' = Applied(ListNow(s), m)
      BY <1>7, <2>3, <3>4, <3>6, <3>7
    <3> QED BY <1>1, <1>2, <1>5, <1>6, <1>8, <2>3, <3>4, <3>5, <3>6, <3>7, <3>8, OneSocket
  <2> QED BY <2>6, <2>7
<1> QED BY <1>3, <1>4, <1>11, <1>12 DEF Receive

LEMMA DisconnectStep ==
  ASSUME GatewayInv, NEW s \in Sockets, Disconnect(s)
  PROVE  GatewayInv'
<1>1. /\ TypeOK /\ IdInv /\ wire[s] # <<>> /\ Head(wire[s]) = Close
      /\ wire' = [wire EXCEPT ![s] = <<>>] /\ mounted' = mounted /\ page' = page
      /\ tally' = [tally EXCEPT !.overlapped = Overlaps(s, {})]
  BY DEF GatewayInv, Disconnect
<1>2. /\ s <= tally.sockets /\ wire \in [Sockets -> Seq(Command \cup {Close})]
      /\ wire[s] \notin Seq(Command)
  BY <1>1, CommandRead
<1>3. <<>> \in Seq(Command \cup {Close}) OBVIOUS
<1>4. /\ wire' \in [Sockets -> Seq(Command \cup {Close})]
      /\ \A x \in Sockets : x # s => wire'[x] = wire[x]
  BY <1>1, <1>2, <1>3
<1>5. /\ tally.overlapped \subseteq Overlaps(s, {}) /\ Overlaps(s, {}) \in SUBSET Sockets
      /\ s \notin Overlaps(s, {}) => s \notin tally.overlapped
  BY <1>1, OverlapsTypes
<1>6. tally \in [changes : 0 .. MaxChanges, sockets : 0 .. MaxSockets,
                 overlapped : SUBSET Sockets, rejected : SUBSET Sockets]
  BY <1>1 DEF TypeOK
<1>7. /\ tally'.overlapped = Overlaps(s, {}) /\ tally'.rejected = tally.rejected
      /\ tally'.sockets = tally.sockets
      /\ tally' \in [changes : 0 .. MaxChanges, sockets : 0 .. MaxSockets,
                     overlapped : SUBSET Sockets, rejected : SUBSET Sockets]
  BY <1>1, <1>5, <1>6
<1>8. s \notin tally'.overlapped => SocketOK(s) BY <1>5, <1>7 DEF GatewayInv, SocketInv
<1>9. server \in [Sockets -> [open : BOOLEAN, list : SUBSET Keys, unsub : Nat]]
  BY <1>1 DEF TypeOK
<1>10. CASE Live(server[s].unsub)
  <2>1. /\ subscribers' = Without(server[s].unsub) /\ chain' = Append(chain, NewId)
        /\ tasks' = tasks \cup {[id |-> NewId, sock |-> s, next |-> {}, step |-> "closing"]}
        /\ server' = [server EXCEPT ![s].open = FALSE]
    BY <1>10 DEF Disconnect, Closed
  <2>2. PICK t : t = [id |-> NewId, sock |-> s, next |-> {}, step |-> "closing"] OBVIOUS
  <2>3. /\ NewId \in Nat /\ NewId # 0
        /\ \A x \in tasks : x.id # NewId
        /\ \A u \in subscribers : u.id # NewId
        /\ \A x \in Sockets : server[x].unsub # NewId
    BY <1>1, NewIdIsNew DEF IdInv
  <2>4. /\ t \in Tasks /\ t.id # 0 /\ t.sock = s /\ t.next = {} /\ t.step = "closing"
        /\ \A x \in tasks : x.id # t.id
        /\ \A u \in subscribers : u.id # t.id
        /\ \A x \in Sockets : server[x].unsub # t.id
    BY <2>2, <2>3 DEF Tasks
  <2>5. /\ server' \in [Sockets -> [open : BOOLEAN, list : SUBSET Keys, unsub : Nat]]
        /\ \A x \in Sockets : server'[x].list = server[x].list /\ server'[x].unsub = server[x].unsub
        /\ \A x \in Sockets : x # s => server'[x] = server[x]
    BY <1>9, <2>1
  <2>6. /\ IdInv'
        /\ \A x \in Sockets : x # s => TasksOf(x)' = TasksOf(x) /\ SubscribersOf(x)' = SubscribersOf(x)
        /\ (s \notin tally.overlapped /\ Live(server[s].unsub)) => TasksOf(s) = {}
        /\ (s \notin tally.overlapped /\ TasksOf(s) = {}) => SocketOK(s)' /\ ListNow(s)' = t.next
    <3>1. tasks' = tasks \cup {t} BY <2>1, <2>2
    <3>2. t.step = "leaving" \/ (t.step = "closing" /\ t.next = {}) BY <2>4
    <3>3. \A x \in Sockets : server'[x].list = server[x].list /\ server'[x].unsub = server[x].unsub
      BY <2>5
    <3>4. subscribers' = Without(server[s].unsub) BY <2>1
    <3>5. /\ t \in Tasks /\ t.id # 0 /\ t.sock = s
          /\ \A x \in tasks : x.id # t.id
          /\ \A u \in subscribers : u.id # t.id
          /\ \A x \in Sockets : server[x].unsub # t.id
      BY <2>4
    <3> QED BY <3>1, <3>2, <3>3, <3>4, <3>5, GiveBackKeeps
  <2>7. TypeOK'
    <3>1. NewId \in Nat /\ chain \in Seq(Nat) BY <1>1, <2>3 DEF TypeOK
    <3>2. chain' \in Seq(Nat) BY <2>1, <3>1
    <3>3. tasks' \subseteq Tasks BY <1>1, <2>1, <2>2, <2>4 DEF TypeOK
    <3>4. subscribers' \subseteq [id : Nat, sock : Sockets, keys : SUBSET Keys]
      BY <1>1, <2>1 DEF TypeOK, Without
    <3> QED BY <1>1, <1>4, <1>7, <2>5, <3>2, <3>3, <3>4 DEF TypeOK
  <2>8. s \notin tally'.overlapped => SocketOK(s)' BY <1>5, <1>7, <1>10, <2>6
  <2> QED BY <1>1, <1>2, <1>4, <1>5, <1>7, <2>5, <2>6, <2>7, <2>8, OneSocket
<1>11. CASE ~Live(server[s].unsub)
  <2>1. /\ server' = [server EXCEPT ![s] = [open |-> FALSE, list |-> {}, unsub |-> 0]]
        /\ subscribers' = subscribers /\ chain' = chain /\ tasks' = tasks
    BY <1>11 DEF Disconnect, Closed
  <2>2. /\ server' \in [Sockets -> [open : BOOLEAN, list : SUBSET Keys, unsub : Nat]]
        /\ server'[s].list = {} /\ server'[s].unsub = 0
        /\ \A x \in Sockets : x # s => server'[x] = server[x]
    BY <1>9, <2>1
  <2>3. \A x \in Sockets : TasksOf(x)' = TasksOf(x) /\ SubscribersOf(x)' = SubscribersOf(x)
    BY <2>1 DEF TasksOf, SubscribersOf
  <2>4. TypeOK' BY <1>1, <1>4, <1>7, <2>1, <2>2 DEF TypeOK
  <2>5. \A x \in Sockets : server'[x].unsub = server[x].unsub \/ server'[x].unsub = 0 BY <2>2
  <2>6. IdInv'
    <3>1. \A t \in tasks, x \in Sockets : server'[x].unsub # t.id BY <1>1, <2>5 DEF IdInv
    <3>2. \A u \in subscribers, x \in Sockets : server'[x].unsub = u.id => u.sock = x
      BY <1>1, <2>5 DEF IdInv
    <3> QED BY <1>1, <2>1, <3>1, <3>2 DEF IdInv
  <2>7. s \notin tally'.overlapped => SocketOK(s)'
    <3>1. \A u \in SubscribersOf(s) : u.id # server[s].unsub BY <1>11 DEF Live, SubscribersOf
    <3>2. UNION {u.keys : u \in {}} = {} OBVIOUS
    <3>3. SocketOK(s) => SocketOK(s)' BY <2>2, <2>3, <3>1, <3>2 DEF SocketOK
    <3> QED BY <1>8, <3>3
  <2> QED BY <1>1, <1>2, <1>4, <1>5, <1>7, <2>2, <2>3, <2>4, <2>6, <2>7, OneSocket
<1> QED BY <1>10, <1>11

\* The last reconciliation of a handler ends: it leaves its socket with the
\* list it has subscribed to, or without one.
LEMMA TaskEnds ==
  ASSUME GatewayInv, NEW t \in tasks, t.step \in {"joining", "closing"}, tasks' = tasks \ {t},
         NEW unsub, unsub = IF t.step = "joining" THEN t.id ELSE 0,
         server' = [server EXCEPT ![t.sock].unsub = unsub, ![t.sock].list = t.next],
         chain' \in Seq(Nat), UNCHANGED <<mounted, page, wire, subscribers, tally>>
  PROVE  GatewayInv'
<1>1. /\ TypeOK /\ IdInv /\ t \in Tasks BY DEF GatewayInv, TypeOK
<1>2. PICK s \in Sockets : s = t.sock BY <1>1 DEF Tasks
<1>3. unsub \in Nat /\ t.id \in Nat /\ t.id # 0 /\ t.next \in SUBSET Keys
      /\ (t.step = "closing" => t.next = {})
  BY <1>1 DEF Tasks, IdInv
<1>4. server \in [Sockets -> [open : BOOLEAN, list : SUBSET Keys, unsub : Nat]] BY <1>1 DEF TypeOK
<1>5. /\ server' \in [Sockets -> [open : BOOLEAN, list : SUBSET Keys, unsub : Nat]]
      /\ server'[s].list = t.next /\ server'[s].unsub = unsub
      /\ \A x \in Sockets : x # s => server'[x] = server[x]
  BY <1>2, <1>3, <1>4
<1>6. TypeOK' BY <1>1, <1>5 DEF TypeOK
<1>7. \A x \in Sockets : x # s => TasksOf(x)' = TasksOf(x) /\ SubscribersOf(x)' = SubscribersOf(x)
  BY <1>2 DEF TasksOf, SubscribersOf
<1>8. TasksOf(s)' = TasksOf(s) \ {t} /\ SubscribersOf(s)' = SubscribersOf(s) BY DEF TasksOf, SubscribersOf
<1>9. \A x \in tasks' : x \in tasks /\ x.id # t.id BY <1>1 DEF IdInv
<1>10. PICK mine : mine = [id |-> t.id, sock |-> t.sock, keys |-> t.next] OBVIOUS
<1>11. /\ mine.id = t.id /\ mine.sock = s /\ mine.keys = t.next
       /\ t.step = "joining" => mine \in subscribers /\ t.next # {}
  BY <1>1, <1>2, <1>10 DEF IdInv
<1>12. \A u \in subscribers : u.id = t.id => t.step = "joining" /\ u = mine
  <2>1. \A u \in subscribers : u.id = t.id => t.step = "joining" BY <1>1 DEF IdInv
  <2>2. \A u \in subscribers : \A v \in subscribers : v.id = u.id => v = u BY <1>1 DEF IdInv
  <2> QED BY <1>11, <2>1, <2>2
<1>13. IdInv'
  <2>1. IsFiniteSet(tasks') /\ IsFiniteSet(subscribers') BY <1>1, FS_RemoveElement DEF IdInv
  <2>2. \A x \in tasks' : x.id # 0 /\ \A y \in tasks' : y.id = x.id => y = x BY <1>1 DEF IdInv
  <2>3. \A v \in subscribers' : v.id # 0 /\ \A w \in subscribers' : w.id = v.id => w = v BY <1>1 DEF IdInv
  <2>4. ASSUME NEW x \in tasks'
        PROVE  /\ \A z \in Sockets : server'[z].unsub # x.id
               /\ \A v \in subscribers' : v.id = x.id => x.step = "joining"
               /\ x.step = "joining" => /\ x.next # {}
                                        /\ [id |-> x.id, sock |-> x.sock, keys |-> x.next] \in subscribers'
               /\ x.step = "closing" => x.next = {}
    <3>1. \A z \in Sockets : server[z].unsub # x.id BY <1>1 DEF IdInv
    <3>2. x.id # unsub BY <1>9, <2>2
    <3>3. \A z \in Sockets : server'[z].unsub # x.id BY <1>5, <3>1, <3>2
    <3> QED BY <1>1, <3>3 DEF IdInv
  <2>5. ASSUME NEW v \in subscribers', NEW z \in Sockets, server'[z].unsub = v.id PROVE v.sock = z
    <3>1. CASE z # s
      <4>1. server[z].unsub = v.id BY <1>5, <2>5, <3>1
      <4> QED BY <1>1, <4>1 DEF IdInv
    <3>2. CASE z = s
      <4>1. v.id # 0 BY <2>3
      <4>2. v.id = t.id BY <1>5, <2>5, <3>2, <4>1
      <4> QED BY <1>11, <1>12, <3>2, <4>2
    <3> QED BY <3>1, <3>2
  <2> QED BY <2>1, <2>2, <2>3, <2>4, <2>5 DEF IdInv
<1>14. ASSUME s \notin tally.overlapped PROVE SocketOK(s)' /\ ListNow(s)' = ListNow(s)
  <2>1. /\ \A x \in TasksOf(s) : x.next # {} => TasksOf(s) = {x}
        /\ \A u \in SubscribersOf(s) : \E x \in TasksOf(s) : x.id = u.id
        /\ t \in TasksOf(s)
    BY <1>2, <1>14 DEF GatewayInv, SocketInv, SocketOK, TasksOf
  <2>2. \A x \in TasksOf(s) : x \in tasks /\ (x.id = t.id => x = t) BY <1>1 DEF TasksOf, IdInv
  <2>3. CASE t.step = "joining"
    <3>1. TasksOf(s) = {t} BY <1>11, <2>1, <2>3
    <3>2. SubscribersOf(s) = {mine}
      <4>1. mine \in SubscribersOf(s) BY <1>11, <2>3 DEF SubscribersOf
      <4>2. \A u \in SubscribersOf(s) : u = mine BY <1>12, <2>1, <3>1 DEF SubscribersOf
      <4> QED BY <4>1, <4>2
    <3>3. TasksOf(s)' = {} BY <1>8, <3>1
    <3>4. UNION {u.keys : u \in {mine}} = t.next BY <1>11
    <3>5. SocketOK(s)' BY <1>5, <1>8, <1>11, <2>3, <3>2, <3>3, <3>4 DEF SocketOK
    <3>6. UNION {x.next : x \in {t}} = t.next OBVIOUS
    <3>7. ListNow(s) = t.next BY <3>1, <3>6 DEF ListNow
    <3>8. ListNow(s)' = t.next BY <1>5, <3>3 DEF ListNow
    <3> QED BY <3>5, <3>7, <3>8
  <2>4. CASE t.step = "closing"
    <3>1. t.next = {} BY <1>3, <2>4
    <3>2. \A x \in TasksOf(s) : x.next = {} BY <2>1, <3>1
    <3>3. \A u \in SubscribersOf(s) : \E x \in TasksOf(s) \ {t} : x.id = u.id
      BY <1>12, <2>1, <2>4 DEF SubscribersOf
    <3>4. TasksOf(s) \ {t} = {} => SubscribersOf(s) = {} BY <3>3
    <3>5. UNION {u.keys : u \in {}} = {} OBVIOUS
    <3>6. SocketOK(s)' BY <1>5, <1>8, <3>1, <3>2, <3>3, <3>4, <3>5 DEF SocketOK
    <3>7. UNION {x.next : x \in TasksOf(s)} = {} /\ UNION {x.next : x \in TasksOf(s) \ {t}} = {} BY <3>2
    <3>8. ListNow(s) = {} BY <2>1, <3>7 DEF ListNow
    <3>9. ListNow(s)' = {} BY <1>5, <1>8, <3>1, <3>7 DEF ListNow
    <3> QED BY <3>6, <3>8, <3>9
  <2> QED BY <2>3, <2>4
<1>15. s <= tally.sockets
  <2>1. tally.sockets \in Nat BY <1>1 DEF TypeOK
  <2>2. TasksOf(s) # {} BY <1>2 DEF TasksOf
  <2>3. ~(s > tally.sockets) BY <2>2 DEF GatewayInv, FreshInv
  <2> QED BY <2>1, <2>3 DEF Sockets
<1>16. wire' = wire /\ tally' = tally /\ mounted' = mounted /\ page' = page OBVIOUS
<1> QED BY <1>5, <1>6, <1>7, <1>13, <1>14, <1>15, <1>16, OneSocket

LEMMA ReconciledStep ==
  ASSUME GatewayInv, Reconciled
  PROVE  GatewayInv'
<1>1. /\ TypeOK /\ IdInv /\ chain # <<>> /\ chain \in Seq(Nat)
      /\ mounted' = mounted /\ page' = page /\ wire' = wire
  BY DEF GatewayInv, TypeOK, Reconciled
<1>2. PICK t \in tasks :
       /\ t.id = Head(chain)
       /\ CASE t.step = "leaving" -> Resume(t, tasks \ {t}, Tail(chain), subscribers, tally.overlapped)
            [] t.step = "joining" ->
                 /\ server' = [server EXCEPT ![t.sock].unsub = t.id, ![t.sock].list = JoinedList(t)]
                 /\ tasks' = tasks \ {t} /\ chain' = Tail(chain)
                 /\ UNCHANGED <<subscribers, tally>>
            [] t.step = "closing" ->
                 /\ server' = [server EXCEPT ![t.sock].unsub = 0, ![t.sock].list = {}]
                 /\ tasks' = tasks \ {t} /\ chain' = Tail(chain)
                 /\ UNCHANGED <<subscribers, tally>>
  BY DEF Reconciled
<1>3. t \in Tasks /\ t.step \in {"leaving", "joining", "closing"} /\ t.id # 0
      /\ (t.step = "closing" => t.next = {})
  BY <1>1 DEF TypeOK, Tasks, IdInv
<1>4. PICK queue \in Seq(Nat) : queue = Tail(chain)
  <2>1. chain \in Seq(Nat) /\ chain # <<>> BY <1>1
  <2>2. Tail(chain) \in Seq(Nat) BY <2>1
  <2> QED BY <2>2
<1>5. CASE t.step = "joining"
  <2>1. /\ server' = [server EXCEPT ![t.sock].unsub = t.id, ![t.sock].list = t.next]
        /\ tasks' = tasks \ {t} /\ chain' = queue /\ UNCHANGED <<subscribers, tally>>
    BY <1>2, <1>4, <1>5 DEF JoinedList
  <2> QED BY <1>1, <1>5, <2>1, TaskEnds
<1>6. CASE t.step = "closing"
  <2>1. /\ server' = [server EXCEPT ![t.sock].unsub = 0, ![t.sock].list = t.next]
        /\ tasks' = tasks \ {t} /\ chain' = queue /\ UNCHANGED <<subscribers, tally>>
    BY <1>2, <1>3, <1>4, <1>6
  <2> QED BY <1>1, <1>6, <2>1, TaskEnds
<1>7. CASE t.step = "leaving"
  <2>1. Resume(t, tasks \ {t}, Tail(chain), subscribers, tally.overlapped) BY <1>2, <1>7
  <2>2. PICK others : others = tasks \ {t} OBVIOUS
  <2>3. PICK over \in SUBSET Sockets : over = tally.overlapped BY <1>1 DEF TypeOK
  <2>4. Resume(t, others, queue, subscribers, over) BY <1>4, <2>1, <2>2, <2>3
  <2>5. others \subseteq tasks /\ tasks \subseteq others \cup {t} /\ t \notin others BY <2>2
  <2>6. /\ \A x \in tasks : x.id = t.id => x = t
        /\ \A u \in subscribers : u.id # t.id
        /\ \A x \in Sockets : server[x].unsub # t.id
    BY <1>1, <1>7 DEF IdInv
  <2>7. wire' \in [Sockets -> Seq(Command \cup {Close})] BY <1>1 DEF TypeOK
  <2>8. /\ TypeOK' /\ IdInv'
        /\ \A x \in Sockets : x # t.sock =>
             server'[x] = server[x] /\ TasksOf(x)' = TasksOf(x) /\ SubscribersOf(x)' = SubscribersOf(x)
    BY <1>1, <1>3, <1>7, <2>4, <2>5, <2>6, <2>7, ResumeKeeps
  <2>9. PICK s \in Sockets : s = t.sock BY <1>3 DEF Tasks
  <2>10. /\ tally'.overlapped = over /\ tally'.sockets = tally.sockets
         /\ tally.rejected \subseteq tally'.rejected
         /\ t.next \cap Unsupported # {} => s \in tally'.rejected
    BY <1>1, <1>3, <2>4, <2>9, ResumeCases DEF Resumed
  <2>11. t \in TasksOf(s) BY <2>9 DEF TasksOf
  <2>12. ASSUME s \notin over
         PROVE  SocketOK(s)' /\ (t.next \cap Unsupported = {} => ListNow(s)' = t.next) /\ ListNow(s) = t.next
    <3>1. SocketOK(s) BY <2>3, <2>12 DEF GatewayInv, SocketInv
    <3>2. \A x \in TasksOf(s) : x.next # {} => TasksOf(s) = {x} BY <3>1 DEF SocketOK
    <3>3. \A x \in others : x.sock = t.sock => x.next = {} /\ t.next = {}
      <4> SUFFICES ASSUME NEW x \in others, x.sock = s PROVE x.next = {} /\ t.next = {} BY <2>9
      <4>1. x \in TasksOf(s) /\ x # t BY <2>2 DEF TasksOf
      <4> QED BY <2>11, <3>2, <4>1
    <3>4. \A u \in SubscribersOf(t.sock) : \E x \in others : x.sock = t.sock /\ x.id = u.id
      <4> SUFFICES ASSUME NEW u \in SubscribersOf(s) PROVE \E x \in others : x.sock = s /\ x.id = u.id
        BY <2>9
      <4>1. PICK x \in TasksOf(s) : x.id = u.id BY <2>11, <3>1 DEF SocketOK
      <4>2. u.id # t.id BY <2>6 DEF SubscribersOf
      <4>3. x \in tasks /\ x.sock = s /\ x # t BY <4>1, <4>2 DEF TasksOf
      <4> QED BY <2>2, <4>1, <4>3
    <3>5. SocketOK(t.sock)' /\ (t.next \cap Unsupported = {} => ListNow(t.sock)' = t.next)
      BY <1>3, <2>4, <2>5, <3>3, <3>4, ResumeServes
    <3>6. ListNow(s) = t.next
      <4>1. CASE t.next # {}
        <5>1. TasksOf(s) = {t} BY <2>11, <3>2, <4>1
        <5>2. UNION {x.next : x \in {t}} = t.next OBVIOUS
        <5> QED BY <5>1, <5>2 DEF ListNow
      <4>2. CASE t.next = {}
        <5>1. \A x \in TasksOf(s) : x.next = {} BY <2>11, <3>2, <4>2
        <5>2. UNION {x.next : x \in TasksOf(s)} = {} BY <5>1
        <5> QED BY <2>11, <4>2, <5>2 DEF ListNow
      <4> QED BY <4>1, <4>2
    <3> QED BY <2>9, <3>5, <3>6
  <2>13. s <= tally.sockets
    <3>1. tally.sockets \in Nat BY <1>1 DEF TypeOK
    <3>2. ~(s > tally.sockets) BY <2>11 DEF GatewayInv, FreshInv
    <3> QED BY <3>1, <3>2 DEF Sockets
  <2>14. /\ s \notin tally'.overlapped => SocketOK(s)'
         /\ s \notin tally'.overlapped \cup tally'.rejected => ListNow(s)' = ListNow(s)
    BY <2>10, <2>12
  <2>15. \A x \in Sockets : x # s => /\ wire'[x] = wire[x] /\ server'[x] = server[x]
                                     /\ TasksOf(x)' = TasksOf(x) /\ SubscribersOf(x)' = SubscribersOf(x)
    BY <1>1, <2>8, <2>9
  <2> QED BY <1>1, <2>3, <2>8, <2>10, <2>13, <2>14, <2>15, OneSocket
<1> QED BY <1>3, <1>5, <1>6, <1>7

-----------------------------------------------------------------------------
(* The invariant                                                           *)

LEMMA GatewayInitially == Init => GatewayInv
<1> SUFFICES ASSUME Init PROVE GatewayInv OBVIOUS
<1> USE GatewayBoundsAreNatural
<1>1. <<>> \in Seq(Command) /\ <<>> \in Seq(Command \cup {Close}) /\ <<>> \in Seq(Nat) /\ Len(<<>>) = 0
  OBVIOUS
<1>2. 0 \in 0 .. MaxSockets /\ 0 \in 0 .. MaxChanges OBVIOUS
<1>3. /\ page.link = "none" /\ page.keys = {} /\ page.buffered = <<>>
      /\ page \in [link : Links, sock : 0 .. MaxSockets, keys : SUBSET Keys, buffered : Seq(Command)]
  BY <1>1, <1>2 DEF Init, NoPage, Links
<1>4. /\ server \in [Sockets -> [open : BOOLEAN, list : SUBSET Keys, unsub : Nat]]
      /\ wire \in [Sockets -> Seq(Command \cup {Close})]
      /\ \A s \in Sockets : server[s].list = {} /\ server[s].unsub = 0 /\ wire[s] = <<>>
  BY <1>1 DEF Init
<1>5. /\ tally \in [changes : 0 .. MaxChanges, sockets : 0 .. MaxSockets,
                    overlapped : SUBSET Sockets, rejected : SUBSET Sockets]
  BY <1>2 DEF Init
<1>6. TypeOK BY <1>1, <1>3, <1>4, <1>5 DEF TypeOK, Init
<1>7. tasks = {} /\ subscribers = {} /\ mounted = {} BY DEF Init
<1>8. PageInv
  <2>1. KeysOf(mounted) = {} BY <1>7 DEF KeysOf
  <2>2. \A i \in 1 .. Len(page.buffered) : page.buffered[i].action = "UNSUBSCRIBE" BY <1>1, <1>3
  <2> QED BY <1>3, <1>7, <2>1, <2>2 DEF PageInv
<1>9. \A s \in Sockets : TasksOf(s) = {} /\ SubscribersOf(s) = {} BY <1>7 DEF TasksOf, SubscribersOf
<1>10. FreshInv BY <1>4, <1>9 DEF FreshInv
<1>11. IdInv BY <1>7, FS_EmptySet DEF IdInv
<1>12. SocketInv
  <2>1. UNION {u.keys : u \in {}} = {} OBVIOUS
  <2> QED BY <1>4, <1>9, <2>1 DEF SocketInv, SocketOK
<1>13. WireInv BY <1>3 DEF WireInv
<1> QED BY <1>6, <1>8, <1>10, <1>11, <1>12, <1>13 DEF GatewayInv

LEMMA GatewayStutters ==
  ASSUME GatewayInv, UNCHANGED gatewayVars
  PROVE  GatewayInv'
<1> USE DEF GatewayInv, gatewayVars
<1>1. TypeOK' BY DEF TypeOK
<1>2. PageInv' BY DEF PageInv
<1>3. FreshInv' BY DEF FreshInv, TasksOf, SubscribersOf
<1>4. IdInv' BY DEF IdInv
<1>5. SocketInv' BY DEF SocketInv, SocketOK, TasksOf, SubscribersOf
<1>6. WireInv' BY DEF WireInv, Spoilt, ListNow, TasksOf
<1> QED BY <1>1, <1>2, <1>3, <1>4, <1>5, <1>6

LEMMA GatewayInductive ==
  ASSUME GatewayInv, [Next]_gatewayVars
  PROVE  GatewayInv'
<1>1. CASE \E c \in Charts : Mount(c) BY <1>1, MountStep
<1>2. CASE \E c \in Charts : Unmount(c) BY <1>2, UnmountStep
<1>3. CASE Logout BY <1>3, LogoutStep
<1>4. CASE Connect BY <1>4, ConnectStep
<1>5. CASE Lose BY <1>5, LoseStep
<1>6. CASE GiveUp BY <1>6, GiveUpStep
<1>7. CASE \E s \in Sockets : Receive(s) BY <1>7, ReceiveStep
<1>8. CASE \E s \in Sockets : Disconnect(s) BY <1>8, DisconnectStep
<1>9. CASE Reconciled BY <1>9, ReconciledStep
<1>10. CASE UNCHANGED gatewayVars BY <1>10, GatewayStutters
<1> QED BY <1>1, <1>2, <1>3, <1>4, <1>5, <1>6, <1>7, <1>8, <1>9, <1>10 DEF Next

LEMMA GatewayIsSafe ==
  ASSUME GatewayInv
  PROVE  SubscribersServeCharts
<1>1. TypeOK BY DEF GatewayInv
<1>2. NoStrandedSubscriber
  <2> SUFFICES ASSUME NEW u \in subscribers, u.sock \notin tally.overlapped
               PROVE  \/ \E t \in TasksOf(u.sock) : t.step = "joining" /\ t.id = u.id
                      \/ server[u.sock].unsub = u.id
    BY DEF NoStrandedSubscriber, Owned
  <2>1. u.sock \in Sockets /\ u \in SubscribersOf(u.sock) BY <1>1 DEF TypeOK, SubscribersOf
  <2>2. SocketOK(u.sock) BY <2>1 DEF GatewayInv, SocketInv
  <2>3. CASE TasksOf(u.sock) = {} BY <2>1, <2>2, <2>3 DEF SocketOK
  <2>4. CASE TasksOf(u.sock) # {}
    <3>1. PICK t \in TasksOf(u.sock) : t.id = u.id BY <2>1, <2>2, <2>4 DEF SocketOK
    <3>2. t.step = "joining" BY <3>1 DEF GatewayInv, IdInv, TasksOf
    <3> QED BY <3>1, <3>2
  <2> QED BY <2>3, <2>4
<1>3. ListMatchesSubscriber BY DEF GatewayInv, SocketInv, SocketOK, ListMatchesSubscriber
<1>4. SettledServesCharts
  <2> SUFFICES ASSUME page.link = "up", Settled(page.sock), ~Spoilt(page.sock)
               PROVE  server[page.sock].list = KeysOf(mounted)
    BY DEF SettledServesCharts
  <2>1. page.sock \in Sockets /\ page.keys = KeysOf(mounted) BY DEF GatewayInv, PageInv, TypeOK, Sockets
  <2>2. After(ListNow(page.sock), wire[page.sock]) = page.keys BY DEF GatewayInv, WireInv
  <2>3. wire[page.sock] = <<>> /\ ListNow(page.sock) = server[page.sock].list BY DEF Settled, ListNow
  <2>4. server[page.sock].list \subseteq Keys BY <1>1, <2>1, ServerTypes
  <2>5. After(server[page.sock].list, <<>>) = server[page.sock].list BY <2>4, AfterNothing
  <2> QED BY <2>1, <2>2, <2>3, <2>5
<1> QED BY <1>1, <1>2, <1>3, <1>4 DEF SubscribersServeCharts

\* Whatever charts open and close, and however often the connection is lost
\* and replaced: the subscribers in Market Data are those the sockets own, a
\* settled socket has the list its subscriber receives, and the socket of a
\* page without overlaps and rejections comes to serve the charts it shows
\* (marketSocket, command, handleDisconnect).
THEOREM SubscribersAlwaysServe == Spec => []SubscribersServeCharts
<1>1. Init => GatewayInv BY GatewayInitially
<1>2. GatewayInv /\ [Next]_gatewayVars => GatewayInv' BY GatewayInductive
<1>3. GatewayInv => SubscribersServeCharts BY GatewayIsSafe
<1> QED BY <1>1, <1>2, <1>3, PTL DEF Spec
=============================================================================
