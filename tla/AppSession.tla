------------------------------ MODULE AppSession ------------------------------
(***************************************************************************)
(* Accounts (the auth module) and the session of a browser page (api.ts,   *)
(* query.ts, main.tsx): registering and logging in, requests that carry    *)
(* the token of the time they were made, and what a new or lost token      *)
(* clears.  The page and another visitor compete for the accounts.         *)
(***************************************************************************)
EXTENDS Integers, FiniteSets, TLC

CONSTANTS
  Emails,       \* addresses to register
  AppScreens,   \* screens of the application, "market" among them
  MaxTokens,    \* bound: tokens issued to the page
  MaxFlights    \* bound: requests in flight

ASSUME SessionAssumption ==
  "market" \in AppScreens /\ MaxTokens \in Nat /\ MaxFlights \in Nat

VARIABLES
  accounts,   \* who registered an address: page, other or none
  inserting,  \* registrations that found the address free
  created,       \* registrations that stored an account
  tokens,     \* addresses of the tokens issued, and the tokens that expired
  token,      \* token of the page, 0 without one; the browser keeps it
  app,        \* what the page shows: application, screen, the accounts of the data
              \* in its query cache, token of its socket
  login,       \* the request of the login form: its step and its address
  flights     \* requests of the application that are not answered

sessionVars == <<accounts, inserting, created, tokens, token, app, login, flights>>

Visitors == {"page", "other"}
IdleForm == [step |-> "idle", email |-> "", register |-> FALSE]
SignedOut == [in |-> FALSE, screen |-> "market", data |-> {}, socket |-> 0]
Issued == Cardinality(DOMAIN tokens.of)

SessionInit ==
  /\ accounts \in [Emails -> {"none", "page"}] /\ inserting = {}
  /\ created = {<<"page", e>> : e \in {x \in Emails : accounts[x] = "page"}}
  /\ tokens = [of |-> <<>>, expired |-> {}] /\ token = 0
  /\ app = SignedOut /\ login = IdleForm /\ flights = {}

-----------------------------------------------------------------------------
(* Accounts                                                                *)

\* register, up to the hash: an address that is taken is refused.
Registers(who, email) ==
  /\ accounts[email] = "none"
  /\ inserting' = inserting \cup {<<who, email>>}

\* insert: the address is unique, and a violation is reported as taken.
BugInserts(email) == TRUE
Inserts(email) == accounts[email] = "none"
Inserted(who, email) ==
  /\ <<who, email>> \in inserting
  /\ inserting' = inserting \ {<<who, email>>}
  /\ accounts' = IF Inserts(email) THEN [accounts EXCEPT ![email] = who] ELSE accounts
  /\ created' = IF Inserts(email) THEN created \cup {<<who, email>>} ELSE created

OtherVisitor == \E email \in Emails :
  /\ \/ Registers("other", email) /\ UNCHANGED <<accounts, created>>
     \/ Inserted("other", email)
  /\ UNCHANGED <<tokens, token, app, login, flights>>

\* A token is good for an hour.
Expire == \E t \in (DOMAIN tokens.of) \ tokens.expired :
  /\ tokens' = [tokens EXCEPT !.expired = @ \cup {t}]
  /\ UNCHANGED <<accounts, inserting, created, token, app, login, flights>>

-----------------------------------------------------------------------------
(* The session                                                             *)

\* clearAuthenticatedClientState and the listener of query.ts: the socket, the
\* query cache and the queries that would still add to it are dropped.  What the
\* strategy screen keeps in localStorage is not: it has one list for all accounts.
BugClearedState(a) == a
ClearedState(a) == [a EXCEPT !.data = {}, !.socket = 0]
Dropped(fs) == {[f EXCEPT !.wanted = FALSE] : f \in fs}

\* session.set and its listeners.  Without a token the route is reset and
\* the screens give way to the login form.
SetToken(t, old, new) ==
  /\ token' = t
  /\ app' = [ClearedState(app) EXCEPT !.in = t # 0, !.screen = IF t = 0 THEN "market" ELSE @]
  /\ flights' = Dropped(old) \cup new
Flight(kind, t) == [kind |-> kind, token |-> t, wanted |-> TRUE]

Login == \E email \in Emails, register \in BOOLEAN :
  /\ ~app.in /\ login.step = "idle" /\ Issued < MaxTokens
  /\ IF register /\ accounts[email] = "none"
     THEN Registers("page", email) /\ login' = [step |-> "registering", email |-> email, register |-> TRUE]
     ELSE /\ ~register
          /\ login' = [step |-> "login", email |-> email, register |-> FALSE] /\ UNCHANGED inserting
  /\ UNCHANGED <<accounts, created, tokens, token, app, flights>>

\* A registration that succeeded goes on to the login; one that failed, or
\* whose answer is lost, shows an error.
Registered ==
  /\ login.step = "registering"
  /\ Inserted("page", login.email)
  /\ login' \in {IdleForm} \cup (IF Inserts(login.email) THEN {[login EXCEPT !.step = "login"]} ELSE {})
  /\ UNCHANGED <<tokens, token, app, flights>>

\* The answer to /auth/login: a token, or 401, which ends a session there is
\* not.  The token shows the application before the /auth/me that api.login
\* asks for next is answered.
LoggedIn ==
  /\ login.step = "login" /\ login' = IdleForm
  /\ IF accounts[login.email] = "page"
     THEN /\ tokens' = [tokens EXCEPT !.of = @ @@ (Issued + 1 :> login.email)]
          /\ SetToken(Issued + 1, flights, {Flight("me", Issued + 1)})
     ELSE SetToken(0, flights, {}) /\ UNCHANGED tokens
  /\ UNCHANGED <<accounts, inserting, created>>

\* A query of a screen, or the /auth/me a loaded page asks for.
AskBackend ==
  /\ app.in /\ Cardinality(flights) < MaxFlights
  /\ flights' = flights \cup {Flight("query", token)}
  /\ UNCHANGED <<accounts, inserting, created, tokens, token, app, login>>

\* 401 ends the session of the page, whichever session asked.  The answer to
\* the /auth/me of a login opens the market screen, also when the user has
\* gone elsewhere; data is kept if its query still is.
Replied == \E f \in flights :
  /\ IF f.token \in tokens.expired
     THEN SetToken(0, flights \ {f}, {})
     ELSE /\ flights' = flights \ {f} /\ UNCHANGED token
          /\ app' = [app EXCEPT !.screen = IF f.kind = "me" THEN "market" ELSE @,
                                !.data = IF f.kind = "query" /\ f.wanted
                                         THEN @ \cup {tokens.of[f.token]} ELSE @]
  /\ UNCHANGED <<accounts, inserting, created, tokens, login>>
Unanswered == \E f \in flights :
  /\ flights' = flights \ {f}
  /\ UNCHANGED <<accounts, inserting, created, tokens, token, app, login>>

Logout ==
  /\ app.in /\ SetToken(0, flights, {})
  /\ UNCHANGED <<accounts, inserting, created, tokens, login>>

\* The page is loaded anew, with the token the browser keeps and the screen of
\* the address; not while a registration is on its way, a simplification.
LoadPage ==
  /\ app' = [SignedOut EXCEPT !.in = token # 0, !.screen = app.screen] /\ flights' = {} /\ login' = IdleForm
  /\ login.step # "registering"
  /\ UNCHANGED <<accounts, inserting, created, tokens, token>>

Navigate == \E s \in AppScreens \ {app.screen} :
  /\ app.in /\ app' = [app EXCEPT !.screen = s]
  /\ UNCHANGED <<accounts, inserting, created, tokens, token, login, flights>>

\* The charts of the market screen share a socket that carries the token.
OpenSocket ==
  /\ app.in /\ app.screen = "market" /\ app.socket = 0
  /\ app' = [app EXCEPT !.socket = token]
  /\ UNCHANGED <<accounts, inserting, created, tokens, token, login, flights>>

SessionNext ==
  \/ OtherVisitor \/ Expire \/ Login \/ Registered \/ LoggedIn
  \/ AskBackend \/ Replied \/ Unanswered \/ Logout \/ LoadPage \/ Navigate \/ OpenSocket

-----------------------------------------------------------------------------
(* What the session promises                                               *)

\* "Logout or any protected 401 clears authentication state, user-scoped
\* cache, polling, and subscriptions" (openspec/specs/frontend-spec.md), of the
\* query cache and the socket: through logins, losses and late answers, the
\* answers to queries the page holds are those to the session's account, and its
\* socket carries the session's token.  Drafts in localStorage are not covered.
DataIsOfSession ==
  /\ app.in = (token # 0)
  /\ app.data \subseteq (IF token = 0 THEN {} ELSE {tokens.of[token]})
  /\ app.socket \in {0, token}

\* Two registrations of an address never both succeed, and the one that did
\* keeps it.
AccountsAreKept ==
  \A e \in Emails : {w \in Visitors : <<w, e>> \in created} = {accounts[e]} \ {"none"}

SessionIsTrue == DataIsOfSession /\ AccountsAreKept
=============================================================================
