----------------------------- MODULE NewsIngestion -----------------------------
(***************************************************************************)
(* Collection of news: every call of collect goes through its sources one  *)
(* after another, extracts the articles of a website with the stored       *)
(* template of its domain, repairs a template that no longer extracts      *)
(* anything, and stores and analyses the articles one by one.  A user can  *)
(* meanwhile put another version of the template in force or ask for a     *)
(* repair.  A step of a call runs from one await to the next.              *)
(*                                                                         *)
(* One domain is modelled.  Whether selectors match a page is open: sites  *)
(* change, and models answer anything.  The text of an article is reduced  *)
(* to the kind of source it was read from.                                 *)
(***************************************************************************)
EXTENDS Naturals, FiniteSets

CONSTANTS
  Readers, Articles,
  Listed,        \* the articles that the sources of a kind list
  Invented,      \* articles that only a model's answer mentions
  MaxVersion,    \* bound: v1.0 .. v1.MaxVersion
  MaxRedirects,  \* crawler limit
  Few,           \* a page with fewer articles is scraped as well (5)
  MaxCalls       \* bound: calls of collect, applyTemplate and healTemplate

VARIABLES
  template,  \* news_extraction_templates of the domain, by version
  news,      \* news_items, by the hash of the URL, which is the primary key
  verdict,   \* sentiment_results, by news item: the text that was analysed
  proc,      \* the calls
  crossed,   \* whether two template operations ran at the same time
  torn       \* whether one stopped between its two statements

newsVars == <<template, news, verdict, proc, crossed, torn>>

Procs == 1 .. MaxCalls
Versions == 0 .. MaxVersion
\* The sources of a request, or an uploaded page, or else the configured provider.
SourceLists == ((SUBSET {"WEBSITE", "FEED"}) \ {{}}) \cup {{"UPLOAD"}, {"CRAWLER"}}
Kinds == UNION SourceLists
Operator == "operator"

ASSUME NewsBounds == /\ {MaxVersion, MaxRedirects, Few, MaxCalls} \subseteq Nat
                     /\ Invented \cap Articles = {}
                     /\ Listed \in [Kinds -> SUBSET Articles]
\* Where a call is: at one of these, or at the article it has stored last.
Labels == Kinds \cup {"idle", "next", "lookup", "generate", "repair", "deactivate", "store",
                      "activate", "scrape", "interpret", "persist", "done", "hung"}
ASSUME ArticlesAreNoLabels == Articles \cap Labels = {}

NoItem == [owner |-> "nobody", text |-> "none"]
IdleCall == [pc |-> "idle", user |-> Operator, sources |-> {}, kind |-> "none", auto |-> TRUE,
         version |-> 0, active |-> TRUE, repaired |-> FALSE, items |-> {}, owed |-> {}, hops |-> 0]

NewsInit ==
  /\ template = [v \in Versions |-> "absent"]
  /\ news = [a \in Articles \cup Invented |-> NoItem]
  /\ verdict = [a \in Articles \cup Invented |-> {}]
  /\ proc = [p \in Procs |-> IdleCall]
  /\ crossed = FALSE /\ torn = FALSE

-----------------------------------------------------------------------------
(* Operators                                                               *)

At(p, label) == proc[p].pc = label
Becomes(p, c) == proc' = [proc EXCEPT ![p] = c]
GoesTo(p, label) == Becomes(p, [proc[p] EXCEPT !.pc = label])
Over(c, label) == [IdleCall EXCEPT !.pc = label, !.owed = c.owed]
\* Calls are numbered in the order in which they start.
FirstIdle(p) == At(p, "idle") /\ \A q \in Procs : q < p => ~At(q, "idle")

InForce == {v \in Versions : template[v] = "active"}
\* findActiveByDomain takes the one created last; v1.n is created after v1.n-1.
Latest(versions) == CHOOSE v \in versions : \A w \in versions : w <= v

\* save and setActiveVersion first put the other versions out of force.
BugDeactivated(others) == template
Deactivated(others) ==
  [v \in Versions |-> IF v \in others /\ template[v] = "active" THEN "inactive" ELSE template[v]]

\* Another call has looked a template up to change it, or is changing it.
Changing(p) == proc[p].pc \in {"generate", "repair", "deactivate", "store", "activate"}
Cross(p) == crossed' = (crossed \/ \E q \in Procs \ {p} : Changing(q))

\* What validateNewsItem and the evidence of the page let through.
Supported(candidates) == candidates \cap Articles

MayRedirect(hops) == hops < MaxRedirects

\* ON CONFLICT (user_id, url) DO UPDATE; the primary key refuses the rest.
BugAccepts(row, user) == TRUE
Accepts(row, user) == row = NoItem \/ row.owner = user

\* ON CONFLICT DO NOTHING on the result of one article and model.
Judged(old, text) == IF old = {} THEN {text} ELSE old

\* The articles of a source go to the loop that persists them.  owed are the
\* articles that the call has found and whose insert did not fail.  autoHeal is
\* of no more use when no website is left.
Left(c, items) ==
  IF items = {} THEN [c EXCEPT !.pc = "next", !.items = {}, !.kind = "none"]
  ELSE [c EXCEPT !.pc = "persist", !.items = items]
Take(c, items) ==
  Left([c EXCEPT !.owed = @ \cup items, !.hops = 0, !.version = 0, !.active = TRUE,
                 !.repaired = FALSE, !.auto = @ \/ "WEBSITE" \notin c.sources], items)

\* A failed insert skips its article only.
Skip(c, a) == Left([c EXCEPT !.owed = @ \ {a}], c.items \ {a})

\* With enough articles a page is not scraped.
Scraping(c, items) ==
  IF Cardinality(items) >= Few THEN Take(c, items)
  ELSE [c EXCEPT !.pc = "scrape", !.items = items]

\* extractWithTemplate: every item it returns is valid, so that the defect rate
\* is 0% or, without items, 100%.  healTemplate always repairs.
Extract(c) ==
  {[c EXCEPT !.pc = "repair"]} \cup (IF c.user = Operator THEN {} ELSE {Scraping(c, Listed[c.kind])})

\* A failing save ends healTemplate; collect goes on to scrape the page.
Failed(c) == IF c.user = Operator THEN Over(c, "done") ELSE Scraping(c, c.items)

\* A generated template is used; a repaired one if repairs are applied.
AfterSave(c) ==
  IF ~c.repaired THEN Extract(c)
  ELSE IF c.user = Operator THEN {Over(c, "done")}
  ELSE {Scraping(c, S) : S \in {{}} \cup (IF c.auto THEN {Listed[c.kind]} ELSE {})}

-----------------------------------------------------------------------------
(* collect                                                                 *)

Collect(p, u, S, auto) ==
  /\ FirstIdle(p) /\ ("WEBSITE" \notin S => auto)
  /\ Becomes(p, [IdleCall EXCEPT !.pc = "next", !.user = u, !.sources = S, !.auto = auto])
  /\ UNCHANGED <<template, news, verdict, crossed, torn>>

\* The sources and the articles of one page are taken in a fixed order.
NextSource(p) ==
  /\ At(p, "next")
  /\ \/ /\ proc[p].sources # {}
        /\ LET s == CHOOSE k \in proc[p].sources : TRUE
           IN Becomes(p, [proc[p] EXCEPT !.pc = s, !.kind = s, !.sources = @ \ {s}])
     \/ proc[p].sources = {} /\ Becomes(p, Over(proc[p], "done"))
  /\ UNCHANGED <<template, news, verdict, crossed, torn>>

\* Neither the request of a page nor that of a feed has a timeout.
FetchPage(p) ==
  /\ At(p, "WEBSITE")
  /\ GoesTo(p, "lookup") \/ GoesTo(p, "next") \/ Becomes(p, Over(proc[p], "hung"))
  /\ UNCHANGED <<template, news, verdict, crossed, torn>>

FetchFeed(p) ==
  /\ At(p, "FEED")
  /\ \/ \E S \in SUBSET Listed["FEED"] : Becomes(p, Take(proc[p], S))
     \/ GoesTo(p, "next")
     \/ Becomes(p, Over(proc[p], "hung"))
  /\ UNCHANGED <<template, news, verdict, crossed, torn>>

\* parseHtmlContent gives one article or, of an empty page, none.
Upload(p) ==
  /\ At(p, "UPLOAD")
  /\ \E S \in {{}, Listed["UPLOAD"]} : Becomes(p, Take(proc[p], S))
  /\ UNCHANGED <<template, news, verdict, crossed, torn>>

\* fetchWithBounds: a redirect, a page, or a failure or timeout of the hop.
Crawl(p) ==
  /\ At(p, "CRAWLER")
  /\ \/ /\ MayRedirect(proc[p].hops)
        /\ Becomes(p, [proc[p] EXCEPT !.hops = @ + 1])
     \/ GoesTo(p, "interpret")
     \/ GoesTo(p, "next")
  /\ UNCHANGED <<template, news, verdict, crossed, torn>>

\* The interpreter answers with any candidates, or fails or times out.
Interpret(p) ==
  /\ At(p, "interpret")
  /\ \/ \E S \in SUBSET (Listed["CRAWLER"] \cup Invented) : Becomes(p, Take(proc[p], Supported(S)))
     \/ GoesTo(p, "next")
  /\ UNCHANGED <<template, news, verdict, crossed, torn>>

\* findActiveByDomain is outside of every try: its failure ends the call.
Lookup(p) ==
  /\ At(p, "lookup")
  /\ \/ InForce = {} /\ GoesTo(p, "generate")
     \/ /\ InForce # {}
        /\ \E c \in Extract([proc[p] EXCEPT !.version = Latest(InForce)]) : Becomes(p, c)
     \/ Becomes(p, Over(proc[p], "done"))
  /\ UNCHANGED <<template, news, verdict, crossed, torn>>

\* generateTemplate never throws: without an answer it takes the defaults.
GenerateTemplate(p) ==
  /\ At(p, "generate")
  /\ Becomes(p, [proc[p] EXCEPT !.pc = "deactivate", !.version = 0, !.active = TRUE])
  /\ UNCHANGED <<template, news, verdict, crossed, torn>>

\* Beyond the last version of the model the repair is taken to fail.
Repair(p) ==
  /\ At(p, "repair")
  /\ LET c == proc[p]
     IN Becomes(p, IF c.version = MaxVersion THEN Failed(c)
                ELSE [c EXCEPT !.pc = IF c.auto THEN "deactivate" ELSE "store", !.active = c.auto,
                               !.version = @ + 1, !.repaired = TRUE])
  /\ UNCHANGED <<template, news, verdict, crossed, torn>>

\* The first statement of save, for a version that is to be in force.
DeactivateOthers(p) ==
  /\ At(p, "deactivate")
  /\ \/ /\ template' = Deactivated(Versions \ {proc[p].version})
        /\ GoesTo(p, "store") /\ Cross(p)
     \/ Becomes(p, Failed(proc[p])) /\ UNCHANGED <<template, crossed>>
  /\ UNCHANGED <<news, verdict, torn>>

\* The second statement of save.
Store(p) ==
  /\ At(p, "store")
  /\ LET c == proc[p]
     IN \/ /\ template' = [template EXCEPT ![c.version] = IF c.active THEN "active" ELSE "inactive"]
           /\ \E d \in AfterSave(c) : Becomes(p, d)
           /\ UNCHANGED torn
        \/ Becomes(p, Failed(c)) /\ torn' = (torn \/ c.active) /\ UNCHANGED template
  /\ Cross(p)
  /\ UNCHANGED <<news, verdict>>

\* scrapeWebsiteArticles requests the page again and never throws.
Scrape(p) ==
  /\ At(p, "scrape")
  /\ \/ \E S \in {{}, Listed["WEBSITE"]} : Becomes(p, Take(proc[p], proc[p].items \cup S))
     \/ Becomes(p, Over(proc[p], "hung"))
  /\ UNCHANGED <<template, news, verdict, crossed, torn>>

\* persistAndAnalyze up to the answer of the insert.
Persist(p) ==
  /\ At(p, "persist")
  /\ LET c == proc[p]
         a == CHOOSE x \in c.items : TRUE
     IN \/ /\ Accepts(news[a], c.user)
           /\ news' = [news EXCEPT ![a] = [owner |-> c.user, text |-> c.kind]]
           /\ Becomes(p, [c EXCEPT !.pc = a])
        \/ /\ ~Accepts(news[a], c.user)
           /\ Becomes(p, Left(c, c.items \ {a})) /\ UNCHANGED news
        \/ Becomes(p, Skip(c, a)) /\ UNCHANGED news
  /\ UNCHANGED <<template, verdict, crossed, torn>>

\* The analysis of the row the insert returned; its failure is swallowed.
AnalyzeItem(p) ==
  \E a \in proc[p].items :
    /\ At(p, a)
    /\ \/ verdict' = [verdict EXCEPT ![a] = Judged(@, proc[p].kind)]
       \/ UNCHANGED verdict
    /\ Becomes(p, Left(proc[p], proc[p].items \ {a}))
    /\ UNCHANGED <<template, news, crossed, torn>>

-----------------------------------------------------------------------------
(* applyTemplate and healTemplate                                          *)

\* The first statement of setActiveVersion puts every version out of force.
Apply(p, v) ==
  /\ FirstIdle(p)
  /\ template' = Deactivated(Versions)
  /\ Becomes(p, [IdleCall EXCEPT !.pc = "activate", !.version = v])
  /\ Cross(p)
  /\ UNCHANGED <<news, verdict, torn>>

\* The second one finds the version, or not, or fails.
Activate(p) ==
  /\ At(p, "activate")
  /\ LET v == proc[p].version
     IN \/ /\ template[v] # "absent"
           /\ template' = [template EXCEPT ![v] = "active"] /\ UNCHANGED torn
        \/ torn' = TRUE /\ UNCHANGED template
  /\ Becomes(p, Over(proc[p], "done")) /\ Cross(p)
  /\ UNCHANGED <<news, verdict>>

Heal(p, auto) ==
  /\ FirstIdle(p)
  /\ Becomes(p, [IdleCall EXCEPT !.pc = "lookup", !.auto = auto])
  /\ UNCHANGED <<template, news, verdict, crossed, torn>>

Proceed(p) ==
  \/ NextSource(p) \/ FetchPage(p) \/ FetchFeed(p) \/ Upload(p) \/ Crawl(p) \/ Interpret(p)
  \/ Lookup(p) \/ GenerateTemplate(p) \/ Repair(p) \/ DeactivateOthers(p) \/ Store(p)
  \/ Scrape(p) \/ Persist(p) \/ AnalyzeItem(p) \/ Activate(p)
Call(p) ==
  \/ \E u \in Readers, S \in SourceLists, auto \in BOOLEAN : Collect(p, u, S, auto)
  \/ \E v \in Versions : Apply(p, v)
  \/ \E auto \in BOOLEAN : Heal(p, auto)

NewsNext == \E p \in Procs : Call(p) \/ Proceed(p)
NewsSpec == NewsInit /\ [][NewsNext]_newsVars
=============================================================================
