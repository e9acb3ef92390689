---------------------------- MODULE Displays_proofs ----------------------------
(* Theorems about the screens that display what the backend has: the market  *)
(* screen and its charts, the news and the pages of trades. What they show is *)
(* of what was asked for, and nothing is missing from it without a cause.    *)
EXTENDS MarketScreen, MarketChart, NewsScreen, ResultPages, FiniteSetTheorems, TLAPS

-----------------------------------------------------------------------------
(* Numbers                                                                 *)

\* A finite set of numbers has a least and a greatest one.
LEMMA EndsOf ==
  ASSUME NEW S \in SUBSET Int, IsFiniteSet(S), S # {}
  PROVE  /\ \E least \in S : \A t \in S : least <= t
         /\ \E greatest \in S : \A t \in S : greatest >= t
<1> DEFINE Under(v) == {w \in S : w < v}
           Over(v) == {w \in S : w > v}
           Unders == {Under(v) : v \in S}
           Overs == {Over(v) : v \in S}
<1>1. IsWellFoundedOn(StrictSubsetOrdering(S), SUBSET S)
  BY FS_FiniteSubsetsOfFinite, FS_StrictSubsetOrderingWellFounded
<1>2. /\ Unders \subseteq SUBSET S /\ Unders # {}
      /\ Overs \subseteq SUBSET S /\ Overs # {}
  OBVIOUS
<1>3. PICK X \in Unders : \A Y \in Unders : <<Y, X>> \notin StrictSubsetOrdering(S)
  <2> HIDE DEF Unders
  <2> QED BY <1>1, <1>2, WFMin
<1>4. PICK Z \in Overs : \A Y \in Overs : <<Y, Z>> \notin StrictSubsetOrdering(S)
  <2> HIDE DEF Overs
  <2> QED BY <1>1, <1>2, WFMin
<1>5. PICK v \in S : X = Under(v) BY <1>3
<1>6. PICK u \in S : Z = Over(u) BY <1>4
<1>7. ASSUME NEW t \in S PROVE v <= t
  <2> SUFFICES ASSUME t < v PROVE FALSE OBVIOUS
  <2>0. t \in Int /\ v \in Int /\ t < v OBVIOUS
  <2>1. ASSUME NEW w \in Under(t) PROVE w \in Under(v)
    <3>1. w \in S /\ w \in Int /\ w < t OBVIOUS
    <3> QED BY <2>0, <3>1
  <2>2. t \in Under(v) /\ t \notin Under(t) BY <2>0
  <2>3. Under(t) \in Unders /\ Under(t) \in SUBSET S /\ Under(v) \in SUBSET S OBVIOUS
  <2>4. Under(t) # Under(v) BY <2>2
  <2> HIDE DEF Under, Unders
  <2>5. <<Under(t), Under(v)>> \in StrictSubsetOrdering(S)
    BY <2>1, <2>3, <2>4 DEF StrictSubsetOrdering
  <2> QED BY <1>3, <1>5, <2>3, <2>5
<1>8. ASSUME NEW t \in S PROVE u >= t
  <2> SUFFICES ASSUME t > u PROVE FALSE OBVIOUS
  <2>0. t \in Int /\ u \in Int /\ t > u OBVIOUS
  <2>1. ASSUME NEW w \in Over(t) PROVE w \in Over(u)
    <3>1. w \in S /\ w \in Int /\ w > t OBVIOUS
    <3> QED BY <2>0, <3>1
  <2>2. t \in Over(u) /\ t \notin Over(t) BY <2>0
  <2>3. Over(t) \in Overs /\ Over(t) \in SUBSET S /\ Over(u) \in SUBSET S OBVIOUS
  <2>4. Over(t) # Over(u) BY <2>2
  <2> HIDE DEF Over, Overs
  <2>5. <<Over(t), Over(u)>> \in StrictSubsetOrdering(S)
    BY <2>1, <2>3, <2>4 DEF StrictSubsetOrdering
  <2> QED BY <1>4, <1>6, <2>3, <2>5
<1> QED BY <1>7, <1>8

\* So have numbers that need not be finitely many a least one.
LEMMA LeastOf ==
  ASSUME NEW S \in SUBSET Nat, S # {}
  PROVE  \E least \in S : \A m \in S : least <= m
<1>1. PICK k \in S : k \in Nat OBVIOUS
<1>2. \A s \in S : s \in Nat OBVIOUS
<1> DEFINE T == {s \in S : s <= k}
<1>3. T \subseteq 0 .. k
  <2>1. ASSUME NEW s \in T PROVE s \in 0 .. k BY <1>1, <1>2
  <2> QED BY <2>1
<1>4. IsFiniteSet(0 .. k) /\ 0 .. k \subseteq Int BY <1>1, FS_Interval
<1>5. IsFiniteSet(T) /\ T \in SUBSET Int /\ k \in T BY <1>1, <1>3, <1>4, FS_Subset
<1>6. PICK least \in T : \A t \in T : least <= t BY <1>5, EndsOf
<1>7. \A m \in S : least <= m BY <1>1, <1>2, <1>6
<1> QED BY <1>6, <1>7

\* The number of pages: the last one is not empty.
LEMMA Ceiling ==
  ASSUME NEW n \in Nat, NEW z \in Nat, n # 0, z # 0, NEW q, q = (n + z - 1) \div z
  PROVE  q \in Nat \ {0} /\ (q - 1) * z < n
<1>1. n + z - 1 \in Nat /\ n + z - 1 >= z OBVIOUS
<1>2. q \in Int /\ q * z <= n + z - 1 /\ n + z - 1 < (q + 1) * z BY <1>1
<1>3. (q - 1) * z = q * z - z /\ (q + 1) * z = q * z + z BY <1>2
<1>4. q >= 1
  <2> SUFFICES ASSUME q <= 0 PROVE FALSE BY <1>2
  <2>1. (q + 1) * z <= z BY <1>2
  <2> QED BY <1>1, <1>2, <2>1
<1> QED BY <1>2, <1>3, <1>4

-----------------------------------------------------------------------------
(* The news screen                                                         *)

NewsScreenSpec == NewsInit /\ [][NewsNext]_newsVars

BrowserFields == {"version", "sources", "healing"}
DeskFields == {"mode", "sources", "healing", "html", "reading", "message", "timers", "mine"}
FeedFields == {"all", "hits", "filtered", "page", "shrunk"}

\* What the mounted screen holds: its message is reported on by a timer or by
\* a crawl of its own, and its configuration is the one that is stored.
DeskOK(d, b, running) ==
  /\ DOMAIN d = DeskFields /\ d.timers \in Nat
  /\ d.message # "none" => d.timers > 0 \/ d.mine \cap running # {}
  /\ d.sources = Configured(b) /\ d.healing = b.healing

\* Unless the feed shrank, the page is the first one or begins within it.
FeedOK(f) ==
  /\ DOMAIN f = FeedFields /\ f.all \in Nat /\ f.hits \in Nat /\ f.page \in Nat \ {0}
  /\ f.shrunk \in BOOLEAN
  /\ ~ f.shrunk => f.page = 1 \/ (f.page - 1) * PageOf < f.hits

NewsInv ==
  /\ DOMAIN browser = BrowserFields /\ DOMAIN crawls = {"made", "running"}
  /\ desk = <<>> \/ \E d : desk = <<d>> /\ DeskOK(d, browser, crawls.running)
  /\ FeedOK(feed)

LEMMA FirstPage == \A n \in Nat : FeedOK(Unfiltered(n))
BY DEF FeedOK, Unfiltered, FeedFields

LEMMA FirstPageOK ==
  ASSUME NEW f, DOMAIN f = FeedFields, f.all \in Nat, f.hits \in Nat, f.page = 1, f.shrunk = FALSE
  PROVE  FeedOK(f)
<1>1. f.page \in Nat \ {0} OBVIOUS
<1>2. f.shrunk \in BOOLEAN OBVIOUS
<1> QED BY <1>1, <1>2 DEF FeedOK

LEMMA NewsStarts == NewsInit => NewsInv
<1> SUFFICES ASSUME NewsInit PROVE NewsInv OBVIOUS
<1>1. DOMAIN browser = BrowserFields BY DEF NewsInit, BrowserFields
<1>2. DOMAIN crawls = {"made", "running"} BY DEF NewsInit
<1>3. FeedOK(feed) BY FirstPage DEF NewsInit
<1> QED BY <1>1, <1>2, <1>3 DEF NewsInit, NewsInv

LEMMA DeskIsOK ==
  ASSUME NewsInv, Opened
  PROVE  desk = <<desk[1]>> /\ DeskOK(desk[1], browser, crawls.running)
<1>1. PICK d : desk = <<d>> /\ DeskOK(d, browser, crawls.running) BY DEF NewsInv, Opened
<1> QED BY <1>1

\* A step that changes only the screen.
LEMMA NewDesk ==
  ASSUME NewsInv, NEW d, Set(d), DeskOK(d, browser', crawls'.running),
         DOMAIN browser' = BrowserFields, DOMAIN crawls' = {"made", "running"}, FeedOK(feed')
  PROVE  NewsInv'
BY DEF NewsInv, Set

LEMMA VisitSteps ==
  ASSUME NewsInv, OpenNews \/ LeaveNews
  PROVE  NewsInv'
<1> USE DEF NewsInv
<1>1. CASE LeaveNews BY <1>1 DEF LeaveNews
<1>2. CASE OpenNews
  <2>1. PICK d : d = Desk(browser) OBVIOUS
  <2>2. PICK b : b = Restored(browser) OBVIOUS
  <2>3. browser' = b /\ Set(d) /\ feed' = Unfiltered(feed.all) /\ crawls' = crawls
    BY <1>2, <2>1, <2>2 DEF OpenNews, Set
  <2>4. DOMAIN b = BrowserFields /\ b.healing = browser.healing
    BY <2>2 DEF Restored, BrowserFields
  <2>5. /\ DOMAIN d = DeskFields /\ d.timers = 0 /\ d.message = "none"
        /\ d.sources = Configured(b) /\ d.healing = browser.healing
    BY <2>1, <2>2 DEF Desk, DeskFields
  <2>6. DeskOK(d, b, crawls.running) BY <2>4, <2>5 DEF DeskOK
  <2>7. FeedOK(feed') BY <2>3, FirstPage DEF FeedOK
  <2> QED BY <2>3, <2>4, <2>6, <2>7, NewDesk
<1> QED BY <1>1, <1>2

\* The configuration, which is stored with every change.
LEMMA SourceSteps ==
  ASSUME NewsInv, AddSource \/ RemoveSource \/ ResetSources \/ ToggleHealing
  PROVE  NewsInv'
<1> USE DEF NewsInv
<1>1. ASSUME NEW s, SaveSources(s) PROVE NewsInv'
  <2>1. PICK d : d = [desk[1] EXCEPT !.sources = s] OBVIOUS
  <2>2. PICK b : b = [browser EXCEPT !.sources = <<s>>] OBVIOUS
  <2>3. Opened /\ Set(d) /\ browser' = b /\ UNCHANGED <<feed, crawls>>
    BY <1>1, <2>1, <2>2 DEF SaveSources
  <2>4. DeskOK(desk[1], browser, crawls.running) BY <2>3, DeskIsOK
  <2>5. DOMAIN b = BrowserFields /\ b.sources = <<s>> /\ b.healing = browser.healing
    BY <2>2 DEF BrowserFields
  <2>6. /\ DOMAIN d = DeskFields /\ d.sources = s /\ d.healing = desk[1].healing
        /\ d.timers = desk[1].timers /\ d.message = desk[1].message /\ d.mine = desk[1].mine
    BY <2>1, <2>4 DEF DeskOK, DeskFields
  <2>7. Configured(b) = s BY <2>5 DEF Configured
  <2>8. DeskOK(d, b, crawls.running) BY <2>4, <2>5, <2>6, <2>7 DEF DeskOK
  <2> QED BY <2>3, <2>5, <2>8, NewDesk
<1>2. CASE ToggleHealing
  <2>1. PICK d : d = [desk[1] EXCEPT !.healing = ~ @] OBVIOUS
  <2>2. PICK b : b = [browser EXCEPT !.healing = ~ @] OBVIOUS
  <2>3. Opened /\ Set(d) /\ browser' = b /\ UNCHANGED <<feed, crawls>>
    BY <1>2, <2>1, <2>2 DEF ToggleHealing
  <2>4. DeskOK(desk[1], browser, crawls.running) BY <2>3, DeskIsOK
  <2>5. DOMAIN b = BrowserFields /\ b.sources = browser.sources /\ b.healing = (~ browser.healing)
    BY <2>2 DEF BrowserFields
  <2>6. /\ DOMAIN d = DeskFields /\ d.sources = desk[1].sources /\ d.healing = (~ desk[1].healing)
        /\ d.timers = desk[1].timers /\ d.message = desk[1].message /\ d.mine = desk[1].mine
    BY <2>1, <2>4 DEF DeskOK, DeskFields
  <2>7. Configured(b) = Configured(browser) BY <2>5 DEF Configured
  <2>8. DeskOK(d, b, crawls.running) BY <2>4, <2>5, <2>6, <2>7 DEF DeskOK
  <2> QED BY <2>3, <2>5, <2>8, NewDesk
<1> QED BY <1>1, <1>2 DEF AddSource, RemoveSource, ResetSources

\* Steps of the screen that touch neither its configuration nor its message.
LEMMA FieldSteps ==
  ASSUME NewsInv, ChooseMode \/ TypeHtml \/ UploadFile \/ FileRead \/ CloseMessage
  PROVE  NewsInv'
<1> USE DEF NewsInv
<1>1. ASSUME NEW d, Opened, Set(d), UNCHANGED <<browser, feed, crawls>>, DOMAIN d = DeskFields,
             d.sources = desk[1].sources, d.healing = desk[1].healing, d.timers = desk[1].timers,
             d.mine = desk[1].mine, d.message \in {desk[1].message, "none"}
      PROVE  NewsInv'
  <2>1. DeskOK(desk[1], browser, crawls.running) BY <1>1, DeskIsOK
  <2>2. DeskOK(d, browser, crawls.running) BY <1>1, <2>1 DEF DeskOK
  <2> QED BY <1>1, <2>2, NewDesk
<1>2. Opened => DOMAIN desk[1] = DeskFields BY DeskIsOK DEF DeskOK
<1>3. CASE ChooseMode
  <2>1. PICK m \in Modes :
          Opened /\ Set([desk[1] EXCEPT !.mode = m]) /\ UNCHANGED <<browser, feed, crawls>>
    BY <1>3 DEF ChooseMode
  <2>2. PICK d : d = [desk[1] EXCEPT !.mode = m] OBVIOUS
  <2>3. /\ DOMAIN d = DeskFields /\ d.sources = desk[1].sources /\ d.healing = desk[1].healing
        /\ d.timers = desk[1].timers /\ d.mine = desk[1].mine /\ d.message = desk[1].message
    BY <1>2, <2>1, <2>2 DEF DeskFields
  <2> QED BY <1>1, <2>1, <2>2, <2>3
<1>4. CASE TypeHtml
  <2>1. PICK text \in {"", "text"} :
          Opened /\ Set([desk[1] EXCEPT !.html = text]) /\ UNCHANGED <<browser, feed, crawls>>
    BY <1>4 DEF TypeHtml
  <2>2. PICK d : d = [desk[1] EXCEPT !.html = text] OBVIOUS
  <2>3. /\ DOMAIN d = DeskFields /\ d.sources = desk[1].sources /\ d.healing = desk[1].healing
        /\ d.timers = desk[1].timers /\ d.mine = desk[1].mine /\ d.message = desk[1].message
    BY <1>2, <2>1, <2>2 DEF DeskFields
  <2> QED BY <1>1, <2>1, <2>2, <2>3
<1>5. CASE UploadFile
  <2>1. PICK d : d = [desk[1] EXCEPT !.reading = TRUE] OBVIOUS
  <2>2. Opened /\ Set(d) /\ UNCHANGED <<browser, feed, crawls>> BY <1>5, <2>1 DEF UploadFile
  <2>3. /\ DOMAIN d = DeskFields /\ d.sources = desk[1].sources /\ d.healing = desk[1].healing
        /\ d.timers = desk[1].timers /\ d.mine = desk[1].mine /\ d.message = desk[1].message
    BY <1>2, <2>1, <2>2 DEF DeskFields
  <2> QED BY <1>1, <2>2, <2>3
<1>6. CASE FileRead
  <2>1. PICK d : d = [desk[1] EXCEPT !.reading = FALSE, !.html = "text"] OBVIOUS
  <2>2. Opened /\ Set(d) /\ UNCHANGED <<browser, feed, crawls>> BY <1>6, <2>1 DEF FileRead
  <2>3. /\ DOMAIN d = DeskFields /\ d.sources = desk[1].sources /\ d.healing = desk[1].healing
        /\ d.timers = desk[1].timers /\ d.mine = desk[1].mine /\ d.message = desk[1].message
    BY <1>2, <2>1, <2>2 DEF DeskFields
  <2> QED BY <1>1, <2>2, <2>3
<1>7. CASE CloseMessage
  <2>1. PICK d : d = [desk[1] EXCEPT !.message = "none"] OBVIOUS
  <2>2. Opened /\ Set(d) /\ UNCHANGED <<browser, feed, crawls>> BY <1>7, <2>1 DEF CloseMessage
  <2>3. /\ DOMAIN d = DeskFields /\ d.sources = desk[1].sources /\ d.healing = desk[1].healing
        /\ d.timers = desk[1].timers /\ d.mine = desk[1].mine /\ d.message = "none"
    BY <1>2, <2>1, <2>2 DEF DeskFields
  <2> QED BY <1>1, <2>2, <2>3
<1> QED BY <1>3, <1>4, <1>5, <1>6, <1>7

\* Crawls are asked for, refused for want of sources, and answered.
LEMMA CrawlSteps ==
  ASSUME NewsInv, StartCrawl \/ NoSources \/ AnalyzeHtml \/ QuickCrawl \/ CrawlDone \/ ClearMessage
  PROVE  NewsInv'
<1> USE DEF NewsInv
<1>1. Opened => DeskOK(desk[1], browser, crawls.running) BY DeskIsOK
<1>2. ASSUME Opened, Ask PROVE NewsInv'
  <2>1. PICK n : n = crawls.made + 1 OBVIOUS
  <2>2. PICK M : M = desk[1].mine \cup {n} OBVIOUS
  <2>3. PICK d : d = [desk[1] EXCEPT !.message = "crawling", !.mine = M] OBVIOUS
  <2>4. /\ Set(d) /\ crawls' = [made |-> n, running |-> crawls.running \cup {n}]
        /\ UNCHANGED <<browser, feed>>
    BY <1>2, <2>1, <2>2, <2>3 DEF Ask
  <2>5. /\ DOMAIN d = DeskFields /\ d.sources = desk[1].sources /\ d.healing = desk[1].healing
        /\ d.timers = desk[1].timers /\ d.mine = M
    BY <1>1, <1>2, <2>3 DEF DeskOK, DeskFields
  <2>6. DOMAIN crawls' = {"made", "running"} /\ crawls'.running = crawls.running \cup {n}
    BY <2>4
  <2>7. n \in d.mine \cap crawls'.running BY <2>2, <2>5, <2>6
  <2>8. DeskOK(d, browser, crawls'.running) BY <1>1, <1>2, <2>5, <2>7 DEF DeskOK
  <2> QED BY <2>4, <2>6, <2>8, NewDesk
<1>3. CASE NoSources
  <2>1. PICK n \in Nat : n = desk[1].timers + 1 /\ n > 0 BY <1>1, <1>3 DEF NoSources, DeskOK
  <2>2. PICK d : d = [desk[1] EXCEPT !.message = "none configured", !.timers = n] OBVIOUS
  <2>3. Opened /\ Set(d) /\ UNCHANGED <<browser, feed, crawls>>
    BY <1>3, <2>1, <2>2 DEF NoSources
  <2>4. /\ DOMAIN d = DeskFields /\ d.sources = desk[1].sources /\ d.healing = desk[1].healing
        /\ d.timers = n
    BY <1>1, <2>2, <2>3 DEF DeskOK, DeskFields
  <2>5. DeskOK(d, browser, crawls.running) BY <1>1, <2>1, <2>3, <2>4 DEF DeskOK
  <2> QED BY <2>3, <2>5, NewDesk
<1>4. CASE ClearMessage
  <2>1. PICK n \in Nat : n = desk[1].timers - 1 BY <1>1, <1>4 DEF ClearMessage, DeskOK
  <2>2. PICK d : d = [desk[1] EXCEPT !.message = "none", !.timers = n] OBVIOUS
  <2>3. Opened /\ Set(d) /\ UNCHANGED <<browser, feed, crawls>>
    BY <1>4, <2>1, <2>2 DEF ClearMessage
  <2>4. /\ DOMAIN d = DeskFields /\ d.sources = desk[1].sources /\ d.healing = desk[1].healing
        /\ d.timers = n /\ d.message = "none"
    BY <1>1, <2>2, <2>3 DEF DeskOK, DeskFields
  <2>5. DeskOK(d, browser, crawls.running) BY <1>1, <2>1, <2>3, <2>4 DEF DeskOK
  <2> QED BY <2>3, <2>5, NewDesk
<1>5. CASE CrawlDone
  <2>1. PICK c \in crawls.running, ok \in BOOLEAN :
          /\ crawls' = [crawls EXCEPT !.running = @ \ {c}]
          /\ IF Opened /\ c \in desk[1].mine
             THEN /\ Set(Reported(desk[1]))
                  /\ feed' = IF ok THEN [feed EXCEPT !.page = 1, !.shrunk = FALSE] ELSE feed
             ELSE UNCHANGED <<desk, feed>>
          /\ UNCHANGED browser
    BY <1>5 DEF CrawlDone
  <2>2. PICK R : R = crawls.running \ {c} OBVIOUS
  <2>3. DOMAIN crawls' = {"made", "running"} /\ crawls'.running = R BY <2>1, <2>2
  <2>4. CASE Opened /\ c \in desk[1].mine
    <3>1. PICK n \in Nat : n = desk[1].timers + 1 /\ n > 0 BY <1>1, <2>4 DEF DeskOK
    <3>2. PICK d : d = [desk[1] EXCEPT !.message = "result", !.timers = n] OBVIOUS
    <3>3. Set(d) BY <2>1, <2>4, <3>1, <3>2 DEF Reported
    <3>4. /\ DOMAIN d = DeskFields /\ d.sources = desk[1].sources /\ d.healing = desk[1].healing
          /\ d.timers = n
      BY <1>1, <2>4, <3>2 DEF DeskOK, DeskFields
    <3>5. DeskOK(d, browser, R)
      <4>1. desk[1].sources = Configured(browser) /\ desk[1].healing = browser.healing
        BY <1>1, <2>4 DEF DeskOK
      <4> QED BY <3>1, <3>4, <4>1 DEF DeskOK
    <3>6. feed' = feed \/ feed' = [feed EXCEPT !.page = 1, !.shrunk = FALSE] BY <2>1, <2>4
    <3>7. FeedOK(feed')
      <4>1. DOMAIN feed = FeedFields BY DEF FeedOK
      <4>2. CASE feed' = feed BY <4>2
      <4>3. CASE feed' = [feed EXCEPT !.page = 1, !.shrunk = FALSE]
        <5>1. /\ DOMAIN feed' = FeedFields /\ feed'.all = feed.all /\ feed'.hits = feed.hits
              /\ feed'.page = 1 /\ feed'.shrunk = FALSE
          BY <4>1, <4>3 DEF FeedFields
        <5>2. feed.all \in Nat /\ feed.hits \in Nat BY DEF FeedOK
        <5> QED BY <5>1, <5>2, FirstPageOK
      <4> QED BY <3>6, <4>2, <4>3
    <3> QED BY <2>1, <2>3, <3>3, <3>5, <3>7, NewDesk
  <2>5. CASE ~ (Opened /\ c \in desk[1].mine)
    <3>1. UNCHANGED <<browser, desk, feed>> BY <2>1, <2>5
    <3>2. CASE desk = <<>> BY <2>3, <3>1, <3>2
    <3>3. CASE desk # <<>>
      <4>1. Opened BY <3>3 DEF Opened
      <4>2. desk[1].mine \cap R = desk[1].mine \cap crawls.running BY <2>2, <2>5, <4>1
      <4>3. DeskOK(desk[1], browser, R) BY <1>1, <4>1, <4>2 DEF DeskOK
      <4>4. Set(desk[1]) BY <3>1, <4>1, DeskIsOK DEF Set
      <4> QED BY <2>3, <3>1, <4>3, <4>4, NewDesk
    <3> QED BY <3>2, <3>3
  <2> QED BY <2>4, <2>5
<1> QED BY <1>2, <1>3, <1>4, <1>5 DEF StartCrawl, AnalyzeHtml, QuickCrawl

\* The last page begins within the feed.
LEMMA LastPage ==
  ASSUME FeedOK(feed), feed.hits > 0
  PROVE  Pages \in Nat \ {0} /\ (Pages - 1) * PageOf < feed.hits
<1>1. PICK n \in Nat : n = feed.hits /\ n > 0 /\ n # 0 BY DEF FeedOK
<1>2. PICK z \in Nat : z = PageOf /\ z # 0 BY NewsAssumption
<1>3. PICK q : q = (n + z - 1) \div z OBVIOUS
<1>4. q \in Nat /\ q # 0 /\ (q - 1) * z < n BY <1>1, <1>2, <1>3, Ceiling
<1>5. Pages = q BY <1>1, <1>2, <1>3 DEF Pages
<1> QED BY <1>1, <1>2, <1>4, <1>5

\* The feed changes, and is filtered and paged.
LEMMA FeedSteps ==
  ASSUME NewsInv, Refetched \/ Filter \/ ClearFilters \/ TurnPage
  PROVE  NewsInv'
<1> USE DEF NewsInv
<1>0. FeedOK(feed) /\ PageOf \in Nat \ {0} /\ MaxNews \in Nat BY NewsAssumption
<1>1. ASSUME FeedOK(feed'), UNCHANGED <<browser, desk, crawls>> PROVE NewsInv' BY <1>1
<1>2. CASE Refetched
  <2>1. PICK n \in feed.all .. MaxNews, h \in 0 .. MaxNews :
          /\ feed' = [feed EXCEPT !.all = n, !.hits = h, !.shrunk = @ \/ h < feed.hits]
          /\ UNCHANGED <<browser, desk, crawls>>
    BY <1>2 DEF Refetched
  <2>2. n \in Nat /\ h \in Nat BY <1>0 DEF FeedOK
  <2>3. PICK s \in BOOLEAN : s = (feed.shrunk \/ h < feed.hits) OBVIOUS
  <2>4. feed' = [feed EXCEPT !.all = n, !.hits = h, !.shrunk = s] BY <2>1, <2>3
  <2>5. /\ DOMAIN feed' = FeedFields /\ feed'.all = n /\ feed'.hits = h /\ feed'.shrunk = s
        /\ feed'.page = feed.page
    BY <1>0, <2>4 DEF FeedOK, FeedFields
  <2>6. ~ s => feed.page = 1 \/ (feed.page - 1) * PageOf < h
    <3> SUFFICES ASSUME ~ s, feed.page # 1 PROVE (feed.page - 1) * PageOf < h OBVIOUS
    <3>1. ~ feed.shrunk /\ ~ (h < feed.hits) BY <2>3
    <3>2. PICK x \in Int : x = (feed.page - 1) * PageOf BY <1>0 DEF FeedOK
    <3>3. x < feed.hits /\ feed.hits \in Nat BY <1>0, <3>1, <3>2 DEF FeedOK
    <3> QED BY <2>2, <3>1, <3>2, <3>3
  <2>7. FeedOK(feed') BY <1>0, <2>2, <2>5, <2>6 DEF FeedOK
  <2> QED BY <1>1, <2>1, <2>7
<1>3. CASE Filter
  <2>1. PICK h \in 0 .. feed.all :
          /\ feed' = [feed EXCEPT !.filtered = TRUE, !.hits = h, !.page = 1, !.shrunk = FALSE]
          /\ UNCHANGED <<browser, desk, crawls>>
    BY <1>3 DEF Filter
  <2>2. /\ DOMAIN feed' = FeedFields /\ feed'.all = feed.all /\ feed'.hits = h
        /\ feed'.shrunk = FALSE /\ feed'.page = 1
    BY <1>0, <2>1 DEF FeedOK, FeedFields
  <2>3. feed.all \in Nat /\ h \in Nat BY <1>0, <2>1 DEF FeedOK
  <2>4. FeedOK(feed') BY <2>2, <2>3, FirstPageOK
  <2> QED BY <1>1, <2>1, <2>4
<1>4. CASE ClearFilters
  <2>1. FeedOK(feed') BY <1>0, <1>4, FirstPage DEF ClearFilters, FeedOK
  <2> QED BY <1>1, <1>4, <2>1 DEF ClearFilters
<1>5. CASE TurnPage
  <2>1. PICK p : /\ feed' = [feed EXCEPT !.page = p] /\ feed.hits > 0
                 /\ \/ feed.page > 1 /\ p = feed.page - 1
                    \/ feed.page < Pages /\ p = feed.page + 1
                 /\ UNCHANGED <<browser, desk, crawls>>
    BY <1>5 DEF TurnPage
  <2>2. Pages \in Nat \ {0} /\ (Pages - 1) * PageOf < feed.hits BY <1>0, <2>1, LastPage
  <2>3. /\ DOMAIN feed' = FeedFields /\ feed'.all = feed.all /\ feed'.hits = feed.hits
        /\ feed'.shrunk = feed.shrunk /\ feed'.page = p
    BY <1>0, <2>1 DEF FeedOK, FeedFields
  <2>4. PICK n \in Nat : n = feed.page /\ n # 0 BY <1>0 DEF FeedOK
  <2>5. p \in Nat \ {0} BY <2>1, <2>4
  <2>6. PICK z \in Nat : z = PageOf /\ z # 0 BY <1>0
  <2>7. PICK t \in Nat : t = feed.hits BY <1>0 DEF FeedOK
  <2>8. PICK g \in Nat : g = Pages /\ g # 0 /\ (g - 1) * z < t BY <2>2, <2>6, <2>7
  <2>9. ~ feed.shrunk => p = 1 \/ (p - 1) * z < t
    <3> SUFFICES ASSUME ~ feed.shrunk, p # 1 PROVE (p - 1) * z < t OBVIOUS
    <3>1. CASE p = n - 1 /\ n > 1
      <4>1. (n - 1) * z < t BY <1>0, <2>4, <2>6, <2>7, <3>1 DEF FeedOK
      <4>2. (p - 1) * z <= (n - 1) * z /\ (p - 1) * z \in Int /\ (n - 1) * z \in Int
        BY <2>4, <2>5, <2>6, <3>1
      <4> QED BY <2>7, <4>1, <4>2
    <3>2. CASE p = n + 1 /\ n < g
      <4>1. (p - 1) * z <= (g - 1) * z /\ (p - 1) * z \in Int /\ (g - 1) * z \in Int
        BY <2>4, <2>5, <2>6, <2>8, <3>2
      <4> QED BY <2>7, <2>8, <4>1
    <3> QED BY <2>1, <2>4, <2>8, <3>1, <3>2
  <2>10. FeedOK(feed') BY <1>0, <2>3, <2>5, <2>6, <2>7, <2>9 DEF FeedOK
  <2> QED BY <1>1, <2>1, <2>10
<1> QED BY <1>2, <1>3, <1>4, <1>5

\* However crawls, their timers, the sources, the filters and the feed change:
\* no message stays for ever, the configuration on display is the stored one,
\* and the page shows articles while some pass the filters (news.tsx).
THEOREM NewsStaysTrue == NewsScreenSpec => []NewsIsTrue
<1>1. NewsInit => NewsInv BY NewsStarts
<1>2. NewsInv /\ [NewsNext]_newsVars => NewsInv'
  <2> SUFFICES ASSUME NewsInv, [NewsNext]_newsVars PROVE NewsInv' OBVIOUS
  <2>1. CASE UNCHANGED newsVars BY <2>1 DEF newsVars, NewsInv
  <2> QED BY <2>1, VisitSteps, SourceSteps, FieldSteps, CrawlSteps, FeedSteps DEF NewsNext
<1>3. NewsInv => NewsIsTrue
  <2> SUFFICES ASSUME NewsInv PROVE NewsIsTrue OBVIOUS
  <2>1. Opened => DeskOK(desk[1], browser, crawls.running) BY DeskIsOK
  <2>2. MessageGoesAway BY <2>1 DEF DeskOK, MessageGoesAway
  <2>3. ConfigurationIsKept BY <2>1 DEF DeskOK, ConfigurationIsKept
  <2>4. FeedShowsArticles
    <3> SUFFICES ASSUME feed.hits > 0, ~ feed.shrunk PROVE OnPage > 0 BY DEF FeedShowsArticles
    <3>1. FeedOK(feed) BY DEF NewsInv
    <3>2. PICK n \in Nat : n = feed.page /\ n # 0 BY <3>1 DEF FeedOK
    <3>3. PICK z \in Nat : z = PageOf /\ z # 0 BY NewsAssumption
    <3>4. PICK t \in Nat : t = feed.hits /\ t > 0 BY <3>1 DEF FeedOK
    <3>5. PICK x \in Int : x = (n - 1) * z BY <3>2, <3>3
    <3>6. x < t
      <4>1. CASE n = 1 BY <3>3, <3>4, <3>5, <4>1
      <4>2. CASE n # 1 BY <3>1, <3>2, <3>3, <3>4, <3>5, <4>2 DEF FeedOK
      <4> QED BY <4>1, <4>2
    <3>7. OnPage = (IF t - x < 0 THEN 0 ELSE IF t - x < z THEN t - x ELSE z)
      BY <3>2, <3>3, <3>4, <3>5 DEF OnPage
    <3> QED BY <3>3, <3>4, <3>5, <3>6, <3>7
  <2> QED BY <2>2, <2>3, <2>4 DEF NewsIsTrue
<1> QED BY <1>1, <1>2, <1>3, PTL DEF NewsScreenSpec

-----------------------------------------------------------------------------
(* The pages of trades                                                     *)

PagesSpec == PagesInit /\ [][PagesNext]_pagesVars

ResultFields == {"shown", "state", "got", "total", "cursor", "batches", "size", "page", "lit"}
DetailFields == {"shown", "cursors", "page", "lit", "replay", "moved"}

\* Batches that arrived continue each other; the last one ends the trades, or
\* no more are fetched.
LoadingOK(r) ==
  /\ r.shown \in Experiments /\ r.batches \in Nat /\ r.batches < MaxBatches
  /\ r.cursor = r.batches * Batch /\ r.got = 1 .. r.cursor /\ r.cursor <= Trades[r.shown]
  /\ r.page = 0 /\ r.lit = <<>>
ReadyOK(r) ==
  /\ r.shown \in Experiments /\ r.total = Trades[r.shown]
  /\ r.got = 1 .. Least(Trades[r.shown], MaxBatches * Batch)
  /\ r.page \in Nat
ResultOK(r) ==
  /\ DOMAIN r = ResultFields /\ r.size \in Nat \ {0}
  /\ \/ r.state = "loading" /\ LoadingOK(r)
     \/ r.state = "ready" /\ ReadyOK(r)
     \/ r.state \in {"idle", "failed"} /\ r.page = 0 /\ r.lit = <<>>

\* The stack of cursors of the other page is where each of its pages begins.
CursorsOK(d) ==
  /\ d.cursors \in Seq(Nat) /\ Len(d.cursors) > 0
  /\ \A i \in DOMAIN d.cursors : d.cursors[i] = (i - 1) * DetailSize
ArrivedOK(d) ==
  d.page.arrived =>
    /\ d.shown \in Experiments
    /\ LET top == d.cursors[Len(d.cursors)]
       IN  /\ d.page.items = (top + 1) .. Least(top + DetailSize, Trades[d.shown])
           /\ d.page.next \in {0, top + DetailSize}
DetailOK(d) ==
  /\ DOMAIN d = DetailFields /\ CursorsOK(d) /\ ArrivedOK(d)
  /\ d.shown \in Experiments \cup {NoResult}
  /\ d.lit # <<>> => d.shown \in Experiments /\ d.lit[1] \in 1 .. Trades[d.shown]
  /\ d.replay # NoResult /\ ~ d.moved => d.replay = d.shown

\* The page that is shown is one of the table's, and what is highlighted is on it.
PagesIn(r) ==
  LET n == IF r.state = "ready" THEN r.total ELSE 0
  IN  IF n = 0 THEN 1 ELSE (n + r.size - 1) \div r.size
SliceOf(r) ==
  {t \in IF r.state = "ready" THEN r.got ELSE {} : r.page * r.size < t /\ t <= (r.page + 1) * r.size}
TableOK(r) ==
  /\ ResultOK(r)
  /\ r.state = "ready" => r.page < PagesIn(r)
  /\ r.lit # <<>> => r.state = "ready" /\ r.lit[1] \in SliceOf(r)

PagesInv == TableOK(result) /\ DetailOK(detail)

LEMMA TableOf == TablePages = PagesIn(result) /\ Slice = SliceOf(result)
BY DEF TablePages, PagesIn, Slice, SliceOf, Loaded

LEMMA LeastOne == \A a, b \in Nat : Least(a, b) \in Nat /\ Least(a, b) <= a /\ Least(a, b) <= b
                                    /\ Least(a, b) \in {a, b}
BY DEF Least

LEMMA NewResult ==
  ASSUME NEW e \in Experiments \cup {NoResult}, NEW z \in Nat \ {0}, NEW r, r = Result(e, z)
  PROVE  TableOK(r)
<1>1. PICK s : s = (IF e = NoResult THEN "idle" ELSE "loading") OBVIOUS
<1>2. /\ DOMAIN r = ResultFields /\ r.shown = e /\ r.state = s /\ r.got = {} /\ r.cursor = 0
      /\ r.batches = 0 /\ r.size = z /\ r.page = 0 /\ r.lit = <<>>
  BY <1>1 DEF Result, ResultFields
<1>3. s # "ready" BY <1>1
<1>4. CASE e = NoResult BY <1>1, <1>2, <1>3, <1>4 DEF ResultOK, TableOK
<1>5. CASE e # NoResult
  <2>1. Batch \in Nat /\ MaxBatches \in Nat /\ 0 < MaxBatches BY PagesAssumption
  <2>2. r.got = 1 .. r.cursor /\ r.cursor = r.batches * Batch BY <1>2, <2>1
  <2>3. r.cursor <= Trades[r.shown] BY <1>2, <1>5, PagesAssumption
  <2>4. LoadingOK(r) BY <1>2, <1>5, <2>1, <2>2, <2>3 DEF LoadingOK
  <2> QED BY <1>1, <1>2, <1>3, <1>5, <2>4 DEF ResultOK, TableOK
<1> QED BY <1>4, <1>5

\* The cursors of a list that has just been opened: its first page alone.
FromTheTop == <<0>>

LEMMA NewDetail ==
  ASSUME NEW e \in Experiments \cup {NoResult}, NEW d, DOMAIN d = DetailFields, d.shown = e,
         d.cursors = FromTheTop, d.page = Waiting, d.lit = <<>>,
         d.replay # NoResult /\ ~ d.moved => d.replay = e
  PROVE  DetailOK(d)
<1>1. DetailSize \in Nat BY PagesAssumption
<1>2. CursorsOK(d) BY <1>1 DEF CursorsOK, FromTheTop
<1>3. ~ d.page.arrived BY DEF Waiting
<1>4. ArrivedOK(d) BY <1>3 DEF ArrivedOK
<1> QED BY <1>2, <1>4 DEF DetailOK

LEMMA PagesStart == PagesInit => PagesInv
<1> SUFFICES ASSUME PagesInit PROVE PagesInv OBVIOUS
<1>1. PICK z : z = First(TableSizes) OBVIOUS
<1>2. TableSizes \in SUBSET Nat /\ TableSizes # {} BY PagesAssumption
<1>3. z \in TableSizes BY <1>1, <1>2, LeastOf DEF First
<1>4. z \in Nat \ {0} BY <1>3, PagesAssumption
<1>5. TableOK(result) BY <1>1, <1>4, NewResult DEF PagesInit
<1>6. /\ DOMAIN detail = DetailFields /\ detail.shown = NoResult /\ detail.cursors = FromTheTop
      /\ detail.page = Waiting /\ detail.lit = <<>> /\ detail.replay = NoResult
  BY DEF PagesInit, Detail, DetailFields, FromTheTop
<1>7. DetailOK(detail) BY <1>6, NewDetail
<1> QED BY <1>5, <1>7 DEF PagesInv

LEMMA PagesFields ==
  ASSUME PagesInv
  PROVE  /\ DOMAIN result = ResultFields /\ result.size \in Nat \ {0}
         /\ DOMAIN detail = DetailFields
BY DEF PagesInv, TableOK, ResultOK, DetailOK

\* The table of a finished test has a page for every row.
LEMMA PagesAreEnough ==
  ASSUME NEW r, ResultOK(r)
  PROVE  /\ PagesIn(r) \in Nat \ {0}
         /\ r.state = "ready" /\ r.total # 0 => (PagesIn(r) - 1) * r.size < r.total
<1>1. PICK n : n = (IF r.state = "ready" THEN r.total ELSE 0) OBVIOUS
<1>2. n \in Nat BY <1>1, PagesAssumption DEF ResultOK, ReadyOK
<1>3. PICK z \in Nat : z = r.size /\ z # 0 BY DEF ResultOK
<1>4. PICK q : q = (n + z - 1) \div z OBVIOUS
<1>5. n # 0 => q \in Nat \ {0} /\ (q - 1) * z < n BY <1>2, <1>3, <1>4, Ceiling
<1>6. PagesIn(r) = (IF n = 0 THEN 1 ELSE q) BY <1>1, <1>3, <1>4 DEF PagesIn
<1> QED BY <1>1, <1>3, <1>5, <1>6

\* A batch continues where the last one ended.
LEMMA FetchStep ==
  ASSUME PagesInv, FetchBatch
  PROVE  TableOK(result')
<1>1. /\ result.shown \in Experiments /\ result.batches \in Nat /\ result.batches < MaxBatches
      /\ result.cursor = result.batches * Batch /\ result.got = 1 .. result.cursor
      /\ result.cursor <= Trades[result.shown] /\ result.page = 0 /\ result.lit = <<>>
  BY DEF PagesInv, TableOK, ResultOK, LoadingOK, FetchBatch
<1>2. PICK T \in Nat : T = Trades[result.shown] BY <1>1, PagesAssumption
<1>3. PICK z \in Nat : z = Batch /\ z # 0 BY PagesAssumption
<1>4. PICK b \in Nat : b = result.batches BY <1>1
<1>5. PICK m \in Nat : m = MaxBatches /\ b < m BY <1>1, <1>4, PagesAssumption
<1>6. PICK c \in Nat : c = b * z BY <1>3, <1>4
<1>7. c = result.cursor /\ result.got = 1 .. c /\ c <= T BY <1>1, <1>2, <1>3, <1>4, <1>6
<1>8. PICK items : items = (c + 1) .. Least(c + z, T) OBVIOUS
<1>9. PICK next \in Nat : next = (IF c + z < T THEN c + z ELSE 0) OBVIOUS
<1>10. PICK got : got = result.got \cup items OBVIOUS
<1>11. PICK page : page = PageTrades(result.shown, result.cursor, Batch) OBVIOUS
<1>12. page.items = items /\ page.next = next
  BY <1>2, <1>3, <1>7, <1>8, <1>9, <1>11 DEF PageTrades
<1>13. PICK e \in Nat : e = Least(c + z, T) /\ e = (IF c + z < T THEN c + z ELSE T)
  BY LeastOne DEF Least
<1>14. got = 1 .. e BY <1>7, <1>8, <1>10, <1>13
<1>15. PICK more \in BOOLEAN :
         more = (page.items # {} /\ page.next # 0 /\ Cardinality(got) < T /\ result.batches + 1 < MaxBatches)
  OBVIOUS
<1>16. more = (c + z < T /\ b + 1 < m)
  <2>1. CASE c + z < T
    <3>1. next # 0 /\ c + 1 \in items /\ e = c + z BY <1>3, <1>8, <1>9, <1>13, <2>1
    <3>2. Cardinality(1 .. e) = e BY <1>13, <3>1, FS_Interval
    <3>3. Cardinality(got) < T BY <1>14, <2>1, <3>1, <3>2
    <3> QED BY <1>4, <1>5, <1>12, <1>15, <2>1, <3>1, <3>3
  <2>2. CASE ~ (c + z < T) BY <1>9, <1>12, <1>15, <2>2
  <2> QED BY <2>1, <2>2
<1>17. PICK n \in Nat : n = b + 1 /\ n * z = c + z
  <2>1. (b + 1) * z = b * z + z BY <1>3, <1>4
  <2> QED BY <1>4, <1>6, <2>1
<1>18. PICK s : s = (IF more THEN "loading" ELSE "ready") OBVIOUS
<1>19. result' = [result EXCEPT !.got = got, !.total = T, !.cursor = next, !.batches = n, !.state = s]
  <2>1. result' = [result EXCEPT !.got = got, !.total = T, !.cursor = page.next,
                                 !.batches = @ + 1, !.state = s]
    BY <1>2, <1>10, <1>11, <1>12, <1>15, <1>18 DEF FetchBatch
  <2> QED BY <1>4, <1>12, <1>17, <2>1, PagesFields DEF ResultFields
<1>20. /\ DOMAIN result' = ResultFields /\ result'.shown = result.shown /\ result'.got = got
       /\ result'.total = T /\ result'.cursor = next /\ result'.batches = n /\ result'.state = s
       /\ result'.size = result.size /\ result'.page = 0 /\ result'.lit = <<>>
  BY <1>1, <1>19, PagesFields DEF ResultFields
<1>21. CASE more
  <2>1. c + z < T /\ n < m /\ s = "loading" /\ next = c + z /\ e = next
    BY <1>9, <1>13, <1>16, <1>17, <1>18, <1>21
  <2>2. LoadingOK(result') BY <1>1, <1>2, <1>3, <1>5, <1>14, <1>17, <1>20, <2>1 DEF LoadingOK
  <2>3. result'.state # "ready" BY <1>20, <2>1
  <2> QED BY <1>20, <2>1, <2>2, <2>3, PagesFields DEF TableOK, ResultOK
<1>22. CASE ~ more
  <2>1. ~ (c + z < T /\ n < m) /\ s = "ready" BY <1>16, <1>17, <1>18, <1>22
  <2>2. e = Least(T, m * z)
    <3>1. PICK k \in Nat : k = m * z BY <1>3, <1>5
    <3>2. n * z <= m * z BY <1>3, <1>5, <1>17
    <3>3. CASE c + z < T
      <4>1. n = m BY <1>5, <1>17, <2>1, <3>3
      <4> QED BY <1>13, <1>17, <3>3, <4>1 DEF Least
    <3>4. CASE ~ (c + z < T) BY <1>13, <1>17, <3>1, <3>2, <3>4 DEF Least
    <3> QED BY <3>3, <3>4
  <2>3. ReadyOK(result')
    BY <1>1, <1>2, <1>3, <1>5, <1>14, <1>20, <2>2 DEF ReadyOK
  <2>4. ResultOK(result') BY <1>20, <2>1, <2>3, PagesFields DEF ResultOK
  <2>5. 0 < PagesIn(result') BY <2>4, PagesAreEnough
  <2> QED BY <1>20, <2>4, <2>5 DEF TableOK
<1> QED BY <1>21, <1>22

\* The other steps of the backtest screen.
LEMMA TradeTableSteps ==
  ASSUME PagesInv,
         \/ Bind \/ ClearResult \/ FetchFails \/ TurnTradePage \/ GoToTradePage
         \/ ChangeTradeSize \/ HighlightTrade
  PROVE  TableOK(result')
<1>0. TableOK(result) /\ ResultOK(result) /\ DOMAIN result = ResultFields /\ result.size \in Nat \ {0}
  BY PagesFields DEF PagesInv, TableOK
<1>1. CASE Bind \/ ClearResult
  <2>1. PICK x \in Experiments \cup {NoResult} : result' = Result(x, result.size)
    BY <1>1 DEF Bind, ClearResult
  <2> QED BY <1>0, <2>1, NewResult
<1>2. CASE FetchFails
  <2>1. result.page = 0 /\ result.lit = <<>> BY <1>0, <1>2 DEF FetchFails, ResultOK, LoadingOK
  <2>2. result' = [result EXCEPT !.state = "failed", !.got = {}, !.total = 0]
    BY <1>2 DEF FetchFails
  <2>3. /\ DOMAIN result' = ResultFields /\ result'.state = "failed" /\ result'.size = result.size
        /\ result'.page = 0 /\ result'.lit = <<>>
    BY <1>0, <2>1, <2>2 DEF ResultFields
  <2> QED BY <1>0, <2>3 DEF TableOK, ResultOK
<1>3. ASSUME NEW p \in Nat, NEW z \in Nat \ {0}, NEW l,
             result' = [result EXCEPT !.page = p, !.size = z, !.lit = l],
             result.state # "ready" => p = 0 /\ l = <<>>,
             result.state = "ready" => p < PagesIn(result'),
             l # <<>> => result.state = "ready" /\ l[1] \in SliceOf(result')
      PROVE  TableOK(result')
  <2>1. /\ DOMAIN result' = ResultFields /\ result'.shown = result.shown /\ result'.state = result.state
        /\ result'.got = result.got /\ result'.total = result.total /\ result'.cursor = result.cursor
        /\ result'.batches = result.batches /\ result'.size = z /\ result'.page = p /\ result'.lit = l
    BY <1>0, <1>3 DEF ResultFields
  <2>2. result.state = "loading" => LoadingOK(result') BY <1>0, <1>3, <2>1 DEF ResultOK, LoadingOK
  <2>3. result.state = "ready" => ReadyOK(result') BY <1>0, <2>1 DEF ResultOK, ReadyOK
  <2>4. ResultOK(result') BY <1>0, <1>3, <2>1, <2>2, <2>3 DEF ResultOK
  <2> QED BY <1>3, <2>1, <2>4 DEF TableOK
<1>4. ASSUME NEW p \in Nat, GoTo(p), p < PagesIn(result) PROVE TableOK(result')
  <2>1. result' = [result EXCEPT !.page = p, !.size = result.size, !.lit = <<>>]
    BY <1>0, <1>4 DEF GoTo, ResultFields
  <2>2. PagesIn(result') = PagesIn(result)
    <3>1. result'.state = result.state /\ result'.total = result.total /\ result'.size = result.size
      BY <1>0, <2>1 DEF ResultFields
    <3> QED BY <3>1 DEF PagesIn
  <2>3. result.state # "ready" => p = 0
    <3>1. result.state # "ready" => PagesIn(result) = 1 BY DEF PagesIn
    <3> QED BY <1>4, <3>1
  <2> QED BY <1>0, <1>3, <1>4, <2>1, <2>2, <2>3
<1>5. result.page \in Nat /\ PagesIn(result) \in Nat \ {0} /\ TablePages = PagesIn(result)
  BY <1>0, PagesAreEnough, TableOf DEF ResultOK, LoadingOK, ReadyOK
<1>6. CASE TurnTradePage
  <2>1. PICK p : GoTo(p) /\ \/ p = result.page + 1 /\ result.page < PagesIn(result) - 1
                            \/ p = result.page - 1 /\ result.page > 0
    BY <1>5, <1>6 DEF TurnTradePage
  <2>2. CASE p = result.page + 1 /\ result.page < PagesIn(result) - 1
    <3>1. p \in Nat /\ p < PagesIn(result) BY <1>5, <2>2
    <3> QED BY <1>4, <2>1, <3>1
  <2>3. CASE p = result.page - 1 /\ result.page > 0
    <3>1. result.state = "ready" BY <1>0, <1>5, <2>3 DEF ResultOK, LoadingOK
    <3>2. p \in Nat /\ p < PagesIn(result) BY <1>0, <1>5, <2>3, <3>1 DEF TableOK
    <3> QED BY <1>4, <2>1, <3>2
  <2> QED BY <2>1, <2>2, <2>3
<1>7. CASE GoToTradePage
  <2>1. PICK p \in 0 .. PagesIn(result) - 1 : GoTo(p) BY <1>5, <1>7 DEF GoToTradePage
  <2>2. p \in Nat /\ p < PagesIn(result) BY <1>5
  <2> QED BY <1>4, <2>1, <2>2
<1>8. CASE ChangeTradeSize
  <2>1. PICK z \in TableSizes : result' = [result EXCEPT !.size = z, !.page = 0, !.lit = <<>>]
    BY <1>8 DEF ChangeTradeSize
  <2>2. z \in Nat \ {0} BY PagesAssumption
  <2>3. result' = [result EXCEPT !.page = 0, !.size = z, !.lit = <<>>]
    BY <1>0, <2>1 DEF ResultFields
  <2>4. result.state = "ready" => 0 < PagesIn(result')
    <3> SUFFICES ASSUME result.state = "ready" PROVE 0 < PagesIn(result') OBVIOUS
    <3>1. /\ DOMAIN result' = ResultFields /\ result'.shown = result.shown
          /\ result'.state = "ready" /\ result'.got = result.got /\ result'.total = result.total
          /\ result'.size = z /\ result'.page = 0
      BY <1>0, <2>1 DEF ResultFields
    <3>2. ReadyOK(result') BY <1>0, <3>1 DEF ResultOK, ReadyOK
    <3>3. ResultOK(result') BY <2>2, <3>1, <3>2 DEF ResultOK
    <3> QED BY <3>3, PagesAreEnough
  <2> QED BY <1>3, <2>2, <2>3, <2>4
<1>9. CASE HighlightTrade
  <2>1. PICK t \in SliceOf(result) :
          result' = [result EXCEPT !.lit = IF @ = <<t>> THEN <<>> ELSE <<t>>]
    BY <1>9, TableOf DEF HighlightTrade
  <2>2. PICK l : l = (IF result.lit = <<t>> THEN <<>> ELSE <<t>>) OBVIOUS
  <2>3. result' = [result EXCEPT !.page = result.page, !.size = result.size, !.lit = l]
    BY <1>0, <2>1, <2>2 DEF ResultFields
  <2>4. result.state = "ready" BY <2>1 DEF SliceOf
  <2>5. result'.state = "ready" /\ result'.got = result.got /\ result'.size = result.size
        /\ result'.page = result.page /\ result'.total = result.total
    BY <1>0, <2>3, <2>4 DEF ResultFields
  <2>6. SliceOf(result') = SliceOf(result) /\ PagesIn(result') = PagesIn(result)
    BY <2>4, <2>5 DEF SliceOf, PagesIn
  <2>7. l # <<>> => l[1] \in SliceOf(result') BY <2>1, <2>2, <2>6
  <2>8. result.page < PagesIn(result') BY <1>0, <2>4, <2>6 DEF TableOK
  <2> QED BY <1>0, <1>3, <1>5, <2>3, <2>4, <2>7, <2>8
<1> QED BY <1>1, <1>2, <1>6, <1>7, <1>8, <1>9

\* The page of one Experiment: its cursors, its rows, its highlight, its replay.
LEMMA DetailSteps ==
  ASSUME PagesInv,
         \/ ShowExperiment \/ DetailArrives \/ NextCursor \/ PreviousCursor
         \/ HighlightDetail \/ AskReplay
  PROVE  DetailOK(detail')
<1>0. DetailOK(detail) /\ DOMAIN detail = DetailFields /\ CursorsOK(detail) /\ ArrivedOK(detail)
  BY DEF PagesInv, DetailOK
<1>a. PICK len \in Nat : len = Len(detail.cursors) /\ len # 0 /\ DOMAIN detail.cursors = 1 .. len
  BY <1>0 DEF CursorsOK
<1>b. PICK z \in Nat : z = DetailSize /\ z # 0 BY PagesAssumption
<1>c. /\ detail.cursors \in Seq(Nat) /\ len \in 1 .. len
      /\ \A i \in 1 .. len : detail.cursors[i] \in Nat /\ detail.cursors[i] = (i - 1) * z
  <2>1. detail.cursors \in Seq(Nat) BY <1>0 DEF CursorsOK
  <2>2. \A i \in 1 .. len : detail.cursors[i] \in Nat BY <1>a, <2>1
  <2>3. \A i \in 1 .. len : detail.cursors[i] = (i - 1) * DetailSize
    BY <1>0, <1>a DEF CursorsOK
  <2>4. len \in 1 .. len BY <1>a
  <2> QED BY <1>b, <2>1, <2>2, <2>3, <2>4
<1>1. CASE ShowExperiment
  <2>1. PICK e \in Experiments :
          detail' = [Detail(e) EXCEPT !.replay = detail.replay, !.moved = detail.replay # NoResult]
    BY <1>1 DEF ShowExperiment
  <2>2. PICK m \in BOOLEAN : m = (detail.replay # NoResult) OBVIOUS
  <2>3. /\ DOMAIN detail' = DetailFields /\ detail'.shown = e /\ detail'.cursors = FromTheTop
        /\ detail'.page = Waiting /\ detail'.lit = <<>> /\ detail'.replay = detail.replay
        /\ detail'.moved = m
    BY <2>1, <2>2 DEF Detail, DetailFields, FromTheTop
  <2> QED BY <2>2, <2>3, NewDetail
<1>2. CASE DetailArrives
  <2>1. PICK top : top = detail.cursors[len] OBVIOUS
  <2>2. top \in Nat BY <1>0, <1>a, <2>1 DEF CursorsOK
  <2>3. PICK e \in Experiments : e = detail.shown BY <1>0, <1>2 DEF DetailArrives, DetailOK
  <2>4. PICK T \in Nat : T = Trades[e] BY PagesAssumption
  <2>5. PICK page : page = PageTrades(e, top, z) OBVIOUS
  <2>6. /\ page.items = (top + 1) .. Least(top + z, T)
        /\ page.next \in {0, top + z}
    BY <2>4, <2>5 DEF PageTrades
  <2>7. PICK new : new = [arrived |-> TRUE, items |-> page.items, next |-> page.next] OBVIOUS
  <2>8. detail' = [detail EXCEPT !.page = new]
    BY <1>2, <1>a, <1>b, <2>1, <2>3, <2>5, <2>7 DEF DetailArrives, Top
  <2>9. /\ DOMAIN detail' = DetailFields /\ detail'.shown = detail.shown
        /\ detail'.cursors = detail.cursors /\ detail'.page = new /\ detail'.lit = detail.lit
        /\ detail'.replay = detail.replay /\ detail'.moved = detail.moved
    BY <1>0, <2>8 DEF DetailFields
  <2>10. new.items = (top + 1) .. Least(top + z, T) /\ new.next \in {0, top + z} BY <2>6, <2>7
  <2>11. ArrivedOK(detail') BY <1>a, <1>b, <2>1, <2>3, <2>4, <2>9, <2>10 DEF ArrivedOK
  <2>12. CursorsOK(detail') BY <1>0, <2>9 DEF CursorsOK
  <2> QED BY <1>0, <2>9, <2>11, <2>12 DEF DetailOK
<1>3. ASSUME NEW cs, detail' = [detail EXCEPT !.cursors = cs, !.page = Waiting],
             cs \in Seq(Nat), Len(cs) > 0, \A i \in DOMAIN cs : cs[i] = (i - 1) * DetailSize
      PROVE  DetailOK(detail')
  <2>1. /\ DOMAIN detail' = DetailFields /\ detail'.shown = detail.shown
        /\ detail'.cursors = cs /\ detail'.page = Waiting /\ detail'.lit = detail.lit
        /\ detail'.replay = detail.replay /\ detail'.moved = detail.moved
    BY <1>0, <1>3 DEF DetailFields
  <2>2. CursorsOK(detail') BY <1>3, <2>1 DEF CursorsOK
  <2>3. ~ detail'.page.arrived BY <2>1 DEF Waiting
  <2>4. ArrivedOK(detail') BY <2>3 DEF ArrivedOK
  <2> QED BY <1>0, <2>1, <2>2, <2>4 DEF DetailOK
<1>4. CASE NextCursor
  <2>1. PICK top : top = detail.cursors[len] OBVIOUS
  <2>2. PICK next : next = detail.page.next OBVIOUS
  <2>3. next = top + z BY <1>0, <1>4, <1>a, <1>b, <2>1, <2>2 DEF NextCursor, ArrivedOK
  <2>4. top \in Nat /\ top = (len - 1) * z BY <1>c, <2>1
  <2>5. next \in Nat /\ next = len * z
    <3>1. (len - 1) * z + z = len * z BY <1>a, <1>b
    <3> QED BY <1>b, <2>3, <2>4, <3>1
  <2>6. PICK cs : cs = Append(detail.cursors, next) OBVIOUS
  <2>7. detail' = [detail EXCEPT !.cursors = cs, !.page = Waiting]
    BY <1>4, <2>2, <2>6 DEF NextCursor
  <2>8. detail.cursors \in Seq(Nat) /\ \A i \in 1 .. len : detail.cursors[i] = (i - 1) * z
    BY <1>c
  <2>9. /\ cs \in Seq(Nat) /\ Len(cs) = len + 1 /\ cs[len + 1] = next
        /\ \A i \in 1 .. len : cs[i] = detail.cursors[i]
    BY <1>a, <2>5, <2>6, <2>8
  <2>10. \A i \in DOMAIN cs : cs[i] = (i - 1) * z
    <3>1. DOMAIN cs = 1 .. (len + 1) BY <2>9
    <3>2. ASSUME NEW i \in 1 .. (len + 1) PROVE cs[i] = (i - 1) * z
      <4>1. CASE i = len + 1
        <5>1. i - 1 = len BY <1>a, <4>1
        <5> QED BY <2>5, <2>9, <4>1, <5>1
      <4>2. CASE i \in 1 .. len BY <2>8, <2>9, <4>2
      <4> QED BY <1>a, <4>1, <4>2
    <3> QED BY <3>1, <3>2
  <2>11. \A i \in DOMAIN cs : cs[i] = (i - 1) * DetailSize BY <1>b, <2>10
  <2>12. Len(cs) > 0 BY <1>a, <2>9
  <2> QED BY <1>3, <2>7, <2>9, <2>11, <2>12
<1>5. CASE PreviousCursor
  <2>1. PICK cs : cs = SubSeq(detail.cursors, 1, len - 1) OBVIOUS
  <2>2. len > 1 /\ detail' = [detail EXCEPT !.cursors = cs, !.page = Waiting]
    BY <1>5, <1>a, <2>1 DEF PreviousCursor
  <2>3. detail.cursors \in Seq(Nat) /\ \A i \in 1 .. len : detail.cursors[i] = (i - 1) * z
    BY <1>c
  <2>4. /\ cs \in Seq(Nat) /\ Len(cs) = len - 1
        /\ \A i \in 1 .. (len - 1) : cs[i] = detail.cursors[i]
    BY <1>a, <2>1, <2>2, <2>3, SMTT(30)
  <2>5. DOMAIN cs = 1 .. (len - 1) BY <1>a, <2>2, <2>4
  <2>6. \A i \in DOMAIN cs : cs[i] = (i - 1) * DetailSize
    <3>1. ASSUME NEW i \in 1 .. (len - 1) PROVE cs[i] = (i - 1) * z
      <4>1. i \in 1 .. len BY <1>a
      <4> QED BY <2>3, <2>4, <4>1
    <3> QED BY <1>b, <2>5, <3>1
  <2>7. Len(cs) > 0 BY <1>a, <2>2, <2>4
  <2> QED BY <1>3, <2>2, <2>4, <2>6, <2>7
<1>6. CASE HighlightDetail
  <2>1. PICK t \in detail.page.items : detail.page.arrived /\ detail' = [detail EXCEPT !.lit = <<t>>]
    BY <1>6 DEF HighlightDetail
  <2>2. /\ DOMAIN detail' = DetailFields /\ detail'.shown = detail.shown
        /\ detail'.cursors = detail.cursors /\ detail'.page = detail.page /\ detail'.lit = <<t>>
        /\ detail'.replay = detail.replay /\ detail'.moved = detail.moved
    BY <1>0, <2>1 DEF DetailFields
  <2>3. detail.shown \in Experiments BY <1>0, <2>1 DEF ArrivedOK
  <2>4. PICK T \in Nat : T = Trades[detail.shown] BY <2>3, PagesAssumption
  <2>5. PICK top \in Nat : top = detail.cursors[len] BY <1>0, <1>a DEF CursorsOK
  <2>6. t \in (top + 1) .. Least(top + z, T)
    BY <1>0, <1>a, <1>b, <2>1, <2>4, <2>5 DEF ArrivedOK
  <2>7. t \in 1 .. T
    <3>0. top + z \in Nat BY <1>b, <2>5
    <3>1. Least(top + z, T) \in Nat /\ Least(top + z, T) <= T BY <2>4, <3>0, LeastOne
    <3> QED BY <2>4, <2>5, <2>6, <3>1
  <2>8. detail'.lit[1] = t BY <2>2
  <2>9. CursorsOK(detail') /\ ArrivedOK(detail') BY <1>0, <2>2 DEF CursorsOK, ArrivedOK
  <2> QED BY <1>0, <2>2, <2>3, <2>4, <2>7, <2>8, <2>9 DEF DetailOK
<1>7. CASE AskReplay
  <2>1. detail' = [detail EXCEPT !.replay = detail.shown, !.moved = FALSE] BY <1>7 DEF AskReplay
  <2>2. /\ DOMAIN detail' = DetailFields /\ detail'.shown = detail.shown
        /\ detail'.cursors = detail.cursors /\ detail'.page = detail.page
        /\ detail'.lit = detail.lit /\ detail'.replay = detail.shown
    BY <1>0, <2>1 DEF DetailFields
  <2>3. CursorsOK(detail') /\ ArrivedOK(detail') BY <1>0, <2>2 DEF CursorsOK, ArrivedOK
  <2> QED BY <1>0, <2>2, <2>3 DEF DetailOK
<1> QED BY <1>1, <1>2, <1>4, <1>5, <1>6, <1>7

\* A page of the table is empty only without trades or beyond what was fetched.
LEMMA PageHasTrades ==
  ASSUME NEW r, TableOK(r), r.state = "ready", SliceOf(r) = {}
  PROVE  Trades[r.shown] = 0 \/ r.page * r.size >= MaxBatches * Batch
<1>1. ResultOK(r) /\ r.page < PagesIn(r) /\ ReadyOK(r) BY DEF TableOK, ResultOK
<1>2. PICK T \in Nat : T = Trades[r.shown] /\ r.total = T BY <1>1, PagesAssumption DEF ReadyOK
<1>3. PICK z \in Nat : z = r.size /\ z # 0 BY <1>1 DEF ResultOK
<1>4. PICK p \in Nat : p = r.page BY <1>1 DEF ReadyOK
<1>5. PICK k \in Nat : k = MaxBatches * Batch BY PagesAssumption
<1>6. PICK e \in Nat : e = Least(T, k) /\ e \in {T, k} BY LeastOne
<1>7. r.got = 1 .. e BY <1>1, <1>2, <1>5, <1>6 DEF ReadyOK
<1> SUFFICES ASSUME T # 0, ~ (p * z >= k) PROVE FALSE BY <1>2, <1>3, <1>4, <1>5
<1>8. PICK x \in Nat : x = p * z BY <1>3, <1>4
<1>9. x < T
  <2>1. PICK q \in Nat : q = PagesIn(r) /\ q # 0 /\ (q - 1) * z < T
    BY <1>1, <1>2, <1>3, PagesAreEnough
  <2>2. p <= q - 1 BY <1>1, <1>4, <2>1
  <2>3. p * z <= (q - 1) * z /\ (q - 1) * z \in Int BY <1>3, <1>4, <2>1, <2>2
  <2> QED BY <1>2, <1>8, <2>1, <2>3
<1>10. (p + 1) * z = x + z BY <1>3, <1>4, <1>8
<1>11. x + 1 \in 1 .. e BY <1>5, <1>6, <1>8, <1>9
<1>12. x < x + 1 /\ x + 1 <= (p + 1) * z BY <1>3, <1>8, <1>10
<1>13. x + 1 \in SliceOf(r) BY <1>3, <1>4, <1>7, <1>8, <1>11, <1>12 DEF SliceOf
<1> QED BY <1>13

\* However batches, pages, sizes and Experiments change: the table shows the
\* trades in order and no empty page before what was fetched ends, a highlight
\* is on the page that is shown, and the other page shows the rows its footer
\* counts and a replay of its Experiment (BacktestLive, ExperimentDetail).
THEOREM PagesStayTrue == PagesSpec => []PagesAreTrue
<1>1. PagesInit => PagesInv BY PagesStart
<1>2. PagesInv /\ [PagesNext]_pagesVars => PagesInv'
  <2> SUFFICES ASSUME PagesInv, [PagesNext]_pagesVars PROVE PagesInv' OBVIOUS
  <2>1. CASE UNCHANGED pagesVars BY <2>1 DEF pagesVars, PagesInv
  <2>2. TableOK(result) /\ DetailOK(detail) BY DEF PagesInv
  <2>3. CASE \/ Bind \/ ClearResult \/ FetchBatch \/ FetchFails \/ TurnTradePage
             \/ GoToTradePage \/ ChangeTradeSize \/ HighlightTrade
    <3>1. TableOK(result') BY <2>3, FetchStep, TradeTableSteps
    <3>2. detail' = detail
      BY <2>3 DEF Bind, ClearResult, FetchBatch, FetchFails, TurnTradePage, GoToTradePage,
                  GoTo, ChangeTradeSize, HighlightTrade
    <3> QED BY <2>2, <3>1, <3>2 DEF PagesInv
  <2>4. CASE \/ ShowExperiment \/ DetailArrives \/ NextCursor \/ PreviousCursor
             \/ HighlightDetail \/ AskReplay
    <3>1. DetailOK(detail') BY <2>4, DetailSteps
    <3>2. result' = result
      BY <2>4 DEF ShowExperiment, DetailArrives, NextCursor, PreviousCursor, HighlightDetail, AskReplay
    <3> QED BY <2>2, <3>1, <3>2 DEF PagesInv
  <2> QED BY <2>1, <2>3, <2>4 DEF PagesNext
<1>3. PagesInv => PagesAreTrue
  <2> SUFFICES ASSUME PagesInv PROVE PagesAreTrue OBVIOUS
  <2>1. TableOK(result) /\ DetailOK(detail) /\ TablePages = PagesIn(result) /\ Slice = SliceOf(result)
    BY TableOf DEF PagesInv
  <2>2. TableShowsTrades
    <3>1. result.state = "ready" => ReadyOK(result) BY <2>1 DEF TableOK, ResultOK
    <3> QED BY <2>1, <3>1, PageHasTrades DEF TableOK, ReadyOK, TableShowsTrades
  <2>3. HighlightIsOnPage BY <2>1 DEF TableOK, HighlightIsOnPage
  <2>4. DetailShowsTrades
    <3>1. PICK len \in Nat : len = Len(detail.cursors) /\ len # 0 BY <2>1 DEF DetailOK, CursorsOK
    <3>2. PICK z \in Nat : z = DetailSize BY PagesAssumption
    <3>3. PICK x \in Nat : x = (len - 1) * z BY <3>1, <3>2
    <3>4. detail.cursors[len] = x
      <4>1. len \in DOMAIN detail.cursors BY <2>1, <3>1 DEF DetailOK, CursorsOK
      <4>2. detail.cursors[len] = (len - 1) * DetailSize BY <2>1, <4>1 DEF DetailOK, CursorsOK
      <4> QED BY <3>2, <3>3, <4>2
    <3>5. detail.page.arrived => detail.page.items = (x + 1) .. Least(x + z, Trades[detail.shown])
      BY <2>1, <3>1, <3>2, <3>4 DEF DetailOK, ArrivedOK
    <3>6. (x + 1) + z - 1 = x + z BY <3>2, <3>3
    <3>7. detail.page.arrived /\ detail.page.items # {} =>
            LET start == (Len(detail.cursors) - 1) * DetailSize + 1
            IN  detail.page.items = start .. Least(start + DetailSize - 1, Trades[detail.shown])
      BY <3>1, <3>2, <3>3, <3>5, <3>6
    <3> QED BY <2>1, <3>7 DEF DetailOK, DetailShowsTrades
  <2> QED BY <2>2, <2>3, <2>4 DEF PagesAreTrue
<1> QED BY <1>1, <1>2, <1>3, PTL DEF PagesSpec

-----------------------------------------------------------------------------
(* The market screen                                                       *)

MarketSpec == MarketInit /\ [][MarketNext]_marketVars

PanelType == [id : PanelIds, pair : Pairs, frame : 1 .. Frames]
LayoutType == [panels : Seq(PanelType), live : BOOLEAN, pair : Pairs, primary : Nat]
ChartStates == {"none", "CONNECTING", "PAUSED", "CONNECTED", "RECONNECTING", "ERROR"}
ScreenFields == [open : BOOLEAN, caps : {"loading", "ready", "failed"},
                 states : [PanelIds -> ChartStates], trades : SUBSET Pairs]

\* The charts of a layout have names of their own.
LayoutOK(l) ==
  /\ l \in LayoutType
  /\ \A i, j \in DOMAIN l.panels : l.panels[i].id = l.panels[j].id => i = j

\* The charts that have a say in the line at the top.
HaveState(states) == {id \in PanelIds : states[id] # "none"}
SayOK(l, states, ghosts) ==
  HaveState(states) = IdsOf(l) \cup ghosts /\ ghosts \cap IdsOf(l) = {}

\* The trades are of one pair, that of the title while it is the selected one.
TradesOK(l, trades, mismatch) ==
  /\ \A p, q \in trades : p = q
  /\ mismatch \/ (trades \subseteq {Primary(l).pair} /\ l.pair = Primary(l).pair)

MarketOK(l, scr, odd) ==
  /\ LayoutOK(l) /\ scr \in ScreenFields
  /\ odd \in [ghosts : SUBSET PanelIds, mismatch : BOOLEAN]
  /\ ~scr.open => scr = Closed /\ odd.ghosts = {}
  /\ scr.open => SayOK(l, scr.states, odd.ghosts)
  /\ TradesOK(l, scr.trades, odd.mismatch)
MarketInv == MarketOK(layout, market, strange) /\ saved = layout /\ supported \subseteq Pairs

LEMMA RanksOf ==
  ASSUME NEW S \in SUBSET Int, IsFiniteSet(S)
  PROVE  /\ Cardinality(S) \in Nat
         /\ \A r \in S : Rank(S, r) \in 1 .. Cardinality(S)
         /\ \A n \in 1 .. Cardinality(S) : \E r \in S : Rank(S, r) = n
         /\ \A q, r \in S : Rank(S, q) = Rank(S, r) => q = r
<1> DEFINE Low(r) == {s \in S : s <= r}
<1>1. Cardinality(S) \in Nat /\ \A r \in S : r \in Int BY FS_CardinalityType
<1>2. ASSUME NEW r \in S
      PROVE  /\ Low(r) \in SUBSET S /\ IsFiniteSet(Low(r)) /\ r \in Low(r)
             /\ Rank(S, r) = Cardinality(Low(r)) /\ Rank(S, r) \in 1 .. Cardinality(S)
  <2>1. Low(r) \in SUBSET S /\ r \in Low(r) /\ Low(r) # {} BY <1>1
  <2>2. IsFiniteSet(Low(r)) /\ Cardinality(Low(r)) <= Cardinality(S) BY <2>1, FS_Subset
  <2>3. Cardinality(Low(r)) \in Nat /\ Cardinality(Low(r)) # 0
    BY <2>1, <2>2, FS_CardinalityType, FS_EmptySet
  <2>4. Rank(S, r) = Cardinality(Low(r)) BY DEF Rank
  <2> QED BY <1>1, <2>1, <2>2, <2>3, <2>4
<1>3. ASSUME NEW q \in S, NEW r \in S, q < r PROVE Rank(S, q) # Rank(S, r)
  <2>1. r \notin Low(q) /\ r \in Low(r) BY <1>1, <1>3
  <2>2. Low(q) \in SUBSET Low(r)
    <3>1. ASSUME NEW s \in Low(q) PROVE s \in Low(r)
      <4>1. s \in S /\ s \in Int /\ s <= q /\ q \in Int /\ r \in Int BY <1>1
      <4> QED BY <1>3, <4>1
    <3> QED BY <3>1
  <2>3. Low(q) # Low(r) BY <2>1
  <2> HIDE DEF Low
  <2>4. Cardinality(Low(q)) # Cardinality(Low(r)) BY <1>2, <2>2, <2>3, FS_Subset
  <2> QED BY <1>2, <2>4
<1>4. ASSUME NEW q \in S, NEW r \in S, Rank(S, q) = Rank(S, r) PROVE q = r
  <2>1. q \in Int /\ r \in Int BY <1>1
  <2>2. ~ q < r /\ ~ r < q BY <1>3, <1>4
  <2> QED BY <2>1, <2>2
<1>5. ASSUME NEW n \in 1 .. Cardinality(S) PROVE \E r \in S : Rank(S, r) = n
  <2> DEFINE Places == {Rank(S, r) : r \in S}
  <2> DEFINE f == [r \in S |-> Rank(S, r)]
  <2>1. Places \in SUBSET (1 .. Cardinality(S)) BY <1>2
  <2>2. f \in Bijection(S, Places)
    <3>1. f \in [S -> Places] OBVIOUS
    <3>2. \A q, r \in S : f[q] = f[r] => q = r BY <1>4
    <3>3. \A p \in Places : \E r \in S : f[r] = p OBVIOUS
    <3> HIDE DEF f, Places
    <3> QED BY <3>1, <3>2, <3>3 DEF Bijection, Injection, IsInjective, Surjection
  <2>3. ExistsBijection(S, Places) BY <2>2 DEF ExistsBijection
  <2>4. Cardinality(Places) = Cardinality(S) BY <2>3, FS_Bijection
  <2>5. IsFiniteSet(1 .. Cardinality(S)) /\ Cardinality(1 .. Cardinality(S)) = Cardinality(S)
    BY <1>1, FS_Interval
  <2>6. Places = 1 .. Cardinality(S)
    <3> HIDE DEF Places
    <3> QED BY <2>1, <2>4, <2>5, FS_Subset
  <2> QED BY <2>6
<1> QED BY <1>1, <1>2, <1>4, <1>5


\* What the fields of a layout are.
LEMMA LayoutFields ==
  ASSUME NEW l, LayoutOK(l)
  PROVE  /\ l.panels \in Seq(PanelType) /\ Len(l.panels) \in Nat
         /\ DOMAIN l.panels = 1 .. Len(l.panels) /\ Positions(l) = 1 .. Len(l.panels)
         /\ \A i \in Positions(l) : l.panels[i] \in PanelType
         /\ l.live \in BOOLEAN /\ l.pair \in Pairs /\ l.primary \in Nat
         /\ DOMAIN l = {"panels", "live", "pair", "primary"}
         /\ IdsOf(l) \subseteq PanelIds
<1>1. /\ l.panels \in Seq(PanelType)
      /\ l.live \in BOOLEAN /\ l.pair \in Pairs /\ l.primary \in Nat
      /\ DOMAIN l = {"panels", "live", "pair", "primary"}
  BY DEF LayoutOK, LayoutType
<1>2. /\ Len(l.panels) \in Nat /\ DOMAIN l.panels = 1 .. Len(l.panels)
      /\ \A i \in 1 .. Len(l.panels) : l.panels[i] \in PanelType
  <2> HIDE DEF PanelType
  <2> QED BY <1>1
<1>3. \A i \in Positions(l) : l.panels[i] \in PanelType /\ l.panels[i].id \in PanelIds
  BY <1>2 DEF Positions, PanelType
<1> QED BY <1>1, <1>2, <1>3 DEF Positions, IdsOf

\* So many charts as names: a layout of charts with names of their own is valid.
LEMMA LayoutIsValid ==
  ASSUME NEW l, LayoutOK(l)
  PROVE  Valid(l) /\ IsFiniteSet(IdsOf(l)) /\ Cardinality(IdsOf(l)) = Len(l.panels)
<1>1. PICK n \in Nat : n = Len(l.panels) BY LayoutFields
<1> DEFINE f == [i \in 1 .. n |-> l.panels[i].id]
<1>2. f \in Bijection(1 .. n, IdsOf(l))
  <2>1. f \in [1 .. n -> IdsOf(l)] BY <1>1 DEF IdsOf, Positions
  <2>2. \A i, j \in 1 .. n : f[i] = f[j] => i = j BY <1>1, LayoutFields DEF LayoutOK
  <2>3. \A id \in IdsOf(l) : \E i \in 1 .. n : f[i] = id BY <1>1 DEF IdsOf, Positions
  <2> HIDE DEF f
  <2> QED BY <2>1, <2>2, <2>3 DEF Bijection, Injection, IsInjective, Surjection
<1>3. ExistsBijection(1 .. n, IdsOf(l)) BY <1>2 DEF ExistsBijection
<1>4. IsFiniteSet(1 .. n) /\ Cardinality(1 .. n) = n BY <1>1, FS_Interval
<1>5. IsFiniteSet(IdsOf(l)) /\ Cardinality(IdsOf(l)) = n BY <1>3, <1>4, FS_Bijection
<1>6. IsFiniteSet(PanelIds) /\ Cardinality(PanelIds) = MaxPanels
  BY MarketScreenAssumption, FS_Interval DEF PanelIds
<1>7. IdsOf(l) \subseteq PanelIds BY LayoutFields
<1>8. Cardinality(IdsOf(l)) <= MaxPanels BY <1>6, <1>7, FS_Subset
<1> QED BY <1>1, <1>5, <1>8 DEF Valid

\* The primary panel is one of the layout's, or stands for one of its pair.
LEMMA PrimaryOf ==
  ASSUME NEW l, LayoutOK(l)
  PROVE  /\ Primary(l).pair \in Pairs
         /\ l.panels # <<>> => Primary(l).id \in IdsOf(l)
<1>1. ASSUME l.primary \in IdsOf(l) PROVE Primary(l) \in PanelType /\ Primary(l).id \in IdsOf(l)
  <2>1. \E i \in Positions(l) : l.panels[i].id = l.primary BY <1>1 DEF IdsOf
  <2>2. PICK i \in Positions(l) : WithId(l, l.primary) = l.panels[i] BY <2>1 DEF WithId
  <2>3. Primary(l) = l.panels[i] BY <1>1, <2>2 DEF Primary
  <2> QED BY <2>3, LayoutFields DEF IdsOf
<1>2. ASSUME l.primary \notin IdsOf(l), l.panels # <<>>
      PROVE  Primary(l) \in PanelType /\ Primary(l).id \in IdsOf(l)
  <2>1. 1 \in Positions(l) BY <1>2, LayoutFields DEF Positions
  <2>2. Primary(l) = l.panels[1] BY <1>2 DEF Primary
  <2> QED BY <2>1, <2>2, LayoutFields DEF IdsOf
<1>3. ASSUME l.primary \notin IdsOf(l), l.panels = <<>> PROVE Primary(l).pair \in Pairs
  BY <1>3, LayoutFields DEF Primary, Panel
<1>4. ASSUME l.panels # <<>> PROVE Primary(l) \in PanelType /\ Primary(l).id \in IdsOf(l)
  BY <1>1, <1>2, <1>4
<1>5. ASSUME l.panels = <<>> PROVE l.primary \notin IdsOf(l)
  BY <1>5 DEF IdsOf, Positions
<1> QED BY <1>3, <1>4, <1>5 DEF PanelType

\* The default layout has no charts.
LEMMA DefaultIsOK == LayoutOK(DefaultLayout) /\ IdsOf(DefaultLayout) = {}
<1>1. DefaultLayout.panels = <<>> /\ Len(DefaultLayout.panels) = 0 BY DEF DefaultLayout
<1>2. DefaultLayout \in LayoutType
  BY MarketScreenAssumption DEF DefaultLayout, LayoutType
<1> QED BY <1>1, <1>2 DEF LayoutOK, IdsOf, Positions

\* A set of at most one member.
LEMMA AllEqual ==
  ASSUME NEW a, NEW b, NEW c, ~(Cardinality({a, b, c}) > 1)
  PROVE  a = b /\ b = c
<1>1. IsFiniteSet({a, b, c})
  <2>1. IsFiniteSet({}) BY FS_EmptySet
  <2>2. IsFiniteSet({} \cup {c}) BY <2>1, FS_AddElement
  <2>3. IsFiniteSet(({} \cup {c}) \cup {b}) BY <2>2, FS_AddElement
  <2>4. IsFiniteSet((({} \cup {c}) \cup {b}) \cup {a}) BY <2>3, FS_AddElement
  <2>5. {a, b, c} = (({} \cup {c}) \cup {b}) \cup {a} OBVIOUS
  <2> QED BY <2>4, <2>5
<1>2. Cardinality({a, b, c}) \in Nat /\ Cardinality({a, b, c}) # 0
  BY <1>1, FS_CardinalityType, FS_EmptySet
<1>3. Cardinality({a, b, c}) = 1 BY <1>2
<1>4. PICK x : {a, b, c} = {x} BY <1>1, <1>3, FS_Singleton
<1> QED BY <1>4

\* Every chart of the new layout has a say, and so have those the old fallback
\* left behind, unless they are charts again.
LEMMA ReportingOf ==
  ASSUME NEW states \in [PanelIds -> ChartStates], NEW before, NEW l, LayoutOK(l),
         NEW ghosts \in SUBSET PanelIds,
         \A id \in PanelIds \ IdsOf(l) : states[id] # "none" <=> id \in ghosts,
         \A id \in IdsOf(l) \cap IdsOf(before) : states[id] # "none"
  PROVE  /\ Reporting(states, before, l) \in [PanelIds -> ChartStates]
         /\ HaveState(Reporting(states, before, l)) = IdsOf(l) \cup (ghosts \ IdsOf(l))
<1>1. PICK f : f = Reporting(states, before, l) OBVIOUS
<1>2. ASSUME NEW id \in PanelIds
      PROVE  /\ f[id] \in ChartStates
             /\ f[id] # "none" <=> id \in IdsOf(l) \cup (ghosts \ IdsOf(l))
  <2>1. f[id] = IF id \notin IdsOf(l) THEN states[id]
                ELSE IF id \in IdsOf(before) /\ WithId(before, id) = WithId(l, id) /\ before.live = l.live
                     THEN states[id]
                ELSE IF l.live THEN "CONNECTING" ELSE "PAUSED"
    BY <1>1 DEF Reporting
  <2>2. states[id] \in ChartStates OBVIOUS
  <2>3. CASE id \notin IdsOf(l)
    <3>1. f[id] = states[id] BY <2>1, <2>3
    <3> QED BY <2>2, <2>3, <3>1
  <2>4. CASE id \in IdsOf(l) /\ f[id] = states[id] /\ id \in IdsOf(before)
    BY <2>2, <2>4
  <2>5. CASE id \in IdsOf(l) /\ (f[id] = "CONNECTING" \/ f[id] = "PAUSED")
    BY <2>5 DEF ChartStates
  <2> QED BY <2>1, <2>3, <2>4, <2>5
<1>3. f \in [PanelIds -> ChartStates]
  <2>1. f = [id \in PanelIds |-> f[id]] BY <1>1 DEF Reporting
  <2> QED BY <1>2, <2>1
<1>4. IdsOf(l) \subseteq PanelIds BY LayoutFields
<1>5. HaveState(f) = IdsOf(l) \cup (ghosts \ IdsOf(l)) BY <1>2, <1>4 DEF HaveState
<1> QED BY <1>1, <1>3, <1>5

\* What a change of the layout leaves, whatever it was made from.
LEMMA ChangeKeeps ==
  ASSUME MarketInv, NEW before, NEW l, NEW scr, LayoutOK(l), scr \in ScreenFields, scr.open,
         \A id \in PanelIds \ IdsOf(l) : scr.states[id] # "none" <=> id \in strange.ghosts,
         \A id \in IdsOf(l) \cap IdsOf(before) : scr.states[id] # "none",
         \A p, q \in scr.trades : p = q,
         strange.mismatch \/ scr.trades \subseteq {Primary(before).pair},
         Change(before, l, scr)
  PROVE  MarketInv'
<1>1. PICK to : to = Settled(l, scr.caps) OBVIOUS
<1>2. PICK states : states = Reporting(scr.states, before, l) OBVIOUS
<1>3. PICK cleared : cleared = (Cardinality({Primary(k).pair : k \in {before, l, to}}) > 1) OBVIOUS
<1>4. PICK mismatch : mismatch = (to.pair # Primary(to).pair) OBVIOUS
<1>5. /\ layout' = to /\ saved' = Persisted(to) /\ supported' = supported
      /\ market' = [scr EXCEPT !.states = states, !.trades = IF cleared THEN {} ELSE @]
      /\ strange' = [ghosts |-> IF Stale(l, scr.caps) THEN {id \in PanelIds : states[id] # "none"}
                                ELSE strange.ghosts \ IdsOf(to),
                     mismatch |-> mismatch \/ (strange.mismatch /\ ~cleared)]
  BY <1>1, <1>2, <1>3, <1>4 DEF Change
<1>6. LayoutOK(to) /\ (Stale(l, scr.caps) => IdsOf(to) = {}) /\ (~Stale(l, scr.caps) => to = l)
  BY <1>1, DefaultIsOK DEF Settled
<1>7. /\ strange.ghosts \in SUBSET PanelIds /\ strange.mismatch \in BOOLEAN
      /\ supported \subseteq Pairs
  BY DEF MarketInv, MarketOK
<1>8. /\ scr.states \in [PanelIds -> ChartStates] /\ scr.trades \in SUBSET Pairs
      /\ scr.caps \in {"loading", "ready", "failed"}
      /\ DOMAIN scr = {"open", "caps", "states", "trades"}
  BY DEF ScreenFields
<1>9. /\ states \in [PanelIds -> ChartStates]
      /\ HaveState(states) = IdsOf(l) \cup (strange.ghosts \ IdsOf(l))
  BY <1>2, <1>7, <1>8, ReportingOf
<1>10. saved' = layout' BY <1>5, <1>6, LayoutIsValid DEF Persisted
<1>11. PICK trades : trades = IF cleared THEN {} ELSE scr.trades OBVIOUS
<1>12. market' \in ScreenFields /\ market'.open /\ market'.states = states /\ market'.trades = trades
  <2>1. trades \in SUBSET Pairs BY <1>8, <1>11
  <2> QED BY <1>5, <1>8, <1>9, <1>11, <2>1 DEF ScreenFields
<1>13. PICK ghosts : ghosts = IF Stale(l, scr.caps) THEN HaveState(states) ELSE strange.ghosts \ IdsOf(to)
  OBVIOUS
<1>14. PICK odd \in BOOLEAN : odd = (mismatch \/ (strange.mismatch /\ ~cleared)) OBVIOUS
<1>15. strange' = [ghosts |-> ghosts, mismatch |-> odd] BY <1>5, <1>13, <1>14 DEF HaveState
<1>16. ghosts \in SUBSET PanelIds BY <1>7, <1>13 DEF HaveState
<1>17. SayOK(to, states, ghosts)
  <2>1. CASE Stale(l, scr.caps) BY <1>6, <1>13, <2>1 DEF SayOK
  <2>2. CASE ~Stale(l, scr.caps) BY <1>6, <1>9, <1>13, <2>2 DEF SayOK
  <2> QED BY <2>1, <2>2
<1>18. TradesOK(to, trades, odd)
  <2>1. \A p, q \in trades : p = q BY <1>11
  <2>2. ASSUME ~odd PROVE trades \subseteq {Primary(to).pair} /\ to.pair = Primary(to).pair
    <3>1. to.pair = Primary(to).pair BY <1>4, <1>14, <2>2
    <3>2. CASE cleared BY <1>11, <3>1, <3>2
    <3>3. CASE ~cleared
      <4>1. {Primary(k).pair : k \in {before, l, to}} = {Primary(before).pair, Primary(l).pair, Primary(to).pair}
        OBVIOUS
      <4>2. ~(Cardinality({Primary(before).pair, Primary(l).pair, Primary(to).pair}) > 1)
        BY <1>3, <3>3, <4>1
      <4>3. Primary(before).pair = Primary(to).pair BY <4>2, AllEqual
      <4>4. trades \subseteq {Primary(before).pair} BY <1>7, <1>11, <1>14, <2>2, <3>3
      <4> QED BY <3>1, <4>3, <4>4
    <3> QED BY <3>2, <3>3
  <2> QED BY <2>1, <2>2 DEF TradesOK
<1>19. MarketOK(layout', market', strange')
  <2>1. strange' \in [ghosts : SUBSET PanelIds, mismatch : BOOLEAN] BY <1>15, <1>16
  <2>2. strange'.ghosts = ghosts /\ strange'.mismatch = odd BY <1>15
  <2> QED BY <1>5, <1>6, <1>12, <1>17, <1>18, <2>1, <2>2 DEF MarketOK
<1> QED BY <1>5, <1>7, <1>10, <1>19 DEF MarketInv

LEMMA MarketStarts == MarketInit => MarketInv
<1> SUFFICES ASSUME MarketInit PROVE MarketInv OBVIOUS
<1>1. /\ supported \subseteq Pairs /\ saved = layout /\ market = Closed
      /\ strange = [ghosts |-> {}, mismatch |-> layout.pair # Primary(layout).pair]
  BY DEF MarketInit, NothingStrange
<1>2. LayoutOK(layout)
  <2>1. CASE layout = DefaultLayout BY <2>1, DefaultIsOK
  <2>2. ASSUME NEW p \in Pairs,
               layout = [DefaultLayout EXCEPT !.panels = <<Panel(1, DefaultPair, 1)>>, !.pair = p]
        PROVE  LayoutOK(layout)
    <3>1. PICK x : x = Panel(1, DefaultPair, 1) OBVIOUS
    <3>2. x \in PanelType
      BY <3>1, MarketScreenAssumption DEF Panel, PanelType, PanelIds
    <3>3. PICK s : s = <<x>> OBVIOUS
    <3>4. s \in Seq(PanelType) /\ DOMAIN s = {1} BY <3>2, <3>3
    <3>5. layout = [DefaultLayout EXCEPT !.panels = s, !.pair = p] BY <2>2, <3>1, <3>3
    <3>6. layout \in LayoutType /\ layout.panels = s
      <4> HIDE DEF PanelType
      <4> QED BY <3>4, <3>5, DefaultIsOK DEF DefaultLayout, LayoutType
    <3> QED BY <3>4, <3>6 DEF LayoutOK
  <2> QED BY <2>1, <2>2 DEF MarketInit
<1>3. Closed \in ScreenFields /\ ~Closed.open /\ Closed.trades = {}
  BY DEF Closed, NoStates, ScreenFields, ChartStates
<1>4. strange \in [ghosts : SUBSET PanelIds, mismatch : BOOLEAN] /\ strange.ghosts = {}
      /\ strange.mismatch = (layout.pair # Primary(layout).pair)
  BY <1>1
<1>5. TradesOK(layout, market.trades, strange.mismatch) BY <1>1, <1>3, <1>4 DEF TradesOK
<1> QED BY <1>1, <1>2, <1>3, <1>4, <1>5 DEF MarketInv, MarketOK

\* The fields the steps read.
LEMMA MarketFields ==
  ASSUME MarketInv
  PROVE  /\ LayoutOK(layout) /\ saved = layout /\ supported \subseteq Pairs
         /\ market \in ScreenFields /\ market.open \in BOOLEAN
         /\ market.states \in [PanelIds -> ChartStates] /\ market.trades \in SUBSET Pairs
         /\ market.caps \in {"loading", "ready", "failed"}
         /\ DOMAIN market = {"open", "caps", "states", "trades"}
         /\ strange.ghosts \in SUBSET PanelIds /\ strange.mismatch \in BOOLEAN
         /\ DOMAIN strange = {"ghosts", "mismatch"}
         /\ TradesOK(layout, market.trades, strange.mismatch)
         /\ ~market.open => market = Closed /\ strange.ghosts = {}
         /\ market.open => SayOK(layout, market.states, strange.ghosts)
BY DEF MarketInv, MarketOK, ScreenFields

\* A change of the layout on an open screen whose charts keep what they reported.
LEMMA LayoutChanges ==
  ASSUME MarketInv, market.open, NEW l, LayoutOK(l), IdsOf(layout) \subseteq IdsOf(l),
         NEW scr \in ScreenFields, scr.open, scr.states = market.states,
         scr.trades = market.trades, Change(layout, l, scr)
  PROVE  MarketInv'
<1>1. \A id \in PanelIds : market.states[id] # "none" <=> id \in IdsOf(layout) \cup strange.ghosts
  BY MarketFields DEF SayOK, HaveState
<1>2. \A id \in PanelIds \ IdsOf(l) : scr.states[id] # "none" <=> id \in strange.ghosts
  BY <1>1
<1>3. IdsOf(l) \subseteq PanelIds BY LayoutFields
<1>4. \A id \in IdsOf(l) \cap IdsOf(layout) : scr.states[id] # "none" BY <1>1, <1>3
<1>5. (\A p, q \in scr.trades : p = q) /\ (strange.mismatch \/ scr.trades \subseteq {Primary(layout).pair})
  BY MarketFields DEF TradesOK
<1> QED BY <1>2, <1>4, <1>5, MarketFields, ChangeKeeps

LEMMA VisitMarketSteps ==
  ASSUME MarketInv, OpenMarket \/ LeaveMarket \/ ReloadPage \/ Capabilities
  PROVE  MarketInv'
<1>0. Closed \in ScreenFields /\ ~Closed.open /\ Closed.trades = {}
  BY DEF Closed, NoStates, ScreenFields, ChartStates
<1>1. CASE OpenMarket
  <2>1. PICK scr : scr = [Closed EXCEPT !.open = TRUE] OBVIOUS
  <2>2. /\ scr \in ScreenFields /\ scr.open /\ scr.trades = {} /\ scr.states = NoStates
    BY <2>1 DEF Closed, NoStates, ScreenFields, ChartStates
  <2>3. PICK before : before = NoPanels(layout) OBVIOUS
  <2>4. IdsOf(before) = {}
    <3>1. before.panels = <<>> BY <2>3, MarketFields, LayoutFields DEF NoPanels
    <3> QED BY <3>1 DEF IdsOf, Positions
  <2>5. Change(before, layout, scr) /\ ~market.open
    BY <1>1, <2>1, <2>3 DEF OpenMarket, OnScreen
  <2>6. strange.ghosts = {} BY <2>5, MarketFields
  <2>7. \A id \in PanelIds : scr.states[id] = "none" BY <2>2 DEF NoStates
  <2>8. LayoutOK(layout) BY MarketFields
  <2> QED BY <2>2, <2>4, <2>5, <2>6, <2>7, <2>8, ChangeKeeps
<1>2. CASE LeaveMarket \/ ReloadPage
  <2>1. layout' = layout /\ saved' = saved /\ supported' = supported /\ market' = Closed
    BY <1>2, MarketFields, LayoutIsValid DEF LeaveMarket, ReloadPage, Persisted
  <2>2. strange' = [ghosts |-> {}, mismatch |-> layout.pair # Primary(layout).pair]
    BY <1>2, <2>1 DEF LeaveMarket, ReloadPage, NothingStrange
  <2>3. strange' \in [ghosts : SUBSET PanelIds, mismatch : BOOLEAN] /\ strange'.ghosts = {}
        /\ strange'.mismatch = (layout.pair # Primary(layout).pair)
    BY <2>2
  <2>4. TradesOK(layout', market'.trades, strange'.mismatch)
    BY <1>0, <2>1, <2>3 DEF TradesOK
  <2> QED BY <1>0, <2>1, <2>3, <2>4, MarketFields DEF MarketInv, MarketOK
<1>3. CASE Capabilities
  <2>1. PICK answer \in {"ready", "failed"} :
          market.open /\ Change(layout, layout, [market EXCEPT !.caps = answer])
    BY <1>3 DEF Capabilities, OnScreen
  <2>2. PICK scr : scr = [market EXCEPT !.caps = answer] OBVIOUS
  <2>3. scr \in ScreenFields /\ scr.open /\ scr.states = market.states /\ scr.trades = market.trades
    BY <2>1, <2>2, MarketFields DEF ScreenFields
  <2>4. LayoutOK(layout) /\ Change(layout, layout, scr) BY <2>1, <2>2, MarketFields
  <2> QED BY <2>1, <2>3, <2>4, LayoutChanges
<1> QED BY <1>1, <1>2, <1>3

\* A panel that shows something else is the same panel.
LEMMA UpdateKeeps ==
  ASSUME MarketInv, market.open, NEW id \in PanelIds, NEW p \in Pairs, NEW f \in 1 .. Frames,
         UpdatePanel(id, p, f)
  PROVE  MarketInv'
<1>1. PICK n \in Nat : n = Len(layout.panels) BY MarketFields, LayoutFields
<1>2. PICK x : x = Panel(id, p, f) OBVIOUS
<1>3. x \in PanelType /\ x.id = id BY <1>2 DEF Panel, PanelType
<1>4. PICK s : s = [i \in 1 .. n |-> IF layout.panels[i].id = id THEN x ELSE layout.panels[i]]
  OBVIOUS
<1>5. /\ s \in Seq(PanelType) /\ Len(s) = n /\ DOMAIN s = 1 .. n
      /\ \A i \in 1 .. n : s[i].id = layout.panels[i].id
  <2>1. \A i \in 1 .. n : layout.panels[i] \in PanelType BY <1>1, MarketFields, LayoutFields DEF Positions
  <2>2. s \in [1 .. n -> PanelType]
    <3> HIDE DEF PanelType
    <3> QED BY <1>3, <1>4, <2>1
  <2>3. s \in Seq(PanelType) /\ Len(s) = n /\ DOMAIN s = 1 .. n
    <3> HIDE DEF PanelType
    <3> QED BY <2>2
  <2> QED BY <1>3, <1>4, <2>3
<1>6. PICK l : l = [layout EXCEPT !.panels = s] OBVIOUS
<1>7. SetLayout(l)
  BY <1>1, <1>2, <1>4, <1>6, MarketFields, LayoutFields DEF UpdatePanel, Positions
<1>8. l \in LayoutType /\ l.panels = s
  BY <1>5, <1>6, MarketFields, LayoutFields DEF LayoutType
<1>9. LayoutOK(l) /\ IdsOf(l) = IdsOf(layout)
  <2>1. \A i, j \in 1 .. n : layout.panels[i].id = layout.panels[j].id => i = j
    BY <1>1, MarketFields, LayoutFields DEF LayoutOK
  <2>2. LayoutOK(l) BY <1>5, <1>8, <2>1 DEF LayoutOK
  <2> QED BY <1>1, <1>5, <1>8, <2>2 DEF IdsOf, Positions
<1> QED BY <1>7, <1>9, MarketFields, LayoutChanges DEF SetLayout

LEMMA PickSteps ==
  ASSUME MarketInv, PickOfPanel \/ PickOfPrimary
  PROVE  MarketInv'
<1>1. CASE PickOfPanel
  <2>1. PICK id \in IdsOf(layout), p \in supported, f \in 1 .. Frames :
          market.open /\ UpdatePanel(id, p, f)
    BY <1>1 DEF PickOfPanel, Ready, OnScreen
  <2>2. id \in PanelIds /\ p \in Pairs BY <2>1, MarketFields, LayoutFields
  <2> QED BY <2>1, <2>2, UpdateKeeps
<1>2. CASE PickOfPrimary
  <2>1. PICK p \in supported \cup {Primary(layout).pair}, f \in 1 .. Frames :
          /\ market.open
          /\ IF layout.panels = <<>>
             THEN SetLayout([layout EXCEPT !.pair = p, !.panels = <<Panel(1, p, f)>>])
             ELSE UpdatePanel(Primary(layout).id, p, f)
    BY <1>2 DEF PickOfPrimary, Ready, OnScreen
  <2>2. p \in Pairs BY MarketFields, PrimaryOf
  <2>3. CASE layout.panels # <<>>
    <3>1. Primary(layout).id \in PanelIds BY <2>3, MarketFields, PrimaryOf, LayoutFields
    <3>2. UpdatePanel(Primary(layout).id, p, f) BY <2>1, <2>3
    <3> QED BY <2>1, <2>2, <3>1, <3>2, UpdateKeeps
  <2>4. CASE layout.panels = <<>>
    <3>1. PICK x : x = Panel(1, p, f) OBVIOUS
    <3>2. x \in PanelType BY <2>2, <3>1, MarketScreenAssumption DEF Panel, PanelType, PanelIds
    <3>3. PICK s : s = <<x>> OBVIOUS
    <3>4. s \in Seq(PanelType) /\ DOMAIN s = {1} BY <3>2, <3>3
    <3>5. PICK l : l = [layout EXCEPT !.pair = p, !.panels = s] OBVIOUS
    <3>6. SetLayout(l) BY <2>1, <2>4, <3>1, <3>3, <3>5
    <3>7. l \in LayoutType /\ l.panels = s
      <4> HIDE DEF PanelType
      <4> QED BY <2>2, <3>4, <3>5, MarketFields, LayoutFields DEF LayoutType
    <3>8. LayoutOK(l) BY <3>4, <3>7 DEF LayoutOK
    <3>9. IdsOf(layout) = {} BY <2>4 DEF IdsOf, Positions
    <3> QED BY <2>1, <3>6, <3>8, <3>9, MarketFields, LayoutChanges DEF SetLayout
  <2> QED BY <2>3, <2>4
<1> QED BY <1>1, <1>2

\* While there is a place there is a free name.
LEMMA NextIdIsFree ==
  ASSUME NEW l, LayoutOK(l), Len(l.panels) < MaxPanels
  PROVE  NextId(l) \in PanelIds \ IdsOf(l)
<1>1. /\ IsFiniteSet(PanelIds) /\ Cardinality(PanelIds) = MaxPanels
      /\ \A id \in PanelIds : id \in Nat /\ id >= 1
  BY MarketScreenAssumption, FS_Interval DEF PanelIds
<1>2. Cardinality(IdsOf(l)) # MaxPanels BY LayoutIsValid, LayoutFields, MarketScreenAssumption
<1>3. PICK free : free = PanelIds \ IdsOf(l) OBVIOUS
<1>4. free # {} /\ free \in SUBSET Int /\ IsFiniteSet(free)
  <2>1. IdsOf(l) # PanelIds BY <1>1, <1>2
  <2>2. IsFiniteSet(free)
    <3>1. free \subseteq PanelIds BY <1>3
    <3> QED BY <1>1, <3>1, FS_Subset
  <2>3. free \in SUBSET Int BY <1>1, <1>3
  <2>4. free # {}
    <3>1. IdsOf(l) \subseteq PanelIds BY LayoutFields
    <3> QED BY <1>3, <2>1, <3>1
  <2> QED BY <2>2, <2>3, <2>4
<1>5. PICK least \in free : \A t \in free : least <= t BY <1>4, EndsOf
<1>6. \A j \in 1 .. (least - 1) : j \in IdsOf(l)
  <2> SUFFICES ASSUME NEW j \in 1 .. (least - 1), j \notin IdsOf(l) PROVE FALSE OBVIOUS
  <2>1. least \in Nat /\ least <= MaxPanels BY <1>3, <1>5, MarketScreenAssumption DEF PanelIds
  <2>2. j \in PanelIds BY <2>1, MarketScreenAssumption DEF PanelIds
  <2>3. least <= j BY <1>3, <1>5, <2>2
  <2> QED BY <2>1, <2>3
<1> QED BY <1>3, <1>5, <1>6 DEF NextId

LEMMA AddChartStep == ASSUME MarketInv, AddChart PROVE MarketInv'
<1>1. /\ market.open /\ Len(layout.panels) < MaxPanels
      /\ SetLayout([layout EXCEPT !.panels =
                      Append(@, Panel(NextId(layout), layout.pair, NextFrame(layout)))])
  BY DEF AddChart, OnScreen
<1>2. PICK id : id = NextId(layout) OBVIOUS
<1>3. id \in PanelIds /\ id \notin IdsOf(layout) BY <1>1, <1>2, MarketFields, NextIdIsFree
<1>4. NextFrame(layout) \in 1 .. Frames
  <2>1. PICK free : free = {f \in 1 .. Frames : \A i \in Positions(layout) : layout.panels[i].frame # f}
    OBVIOUS
  <2>2. NextFrame(layout) = IF free = {} THEN 1 ELSE CHOOSE f \in free : \A g \in free : f <= g
    BY <2>1 DEF NextFrame
  <2>3. IsFiniteSet(1 .. Frames) /\ free \subseteq 1 .. Frames /\ 1 \in 1 .. Frames
    BY <2>1, FS_Interval, MarketScreenAssumption
  <2>4. ASSUME free # {} PROVE \E f \in free : \A g \in free : f <= g
    <3>1. IsFiniteSet(free) BY <2>3, FS_Subset
    <3>2. free \in SUBSET Int BY <2>3
    <3> QED BY <2>4, <3>1, <3>2, EndsOf
  <2> QED BY <2>2, <2>3, <2>4
<1>5. PICK x : x = Panel(id, layout.pair, NextFrame(layout)) OBVIOUS
<1>6. x \in PanelType /\ x.id = id
  BY <1>3, <1>4, <1>5, MarketFields, LayoutFields DEF Panel, PanelType
<1>7. PICK n \in Nat : n = Len(layout.panels) BY MarketFields, LayoutFields
<1>8. PICK s : s = Append(layout.panels, x) OBVIOUS
<1>9. /\ s \in Seq(PanelType) /\ Len(s) = n + 1 /\ DOMAIN s = 1 .. (n + 1)
      /\ \A i \in 1 .. n : s[i] = layout.panels[i]
      /\ s[n + 1] = x
  <2> HIDE DEF PanelType
  <2> QED BY <1>6, <1>7, <1>8, MarketFields, LayoutFields
<1>10. PICK l : l = [layout EXCEPT !.panels = s] OBVIOUS
<1>11. SetLayout(l) BY <1>1, <1>2, <1>5, <1>8, <1>10
<1>12. l \in LayoutType /\ l.panels = s
  <2> HIDE DEF PanelType
  <2> QED BY <1>9, <1>10, MarketFields, LayoutFields DEF LayoutType
<1>13. \A i \in 1 .. n : layout.panels[i].id \in IdsOf(layout) BY <1>7 DEF IdsOf, Positions
<1>14. LayoutOK(l)
  <2>1. \A i, j \in 1 .. n : layout.panels[i].id = layout.panels[j].id => i = j
    BY <1>7, MarketFields, LayoutFields DEF LayoutOK
  <2>2. ASSUME NEW i \in 1 .. (n + 1), NEW j \in 1 .. (n + 1), s[i].id = s[j].id PROVE i = j
    <3>1. (i \in 1 .. n \/ i = n + 1) /\ (j \in 1 .. n \/ j = n + 1) OBVIOUS
    <3> QED BY <1>3, <1>6, <1>9, <1>13, <2>1, <2>2, <3>1
  <2> QED BY <1>9, <1>12, <2>2 DEF LayoutOK
<1>15. IdsOf(layout) \subseteq IdsOf(l)
  <2>1. \A i \in 1 .. n : i \in 1 .. (n + 1) OBVIOUS
  <2> QED BY <1>7, <1>9, <1>12, <2>1 DEF IdsOf, Positions
<1> QED BY <1>1, <1>11, <1>14, <1>15, MarketFields, LayoutChanges DEF SetLayout

NamesIn(s) == {s[k].id : k \in DOMAIN s}
\* Without one panel: the others, with their names.
LEMMA WithoutOf ==
  ASSUME NEW l, LayoutOK(l), NEW id, NEW s, s = WithoutPanel(l.panels, id)
  PROVE  /\ s \in Seq(PanelType)
         /\ NamesIn(s) = IdsOf(l) \ {id}
         /\ \A j, k \in DOMAIN s : s[j].id = s[k].id => j = k
<1>1. PICK n \in Nat : n = Len(l.panels) BY LayoutFields
<1>2. PICK others : others = {i \in 1 .. n : l.panels[i].id # id} OBVIOUS
<1>3. others \in SUBSET Int /\ IsFiniteSet(others)
  <2>1. IsFiniteSet(1 .. n) /\ others \subseteq 1 .. n BY <1>2, FS_Interval
  <2>2. IsFiniteSet(others) BY <2>1, FS_Subset
  <2> QED BY <2>1, <2>2
<1>4. PICK c \in Nat : c = Cardinality(others) BY <1>3, RanksOf
<1>5. s = [k \in 1 .. c |-> l.panels[CHOOSE i \in others : Rank(others, i) = k]]
  <2>1. others = {i \in DOMAIN l.panels : l.panels[i].id # id} BY <1>1, <1>2, LayoutFields
  <2> QED BY <1>4, <2>1 DEF WithoutPanel
<1> DEFINE at(k) == CHOOSE i \in others : Rank(others, i) = k
<1>6. ASSUME NEW k \in 1 .. c PROVE at(k) \in others /\ Rank(others, at(k)) = k
  <2>1. \E i \in others : Rank(others, i) = k BY <1>3, <1>4, RanksOf
  <2> QED BY <2>1
<1>7. ASSUME NEW i \in others PROVE Rank(others, i) \in 1 .. c /\ at(Rank(others, i)) = i
  <2>1. Rank(others, i) \in 1 .. c BY <1>3, <1>4, RanksOf
  <2>2. at(Rank(others, i)) \in others /\ Rank(others, at(Rank(others, i))) = Rank(others, i)
    <3> HIDE DEF at
    <3> QED BY <1>6, <2>1
  <2>3. \A q, r \in others : Rank(others, q) = Rank(others, r) => q = r BY <1>3, RanksOf
  <2> HIDE DEF at
  <2> QED BY <2>1, <2>2, <2>3
<1>8. \A k \in 1 .. c : s[k] = l.panels[at(k)] BY <1>5
<1>9. DOMAIN s = 1 .. c BY <1>5
<1> HIDE DEF at
<1>10. \A i \in others : i \in 1 .. n /\ l.panels[i] \in PanelType /\ l.panels[i].id # id
  BY <1>1, <1>2, LayoutFields DEF Positions
<1>11. s \in Seq(PanelType)
  <2>1. \A k \in 1 .. c : s[k] \in PanelType BY <1>6, <1>8, <1>10
  <2>2. s \in [1 .. c -> PanelType]
    <3>1. s = [k \in 1 .. c |-> s[k]] BY <1>5
    <3> HIDE DEF PanelType
    <3> QED BY <2>1, <3>1
  <2> HIDE DEF PanelType
  <2> QED BY <2>2
<1>12. \A j, k \in DOMAIN s : s[j].id = s[k].id => j = k
  <2>1. ASSUME NEW j \in 1 .. c, NEW k \in 1 .. c, s[j].id = s[k].id PROVE j = k
    <3>1. at(j) \in 1 .. n /\ at(k) \in 1 .. n BY <1>6, <1>10
    <3>2. l.panels[at(j)].id = l.panels[at(k)].id BY <1>8, <2>1
    <3>3. at(j) = at(k) BY <1>1, <3>1, <3>2, LayoutFields DEF LayoutOK
    <3> QED BY <1>6, <3>3
  <2> QED BY <1>9, <2>1
<1>13. NamesIn(s) = IdsOf(l) \ {id}
  <2>1. IdsOf(l) = {l.panels[i].id : i \in 1 .. n} BY <1>1 DEF IdsOf, Positions
  <2>2. ASSUME NEW k \in 1 .. c PROVE s[k].id \in IdsOf(l) \ {id}
    BY <1>6, <1>8, <1>10, <2>1
  <2>3. ASSUME NEW x \in IdsOf(l) \ {id} PROVE \E k \in 1 .. c : s[k].id = x
    <3>1. PICK i \in 1 .. n : l.panels[i].id = x BY <2>1
    <3>2. i \in others BY <1>2, <3>1
    <3>3. PICK k \in 1 .. c : at(k) = i BY <1>7, <3>2
    <3> QED BY <1>8, <3>1, <3>3
  <2> QED BY <1>9, <2>2, <2>3 DEF NamesIn
<1> QED BY <1>11, <1>12, <1>13

LEMMA RemoveStep == ASSUME MarketInv, RemoveChart PROVE MarketInv'
<1>1. PICK id \in IdsOf(layout) :
        /\ market.open /\ Len(layout.panels) > 1
        /\ Change(layout, [layout EXCEPT !.panels = WithoutPanel(@, id)], ForgetState(id))
  BY DEF RemoveChart, OnScreen
<1>2. PICK s : s = WithoutPanel(layout.panels, id) OBVIOUS
<1>3. PICK l : l = [layout EXCEPT !.panels = s] OBVIOUS
<1>4. PICK scr : scr = ForgetState(id) OBVIOUS
<1>5. Change(layout, l, scr)
  <2>1. [layout EXCEPT !.panels = WithoutPanel(@, id)] = l BY <1>2, <1>3
  <2> QED BY <1>1, <1>4, <2>1
<1>6. /\ s \in Seq(PanelType) /\ NamesIn(s) = IdsOf(layout) \ {id}
      /\ \A j, k \in DOMAIN s : s[j].id = s[k].id => j = k
  <2>1. LayoutOK(layout) BY MarketFields
  <2> QED BY ONLY <1>2, <2>1, WithoutOf
<1>7. l \in LayoutType /\ l.panels = s
  <2> HIDE DEF PanelType
  <2> QED BY <1>3, <1>6, MarketFields, LayoutFields DEF LayoutType
<1>8. LayoutOK(l) /\ IdsOf(l) = IdsOf(layout) \ {id}
  <2>1. LayoutOK(l) BY <1>6, <1>7 DEF LayoutOK
  <2>2. DOMAIN s = Positions(l) BY <1>7, <2>1, LayoutFields
  <2>3. IdsOf(l) = NamesIn(s) BY <1>7, <2>2 DEF IdsOf, NamesIn
  <2> QED BY <1>6, <2>1, <2>3
<1>9. id \in PanelIds BY <1>1, MarketFields, LayoutFields
<1>10. /\ scr \in ScreenFields /\ scr.open /\ scr.trades = market.trades
       /\ scr.states = [market.states EXCEPT ![id] = "none"]
  <2>1. scr = [market EXCEPT !.states = [market.states EXCEPT ![id] = "none"]]
    BY <1>4, MarketFields DEF ForgetState
  <2>2. [market.states EXCEPT ![id] = "none"] \in [PanelIds -> ChartStates]
    BY MarketFields DEF ChartStates
  <2>3. PICK t : t = [market.states EXCEPT ![id] = "none"] OBVIOUS
  <2> QED BY <1>1, <2>1, <2>2, <2>3, MarketFields DEF ScreenFields
<1>11. ASSUME NEW i \in PanelIds
       PROVE  scr.states[i] # "none" <=> i # id /\ i \in IdsOf(layout) \cup strange.ghosts
  <2>1. scr.states[i] = IF i = id THEN "none" ELSE market.states[i] BY <1>10, MarketFields
  <2>2. market.states[i] # "none" <=> i \in IdsOf(layout) \cup strange.ghosts
    BY <1>1, MarketFields DEF SayOK, HaveState
  <2> QED BY <2>1, <2>2
<1>12. \A i \in PanelIds \ IdsOf(l) : scr.states[i] # "none" <=> i \in strange.ghosts
  BY <1>1, <1>8, <1>11, MarketFields DEF SayOK
<1>13. \A i \in IdsOf(l) \cap IdsOf(layout) : scr.states[i] # "none"
  BY <1>8, <1>11, MarketFields, LayoutFields
<1>14. (\A p, q \in scr.trades : p = q) /\ (strange.mismatch \/ scr.trades \subseteq {Primary(layout).pair})
  BY <1>10, MarketFields DEF TradesOK
<1> QED BY <1>5, <1>8, <1>10, <1>12, <1>13, <1>14, ChangeKeeps

LEMMA LayoutSteps ==
  ASSUME MarketInv, UsePrimary \/ ToggleLive
  PROVE  MarketInv'
<1>1. PICK l : /\ market.open /\ SetLayout(l)
               /\ \/ \E id \in IdsOf(layout) : l = [layout EXCEPT !.primary = id]
                  \/ l = [layout EXCEPT !.live = ~layout.live]
  BY MarketFields, LayoutFields DEF UsePrimary, ToggleLive, OnScreen
<1>2. \A id \in IdsOf(layout) : id \in Nat
  BY MarketFields, LayoutFields, MarketScreenAssumption DEF PanelIds
<1>3. layout \in LayoutType BY MarketFields DEF LayoutOK
<1>4. l \in LayoutType /\ l.panels = layout.panels
  <2> HIDE DEF PanelType
  <2>1. ASSUME NEW id \in IdsOf(layout), l = [layout EXCEPT !.primary = id]
        PROVE  l \in LayoutType /\ l.panels = layout.panels
    BY <1>2, <1>3, <2>1 DEF LayoutType
  <2>2. ASSUME l = [layout EXCEPT !.live = ~layout.live]
        PROVE  l \in LayoutType /\ l.panels = layout.panels
    BY <1>3, <2>2 DEF LayoutType
  <2> QED BY <1>1, <2>1, <2>2
<1>5. LayoutOK(l) /\ IdsOf(l) = IdsOf(layout)
  BY <1>4, MarketFields DEF LayoutOK, IdsOf, Positions
<1> QED BY <1>1, <1>5, MarketFields, LayoutChanges DEF SetLayout

LEMMA ReportSteps ==
  ASSUME MarketInv, Report \/ Traded
  PROVE  MarketInv'
<1>1. CASE Report
  <2>1. PICK status \in {"CONNECTED", "RECONNECTING", "ERROR"} :
          /\ market.open
          /\ market' = [market EXCEPT !.states =
               [id \in PanelIds |-> IF id \in IdsOf(layout) THEN status ELSE market.states[id]]]
          /\ UNCHANGED <<layout, saved, supported, strange>>
    BY <1>1, MarketFields DEF Report, OnScreen
  <2>2. PICK f : f = [id \in PanelIds |-> IF id \in IdsOf(layout) THEN status ELSE market.states[id]]
    OBVIOUS
  <2>3. f \in [PanelIds -> ChartStates]
    <3>1. status \in ChartStates BY DEF ChartStates
    <3> QED BY <2>2, <3>1, MarketFields
  <2>4. market' \in ScreenFields /\ market'.open /\ market'.states = f /\ market'.trades = market.trades
    BY <2>1, <2>2, <2>3, MarketFields DEF ScreenFields
  <2>5. HaveState(f) = IdsOf(layout) \cup HaveState(market.states)
    <3>1. ASSUME NEW id \in PanelIds
          PROVE  f[id] # "none" <=> id \in IdsOf(layout) \/ market.states[id] # "none"
      BY <2>2
    <3>2. IdsOf(layout) \subseteq PanelIds BY MarketFields, LayoutFields
    <3> QED BY <3>1, <3>2 DEF HaveState
  <2>6. SayOK(layout, f, strange.ghosts) BY <2>1, <2>5, MarketFields DEF SayOK
  <2> QED BY <2>1, <2>4, <2>6 DEF MarketInv, MarketOK
<1>2. CASE Traded
  <2>1. PICK i \in Positions(layout) :
          /\ market.open /\ layout.panels[i].pair = layout.pair
          /\ market' = [market EXCEPT !.trades = Listed(@, layout.panels[i].pair)]
          /\ UNCHANGED <<layout, saved, supported, strange>>
    BY <1>2 DEF Traded, OnScreen
  <2>2. PICK trades : trades = Listed(market.trades, layout.panels[i].pair) OBVIOUS
  <2>3. trades = {layout.pair} /\ trades \in SUBSET Pairs
    BY <2>1, <2>2, MarketFields, LayoutFields DEF Listed
  <2>4. market' = [market EXCEPT !.trades = trades] BY <2>1, <2>2, MarketFields
  <2>5. market' \in ScreenFields /\ market'.open /\ market'.trades = trades
        /\ market'.states = market.states
    BY <2>1, <2>3, <2>4, MarketFields DEF ScreenFields
  <2>6. TradesOK(layout, trades, strange.mismatch) BY <2>3, MarketFields DEF TradesOK
  <2> QED BY <2>1, <2>5, <2>6 DEF MarketInv, MarketOK
<1> QED BY <1>1, <1>2

LEMMA MarketStep == MarketInv /\ [MarketNext]_marketVars => MarketInv'
<1> SUFFICES ASSUME MarketInv, [MarketNext]_marketVars PROVE MarketInv' OBVIOUS
<1>1. CASE UNCHANGED marketVars BY <1>1 DEF MarketInv, marketVars
<1>2. CASE MarketNext
  BY <1>2, VisitMarketSteps, PickSteps, AddChartStep, RemoveStep, LayoutSteps, ReportSteps
     DEF MarketNext
<1> QED BY <1>1, <1>2

\* What the line says follows from what the charts reported.
LEMMA MarketHolds == MarketInv => MarketIsTrue
<1> SUFFICES ASSUME MarketInv PROVE MarketIsTrue OBVIOUS
<1>1. LayoutIsKept BY MarketFields, LayoutIsValid DEF LayoutIsKept
<1>2. TradesAreOfTitle
  <2>1. Cardinality(market.trades) <= 1
    <3>1. CASE market.trades = {} BY <3>1, FS_EmptySet
    <3>2. CASE market.trades # {}
      <4>1. PICK p \in market.trades : TRUE BY <3>2
      <4>2. market.trades = {p} BY <4>1, MarketFields DEF TradesOK
      <4> QED BY <4>2, FS_Singleton
    <3> QED BY <3>1, <3>2
  <2> QED BY <2>1, MarketFields DEF TradesAreOfTitle, TradesOK
<1>3. SummaryIsOfCharts
  <2> SUFFICES ASSUME market.open PROVE SummaryIsOfCharts BY DEF SummaryIsOfCharts, OnScreen
  <2>1. HaveState(market.states) = IdsOf(layout) \cup strange.ghosts BY MarketFields DEF SayOK
  <2>2. PICK reported : reported = {market.states[id] : id \in PanelIds} \ {"none"} OBVIOUS
  <2>3. ASSUME Summary = "Receiving data" PROVE StatesOf(IdsOf(layout)) = {"CONNECTED"}
    <3>1. layout.panels # <<>> /\ reported = {"CONNECTED"} BY <2>2, <2>3 DEF Summary
    <3>2. 1 \in Positions(layout) BY <3>1, MarketFields, LayoutFields
    <3>3. layout.panels[1].id \in IdsOf(layout) BY <3>2 DEF IdsOf
    <3>4. ASSUME NEW id \in IdsOf(layout) PROVE market.states[id] = "CONNECTED"
      <4>1. id \in PanelIds /\ market.states[id] # "none" BY <2>1 DEF HaveState
      <4>2. market.states[id] \in reported BY <2>2, <4>1
      <4> QED BY <3>1, <4>2
    <3> QED BY <3>3, <3>4 DEF StatesOf
  <2>4. ASSUME Summary = "Connection error"
        PROVE  "ERROR" \in StatesOf(IdsOf(layout) \cup strange.ghosts)
    <3>1. "ERROR" \in reported BY <2>2, <2>4 DEF Summary
    <3>2. PICK id \in PanelIds : market.states[id] = "ERROR" BY <2>2, <3>1
    <3>3. id \in IdsOf(layout) \cup strange.ghosts BY <2>1, <3>2 DEF HaveState
    <3> QED BY <3>2, <3>3 DEF StatesOf
  <2> QED BY <2>1, <2>3, <2>4 DEF SummaryIsOfCharts, HaveState
<1> QED BY <1>1, <1>2, <1>3 DEF MarketIsTrue

\* However charts are added, changed, removed and loaded again, and whatever
\* they report: the line at the top is of the charts there are and of those a
\* fallback dropped, the trades are of the pair in the title while it is the
\* selected one, and the browser keeps the layout on display (summarizeStates,
\* addTick, validateMarketLayout).
THEOREM MarketStaysTrue == MarketSpec => []MarketIsTrue
<1>1. MarketInv => MarketIsTrue BY MarketHolds
<1>2. MarketInit => MarketInv BY MarketStarts
<1>3. MarketInv /\ [MarketNext]_marketVars => MarketInv' BY MarketStep
<1> QED BY <1>1, <1>2, <1>3, PTL DEF MarketSpec

-----------------------------------------------------------------------------
(* A chart                                                                 *)

ChartSpec == ChartInit /\ [][ChartNext]_chartVars

\* A list of candles of stream s, and a message of the gateway.
Looks(s) == {Nothing, Candle(s, TRUE), Candle(s, FALSE)}
ListOK(candles, s) == candles \in [Slots -> Looks(s)]
Messages == [of : Streams, slot : (Window + 1) .. (Window + 1 + MaxCloses), closed : BOOLEAN]
AllEnded(ms, t) == \A i \in DOMAIN ms : ms[i].closed => ms[i].slot < t

ChartTyped ==
  /\ DOMAIN chart = {"of", "live", "candles", "drawn", "effect", "dead"}
  /\ chart.live \in BOOLEAN /\ chart.dead \in BOOLEAN /\ chart.effect \in Nat
  /\ chart.of \in Streams /\ ListOK(chart.candles, chart.of)
  /\ now \in (Window + 1) .. (Window + 1 + MaxCloses)
  /\ \A n \in ClosedIn(chart.candles) : n < now
  /\ DOMAIN link = {"state", "again", "waits", "queue"} /\ link.waits \in Nat
  /\ DOMAIN causes = {"missed", "overtaken", "paged", "ragged", "upsets"}
  /\ causes.ragged \in BOOLEAN /\ causes.paged \in Nat
  /\ wire \in Seq(Messages) /\ link.queue \in Seq(Messages)
  /\ AllEnded(wire, now) /\ AllEnded(link.queue, now)

\* A request of the effect that runs is for its stream, and what was read is
\* the newest page of that moment.  While a reconnection waits for a page, no
\* closed candle comes that the page could not have.
RequestOK(r, c, t) ==
  /\ DOMAIN r = {"id", "effect", "of", "read", "upto", "gap"}
  /\ r.id \in Nat \ {0} /\ r.effect \in Nat /\ r.effect <= c.effect
  /\ r.effect = c.effect => r.of = c.of
  /\ r.read \in BOOLEAN /\ r.read => r.upto \in Window .. (t - 1)
Awaited(r, c, paged) ==
  \A n \in ClosedIn(c.candles) : n > paged => n <= r.upto
AskedInv ==
  /\ IsFiniteSet(asked) /\ \A r \in asked : RequestOK(r, chart, now)
  /\ \A r \in asked : r.read /\ r.id = link.waits => Awaited(r, chart, causes.paged)

\* A slot that ended is closed, its close is on its way, there is a cause, or
\* it is below all candles, where no message can come any more.
OnWay(n, s, ms) == \E i \in DOMAIN ms : ms[i].of = s /\ ms[i].closed /\ ms[i].slot = n
Below(candles) ==
  {n \in 1 .. Window : ShownIn(candles) # {} /\ \A m \in ShownIn(candles) : n < m}
Held(candles) == ClosedIn(candles) \cup Below(candles)
Caused(why) == why.missed \cup why.overtaken
CoverInv ==
  chart.live => \A n \in 1 .. (now - 1) :
    \/ n \in Held(chart.candles) \cup Caused(causes)
    \/ OnWay(n, chart.of, wire) \/ OnWay(n, chart.of, link.queue)

\* A list that never had a gap is drawn as it is.
DrawnInv ==
  ~causes.ragged => ~chart.dead /\ chart.drawn = chart.candles /\ Seamless(chart.candles)

ChartInv == ChartTyped /\ AskedInv /\ CoverInv /\ DrawnInv

\* What a slot may look like.
LEMMA LooksOf ==
  ASSUME NEW s
  PROVE  /\ Nothing \in Looks(s) /\ Candle(s, TRUE) \in Looks(s) /\ Candle(s, FALSE) \in Looks(s)
         /\ Nothing # Candle(s, TRUE) /\ Nothing # Candle(s, FALSE)
         /\ Candle(s, TRUE) # Candle(s, FALSE)
         /\ ~Nothing.shown
         /\ \A x \in Looks(s) :
              /\ x.shown <=> x # Nothing
              /\ x.shown /\ x.closed <=> x = Candle(s, TRUE)
              /\ x.shown => x.of = s
<1>1. Nothing.shown = FALSE BY DEF Nothing
<1>2. \A b \in BOOLEAN :
        Candle(s, b).shown = TRUE /\ Candle(s, b).of = s /\ Candle(s, b).closed = b
  BY DEF Candle
<1>3. /\ Candle(s, TRUE).shown = TRUE /\ Candle(s, TRUE).of = s /\ Candle(s, TRUE).closed = TRUE
      /\ Candle(s, FALSE).shown = TRUE /\ Candle(s, FALSE).of = s /\ Candle(s, FALSE).closed = FALSE
  BY <1>2
<1>4. Nothing # Candle(s, TRUE) /\ Nothing # Candle(s, FALSE) BY <1>1, <1>3
<1>5. Candle(s, TRUE) # Candle(s, FALSE) BY <1>3
<1>6. ASSUME NEW x \in Looks(s)
      PROVE  /\ x.shown <=> x # Nothing
             /\ x.shown /\ x.closed <=> x = Candle(s, TRUE)
             /\ x.shown => x.of = s
  <2>1. x = Nothing \/ x = Candle(s, TRUE) \/ x = Candle(s, FALSE) BY DEF Looks
  <2>2. CASE x = Nothing BY <1>1, <1>4, <2>2
  <2>3. CASE x = Candle(s, TRUE) BY <1>3, <1>4, <2>3
  <2>4. CASE x = Candle(s, FALSE) BY <1>3, <1>4, <1>5, <2>4
  <2> QED BY <2>1, <2>2, <2>3, <2>4
<1> QED BY <1>1, <1>4, <1>5, <1>6 DEF Looks

\* The slots and the ends of a set of them.
LEMMA SlotsOf ==
  /\ Slots \subseteq Nat /\ Slots \subseteq Int /\ IsFiniteSet(Slots)
  /\ \A n : n \in Slots <=> n \in Nat /\ n >= 1 /\ n <= Window + 1 + MaxCloses
  /\ Window \in Nat /\ Kept \in Nat /\ MaxCloses \in Nat /\ Kept >= Window /\ Window > MaxCloses
<1>1. Window \in Nat /\ Kept \in Nat /\ MaxCloses \in Nat /\ Kept >= Window /\ Window > MaxCloses
  BY ChartAssumption
<1>2. IsFiniteSet(Slots) BY <1>1, FS_Interval DEF Slots
<1> QED BY <1>1, <1>2 DEF Slots
LEMMA EndsOfSlots ==
  ASSUME NEW S \in SUBSET Slots, S # {}
  PROVE  /\ Lowest(S) \in S /\ \A m \in S : Lowest(S) <= m
         /\ Highest(S) \in S /\ \A m \in S : Highest(S) >= m
<1>1. IsFiniteSet(S)
  <2>1. S \subseteq Slots OBVIOUS
  <2> QED BY <2>1, SlotsOf, FS_Subset
<1>2. S \in SUBSET Int BY SlotsOf
<1>3. /\ \E n \in S : \A m \in S : n <= m
      /\ \E n \in S : \A m \in S : n >= m
  BY <1>1, <1>2, EndsOf
<1> QED BY <1>3 DEF Lowest, Highest

LEMMA ListOf ==
  ASSUME NEW s, NEW candles, ListOK(candles, s)
  PROVE  /\ ShownIn(candles) \subseteq Slots /\ IsFiniteSet(ShownIn(candles))
         /\ \A n \in Slots : candles[n] \in Looks(s)
         /\ DOMAIN candles = Slots
         /\ \A n : n \in ShownIn(candles) <=> n \in Slots /\ candles[n].shown
         /\ \A n : n \in ClosedIn(candles) <=> n \in Slots /\ candles[n] = Candle(s, TRUE)
         /\ \A n \in Slots : n \notin ShownIn(candles) => candles[n] = Nothing
<1>1. DOMAIN candles = Slots /\ \A n \in Slots : candles[n] \in Looks(s) BY DEF ListOK
<1>2. \A n : n \in ShownIn(candles) <=> n \in Slots /\ candles[n].shown BY DEF ShownIn
<1>3. ShownIn(candles) \subseteq Slots BY <1>2
<1>4. IsFiniteSet(ShownIn(candles)) BY <1>3, SlotsOf, FS_Subset
<1>5. ASSUME NEW n PROVE n \in ClosedIn(candles) <=> n \in Slots /\ candles[n] = Candle(s, TRUE)
  BY <1>1, <1>2, LooksOf DEF ClosedIn
<1>6. \A n \in Slots : n \notin ShownIn(candles) => candles[n] = Nothing
  BY <1>1, <1>2, LooksOf
<1> QED BY <1>1, <1>2, <1>3, <1>4, <1>5, <1>6

LEMMA SlotOf ==
  ASSUME NEW s, NEW candles, ListOK(candles, s), NEW n \in Slots
  PROVE  /\ n \in ShownIn(candles) <=> candles[n].shown
         /\ n \in ClosedIn(candles) <=> candles[n] = Candle(s, TRUE)
<1>1. n \in ShownIn(candles) <=> candles[n].shown BY DEF ShownIn
<1>2. candles[n] \in Looks(s) BY DEF ListOK
<1>3. candles[n].shown /\ candles[n].closed <=> candles[n] = Candle(s, TRUE) BY <1>2, LooksOf
<1> QED BY <1>1, <1>3 DEF ClosedIn

\* The list of a page.
ListOfPage(page, s) == [n \in Slots |-> IF n \in page THEN Candle(s, TRUE) ELSE Nothing]
LEMMA PageList ==
  ASSUME NEW s, NEW page \in SUBSET Slots
  PROVE  /\ ListOK(ListOfPage(page, s), s) /\ ShownIn(ListOfPage(page, s)) = page
         /\ ClosedIn(ListOfPage(page, s)) = page
<1>0. PICK next : next = [n \in Slots |-> IF n \in page THEN Candle(s, TRUE) ELSE Nothing] OBVIOUS
<1>1. ASSUME NEW n \in Slots
      PROVE  next[n] \in Looks(s) /\ (next[n].shown <=> n \in page)
             /\ (next[n].shown /\ next[n].closed <=> n \in page)
  BY <1>0, LooksOf
<1>2. ListOK(next, s)
  <2> HIDE DEF Looks
  <2>1. next = [n \in Slots |-> next[n]] BY <1>0
  <2> QED BY <1>1, <2>1 DEF ListOK
<1>3. ShownIn(next) = page /\ ClosedIn(next) = page BY <1>1 DEF ShownIn, ClosedIn
<1>4. ListOfPage(page, s) = next BY <1>0 DEF ListOfPage
<1> QED BY <1>2, <1>3, <1>4

\* A message of the stream changes its slot, and may push out the lowest one:
\* what was closed stays closed or is below all candles, as the list is longer
\* than the time left.
LEMMA MergedKeeps ==
  ASSUME NEW s, NEW a, ListOK(a, s), NEW m \in Messages, m.of = s
  PROVE  /\ ListOK(Merged(a, m), s)
         /\ ClosedIn(Merged(a, m)) \subseteq ClosedIn(a) \cup {n \in {m.slot} : m.closed}
         /\ Held(a) \cup {n \in {m.slot} : m.closed} \subseteq Held(Merged(a, m))
<1>1. PICK k \in Nat : k = m.slot BY SlotsOf DEF Messages
<1>2. k > Window /\ k \in Slots /\ m.closed \in BOOLEAN BY <1>1, SlotsOf DEF Messages
<1>3. PICK x : x = IF a[k].shown /\ a[k].closed /\ ~m.closed THEN a[k] ELSE Candle(s, m.closed)
  OBVIOUS
<1>4. PICK next : next = [a EXCEPT ![k] = x] OBVIOUS
<1>5. /\ x \in Looks(s) /\ x.shown
      /\ (x = Candle(s, TRUE)) <=> (a[k] = Candle(s, TRUE) \/ m.closed)
  <2>1. CASE a[k].shown /\ a[k].closed /\ ~m.closed
    BY <1>2, <1>3, <2>1, ListOf, LooksOf
  <2>2. CASE ~(a[k].shown /\ a[k].closed /\ ~m.closed)
    <3>1. x = Candle(s, m.closed) BY <1>3, <2>2
    <3>2. x \in Looks(s) /\ x.shown BY <1>2, <3>1, LooksOf
    <3>3. x = Candle(s, TRUE) <=> m.closed BY <1>2, <3>1, LooksOf
    <3>4. a[k] = Candle(s, TRUE) => m.closed
      <4>1. a[k] \in Looks(s) BY <1>2, ListOf
      <4> QED BY <1>2, <2>2, <4>1, LooksOf
    <3> QED BY <3>2, <3>3, <3>4
  <2> QED BY <2>1, <2>2
<1>6. /\ ListOK(next, s) /\ ShownIn(next) = ShownIn(a) \cup {k}
      /\ ClosedIn(next) = ClosedIn(a) \cup {n \in {k} : m.closed}
  <2>1. ListOK(next, s)
    <3> HIDE DEF Looks
    <3> QED BY <1>2, <1>4, <1>5 DEF ListOK
  <2>2. ASSUME NEW n \in Slots PROVE next[n] = IF n = k THEN x ELSE a[n]
    BY <1>4, ListOf
  <2>3. ASSUME NEW n \in Slots
        PROVE  /\ n \in ShownIn(next) <=> n \in ShownIn(a) \/ n = k
               /\ n \in ClosedIn(next) <=> n \in ClosedIn(a) \/ (n = k /\ m.closed)
    <3>1. /\ n \in ShownIn(next) <=> next[n].shown
          /\ n \in ClosedIn(next) <=> next[n] = Candle(s, TRUE)
      BY <2>1, SlotOf
    <3>2. /\ n \in ShownIn(a) <=> a[n].shown
          /\ n \in ClosedIn(a) <=> a[n] = Candle(s, TRUE)
      BY SlotOf
    <3>3. CASE n = k BY <1>5, <2>2, <3>1, <3>2, <3>3
    <3>4. CASE n # k BY <2>2, <3>1, <3>2, <3>4
    <3> QED BY <3>3, <3>4
  <2>4. /\ ShownIn(next) \subseteq Slots /\ ShownIn(a) \subseteq Slots
        /\ ClosedIn(next) \subseteq Slots /\ ClosedIn(a) \subseteq Slots
    BY <2>1 DEF ShownIn, ClosedIn
  <2>5. ShownIn(next) = ShownIn(a) \cup {k} BY <1>2, <2>3, <2>4
  <2>6. ClosedIn(next) = ClosedIn(a) \cup {n \in {k} : m.closed} BY <1>2, <2>3, <2>4
  <2> QED BY <2>1, <2>5, <2>6
<1>7. Merged(a, m) = IF Cardinality(ShownIn(next)) > Kept
                     THEN [next EXCEPT ![Lowest(ShownIn(next))] = Nothing] ELSE next
  BY <1>1, <1>3, <1>4 DEF Merged
<1>8. Below(a) \subseteq Below(next)
  <2> SUFFICES ASSUME NEW n \in Below(a) PROVE n \in Below(next) OBVIOUS
  <2>1. n \in 1 .. Window /\ n < k BY <1>2, SlotsOf DEF Below
  <2> QED BY <1>6, <2>1 DEF Below
<1>9. CASE Cardinality(ShownIn(next)) > Kept
  <2>1. PICK low : low = Lowest(ShownIn(next)) OBVIOUS
  <2>2. low \in ShownIn(next) /\ (\A j \in ShownIn(next) : low <= j) /\ low \in Slots
    BY <1>6, <2>1, ListOf, EndsOfSlots
  <2>3. low <= Window
    <3>1. low \in Nat /\ low >= 1 /\ low <= Window + 1 + MaxCloses BY <2>2, SlotsOf
    <3>2. PICK top \in Nat : top = Window + 1 + MaxCloses BY SlotsOf
    <3>3. ShownIn(next) \subseteq low .. top
      <4>1. ASSUME NEW j \in ShownIn(next) PROVE j \in low .. top
        <5>1. j \in Nat /\ j <= top BY <1>6, <3>2, ListOf, SlotsOf
        <5> QED BY <2>2, <3>1, <5>1
      <4> QED BY <4>1
    <3>4. IsFiniteSet(low .. top) /\ Cardinality(low .. top) = top - low + 1
      BY <3>1, <3>2, FS_Interval
    <3>5. Cardinality(ShownIn(next)) <= top - low + 1
      <4>1. Cardinality(ShownIn(next)) <= Cardinality(low .. top) BY ONLY <3>3, <3>4, FS_Subset
      <4> QED BY <3>4, <4>1
    <3>6. Cardinality(ShownIn(next)) \in Nat BY <1>6, ListOf, FS_CardinalityType
    <3> QED BY <1>9, <3>1, <3>2, <3>5, <3>6, SlotsOf
  <2>4. PICK b : b = Merged(a, m) OBVIOUS
  <2>5. b = [next EXCEPT ![low] = Nothing] BY <1>7, <1>9, <2>1, <2>4
  <2>6. \A n \in Slots : b[n] = IF n = low THEN Nothing ELSE next[n]
    BY <1>6, <2>5, ListOf
  <2>7. ListOK(b, s)
    <3> HIDE DEF Looks
    <3> QED BY <1>6, <2>2, <2>5, LooksOf DEF ListOK
  <2>8. ShownIn(b) = ShownIn(next) \ {low} /\ ClosedIn(b) = ClosedIn(next) \ {low}
    <3>1. Nothing # Candle(s, TRUE) /\ ~Nothing.shown BY LooksOf
    <3>2. ASSUME NEW n \in Slots
          PROVE  /\ n \in ShownIn(b) <=> n \in ShownIn(next) /\ n # low
                 /\ n \in ClosedIn(b) <=> n \in ClosedIn(next) /\ n # low
      <4>1. /\ n \in ShownIn(next) <=> next[n].shown
            /\ n \in ClosedIn(next) <=> next[n] = Candle(s, TRUE)
        BY <1>6, SlotOf
      <4>2. /\ n \in ShownIn(b) <=> b[n].shown
            /\ n \in ClosedIn(b) <=> b[n] = Candle(s, TRUE)
        BY <2>7, SlotOf
      <4>3. CASE n = low BY <2>6, <3>1, <4>2, <4>3
      <4>4. CASE n # low BY <2>6, <4>1, <4>2, <4>4
      <4> QED BY <4>3, <4>4
    <3>3. /\ ShownIn(next) \subseteq Slots /\ ShownIn(b) \subseteq Slots
          /\ ClosedIn(next) \subseteq Slots /\ ClosedIn(b) \subseteq Slots
      BY <1>6, <2>7 DEF ShownIn, ClosedIn
    <3> QED BY <3>2, <3>3
  <2>9. k \in ShownIn(b) BY <1>2, <1>6, <2>3, <2>2, <2>8, SlotsOf
  <2>10. low \in Below(b)
    <3>1. low \in 1 .. Window BY <2>2, <2>3, SlotsOf
    <3>2. ASSUME NEW j \in ShownIn(b) PROVE low < j
      <4>1. j \in ShownIn(next) /\ j # low /\ j \in Nat BY <1>6, <2>8, ListOf, SlotsOf
      <4> QED BY <2>2, <4>1, SlotsOf
    <3> QED BY <2>9, <3>1, <3>2 DEF Below
  <2>11. Below(next) \subseteq Below(b) BY <2>8, <2>9 DEF Below
  <2> QED BY <1>1, <1>6, <1>8, <2>4, <2>7, <2>8, <2>10, <2>11 DEF Held
<1>10. CASE ~(Cardinality(ShownIn(next)) > Kept)
  <2>1. Merged(a, m) = next BY <1>7, <1>10
  <2> QED BY <1>1, <1>6, <1>8, <2>1 DEF Held
<1> QED BY <1>9, <1>10

\* A list without a gap is an interval of candles, all closed but the last.
Interval(candles, s, low, high) ==
  /\ low \in Nat /\ high \in Nat /\ low <= high
  /\ ShownIn(candles) = low .. high
  /\ \A n \in low .. high : n # high => candles[n] = Candle(s, TRUE)
LEMMA SeamlessRange ==
  ASSUME NEW s, NEW candles, ListOK(candles, s), Seamless(candles), ShownIn(candles) # {}
  PROVE  Interval(candles, s, Lowest(ShownIn(candles)), Highest(ShownIn(candles)))
<1>0. PICK low, high : low = Lowest(ShownIn(candles)) /\ high = Highest(ShownIn(candles)) OBVIOUS
<1>1. PICK ns : ns = ShownIn(candles) OBVIOUS
<1>2. ns \in SUBSET Slots /\ ns # {} BY <1>1, ListOf
<1>3. /\ low \in ns /\ (\A m \in ns : low <= m) /\ high \in ns /\ (\A m \in ns : high >= m)
  BY <1>0, <1>1, <1>2, EndsOfSlots
<1>4. low \in Nat /\ high \in Nat /\ low <= high /\ \A m \in ns : m \in Nat
  BY <1>2, <1>3, SlotsOf
<1>5. \A n \in ns : n = high \/ (candles[n].closed /\ n + 1 \in ns)
  BY <1>0, <1>1 DEF Seamless
<1>6. ASSUME NEW n \in low .. high PROVE n \in ns
  <2> DEFINE gaps == {k \in low .. high : k \notin ns}
  <2> SUFFICES ASSUME gaps # {} PROVE FALSE OBVIOUS
  <2>1. gaps \in SUBSET Nat BY <1>4
  <2>2. PICK k \in gaps : \A j \in gaps : k <= j BY <2>1, LeastOf
  <2>3. k \in Nat /\ k >= low /\ k <= high /\ k \notin ns /\ k # low BY <1>3, <1>4, <2>2
  <2>4. k - 1 \in low .. high BY <1>4, <2>3
  <2>5. k - 1 \in ns
    <3>1. k - 1 \notin gaps BY <2>2, <2>3, <2>4
    <3> QED BY <2>4, <3>1
  <2>6. k \in ns
    <3>1. PICK j \in ns : j = k - 1 BY <2>5
    <3>2. j # high /\ j + 1 = k BY <1>4, <2>3, <3>1
    <3> QED BY <1>5, <3>2
  <2> QED BY <2>3, <2>6
<1>7. ASSUME NEW n \in ns PROVE n \in low .. high BY <1>3, <1>4
<1>8. ASSUME NEW n \in low .. high, n # high PROVE candles[n] = Candle(s, TRUE)
  <2>1. n \in ns /\ candles[n].closed BY <1>5, <1>6, <1>8
  <2>2. n \in Slots /\ candles[n].shown BY <1>1, <1>2, <2>1 DEF ShownIn
  <2>3. candles[n] \in Looks(s) BY <2>2, ListOf
  <2> QED BY <2>1, <2>2, <2>3, LooksOf
<1>9. ns = low .. high BY <1>6, <1>7
<1> QED BY <1>0, <1>1, <1>4, <1>8, <1>9 DEF Interval

\* Whatever is drawn, the list is the next one.
ChartFields == {"of", "live", "candles", "drawn", "effect", "dead"}
LEMMA ShowsFields ==
  ASSUME NEW c, DOMAIN c = ChartFields, c.dead \in BOOLEAN, NEW next, NEW d, d = Shows(c, next)
  PROVE  /\ DOMAIN d = ChartFields /\ d.of = c.of /\ d.live = c.live /\ d.effect = c.effect
         /\ d.candles = next /\ d.dead \in BOOLEAN
<1>1. PICK changed : changed = {n \in ShownIn(next) : next[n] # c.candles[n]} OBVIOUS
<1>2. PICK refused \in BOOLEAN : refused = (\E n \in changed, m \in ShownIn(c.drawn) : n < m) OBVIOUS
<1>3. PICK drawing : drawing = IF refused THEN c.drawn
                               ELSE [n \in Slots |-> IF n \in changed THEN next[n] ELSE c.drawn[n]]
  OBVIOUS
<1>4. \/ d = [c EXCEPT !.candles = next, !.drawn = next]
      \/ d = [c EXCEPT !.candles = next, !.dead = refused, !.drawn = drawing]
  BY <1>1, <1>2, <1>3 DEF Shows, ChartFields
<1> QED BY <1>4 DEF ChartFields

\* From a list without a gap to another one: the drawing follows.
LEMMA ShowsSeamless ==
  ASSUME NEW c, DOMAIN c = ChartFields, ~c.dead, NEW s, ListOK(c.candles, s), c.drawn = c.candles,
         Seamless(c.candles), NEW next, ListOK(next, s), Seamless(next), NEW d, d = Shows(c, next)
  PROVE  ~d.dead /\ d.drawn = next
<1>1. PICK old : old = c.candles OBVIOUS
<1>2. PICK changed : changed = {n \in ShownIn(next) : next[n] # old[n]} OBVIOUS
<1>3. PICK refused \in BOOLEAN : refused = (\E n \in changed, m \in ShownIn(old) : n < m) OBVIOUS
<1>4. PICK drawing : drawing = IF refused THEN old
                               ELSE [n \in Slots |-> IF n \in changed THEN next[n] ELSE old[n]]
  OBVIOUS
<1>5. CASE ShownIn(next) = {} \/ Replaces(old, next)
  <2>1. d = [c EXCEPT !.candles = next, !.drawn = next] BY <1>1, <1>5 DEF Shows
  <2> QED BY <2>1 DEF ChartFields
<1>6. CASE ~(ShownIn(next) = {} \/ Replaces(old, next))
  <2>1. d = [c EXCEPT !.candles = next, !.dead = refused, !.drawn = drawing]
    BY <1>1, <1>2, <1>3, <1>4, <1>6 DEF Shows, ChartFields
  <2>2. /\ ShownIn(next) # {} /\ ShownIn(old) # {}
        /\ ~(Cardinality(ShownIn(old)) > Cardinality(ShownIn(next)))
        /\ Lowest(ShownIn(old)) = Lowest(ShownIn(next))
    BY <1>6 DEF Replaces
  <2>3. PICK low : low = Lowest(ShownIn(old)) OBVIOUS
  <2>4. PICK was : was = Highest(ShownIn(old)) OBVIOUS
  <2>5. PICK is : is = Highest(ShownIn(next)) OBVIOUS
  <2>6. Interval(old, s, low, was)
    <3>1. ListOK(old, s) /\ Seamless(old) BY <1>1
    <3> QED BY <3>1, <2>2, <2>3, <2>4, SeamlessRange
  <2>7. Interval(next, s, low, is) BY <2>2, <2>3, <2>5, SeamlessRange
  <2>8. was <= is
    <3>0. /\ low \in Nat /\ was \in Nat /\ is \in Nat /\ low <= was /\ low <= is
          /\ ShownIn(old) = low .. was /\ ShownIn(next) = low .. is
      BY <2>6, <2>7 DEF Interval
    <3>1. Cardinality(low .. was) = was - low + 1 /\ Cardinality(low .. is) = is - low + 1
      BY <3>0, FS_Interval
    <3>2. ~(Cardinality(low .. was) > Cardinality(low .. is)) BY <2>2, <3>0
    <3>3. ~(was - low + 1 > is - low + 1) BY ONLY <3>1, <3>2
    <3>4. was \in Nat /\ is \in Nat /\ low \in Nat BY <3>0
    <3> QED BY ONLY <3>3, <3>4
  <2>9. ~refused
    <3> SUFFICES ASSUME NEW n \in changed, NEW m \in low .. was, n < m PROVE FALSE
      BY <1>3, <2>6 DEF Interval
    <3>1. n \in low .. is /\ next[n] # old[n] BY <1>2, <2>7 DEF Interval
    <3>2. n \in low .. was /\ n # was /\ n # is BY <2>6, <2>7, <2>8, <3>1 DEF Interval
    <3> QED BY <2>6, <2>7, <3>1, <3>2 DEF Interval
  <2>10. drawing = next
    <3>1. DOMAIN next = Slots /\ next = [n \in Slots |-> next[n]] BY DEF ListOK
    <3>2. drawing = [n \in Slots |-> IF n \in changed THEN next[n] ELSE old[n]] BY <1>4, <2>9
    <3>3. ASSUME NEW n \in Slots, n \notin changed PROVE old[n] = next[n]
      <4>1. CASE n \in ShownIn(next) BY <1>2, <3>3, <4>1
      <4>2. CASE n \notin ShownIn(next)
        <5>1. n \notin ShownIn(old) BY <2>6, <2>7, <2>8, <4>2 DEF Interval
        <5>2. next[n] = Nothing BY <4>2, ListOf
        <5>3. ListOK(old, s) BY <1>1
        <5>4. old[n] = Nothing BY <5>1, <5>3, ListOf
        <5> QED BY <5>2, <5>4
      <4> QED BY <4>1, <4>2
    <3> QED BY <3>1, <3>2, <3>3
  <2> QED BY <2>1, <2>9, <2>10 DEF ChartFields
<1> QED BY <1>5, <1>6

\* A list after each of some messages.
AllTaken(f, n, c, ms) ==
  f = [i \in 0 .. n |-> IF i = 0 THEN c.candles ELSE Taken(c, f[i - 1], ms[i])]
LEMMA AfterEach == ASSUME NEW c, NEW ms, NEW n \in Nat PROVE \E f : AllTaken(f, n, c, ms)
<1> DEFINE Good(k) == \E f : f = [i \in 0 .. k |-> IF i = 0 THEN c.candles ELSE Taken(c, f[i - 1], ms[i])]
           bad == {k \in Nat : ~Good(k)}
<1> SUFFICES ASSUME bad # {} PROVE FALSE BY DEF AllTaken
<1>1. PICK k \in bad : \A j \in bad : k <= j
  <2>1. bad \in SUBSET Nat OBVIOUS
  <2> HIDE DEF bad
  <2> QED BY <2>1, LeastOf
<1>2. k \in Nat /\ ~Good(k) OBVIOUS
<1>3. Good(0)
  <2>1. PICK f : f = [i \in 0 .. 0 |-> c.candles] OBVIOUS
  <2>2. \A i \in 0 .. 0 : i = 0 OBVIOUS
  <2>3. f = [i \in 0 .. 0 |-> IF i = 0 THEN c.candles ELSE Taken(c, f[i - 1], ms[i])] BY <2>1, <2>2
  <2> QED BY <2>3
<1>4. k # 0 /\ k - 1 \in Nat
  <2> HIDE DEF Good
  <2>1. k # 0 BY <1>2, <1>3
  <2> QED BY <1>2, <2>1
<1>5. PICK p \in Nat : p = k - 1 BY <1>4
<1>6. Good(p)
  <2>1. p \notin bad
    <3> HIDE DEF bad
    <3> QED BY <1>1, <1>2, <1>5
  <2> QED BY <2>1
<1>7. PICK g : g = [i \in 0 .. p |-> IF i = 0 THEN c.candles ELSE Taken(c, g[i - 1], ms[i])] BY <1>6
<1>8. PICK f : f = [i \in 0 .. k |-> IF i = k THEN Taken(c, g[p], ms[k]) ELSE g[i]] OBVIOUS
<1>9. f = [i \in 0 .. k |-> IF i = 0 THEN c.candles ELSE Taken(c, f[i - 1], ms[i])]
  <2>1. ASSUME NEW i \in 0 .. k
        PROVE  f[i] = IF i = 0 THEN c.candles ELSE Taken(c, f[i - 1], ms[i])
    <3>1. CASE i = k
      <4>1. f[i] = Taken(c, g[p], ms[k]) BY <1>8, <3>1
      <4>2. p \in 0 .. k /\ p # k BY <1>2, <1>5
      <4>3. f[p] = g[p] BY <1>8, <4>2
      <4> QED BY <1>4, <1>5, <3>1, <4>1, <4>3
    <3>2. CASE i # k
      <4>1. i \in 0 .. p BY <1>2, <1>5, <3>2
      <4>2. f[i] = g[i] BY <1>8, <3>2
      <4>3. g[i] = IF i = 0 THEN c.candles ELSE Taken(c, g[i - 1], ms[i]) BY <1>7, <4>1
      <4>4. CASE i = 0 BY <4>2, <4>3, <4>4
      <4>5. CASE i # 0
        <5>1. PICK j \in 0 .. k : j = i - 1 /\ j # k BY <1>2, <4>5
        <5>2. f[j] = g[j] BY <1>8, <5>1
        <5> QED BY <4>2, <4>3, <4>5, <5>1, <5>2
      <4> QED BY <4>4, <4>5
    <3> QED BY <3>1, <3>2
  <2>2. f = [i \in 0 .. k |-> f[i]] BY <1>8
  <2> QED BY <2>1, <2>2
<1> QED BY <1>2, <1>9

\* What the first k of some messages leave of a list.
MergeOK(a, k, c, ms, t) ==
  /\ ListOK(a, c.of) /\ \A n \in ClosedIn(a) : n < t
  /\ c.live => /\ Held(c.candles) \subseteq Held(a)
               /\ \A j \in 1 .. k : ms[j].of = c.of /\ ms[j].closed => ms[j].slot \in Held(a)

LEMMA TakenKeeps ==
  ASSUME NEW c, NEW k \in Nat, NEW p \in Nat, k = p + 1, NEW ms \in Seq(Messages), k \in DOMAIN ms,
         NEW t, AllEnded(ms, t), NEW a, MergeOK(a, p, c, ms, t)
  PROVE  MergeOK(Taken(c, a, ms[k]), k, c, ms, t)
<1>1. PICK m \in Messages : m = ms[k]
  <2>1. ms[k] \in Messages
    <3> HIDE DEF Messages
    <3> QED OBVIOUS
  <2> QED BY <2>1
<1>2. m.closed => m.slot < t BY <1>1 DEF AllEnded
<1>3. /\ ListOK(a, c.of) /\ \A n \in ClosedIn(a) : n < t
      /\ c.live => /\ Held(c.candles) \subseteq Held(a)
                   /\ \A j \in 1 .. p : ms[j].of = c.of /\ ms[j].closed => ms[j].slot \in Held(a)
  BY DEF MergeOK
<1>4. \A j \in 1 .. k : j \in 1 .. p \/ j = k OBVIOUS
<1>5. CASE c.live /\ m.of = c.of
  <2>1. PICK b : b = Merged(a, m) OBVIOUS
  <2>2. /\ ListOK(b, c.of)
        /\ ClosedIn(b) \subseteq ClosedIn(a) \cup {n \in {m.slot} : m.closed}
        /\ Held(a) \cup {n \in {m.slot} : m.closed} \subseteq Held(b)
    BY <1>3, <1>5, <2>1, MergedKeeps
  <2>3. Taken(c, a, ms[k]) = b BY <1>1, <1>5, <2>1 DEF Taken
  <2>4. \A n \in ClosedIn(b) : n < t BY <1>2, <1>3, <2>2
  <2>5. Held(c.candles) \subseteq Held(b) BY <1>3, <1>5, <2>2
  <2>6. \A j \in 1 .. k : ms[j].of = c.of /\ ms[j].closed => ms[j].slot \in Held(b)
    BY <1>1, <1>3, <1>4, <1>5, <2>2
  <2> QED BY <2>2, <2>3, <2>4, <2>5, <2>6 DEF MergeOK
<1>6. CASE ~(c.live /\ m.of = c.of)
  <2>1. Taken(c, a, ms[k]) = a BY <1>1, <1>6 DEF Taken
  <2>2. c.live => \A j \in 1 .. k : ms[j].of = c.of /\ ms[j].closed => ms[j].slot \in Held(a)
    BY <1>1, <1>3, <1>4, <1>6
  <2> QED BY <1>3, <2>1, <2>2 DEF MergeOK
<1> QED BY <1>5, <1>6

\* What all of them leave.
LEMMA MergeKeeps ==
  ASSUME NEW c, ListOK(c.candles, c.of), NEW ms \in Seq(Messages), NEW t, AllEnded(ms, t),
         \A n \in ClosedIn(c.candles) : n < t
  PROVE  \E next : /\ MergeAll(c, ms) = Shows(c, next) /\ ListOK(next, c.of)
                   /\ \A n \in ClosedIn(next) : n < t
                   /\ c.live => /\ Held(c.candles) \subseteq Held(next)
                                /\ \A n : OnWay(n, c.of, ms) => n \in Held(next)
<1>1. PICK n \in Nat : n = Len(ms) OBVIOUS
<1>2. DOMAIN ms = 1 .. n BY <1>1
<1>3. PICK after : after = CHOOSE f :
        f = [i \in 0 .. n |-> IF i = 0 THEN c.candles ELSE Taken(c, f[i - 1], ms[i])]
  OBVIOUS
<1>4. after = [i \in 0 .. n |-> IF i = 0 THEN c.candles ELSE Taken(c, after[i - 1], ms[i])]
  <2>1. after = CHOOSE f : AllTaken(f, n, c, ms) BY <1>3 DEF AllTaken
  <2>2. AllTaken(after, n, c, ms) BY <2>1, AfterEach
  <2> QED BY <2>2 DEF AllTaken
<1>5. MergeAll(c, ms) = Shows(c, after[n]) BY <1>1, <1>3 DEF MergeAll
<1> DEFINE Good(k) == MergeOK(after[k], k, c, ms, t)
           bad == {k \in 0 .. n : ~Good(k)}
<1>6. bad = {}
  <2> SUFFICES ASSUME bad # {} PROVE FALSE OBVIOUS
  <2>1. PICK k \in bad : \A j \in bad : k <= j
    <3>1. bad \in SUBSET Nat BY <1>1
    <3> HIDE DEF bad
    <3> QED BY <3>1, LeastOf
  <2>2. k \in 0 .. n /\ ~Good(k) OBVIOUS
  <2>3. after[0] = c.candles BY <1>4
  <2>4. Good(0)
    <3>1. \A j \in 1 .. 0 : FALSE OBVIOUS
    <3> QED BY <2>3, <3>1 DEF MergeOK
  <2>5. k # 0
    <3> HIDE DEF Good
    <3> QED BY <2>2, <2>4
  <2>6. PICK p \in Nat : k = p + 1 /\ p \in 0 .. n /\ p < k BY <1>1, <2>2, <2>5
  <2>7. Good(p)
    <3>1. p \notin bad
      <4> HIDE DEF bad
      <4> QED BY <2>1, <2>2, <2>6
    <3> QED BY <2>6, <3>1
  <2>8. k \in Nat /\ k \in DOMAIN ms BY <1>1, <1>2, <2>2, <2>5
  <2>9. after[k] = Taken(c, after[p], ms[k])
    <3>1. after[k] = Taken(c, after[k - 1], ms[k]) BY <1>4, <2>2, <2>5
    <3>2. k - 1 = p BY <2>6
    <3> QED BY <3>1, <3>2
  <2>10. Good(k) BY <2>6, <2>7, <2>8, <2>9, TakenKeeps
  <2> QED BY <2>2, <2>10
<1>7. MergeOK(after[n], n, c, ms, t)
  <2>1. n \in 0 .. n BY <1>1
  <2> QED BY <1>6, <2>1
<1>8. PICK next : next = after[n] OBVIOUS
<1>9. c.live => \A x : OnWay(x, c.of, ms) => x \in Held(next)
  BY <1>2, <1>7, <1>8 DEF MergeOK, OnWay
<1> QED BY <1>5, <1>7, <1>8, <1>9 DEF MergeOK

\* While a request may be made there is a number for it.
LEMMA FreeIdOf ==
  ASSUME AskedInv, MayAsk
  PROVE  FreeId \in Nat \ {0} /\ \A r \in asked : r.id # FreeId
<1>1. IsFiniteSet(asked) /\ Cardinality(asked) < MaxAsked /\ MaxAsked \in Nat
  BY ChartAssumption DEF AskedInv, MayAsk
<1> DEFINE ids == {r.id : r \in asked}
           f == [r \in asked |-> r.id]
<1>2. f \in Surjection(asked, ids) BY DEF Surjection
<1>3. IsFiniteSet(ids) /\ Cardinality(ids) <= Cardinality(asked)
  <2> HIDE DEF f, ids
  <2> QED BY <1>1, <1>2, FS_Surjection
<1>4. PICK free : free = {i \in 1 .. MaxAsked : \A r \in asked : r.id # i} OBVIOUS
<1>5. free # {}
  <2> SUFFICES ASSUME free = {} PROVE FALSE OBVIOUS
  <2>0. PICK all : all = 1 .. MaxAsked OBVIOUS
  <2>1. all \in SUBSET ids BY <1>4, <2>0
  <2>2. Cardinality(all) = MaxAsked BY <1>1, <2>0, FS_Interval
  <2> HIDE DEF ids
  <2>3. MaxAsked <= Cardinality(ids)
    <3>1. Cardinality(all) <= Cardinality(ids) BY <1>3, <2>1, FS_Subset
    <3> QED BY <2>2, <3>1
  <2>4. Cardinality(ids) \in Nat /\ Cardinality(asked) \in Nat BY <1>1, <1>3, FS_CardinalityType
  <2> QED BY <1>1, <1>3, <2>3, <2>4
<1>6. IsFiniteSet(free) /\ free \in SUBSET Int
  <2>1. IsFiniteSet(1 .. MaxAsked) BY <1>1, FS_Interval
  <2>2. free \subseteq 1 .. MaxAsked BY <1>4
  <2>3. IsFiniteSet(free) BY <2>1, <2>2, FS_Subset
  <2> QED BY <1>1, <2>2, <2>3
<1>7. \E i \in free : \A j \in free : i <= j BY <1>5, <1>6, EndsOf
<1>8. Lowest(free) \in free BY <1>7 DEF Lowest
<1>9. FreeId = Lowest(free) BY <1>4 DEF FreeId
<1> QED BY <1>1, <1>4, <1>8, <1>9

\* A new request, for the effect that runs.
LEMMA AskedOf ==
  ASSUME NEW id \in Nat \ {0}, NEW n \in Nat, NEW s, NEW c, c.effect = n, c.of = s, NEW t
  PROVE  RequestOK(Request(id, n, s), c, t) /\ ~Request(id, n, s).read /\ Request(id, n, s).id = id
BY DEF RequestOK, Request

LEMMA BlankOf ==
  /\ \A s : ListOK(Blank, s)
  /\ ShownIn(Blank) = {} /\ ClosedIn(Blank) = {} /\ Seamless(Blank)
<1>1. ASSUME NEW s PROVE ListOK(Blank, s)
  <2>1. Nothing \in Looks(s) BY LooksOf
  <2> HIDE DEF Looks
  <2> QED BY <2>1 DEF ListOK, Blank
<1>2. ~Nothing.shown BY LooksOf
<1>3. \A n \in Slots : Blank[n] = Nothing BY DEF Blank
<1>4. ShownIn(Blank) = {} BY <1>2, <1>3 DEF ShownIn
<1> QED BY <1>1, <1>4 DEF ClosedIn, Seamless

LEMMA ChartStarts == ChartInit => ChartInv
<1> SUFFICES ASSUME ChartInit PROVE ChartInv OBVIOUS
<1>1. PICK s \in Streams : s = CHOOSE x \in Streams : TRUE BY ChartAssumption
<1>2. /\ chart = [of |-> s, live |-> TRUE, candles |-> Blank, drawn |-> Blank, effect |-> 1, dead |-> FALSE]
      /\ asked = {Request(1, 1, s)}
      /\ link = NewLink /\ wire = <<>> /\ now = Window + 1 /\ causes = NoCause
  BY <1>1 DEF ChartInit
<1>3. /\ DOMAIN chart = {"of", "live", "candles", "drawn", "effect", "dead"}
      /\ chart.live = TRUE /\ chart.dead = FALSE /\ chart.effect = 1 /\ chart.of = s
      /\ chart.candles = Blank /\ chart.drawn = Blank
  BY <1>2
<1>4. /\ DOMAIN causes = {"missed", "overtaken", "paged", "ragged", "upsets"}
      /\ causes.ragged = FALSE /\ causes.paged = 0 /\ causes.missed = 1 .. Window
  BY <1>2 DEF NoCause
<1>5. /\ DOMAIN link = {"state", "again", "waits", "queue"} /\ link.waits = 0 /\ link.queue = <<>>
  BY <1>2 DEF NewLink
<1>6. <<>> \in Seq(Messages) /\ \A t : AllEnded(<<>>, t) BY DEF AllEnded
<1>7. ChartTyped
  <2>1. now \in (Window + 1) .. (Window + 1 + MaxCloses) BY <1>2, SlotsOf
  <2>2. ListOK(chart.candles, chart.of) /\ \A n \in ClosedIn(chart.candles) : n < now
    BY <1>3, BlankOf
  <2>3. chart.live \in BOOLEAN /\ chart.dead \in BOOLEAN /\ causes.ragged \in BOOLEAN BY <1>3, <1>4
  <2>4. wire \in Seq(Messages) /\ AllEnded(wire, now) BY <1>2, <1>6
  <2>5. link.queue \in Seq(Messages) /\ AllEnded(link.queue, now) BY <1>5, <1>6
  <2>6. chart.effect \in Nat /\ chart.of \in Streams BY <1>1, <1>3
  <2>7. link.waits \in Nat /\ causes.paged \in Nat BY <1>4, <1>5
  <2> QED BY <1>3, <1>4, <1>5, <2>1, <2>2, <2>3, <2>4, <2>5, <2>6, <2>7 DEF ChartTyped
<1>8. AskedInv
  <2>1. IsFiniteSet({}) /\ IsFiniteSet({} \cup {Request(1, 1, s)}) BY FS_EmptySet, FS_AddElement
  <2>2. IsFiniteSet(asked)
    <3>1. asked = {} \cup {Request(1, 1, s)} BY <1>2
    <3> QED BY <2>1, <3>1
  <2>3. RequestOK(Request(1, 1, s), chart, now) /\ ~Request(1, 1, s).read BY <1>3, AskedOf
  <2> QED BY <1>2, <2>2, <2>3 DEF AskedInv
<1>9. CoverInv BY <1>2, <1>4, SlotsOf DEF CoverInv, Caused
<1>10. DrawnInv BY <1>3, BlankOf DEF DrawnInv
<1> QED BY <1>7, <1>8, <1>9, <1>10 DEF ChartInv

\* What the steps read.
LEMMA ChartIs ==
  ASSUME ChartInv
  PROVE  /\ ChartTyped /\ AskedInv /\ CoverInv /\ DrawnInv
         /\ DOMAIN chart = ChartFields
         /\ chart.live \in BOOLEAN /\ chart.dead \in BOOLEAN /\ chart.effect \in Nat
         /\ chart.of \in Streams /\ ListOK(chart.candles, chart.of)
         /\ now \in Nat /\ now > Window /\ now \in (Window + 1) .. (Window + 1 + MaxCloses)
         /\ \A n \in ClosedIn(chart.candles) : n < now
         /\ DOMAIN link = {"state", "again", "waits", "queue"} /\ link.waits \in Nat
         /\ DOMAIN causes = {"missed", "overtaken", "paged", "ragged", "upsets"}
         /\ causes.ragged \in BOOLEAN /\ causes.paged \in Nat
         /\ wire \in Seq(Messages) /\ link.queue \in Seq(Messages)
         /\ AllEnded(wire, now) /\ AllEnded(link.queue, now)
         /\ \A r \in asked : RequestOK(r, chart, now)
BY SlotsOf DEF ChartInv, ChartTyped, AskedInv, ChartFields

\* A chart that starts over has nothing to explain, and old answers are dropped.
LEMMA StartKeeps ==
  ASSUME ChartInv, NEW s \in Streams, NEW live \in BOOLEAN, StartOver(s, live),
         wire' \in Seq(Messages), AllEnded(wire', now), link'.queue \in Seq(Messages),
         AllEnded(link'.queue, now), link'.waits \in Nat,
         DOMAIN link' = {"state", "again", "waits", "queue"}
  PROVE  ChartInv'
<1>0. chart.effect \in Nat BY ChartIs
<1>1. PICK n \in Nat : n = chart.effect + 1 /\ n > chart.effect BY <1>0
<1>2. /\ MayAsk /\ now' = now
      /\ chart' = [of |-> s, live |-> live, candles |-> Blank, drawn |-> Blank, effect |-> n, dead |-> FALSE]
      /\ asked' = asked \cup {Request(FreeId, n, s)}
      /\ causes' = [NoCause EXCEPT !.missed = 1 .. (now - 1), !.upsets = causes.upsets + 1]
  BY <1>1 DEF StartOver, Asked
<1>3. /\ DOMAIN chart' = {"of", "live", "candles", "drawn", "effect", "dead"}
      /\ chart'.live = live /\ chart'.dead = FALSE /\ chart'.effect = n /\ chart'.of = s
      /\ chart'.candles = Blank /\ chart'.drawn = Blank
  BY <1>2
<1>4. /\ DOMAIN causes' = {"missed", "overtaken", "paged", "ragged", "upsets"}
      /\ causes'.ragged = FALSE /\ causes'.paged = 0 /\ causes'.missed = 1 .. (now - 1)
  BY <1>2 DEF NoCause
<1>5. ChartTyped'
  <2>1. now' \in (Window + 1) .. (Window + 1 + MaxCloses) BY <1>2, ChartIs
  <2>2. ListOK(chart'.candles, chart'.of) /\ \A i \in ClosedIn(chart'.candles) : i < now'
    BY <1>3, BlankOf
  <2>3. AllEnded(wire', now') /\ AllEnded(link'.queue, now') BY <1>2
  <2>4. chart'.live \in BOOLEAN /\ chart'.dead \in BOOLEAN /\ causes'.ragged \in BOOLEAN BY <1>3, <1>4
  <2>5. chart'.effect \in Nat /\ chart'.of \in Streams BY <1>1, <1>3
  <2>6. causes'.paged \in Nat BY <1>4
  <2> QED BY <1>3, <1>4, <2>1, <2>2, <2>3, <2>4, <2>5, <2>6 DEF ChartTyped
<1>6. AskedInv'
  <2>1. FreeId \in Nat \ {0} BY <1>2, ChartIs, FreeIdOf
  <2>2. PICK new : new = Request(FreeId, n, s) OBVIOUS
  <2>3. RequestOK(new, chart', now') /\ ~new.read BY <1>2, <1>3, <2>1, <2>2, AskedOf
  <2>4. ASSUME NEW r \in asked PROVE RequestOK(r, chart', now')
    <3>1. RequestOK(r, chart, now) BY ChartIs
    <3>2. r.effect \in Nat /\ r.effect <= n /\ r.effect # n BY <1>0, <1>1, <3>1 DEF RequestOK
    <3>3. now' = now /\ chart'.effect = n BY <1>2, <1>3
    <3> QED BY <3>1, <3>2, <3>3 DEF RequestOK
  <2>5. IsFiniteSet(asked') BY <1>2, ChartIs, FS_AddElement DEF AskedInv
  <2>6. asked' = asked \cup {new} BY <1>2, <2>2
  <2>7. \A r : Awaited(r, chart', causes'.paged) BY <1>3, BlankOf DEF Awaited
  <2> QED BY <2>3, <2>4, <2>5, <2>6, <2>7 DEF AskedInv
<1>7. CoverInv' BY <1>2, <1>4 DEF CoverInv, Caused
<1>8. DrawnInv' BY <1>3, BlankOf DEF DrawnInv
<1> QED BY <1>5, <1>6, <1>7, <1>8 DEF ChartInv

LEMMA StartSteps ==
  ASSUME ChartInv, ShowStream \/ ToggleRealtime
  PROVE  ChartInv'
<1>0. <<>> \in Seq(Messages) /\ \A t : AllEnded(<<>>, t) BY DEF AllEnded
<1>1. CASE ShowStream
  <2>1. PICK s \in Streams :
          /\ StartOver(s, chart.live) /\ wire' = wire
          /\ link' = link \/ link' = [link EXCEPT !.state = "open"]
    BY <1>1 DEF ShowStream
  <2>2. link'.queue = link.queue /\ link'.waits = link.waits /\ DOMAIN link' = DOMAIN link
    BY <2>1, ChartIs
  <2> QED BY <2>1, <2>2, ChartIs, StartKeeps
<1>2. CASE ToggleRealtime
  <2>1. /\ StartOver(chart.of, ~chart.live) /\ wire' = <<>>
        /\ link' = NewLink \/ link' = [NewLink EXCEPT !.state = "none"]
    BY <1>2 DEF ToggleRealtime
  <2>2. link'.queue = <<>> /\ link'.waits = 0 /\ DOMAIN link' = {"state", "again", "waits", "queue"}
    BY <2>1 DEF NewLink
  <2>3. PICK live \in BOOLEAN : StartOver(chart.of, live) BY <2>1
  <2> QED BY <1>0, <2>1, <2>2, <2>3, ChartIs, StartKeeps
<1> QED BY <1>1, <1>2

\* A step that leaves the list alone, and loses no candle without a cause.
SameList ==
  /\ chart' = chart /\ now' \in (Window + 1) .. (Window + 1 + MaxCloses)
  /\ wire' \in Seq(Messages) /\ AllEnded(wire', now')
  /\ DOMAIN link' = DOMAIN link /\ link'.waits \in Nat
  /\ link'.queue \in Seq(Messages) /\ AllEnded(link'.queue, now')
  /\ DOMAIN causes' = DOMAIN causes /\ causes'.paged = causes.paged /\ causes'.ragged = causes.ragged
  /\ Caused(causes) \subseteq Caused(causes')
  /\ \A n \in Nat : OnWay(n, chart.of, wire) \/ OnWay(n, chart.of, link.queue) =>
       OnWay(n, chart.of, wire') \/ OnWay(n, chart.of, link'.queue) \/ n \in Caused(causes')
  /\ \/ now' = now
     \/ now' = now + 1 /\ (now \in Caused(causes') \/ OnWay(now, chart.of, wire'))
LEMMA ListKept ==
  ASSUME ChartInv, SameList
  PROVE  ChartTyped' /\ CoverInv' /\ DrawnInv' /\ now' \in Nat /\ now' >= now
<1>1. PICK was \in Nat : was = now BY ChartIs
<1>2. PICK is \in Nat : is = now' /\ is >= was /\ (is = was \/ is = was + 1)
  BY <1>1, SlotsOf DEF SameList
<1>3. ChartTyped'
  <2>3. \A n \in ClosedIn(chart'.candles) : n < now'
    <3>1. ASSUME NEW n \in ClosedIn(chart.candles) PROVE n < is
      <4>1. n < was BY <1>1, ChartIs
      <4>2. n \in Nat BY ChartIs, ListOf, SlotsOf
      <4> QED BY <1>2, <4>1, <4>2
    <3> QED BY <1>2, <3>1 DEF SameList
  <2>5. /\ DOMAIN link' = {"state", "again", "waits", "queue"}
        /\ DOMAIN causes' = {"missed", "overtaken", "paged", "ragged", "upsets"}
        /\ causes'.paged \in Nat /\ causes'.ragged \in BOOLEAN
    BY ChartIs DEF SameList
  <2>6. DOMAIN chart' = {"of", "live", "candles", "drawn", "effect", "dead"}
    BY ChartIs DEF SameList, ChartFields
  <2>7. /\ chart'.live \in BOOLEAN /\ chart'.dead \in BOOLEAN /\ chart'.effect \in Nat
        /\ chart'.of \in Streams /\ ListOK(chart'.candles, chart'.of)
    BY ChartIs DEF SameList
  <2> QED BY <2>3, <2>5, <2>6, <2>7 DEF ChartTyped, SameList
<1>4. CoverInv'
  <2> SUFFICES ASSUME chart.live, NEW n \in 1 .. (is - 1)
               PROVE  \/ n \in Held(chart.candles) \cup Caused(causes')
                      \/ OnWay(n, chart.of, wire') \/ OnWay(n, chart.of, link'.queue)
    BY <1>2 DEF CoverInv, SameList
  <2>1. CASE n = was
    <3>0. n \in 1 .. (is - 1) /\ is \in Nat /\ was \in Nat OBVIOUS
    <3>3. is # was BY <2>1, <3>0
    <3>1. now' # now BY <1>1, <1>2, <3>3
    <3>2. now \in Caused(causes') \/ OnWay(now, chart.of, wire') BY <3>1 DEF SameList
    <3>4. now = n BY <1>1, <2>1
    <3>5. n \in Caused(causes') \/ OnWay(n, chart.of, wire') BY ONLY <3>2, <3>4
    <3> QED BY <3>5
  <2>2. CASE n # was
    <3>0. is = was \/ is = was + 1 BY <1>2
    <3>1. n \in 1 .. (was - 1) BY <2>2, <3>0
    <3>2. \/ n \in Held(chart.candles) \cup Caused(causes)
          \/ OnWay(n, chart.of, wire) \/ OnWay(n, chart.of, link.queue)
      BY <1>1, <3>1, ChartIs DEF CoverInv
    <3>3. n \in Nat BY <1>2
    <3>4. OnWay(n, chart.of, wire) \/ OnWay(n, chart.of, link.queue) =>
            OnWay(n, chart.of, wire') \/ OnWay(n, chart.of, link'.queue) \/ n \in Caused(causes')
      BY <3>3 DEF SameList
    <3>5. Caused(causes) \subseteq Caused(causes') BY DEF SameList
    <3> QED BY <3>2, <3>4, <3>5
  <2> QED BY <2>1, <2>2
<1>5. DrawnInv'
  <2>1. causes'.ragged = causes.ragged /\ chart' = chart BY DEF SameList
  <2>2. DrawnInv BY ChartIs
  <2> QED BY <2>1, <2>2 DEF DrawnInv
<1> QED BY <1>1, <1>2, <1>3, <1>4, <1>5

\* Requests that were made stay as they were.
LEMMA StaysAsked ==
  ASSUME NEW r, NEW c, NEW t \in Nat, RequestOK(r, c, t), NEW u \in Nat, u >= t
  PROVE  RequestOK(r, c, u)
BY SlotsOf DEF RequestOK
LEMMA AskedKept ==
  ASSUME ChartInv, SameList, asked' = asked, link'.waits = link.waits
  PROVE  ChartInv'
<1>1. ChartTyped' /\ CoverInv' /\ DrawnInv' /\ now' \in Nat /\ now' >= now BY ListKept
<1>2. AskedInv'
  <2>1. ASSUME NEW r \in asked PROVE RequestOK(r, chart', now')
    <3>1. RequestOK(r, chart, now) /\ now \in Nat BY ChartIs
    <3>2. chart' = chart BY DEF SameList
    <3>3. RequestOK(r, chart, now') BY <1>1, <3>1, StaysAsked
    <3> QED BY <3>2, <3>3
  <2>2. chart' = chart /\ causes'.paged = causes.paged BY DEF SameList
  <2> QED BY <2>1, <2>2, ChartIs DEF AskedInv
<1> QED BY <1>1, <1>2 DEF ChartInv

\* What a message brings to those on their way.
LEMMA OnWayAfter ==
  ASSUME NEW ms \in Seq(Messages), NEW m \in Messages
  PROVE  /\ Append(ms, m) \in Seq(Messages)
         /\ \A n, s : OnWay(n, s, ms) => OnWay(n, s, Append(ms, m))
         /\ m.closed => OnWay(m.slot, m.of, Append(ms, m))
         /\ \A t : AllEnded(ms, t) /\ (m.closed => m.slot < t) => AllEnded(Append(ms, m), t)
<1>1. PICK k \in Nat : k = Len(ms) OBVIOUS
<1>2. PICK all : all = Append(ms, m) OBVIOUS
<1>3. /\ all \in Seq(Messages) /\ DOMAIN all = 1 .. (k + 1) /\ DOMAIN ms = 1 .. k
      /\ all[k + 1] = m /\ \A i \in 1 .. k : all[i] = ms[i]
  <2> HIDE DEF Messages
  <2> QED BY <1>1, <1>2
<1>4. ASSUME NEW n, NEW s, OnWay(n, s, ms) PROVE OnWay(n, s, all)
  <2>1. PICK i \in 1 .. k : ms[i].of = s /\ ms[i].closed /\ ms[i].slot = n
    BY <1>3, <1>4 DEF OnWay
  <2>2. i \in DOMAIN all /\ all[i] = ms[i] BY <1>1, <1>3, <2>1
  <2> QED BY <2>1, <2>2 DEF OnWay
<1>5. m.closed => OnWay(m.slot, m.of, all)
  <2>1. k + 1 \in DOMAIN all BY <1>1, <1>3
  <2> QED BY <1>3, <2>1 DEF OnWay
<1>6. ASSUME NEW t, AllEnded(ms, t), m.closed => m.slot < t PROVE AllEnded(all, t)
  <2>1. \A i \in DOMAIN all : i \in 1 .. k \/ i = k + 1 BY <1>1, <1>3
  <2> QED BY <1>3, <1>6, <2>1 DEF AllEnded
<1> QED BY <1>2, <1>3, <1>4, <1>5, <1>6

\* A close that has not ended yet has time until the slot after it.
LEMMA EndedLater ==
  ASSUME NEW ms \in Seq(Messages), NEW t \in Nat, AllEnded(ms, t)
  PROVE  AllEnded(ms, t + 1)
<1>1. ASSUME NEW i \in DOMAIN ms, ms[i].closed PROVE ms[i].slot < t + 1
  <2>1. ms[i] \in Messages
    <3> HIDE DEF Messages
    <3> QED OBVIOUS
  <2>2. ms[i].slot \in Nat BY <2>1, SlotsOf DEF Messages
  <2>3. ms[i].slot < t BY <1>1 DEF AllEnded
  <2> QED BY <2>2, <2>3
<1> QED BY <1>1 DEF AllEnded

LEMMA TradeSteps ==
  ASSUME ChartInv, Trade \/ CloseSlot
  PROVE  ChartInv'
<1>1. PICK t \in Nat : t = now /\ t > Window /\ t <= Window + 1 + MaxCloses BY ChartIs, SlotsOf
<1>2. ASSUME NEW b \in BOOLEAN
      PROVE  /\ Message(chart.of, t, b) \in Messages
             /\ Message(chart.of, t, b).closed = b
             /\ Message(chart.of, t, b).of = chart.of /\ Message(chart.of, t, b).slot = t
  <2>1. chart.of \in Streams BY ChartIs
  <2>2. t \in (Window + 1) .. (Window + 1 + MaxCloses) BY <1>1, SlotsOf
  <2> QED BY <2>1, <2>2 DEF Message, Messages
<1>3. CASE Trade
  <2>1. PICK m : m = Message(chart.of, t, FALSE) OBVIOUS
  <2>2. /\ wire' = Append(wire, m)
        /\ chart' = chart /\ asked' = asked /\ link' = link /\ now' = now /\ causes' = causes
    BY <1>1, <1>3, <2>1 DEF Trade
  <2>3. m \in Messages /\ m.closed = FALSE BY <1>2, <2>1
  <2>4. wire \in Seq(Messages) /\ AllEnded(wire, now) BY ChartIs
  <2>5. /\ wire' \in Seq(Messages) /\ AllEnded(wire', now)
        /\ \A n, s : OnWay(n, s, wire) => OnWay(n, s, wire')
    BY <2>2, <2>3, <2>4, OnWayAfter
  <2>6. SameList BY <2>2, <2>5, ChartIs DEF SameList
  <2> QED BY <2>2, <2>6, AskedKept
<1>4. CASE CloseSlot
  <2>1. PICK m : m = Message(chart.of, t, TRUE) OBVIOUS
  <2>2. /\ now < Window + 1 + MaxCloses /\ now' = now + 1
        /\ wire' = IF Served THEN Append(wire, m) ELSE wire
        /\ causes' = IF Served THEN causes ELSE [causes EXCEPT !.missed = @ \cup {now}]
        /\ chart' = chart /\ asked' = asked /\ link' = link
    BY <1>1, <1>4, <2>1 DEF CloseSlot
  <2>3. m \in Messages /\ m.closed = TRUE /\ m.of = chart.of /\ m.slot = t BY <1>2, <2>1
  <2>4. wire \in Seq(Messages) /\ AllEnded(wire, t + 1) BY <1>1, ChartIs, EndedLater
  <2>9. link.queue \in Seq(Messages) /\ AllEnded(link.queue, t + 1) BY <1>1, ChartIs, EndedLater
  <2>5. now' \in (Window + 1) .. (Window + 1 + MaxCloses) BY <1>1, <2>2, SlotsOf
  <2>6. now' = t + 1 BY <1>1, <2>2
  <2>7. CASE Served
    <3>1. wire' = Append(wire, m) /\ causes' = causes BY <2>2, <2>7
    <3>2. m.slot < t + 1 BY <1>1, <2>3
    <3>3. /\ wire' \in Seq(Messages) /\ AllEnded(wire', t + 1) /\ OnWay(t, chart.of, wire')
          /\ \A n, s : OnWay(n, s, wire) => OnWay(n, s, wire')
      BY <2>3, <2>4, <3>1, <3>2, OnWayAfter
    <3>4. SameList BY <1>1, <2>2, <2>5, <2>6, <2>9, <3>1, <3>3, ChartIs DEF SameList
    <3> QED BY <2>2, <3>4, AskedKept
  <2>8. CASE ~Served
    <3>1. wire' = wire /\ causes' = [causes EXCEPT !.missed = @ \cup {now}] BY <2>2, <2>8
    <3>2. /\ DOMAIN causes' = DOMAIN causes /\ causes'.paged = causes.paged
          /\ causes'.ragged = causes.ragged /\ causes'.overtaken = causes.overtaken
          /\ causes'.missed = causes.missed \cup {now}
      BY <3>1, ChartIs
    <3>3. Caused(causes) \subseteq Caused(causes') /\ now \in Caused(causes') BY <3>2 DEF Caused
    <3>4. SameList BY <2>2, <2>4, <2>5, <2>6, <2>9, <3>1, <3>2, <3>3, ChartIs DEF SameList
    <3> QED BY <2>2, <3>4, AskedKept
  <2> QED BY <2>7, <2>8
<1> QED BY <1>3, <1>4

\* Two candles that swap their places are both still on their way.
LEMMA OvertakeStep ==
  ASSUME ChartInv, Overtake
  PROVE  ChartInv'
<1>1. PICK i \in 1 .. (Len(wire) - 1) :
        /\ wire' = [wire EXCEPT ![i] = wire[i + 1], ![i + 1] = wire[i]]
        /\ causes' = Upset(causes) /\ chart' = chart /\ asked' = asked /\ link' = link /\ now' = now
  BY DEF Overtake
<1>2. PICK k \in Nat : k = Len(wire) BY ChartIs
<1>3. PICK j \in Nat : j = i + 1 BY <1>2
<1>4. PICK ms : ms = wire OBVIOUS
<1>5. PICK all : all = wire' OBVIOUS
<1>6. ms \in Seq(Messages) /\ DOMAIN ms = 1 .. k /\ i \in 1 .. k /\ j \in 1 .. k /\ i # j
  BY <1>1, <1>2, <1>3, <1>4, ChartIs
<1>7. all = [ms EXCEPT ![i] = ms[j], ![j] = ms[i]] BY <1>1, <1>3, <1>4, <1>5
<1>8. /\ DOMAIN all = 1 .. k /\ all[i] = ms[j] /\ all[j] = ms[i]
      /\ \A x \in 1 .. k : x # i /\ x # j => all[x] = ms[x]
  BY <1>6, <1>7
<1>9. \A x \in 1 .. k : ms[x] \in Messages
  <2> HIDE DEF Messages
  <2> QED BY <1>6
<1>10. all \in Seq(Messages)
  <2>1. ASSUME NEW x \in 1 .. k PROVE all[x] \in Messages
    <3> HIDE DEF Messages
    <3> QED BY <1>6, <1>8, <1>9
  <2>2. all \in [1 .. k -> Messages]
    <3> HIDE DEF Messages
    <3>1. all = [x \in 1 .. k |-> all[x]] BY <1>7, <1>6
    <3> QED BY <2>1, <3>1
  <2> HIDE DEF Messages
  <2> QED BY <1>2, <2>2
<1>11. AllEnded(all, now)
  <2>1. AllEnded(ms, now) BY <1>4, ChartIs
  <2>2. ASSUME NEW x \in 1 .. k PROVE all[x].closed => all[x].slot < now
    BY <1>6, <1>8, <2>1 DEF AllEnded
  <2> QED BY <1>8, <2>2 DEF AllEnded
<1>12. ASSUME NEW n, NEW s, OnWay(n, s, ms) PROVE OnWay(n, s, all)
  <2>1. PICK x \in 1 .. k : ms[x].of = s /\ ms[x].closed /\ ms[x].slot = n
    BY <1>6, <1>12 DEF OnWay
  <2>2. CASE x = i BY <1>6, <1>8, <2>1, <2>2 DEF OnWay
  <2>3. CASE x = j BY <1>6, <1>8, <2>1, <2>3 DEF OnWay
  <2>4. CASE x # i /\ x # j BY <1>8, <2>1, <2>4 DEF OnWay
  <2> QED BY <2>2, <2>3, <2>4
<1>13. /\ DOMAIN causes' = DOMAIN causes /\ causes'.paged = causes.paged
       /\ causes'.ragged = causes.ragged /\ Caused(causes') = Caused(causes)
  BY <1>1, ChartIs DEF Upset, Caused
<1>14. SameList BY <1>1, <1>4, <1>5, <1>10, <1>11, <1>12, <1>13, ChartIs DEF SameList
<1> QED BY <1>1, <1>14, AskedKept

LEMMA LinkSteps ==
  ASSUME ChartInv, Subscribed \/ Lose
  PROVE  ChartInv'
<1>1. CASE Subscribed
  <2>1. /\ link' = [link EXCEPT !.state = "up"]
        /\ chart' = chart /\ asked' = asked /\ wire' = wire /\ now' = now /\ causes' = causes
    BY <1>1 DEF Subscribed
  <2>2. DOMAIN link' = DOMAIN link /\ link'.queue = link.queue /\ link'.waits = link.waits
    BY <2>1, ChartIs
  <2>3. SameList BY <2>1, <2>2, ChartIs DEF SameList
  <2> QED BY <2>1, <2>2, <2>3, AskedKept
<1>2. CASE Lose
  <2>1. /\ link' = [link EXCEPT !.state = "lost", !.again = TRUE]
        /\ wire' = <<>> /\ chart' = chart /\ asked' = asked /\ now' = now
        /\ causes' = [Upset(causes) EXCEPT !.missed = @ \cup ClosesIn({wire[i] : i \in DOMAIN wire})]
    BY <1>2 DEF Lose
  <2>2. DOMAIN link' = DOMAIN link /\ link'.queue = link.queue /\ link'.waits = link.waits
    BY <2>1, ChartIs
  <2>3. PICK lost : lost = ClosesIn({wire[i] : i \in DOMAIN wire}) OBVIOUS
  <2>4. /\ DOMAIN causes' = DOMAIN causes /\ causes'.paged = causes.paged
        /\ causes'.ragged = causes.ragged /\ causes'.overtaken = causes.overtaken
        /\ causes'.missed = causes.missed \cup lost
    BY <2>1, <2>3, ChartIs DEF Upset
  <2>5. Caused(causes) \subseteq Caused(causes') /\ lost \subseteq Caused(causes') BY <2>4 DEF Caused
  <2>6. \A n : OnWay(n, chart.of, wire) => n \in lost BY <2>3 DEF OnWay, ClosesIn
  <2>7. <<>> \in Seq(Messages) /\ AllEnded(<<>>, now) BY DEF AllEnded
  <2>8. SameList BY <2>1, <2>2, <2>4, <2>5, <2>6, <2>7, ChartIs DEF SameList
  <2> QED BY <2>1, <2>2, <2>8, AskedKept
<1> QED BY <1>1, <1>2

\* Another request changes nothing but who is waited for.
LEMMA AskSteps ==
  ASSUME ChartInv, Reload \/ Connect
  PROVE  ChartInv'
<1>1. /\ chart' = chart /\ wire' = wire /\ now' = now
      /\ causes' = causes \/ causes' = Upset(causes)
  BY DEF Reload, Connect
<1>2. \/ asked' = asked /\ link'.waits = link.waits
      \/ /\ MayAsk /\ asked' = asked \cup {Request(FreeId, chart.effect, chart.of)}
         /\ link'.waits = link.waits \/ link'.waits = FreeId
  BY ChartIs DEF Reload, Connect, Asked
<1>3. MayAsk => FreeId \in Nat \ {0} /\ \A r \in asked : r.id # FreeId BY ChartIs, FreeIdOf
<1>4. link'.waits \in Nat BY <1>2, <1>3, ChartIs
<1>5. DOMAIN link' = DOMAIN link /\ link'.queue = link.queue BY ChartIs DEF Reload, Connect
<1>6. /\ DOMAIN causes' = DOMAIN causes /\ causes'.paged = causes.paged
      /\ causes'.ragged = causes.ragged /\ Caused(causes') = Caused(causes)
  BY <1>1, ChartIs DEF Upset, Caused
<1>7. SameList BY <1>1, <1>4, <1>5, <1>6, ChartIs DEF SameList
<1>8. ChartTyped' /\ CoverInv' /\ DrawnInv' BY <1>7, ListKept
<1>9. CASE asked' = asked /\ link'.waits = link.waits BY <1>7, <1>9, AskedKept
<1>10. CASE /\ MayAsk /\ asked' = asked \cup {Request(FreeId, chart.effect, chart.of)}
            /\ link'.waits = link.waits \/ link'.waits = FreeId
  <2>1. PICK new : new = Request(FreeId, chart.effect, chart.of) OBVIOUS
  <2>2. RequestOK(new, chart, now) /\ ~new.read BY <1>3, <1>10, <2>1, ChartIs, AskedOf
  <2>3. asked' = asked \cup {new} /\ IsFiniteSet(asked')
    BY <1>10, <2>1, ChartIs, FS_AddElement DEF AskedInv
  <2>4. \A r \in asked' : RequestOK(r, chart', now') BY <1>1, <2>2, <2>3, ChartIs
  <2>5. ASSUME NEW r \in asked', r.read /\ r.id = link'.waits
        PROVE  Awaited(r, chart', causes'.paged)
    <3>1. r \in asked /\ r.id = link.waits BY <1>3, <1>10, <2>2, <2>3, <2>5
    <3> QED BY <1>1, <1>6, <2>5, <3>1, ChartIs DEF AskedInv
  <2>6. AskedInv' BY <2>3, <2>4, <2>5 DEF AskedInv
  <2> QED BY <1>8, <2>6 DEF ChartInv
<1> QED BY <1>2, <1>9, <1>10

\* What is read is the page of the slots that have ended.
LEMMA ReadStep ==
  ASSUME ChartInv, Read
  PROVE  ChartInv'
<1>0. PICK r \in asked : \E gap :
        /\ asked' = (asked \ {r}) \cup {[r EXCEPT !.read = TRUE, !.upto = now - 1, !.gap = gap]}
        /\ causes' = IF gap = {} THEN causes ELSE Upset(causes)
        /\ chart' = chart /\ link' = link /\ wire' = wire /\ now' = now
  BY DEF Read
<1>1. PICK gap :
        /\ asked' = (asked \ {r}) \cup {[r EXCEPT !.read = TRUE, !.upto = now - 1, !.gap = gap]}
        /\ causes' = IF gap = {} THEN causes ELSE Upset(causes)
        /\ chart' = chart /\ link' = link /\ wire' = wire /\ now' = now
  BY <1>0
<1>2. PICK up \in Nat : up = now - 1 /\ up >= Window BY ChartIs, SlotsOf
<1>3. PICK new : new = [r EXCEPT !.read = TRUE, !.upto = up, !.gap = gap] OBVIOUS
<1>4. asked' = (asked \ {r}) \cup {new} BY <1>1, <1>2, <1>3
<1>5. RequestOK(r, chart, now) BY ChartIs
<1>6. RequestOK(new, chart, now) /\ new.upto = up
  <2>1. /\ DOMAIN new = DOMAIN r /\ new.id = r.id /\ new.effect = r.effect /\ new.of = r.of
        /\ new.read = TRUE /\ new.upto = up
    BY <1>3, <1>5 DEF RequestOK
  <2>2. up \in Window .. (now - 1) BY <1>2, ChartIs, SlotsOf
  <2> QED BY <1>5, <2>1, <2>2 DEF RequestOK
<1>7. /\ DOMAIN causes' = DOMAIN causes /\ causes'.paged = causes.paged
      /\ causes'.ragged = causes.ragged /\ Caused(causes') = Caused(causes)
  BY <1>1, ChartIs DEF Upset, Caused
<1>8. SameList BY <1>1, <1>7, ChartIs DEF SameList
<1>9. ChartTyped' /\ CoverInv' /\ DrawnInv' BY <1>8, ListKept
<1>10. AskedInv'
  <2>1. IsFiniteSet(asked')
    <3>1. IsFiniteSet(asked) BY ChartIs DEF AskedInv
    <3>2. IsFiniteSet(asked \ {r}) BY <3>1, FS_Subset
    <3> QED BY <1>4, <3>2, FS_AddElement
  <2>2. Awaited(new, chart, causes.paged)
    <3>1. ASSUME NEW n \in ClosedIn(chart.candles) PROVE n <= up
      <4>1. n < now /\ n \in Nat BY ChartIs, ListOf, SlotsOf
      <4> QED BY <1>2, <4>1, ChartIs
    <3> QED BY <1>6, <3>1 DEF Awaited
  <2> QED BY <1>1, <1>4, <1>6, <1>7, <2>1, <2>2, ChartIs DEF AskedInv
<1> QED BY <1>9, <1>10 DEF ChartInv

\* A step that shows another list.
NewList(next) ==
  /\ ListOK(next, chart.of) /\ (\A n \in ClosedIn(next) : n < now)
  /\ chart' = Shows(chart, next) /\ now' = now
  /\ wire' \in Seq(Messages) /\ AllEnded(wire', now)
  /\ DOMAIN link' = DOMAIN link /\ link'.waits \in Nat
  /\ link'.queue \in Seq(Messages) /\ AllEnded(link'.queue, now)
  /\ DOMAIN causes' = DOMAIN causes /\ causes'.paged \in Nat /\ causes'.ragged = RaggedIn(next)
LEMMA ListReplaced ==
  ASSUME ChartInv, NEW next, NewList(next)
  PROVE  /\ ChartTyped' /\ DrawnInv'
         /\ chart'.candles = next /\ chart'.of = chart.of /\ chart'.live = chart.live
         /\ chart'.effect = chart.effect /\ now' = now
<1>1. PICK d : d = Shows(chart, next) OBVIOUS
<1>2. /\ DOMAIN d = ChartFields /\ d.of = chart.of /\ d.live = chart.live /\ d.effect = chart.effect
      /\ d.candles = next /\ d.dead \in BOOLEAN
  BY <1>1, ChartIs, ShowsFields
<1>3. chart' = d BY <1>1 DEF NewList
<1>4. ListOK(next, chart.of) /\ (\A n \in ClosedIn(next) : n < now) /\ now' = now BY DEF NewList
<1>5. causes'.ragged = (causes.ragged \/ ~Seamless(next)) BY DEF NewList, RaggedIn
<1>6. ChartTyped'
  <2>1. DOMAIN chart' = {"of", "live", "candles", "drawn", "effect", "dead"}
    BY <1>2, <1>3 DEF ChartFields
  <2>2. /\ chart'.live \in BOOLEAN /\ chart'.dead \in BOOLEAN /\ chart'.effect \in Nat
        /\ chart'.of \in Streams
    BY <1>2, <1>3, ChartIs
  <2>3. ListOK(chart'.candles, chart'.of) /\ \A n \in ClosedIn(chart'.candles) : n < now'
    BY <1>2, <1>3, <1>4
  <2>4. now' \in (Window + 1) .. (Window + 1 + MaxCloses) BY <1>4, ChartIs
  <2>5. /\ DOMAIN link' = {"state", "again", "waits", "queue"} /\ link'.waits \in Nat
        /\ DOMAIN causes' = {"missed", "overtaken", "paged", "ragged", "upsets"}
        /\ causes'.paged \in Nat
    BY ChartIs DEF NewList
  <2>6. causes'.ragged \in BOOLEAN BY <1>5
  <2>7. /\ wire' \in Seq(Messages) /\ link'.queue \in Seq(Messages)
        /\ AllEnded(wire', now') /\ AllEnded(link'.queue, now')
    BY <1>4 DEF NewList
  <2> QED BY <2>1, <2>2, <2>3, <2>4, <2>5, <2>6, <2>7 DEF ChartTyped
<1>7. DrawnInv'
  <2> SUFFICES ASSUME ~causes'.ragged
               PROVE  ~chart'.dead /\ chart'.drawn = chart'.candles /\ Seamless(chart'.candles)
    BY DEF DrawnInv
  <2>1. ~causes.ragged /\ Seamless(next) BY <1>5
  <2>2. ~chart.dead /\ chart.drawn = chart.candles /\ Seamless(chart.candles)
    BY <2>1, ChartIs DEF DrawnInv
  <2>3. ~d.dead /\ d.drawn = next BY <1>1, <1>4, <2>1, <2>2, ChartIs, ShowsSeamless
  <2> QED BY <1>2, <1>3, <2>1, <2>3
<1> QED BY <1>2, <1>3, <1>4, <1>6, <1>7

\* The page of an answer, and what it leaves of the slots that ended.
LEMMA AnswerOf ==
  ASSUME ChartInv, NEW r \in asked, r.read
  PROVE  /\ r.upto \in Nat /\ r.upto >= Window /\ r.upto < now
         /\ PageOfHistory(r) \in SUBSET Slots
         /\ \A n \in PageOfHistory(r) : n <= r.upto
         /\ \A n \in Nat : n >= 1 /\ n <= r.upto =>
              \/ n \in PageOfHistory(r) \/ n \in r.gap
              \/ n <= Window /\ \A m \in PageOfHistory(r) : n < m
<1>1. PICK t \in Nat : t = now /\ t > Window /\ t <= Window + 1 + MaxCloses BY ChartIs, SlotsOf
<1>2. PICK up \in Nat : up = r.upto /\ up >= Window /\ up < t
  <2>1. r.upto \in Window .. (now - 1) BY ChartIs DEF RequestOK
  <2> QED BY <1>1, <2>1, SlotsOf
<1>3. PICK page : page = ((up - Window + 1) .. up) \ r.gap OBVIOUS
<1>4. PageOfHistory(r) = page BY <1>2, <1>3 DEF PageOfHistory
<1>5. \A n \in page : n \in Nat /\ n >= up - Window + 1 /\ n <= up BY <1>2, <1>3, SlotsOf
<1>6. page \in SUBSET Slots
  <2>1. ASSUME NEW n \in page PROVE n \in Slots
    <3>1. n \in Nat /\ n >= up - Window + 1 /\ n <= up BY <1>5
    <3>2. n >= 1 /\ n <= Window + 1 + MaxCloses BY <1>1, <1>2, <3>1, SlotsOf
    <3> QED BY <3>1, <3>2, SlotsOf
  <2> QED BY <2>1
<1>7. ASSUME NEW n \in Nat, n >= 1, n <= up, n \notin page, n \notin r.gap
      PROVE  n <= Window /\ \A m \in page : n < m
  <2>1. n < up - Window + 1 BY <1>2, <1>3, <1>7, SlotsOf
  <2>2. n <= Window BY <1>1, <1>2, <2>1, SlotsOf
  <2> QED BY <1>2, <1>5, <2>1, <2>2, SlotsOf
<1> QED BY <1>1, <1>2, <1>4, <1>5, <1>6, <1>7

\* A page that replaces the list: what it lacks is missing in it, too old, or
\* wiped out.  A page a reconnection waited for wipes out nothing it could not.
LEMMA PageReplaces ==
  ASSUME ChartInv, NEW r \in asked, r.read, ForThisEffect(r), PageOfHistory(r) # {},
         NEW next, next = [n \in Slots |-> IF n \in PageOfHistory(r) THEN Candle(r.of, TRUE) ELSE Nothing],
         asked' = asked \ {r}, chart' = Shows(chart, next),
         causes' = [causes EXCEPT
                     !.missed = (@ \ PageOfHistory(r)) \cup r.gap,
                     !.overtaken = (@ \ PageOfHistory(r)) \cup WipedOut(r), !.paged = r.upto,
                     !.ragged = RaggedIn(next)],
         link' = link, wire' = wire, now' = now
  PROVE  ChartInv'
<1>1. PICK page : page = PageOfHistory(r) OBVIOUS
<1>2. PICK up \in Nat : up = r.upto /\ up >= Window /\ up < now BY AnswerOf
<1>3. /\ page \in SUBSET Slots /\ page # {} /\ \A n \in page : n <= up
      /\ \A n \in Nat : n >= 1 /\ n <= up =>
           n \in page \/ n \in r.gap \/ (n <= Window /\ \A m \in page : n < m)
  BY <1>1, <1>2, AnswerOf
<1>4. r.of = chart.of BY ChartIs DEF RequestOK, ForThisEffect
<1>5. ListOK(next, chart.of) /\ ShownIn(next) = page /\ ClosedIn(next) = page
  <2>1. next = ListOfPage(page, chart.of) BY <1>1, <1>4 DEF ListOfPage
  <2>2. page \in SUBSET Slots BY <1>3
  <2>3. PICK list : list = ListOfPage(page, chart.of) OBVIOUS
  <2>4. ListOK(list, chart.of) /\ ShownIn(list) = page /\ ClosedIn(list) = page
    BY ONLY <2>2, <2>3, PageList
  <2>5. next = list BY <2>1, <2>3
  <2> QED BY <2>4, <2>5
<1>6. \A n \in page : n < now
  <2>1. ASSUME NEW n \in page PROVE n < now
    <3>1. n \in Nat /\ n <= up BY <1>3, SlotsOf
    <3> QED BY <1>2, <3>1, ChartIs
  <2> QED BY <2>1
<1>7. /\ DOMAIN causes' = DOMAIN causes /\ causes'.paged = up
      /\ causes'.missed = (causes.missed \ page) \cup r.gap
      /\ causes'.overtaken = (causes.overtaken \ page) \cup WipedOut(r)
      /\ causes'.ragged = RaggedIn(next)
  BY <1>1, <1>2, ChartIs
<1>8. NewList(next) BY <1>2, <1>5, <1>6, <1>7, ChartIs DEF NewList
<1>9. /\ ChartTyped' /\ DrawnInv'
      /\ chart'.candles = next /\ chart'.of = chart.of /\ chart'.live = chart.live
      /\ chart'.effect = chart.effect
  BY <1>8, ListReplaced
<1>10. CoverInv'
  <2> SUFFICES ASSUME chart.live, NEW n \in 1 .. (now - 1)
               PROVE  \/ n \in Held(next) \cup Caused(causes')
                      \/ OnWay(n, chart.of, wire) \/ OnWay(n, chart.of, link.queue)
    BY <1>9 DEF CoverInv
  <2>1. n \in Nat /\ n >= 1 BY ChartIs
  <2>2. CASE n <= up
    <3>1. n \in page \/ n \in r.gap \/ (n <= Window /\ \A m \in page : n < m)
      BY <1>3, <2>1, <2>2
    <3>2. CASE n \in page BY <1>5, <3>2 DEF Held
    <3>3. CASE n \in r.gap BY <1>7, <3>3 DEF Caused
    <3>4. CASE n <= Window /\ \A m \in page : n < m
      <4>1. n \in 1 .. Window BY <2>1, <3>4, SlotsOf
      <4>2. n \in Below(next) BY <1>3, <1>5, <3>4, <4>1 DEF Below
      <4> QED BY <4>2 DEF Held
    <3> QED BY <3>1, <3>2, <3>3, <3>4
  <2>3. CASE up < n
    <3>1. n \notin page BY <1>2, <1>3, <2>1, <2>3
    <3>2. \/ n \in Held(chart.candles) \cup Caused(causes)
          \/ OnWay(n, chart.of, wire) \/ OnWay(n, chart.of, link.queue)
      BY ChartIs DEF CoverInv
    <3>3. n \notin Below(chart.candles)
      <4>1. n > Window BY <1>2, <2>1, <2>3, SlotsOf
      <4> QED BY <2>1, <4>1, SlotsOf DEF Below
    <3>4. CASE n \in ClosedIn(chart.candles)
      <4>1. r.id = link.waits => n <= causes.paged
        <5>1. ASSUME r.id = link.waits, ~(n <= causes.paged) PROVE FALSE
          <6>1. n > causes.paged BY <2>1, <5>1, ChartIs
          <6>2. n <= up BY <1>2, <3>4, <5>1, <6>1, ChartIs DEF AskedInv, Awaited
          <6> QED BY <1>2, <2>1, <2>3, <6>2
        <5> QED BY <5>1
      <4>2. n \in WipedOut(r) BY <1>2, <2>3, <3>4, <4>1 DEF WipedOut, ClosedIn
      <4> QED BY <1>7, <4>2 DEF Caused
    <3>5. CASE n \in Caused(causes) BY <1>7, <3>1, <3>5 DEF Caused
    <3> QED BY <3>2, <3>3, <3>4, <3>5 DEF Held
  <2> QED BY <1>2, <2>1, <2>2, <2>3
<1>11. AskedInv'
  <2>1. IsFiniteSet(asked')
    <3>1. IsFiniteSet(asked) BY ChartIs DEF AskedInv
    <3> QED BY <3>1, FS_Subset
  <2>2. \A q \in asked' : RequestOK(q, chart', now') BY <1>9, ChartIs DEF RequestOK
  <2>3. ASSUME NEW q PROVE Awaited(q, chart', causes'.paged)
    <3>1. ASSUME NEW n \in ClosedIn(next), n > up PROVE n <= q.upto
      <4>1. n <= up /\ n \in Nat BY <1>3, <1>5, SlotsOf
      <4> QED BY <1>2, <3>1, <4>1
    <3> QED BY <1>7, <1>9, <3>1 DEF Awaited
  <2> QED BY <2>1, <2>2, <2>3 DEF AskedInv
<1> QED BY <1>9, <1>10, <1>11 DEF ChartInv

LEMMA LoadStep ==
  ASSUME ChartInv, LoadHistory
  PROVE  ChartInv'
<1>0. PICK r \in asked : \E next :
        /\ next = [n \in Slots |-> IF n \in PageOfHistory(r) THEN Candle(r.of, TRUE) ELSE Nothing]
        /\ r.read /\ asked' = asked \ {r}
        /\ IF ForThisEffect(r) /\ PageOfHistory(r) # {}
           THEN /\ chart' = Shows(chart, next)
                /\ causes' = [causes EXCEPT
                     !.missed = (@ \ PageOfHistory(r)) \cup r.gap,
                     !.overtaken = (@ \ PageOfHistory(r)) \cup WipedOut(r), !.paged = r.upto,
                     !.ragged = RaggedIn(next)]
           ELSE chart' = chart /\ causes' = causes
        /\ link' = link /\ wire' = wire /\ now' = now
  BY DEF LoadHistory
<1>1. PICK next :
        /\ next = [n \in Slots |-> IF n \in PageOfHistory(r) THEN Candle(r.of, TRUE) ELSE Nothing]
        /\ r.read /\ asked' = asked \ {r}
        /\ IF ForThisEffect(r) /\ PageOfHistory(r) # {}
           THEN /\ chart' = Shows(chart, next)
                /\ causes' = [causes EXCEPT
                     !.missed = (@ \ PageOfHistory(r)) \cup r.gap,
                     !.overtaken = (@ \ PageOfHistory(r)) \cup WipedOut(r), !.paged = r.upto,
                     !.ragged = RaggedIn(next)]
           ELSE chart' = chart /\ causes' = causes
        /\ link' = link /\ wire' = wire /\ now' = now
  BY <1>0
<1>2. CASE ForThisEffect(r) /\ PageOfHistory(r) # {} BY <1>1, <1>2, PageReplaces
<1>3. CASE ~(ForThisEffect(r) /\ PageOfHistory(r) # {})
  <2>1. chart' = chart /\ causes' = causes /\ link' = link /\ wire' = wire /\ now' = now
    BY <1>1, <1>3
  <2>2. SameList BY <2>1, ChartIs DEF SameList
  <2>3. ChartTyped' /\ CoverInv' /\ DrawnInv' BY <2>2, ListKept
  <2>4. IsFiniteSet(asked')
    <3>1. IsFiniteSet(asked) BY ChartIs DEF AskedInv
    <3> QED BY <1>1, <3>1, FS_Subset
  <2>5. AskedInv' BY <1>1, <2>1, <2>4, ChartIs DEF AskedInv
  <2> QED BY <2>3, <2>5 DEF ChartInv
<1> QED BY <1>2, <1>3

\* What is left of messages when the first is taken.
LEMMA HeadAndTail ==
  ASSUME NEW ms \in Seq(Messages), ms # <<>>
  PROVE  /\ Head(ms) \in Messages /\ Tail(ms) \in Seq(Messages) /\ <<Head(ms)>> \in Seq(Messages)
         /\ \A n, s : OnWay(n, s, ms) =>
              OnWay(n, s, Tail(ms)) \/ OnWay(n, s, <<Head(ms)>>)
         /\ \A t : AllEnded(ms, t) =>
              AllEnded(Tail(ms), t) /\ AllEnded(<<Head(ms)>>, t) /\ (Head(ms).closed => Head(ms).slot < t)
<1>1. PICK k \in Nat : k = Len(ms) /\ k > 0
  <2> HIDE DEF Messages
  <2> QED OBVIOUS
<1>2. PICK rest : rest = Tail(ms) OBVIOUS
<1>3. PICK m : m = Head(ms) OBVIOUS
<1>4. /\ m \in Messages /\ rest \in Seq(Messages) /\ <<m>> \in Seq(Messages)
      /\ DOMAIN ms = 1 .. k /\ DOMAIN rest = 1 .. (k - 1) /\ ms[1] = m
      /\ \A i \in 1 .. (k - 1) : rest[i] = ms[i + 1]
  <2> HIDE DEF Messages
  <2> QED BY <1>1, <1>2, <1>3
<1>5. DOMAIN <<m>> = {1} /\ <<m>>[1] = m OBVIOUS
<1>6. ASSUME NEW n, NEW s, OnWay(n, s, ms) PROVE OnWay(n, s, rest) \/ OnWay(n, s, <<m>>)
  <2>1. PICK i \in 1 .. k : ms[i].of = s /\ ms[i].closed /\ ms[i].slot = n
    BY <1>4, <1>6 DEF OnWay
  <2>2. CASE i = 1 BY <1>4, <1>5, <2>1, <2>2 DEF OnWay
  <2>3. CASE i # 1
    <3>1. PICK j \in 1 .. (k - 1) : j + 1 = i BY <1>1, <2>1, <2>3
    <3>2. rest[j] = ms[i] /\ j \in DOMAIN rest BY <1>4, <3>1
    <3> QED BY <2>1, <3>2 DEF OnWay
  <2> QED BY <2>2, <2>3
<1>7. ASSUME NEW t, AllEnded(ms, t) PROVE AllEnded(rest, t) /\ AllEnded(<<m>>, t) /\ (m.closed => m.slot < t)
  <2>1. m.closed => m.slot < t BY <1>1, <1>4, <1>7 DEF AllEnded
  <2>2. AllEnded(<<m>>, t) BY <1>5, <2>1 DEF AllEnded
  <2>3. ASSUME NEW j \in DOMAIN rest PROVE rest[j].closed => rest[j].slot < t
    <3>1. j + 1 \in DOMAIN ms /\ rest[j] = ms[j + 1] BY <1>1, <1>4
    <3> QED BY <1>7, <3>1 DEF AllEnded
  <2>4. AllEnded(rest, t) BY <2>3 DEF AllEnded
  <2> QED BY <2>1, <2>2, <2>4
<1> QED BY <1>2, <1>3, <1>4, <1>6, <1>7

\* Messages are merged into the list, and none of them is lost.
LEMMA MergeSteps ==
  ASSUME ChartInv, NEW ms \in Seq(Messages), AllEnded(ms, now), chart' = MergeAll(chart, ms),
         asked' = asked, now' = now,
         causes' = [causes EXCEPT !.ragged = RaggedIn(chart'.candles)],
         wire' \in Seq(Messages), AllEnded(wire', now), DOMAIN link' = DOMAIN link,
         link'.queue \in Seq(Messages), AllEnded(link'.queue, now), link'.waits \in Nat,
         \A r \in asked : r.id = link'.waits => FALSE,
         \A n \in Nat : OnWay(n, chart.of, wire) \/ OnWay(n, chart.of, link.queue) =>
           \/ OnWay(n, chart.of, wire') \/ OnWay(n, chart.of, link'.queue)
           \/ OnWay(n, chart.of, ms)
  PROVE  ChartInv'
<1>1. PICK next : /\ MergeAll(chart, ms) = Shows(chart, next) /\ ListOK(next, chart.of)
                  /\ \A n \in ClosedIn(next) : n < now
                  /\ chart.live => /\ Held(chart.candles) \subseteq Held(next)
                                   /\ \A n : OnWay(n, chart.of, ms) => n \in Held(next)
  BY ChartIs, MergeKeeps
<1>2. chart' = Shows(chart, next) BY <1>1
<1>3. chart'.candles = next
  <2>0. DOMAIN chart = ChartFields /\ chart.dead \in BOOLEAN BY ChartIs
  <2>1. PICK d : d = Shows(chart, next) OBVIOUS
  <2>2. d.candles = next BY ONLY <2>0, <2>1, ShowsFields
  <2> QED BY <1>2, <2>1, <2>2
<1>4. /\ DOMAIN causes' = DOMAIN causes /\ causes'.paged = causes.paged
      /\ Caused(causes') = Caused(causes) /\ causes'.ragged = RaggedIn(next)
  BY <1>3, ChartIs DEF Caused
<1>5. NewList(next) BY <1>1, <1>2, <1>4, ChartIs DEF NewList
<1>6. /\ ChartTyped' /\ DrawnInv' /\ chart'.of = chart.of /\ chart'.live = chart.live
      /\ chart'.effect = chart.effect
  BY <1>5, ListReplaced
<1>7. CoverInv'
  <2> SUFFICES ASSUME chart.live, NEW n \in 1 .. (now - 1)
               PROVE  \/ n \in Held(next) \cup Caused(causes)
                      \/ OnWay(n, chart.of, wire') \/ OnWay(n, chart.of, link'.queue)
    BY <1>3, <1>4, <1>6 DEF CoverInv
  <2>1. n \in Nat BY ChartIs
  <2>2. \/ n \in Held(chart.candles) \cup Caused(causes)
        \/ OnWay(n, chart.of, wire) \/ OnWay(n, chart.of, link.queue)
    BY ChartIs DEF CoverInv
  <2>3. Held(chart.candles) \subseteq Held(next) /\ (OnWay(n, chart.of, ms) => n \in Held(next))
    BY <1>1
  <2> QED BY <2>1, <2>2, <2>3
<1>8. AskedInv'
  <2>1. \A r \in asked : RequestOK(r, chart', now') BY <1>6, ChartIs DEF RequestOK
  <2>2. IsFiniteSet(asked) BY ChartIs DEF AskedInv
  <2> QED BY <2>1, <2>2 DEF AskedInv
<1> QED BY <1>6, <1>7, <1>8 DEF ChartInv

LEMMA ArriveStep ==
  ASSUME ChartInv, Arrive
  PROVE  ChartInv'
<1>1. /\ wire # <<>> /\ wire' = Tail(wire) /\ asked' = asked /\ now' = now
      /\ IF HeldBack
         THEN link' = [link EXCEPT !.queue = Append(@, Head(wire))] /\ chart' = chart /\ causes' = causes
         ELSE /\ chart' = MergeAll(chart, <<Head(wire)>>)
              /\ causes' = [causes EXCEPT !.ragged = RaggedIn(chart'.candles)]
              /\ link' = link
  BY DEF Arrive
<1>2. wire \in Seq(Messages) /\ AllEnded(wire, now) /\ link.queue \in Seq(Messages) /\ AllEnded(link.queue, now)
  BY ChartIs
<1>3. PICK ms : ms = <<Head(wire)>> OBVIOUS
<1>4. PICK m : m = Head(wire) OBVIOUS
<1>5. /\ m \in Messages /\ wire' \in Seq(Messages) /\ ms \in Seq(Messages)
      /\ AllEnded(wire', now) /\ AllEnded(ms, now) /\ (m.closed => m.slot < now)
      /\ \A n, s : OnWay(n, s, wire) => OnWay(n, s, wire') \/ OnWay(n, s, ms)
  BY <1>1, <1>2, <1>3, <1>4, HeadAndTail
<1>6. CASE HeldBack
  <2>1. link' = [link EXCEPT !.queue = Append(@, m)] /\ chart' = chart /\ causes' = causes
    BY <1>1, <1>4, <1>6
  <2>2. DOMAIN link' = DOMAIN link /\ link'.waits = link.waits /\ link'.queue = Append(link.queue, m)
    BY <2>1, ChartIs
  <2>3. /\ link'.queue \in Seq(Messages) /\ AllEnded(link'.queue, now)
        /\ \A n, s : OnWay(n, s, link.queue) => OnWay(n, s, link'.queue)
        /\ m.closed => OnWay(m.slot, m.of, link'.queue)
    BY <1>2, <1>5, <2>2, OnWayAfter
  <2>4. \A n, s : OnWay(n, s, ms) => m.closed /\ m.slot = n /\ m.of = s
    BY <1>3, <1>4 DEF OnWay
  <2>5. \A n \in Nat : OnWay(n, chart.of, wire) \/ OnWay(n, chart.of, link.queue) =>
          OnWay(n, chart.of, wire') \/ OnWay(n, chart.of, link'.queue)
    BY <1>5, <2>3, <2>4
  <2>6. SameList BY <1>1, <1>5, <2>1, <2>2, <2>3, <2>5, ChartIs DEF SameList
  <2> QED BY <1>1, <2>2, <2>6, AskedKept
<1>7. CASE ~HeldBack
  <2>1. /\ chart' = MergeAll(chart, ms) /\ link' = link
        /\ causes' = [causes EXCEPT !.ragged = RaggedIn(chart'.candles)]
    BY <1>1, <1>3, <1>7
  <2>2. link.waits = 0 BY <1>7 DEF HeldBack
  <2>3. \A r \in asked : r.id = link'.waits => FALSE BY <2>1, <2>2, ChartIs DEF RequestOK
  <2>4. DOMAIN link' = DOMAIN link /\ link'.queue = link.queue /\ link'.waits \in Nat BY <2>1, ChartIs
  <2>5. \A n \in Nat : OnWay(n, chart.of, wire) \/ OnWay(n, chart.of, link.queue) =>
          OnWay(n, chart.of, wire') \/ OnWay(n, chart.of, link'.queue) \/ OnWay(n, chart.of, ms)
    BY <1>5, <2>4
  <2> QED BY <1>1, <1>2, <1>5, <2>1, <2>3, <2>4, <2>5, MergeSteps
<1> QED BY <1>6, <1>7

LEMMA ReconcileStep ==
  ASSUME ChartInv, Reconciled
  PROVE  ChartInv'
<1>1. /\ link' = [link EXCEPT !.waits = 0, !.queue = <<>>]
      /\ chart' = MergeAll(chart, link.queue)
      /\ causes' = [causes EXCEPT !.ragged = RaggedIn(chart'.candles)]
      /\ asked' = asked /\ wire' = wire /\ now' = now
  BY DEF Reconciled
<1>2. wire \in Seq(Messages) /\ AllEnded(wire, now) /\ link.queue \in Seq(Messages) /\ AllEnded(link.queue, now)
  BY ChartIs
<1>3. DOMAIN link' = DOMAIN link /\ link'.waits = 0 /\ link'.queue = <<>> BY <1>1, ChartIs
<1>4. <<>> \in Seq(Messages) /\ AllEnded(<<>>, now) BY DEF AllEnded
<1>5. \A r \in asked : r.id = link'.waits => FALSE BY <1>3, ChartIs DEF RequestOK
<1>6. PICK ms : ms = link.queue OBVIOUS
<1>7. \A n \in Nat : OnWay(n, chart.of, wire) \/ OnWay(n, chart.of, link.queue) =>
        OnWay(n, chart.of, wire') \/ OnWay(n, chart.of, link'.queue) \/ OnWay(n, chart.of, ms)
  BY <1>1, <1>6
<1>8. chart' = MergeAll(chart, ms) /\ ms \in Seq(Messages) /\ AllEnded(ms, now) BY <1>1, <1>2, <1>6
<1>9. link'.queue \in Seq(Messages) /\ AllEnded(link'.queue, now) /\ link'.waits \in Nat BY <1>3, <1>4
<1>10. wire' \in Seq(Messages) /\ AllEnded(wire', now) BY <1>1, <1>2
<1> QED BY <1>1, <1>3, <1>5, <1>7, <1>8, <1>9, <1>10, MergeSteps

LEMMA ChartStep == ChartInv /\ [ChartNext]_chartVars => ChartInv'
<1> SUFFICES ASSUME ChartInv, [ChartNext]_chartVars PROVE ChartInv' OBVIOUS
<1>1. CASE ShowStream \/ ToggleRealtime BY <1>1, StartSteps
<1>2. CASE Reload \/ Connect BY <1>2, AskSteps
<1>3. CASE Read BY <1>3, ReadStep
<1>4. CASE LoadHistory BY <1>4, LoadStep
<1>5. CASE Trade \/ CloseSlot BY <1>5, TradeSteps
<1>6. CASE Overtake BY <1>6, OvertakeStep
<1>7. CASE Arrive BY <1>7, ArriveStep
<1>8. CASE Subscribed \/ Lose BY <1>8, LinkSteps
<1>9. CASE Reconciled BY <1>9, ReconcileStep
<1>10. CASE UNCHANGED chartVars
  <2>1. /\ chart' = chart /\ asked' = asked /\ link' = link /\ wire' = wire /\ now' = now
        /\ causes' = causes
    BY <1>10 DEF chartVars
  <2>2. SameList BY <2>1, ChartIs DEF SameList
  <2> QED BY <2>1, <2>2, AskedKept
<1> QED BY <1>1, <1>2, <1>3, <1>4, <1>5, <1>6, <1>7, <1>8, <1>9, <1>10 DEF ChartNext

LEMMA ChartHolds == ChartInv => ChartIsTrue
<1> SUFFICES ASSUME ChartInv PROVE ChartIsTrue OBVIOUS
<1>1. ListOK(chart.candles, chart.of) BY ChartIs
<1>2. CandlesAreOfStream
  <2>1. ASSUME NEW n \in ShownIn(chart.candles) PROVE chart.candles[n].of = chart.of
    <3>1. n \in Slots /\ chart.candles[n].shown BY <1>1, ListOf
    <3>2. chart.candles[n] \in Looks(chart.of) BY <1>1, <3>1, ListOf
    <3> QED BY <3>1, <3>2, LooksOf
  <2> QED BY <2>1 DEF CandlesAreOfStream
<1>3. GapsHaveCause
  <2> SUFFICES ASSUME Alive, chart.live, ShownIn(chart.candles) # {},
                      NEW n \in Lowest(ShownIn(chart.candles)) .. (now - 1)
               PROVE  n \in ClosedIn(chart.candles) \cup ClosesIn(OnItsWay)
                            \cup causes.missed \cup causes.overtaken
    BY DEF GapsHaveCause
  <2>1. PICK low : low = Lowest(ShownIn(chart.candles)) OBVIOUS
  <2>2. PICK slots : slots = ShownIn(chart.candles) OBVIOUS
  <2>3. slots \in SUBSET Slots /\ slots # {} BY <1>1, <2>2, ListOf
  <2>4. low \in slots BY <2>1, <2>2, <2>3, EndsOfSlots
  <2>5. low \in Nat /\ low >= 1 BY <2>3, <2>4, SlotsOf
  <2>6. n \in 1 .. (now - 1) /\ n \in Nat /\ low <= n
    <3>1. n \in low .. (now - 1) BY <2>1
    <3>2. now \in Nat BY ChartIs
    <3> QED BY <2>5, <3>1, <3>2
  <2>7. \/ n \in Held(chart.candles) \cup Caused(causes)
        \/ OnWay(n, chart.of, wire) \/ OnWay(n, chart.of, link.queue)
    BY <2>6, ChartIs DEF CoverInv
  <2>8. n \notin Below(chart.candles)
    <3>1. ~(n < low) BY <2>5, <2>6
    <3> QED BY <2>2, <2>4, <3>1 DEF Below
  <2>9. OnWay(n, chart.of, wire) \/ OnWay(n, chart.of, link.queue) => n \in ClosesIn(OnItsWay)
    BY DEF OnWay, ClosesIn, OnItsWay
  <2> QED BY <2>7, <2>8, <2>9 DEF Held, Caused
<1>4. DrawingIsCurrent BY ChartIs DEF DrawnInv, DrawingIsCurrent, Alive
<1> QED BY <1>2, <1>3, <1>4 DEF ChartIsTrue

\* A chart shows candles of its stream only (loadHistory drops the answers of
\* an earlier selection).  Every slot above the oldest candle that has ended
\* is closed in it, or its close is on its way, went out while nobody was
\* subscribed, was missing in a page, or was wiped out by a page read before
\* it (mergeCandle, reconcileMarket).  And as long as the list never had a gap
\* the drawing is the list (chartUpdatePlan, CandleVisual).
THEOREM ChartStaysTrue == ChartSpec => []ChartIsTrue
<1>1. ChartInit => ChartInv BY ChartStarts
<1>2. ChartInv /\ [ChartNext]_chartVars => ChartInv' BY ChartStep
<1>3. ChartInv => ChartIsTrue BY ChartHolds
<1> QED BY <1>1, <1>2, <1>3, PTL DEF ChartSpec
=============================================================================
