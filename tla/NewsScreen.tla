------------------------------ MODULE NewsScreen ------------------------------
(***************************************************************************)
(* The news screen (news.tsx): crawls asked for with the sources of its    *)
(* configuration, the banner that reports them and is cleared by timers,   *)
(* and the paged feed under its filters.  The feed is counted, not named:  *)
(* a filter is the number of articles that pass it.                        *)
(***************************************************************************)
EXTENDS Integers, Sequences

CONSTANTS
  Modes,       \* WEBSITE, RSS, HTML
  SourceMode,  \* mode of each source that may be configured
  Defaults,    \* DEFAULT_SOURCES
  PageOf,      \* articles on a page
  MaxNews,     \* bound: articles of the feed
  MaxCrawls,   \* bound: crawls
  MaxTimers    \* bound: timers that run when a crawl is refused

Sources == DOMAIN SourceMode

ASSUME NewsAssumption ==
  Defaults \subseteq Sources /\ PageOf \in Nat \ {0} /\ MaxNews \in Nat /\ MaxCrawls \in Nat /\ MaxTimers \in Nat

VARIABLES
  browser,  \* localStorage: version and value of the sources, automatic healing
  desk,     \* state of the mounted screen
  feed,     \* articles of the user, those that pass the filters, page
  crawls    \* requests: how many were made, which run

newsVars == <<browser, desk, feed, crawls>>

-----------------------------------------------------------------------------
(* The screen is opened and left                                           *)

\* Sources of another version are thrown away.
Restored(b) == IF b.version = "v4" THEN b ELSE [b EXCEPT !.version = "v4", !.sources = <<>>]
Configured(b) == IF b.sources = <<>> THEN Defaults ELSE b.sources[1]

Desk(b) ==
  [ mode |-> "WEBSITE", sources |-> Configured(Restored(b)), healing |-> b.healing,
    html |-> "", reading |-> FALSE, message |-> "none", timers |-> 0, mine |-> {} ]

Unfiltered(n) == [ all |-> n, hits |-> n, filtered |-> FALSE, page |-> 1, shrunk |-> FALSE ]

NewsInit ==
  /\ browser \in { [ version |-> v, sources |-> s, healing |-> h ] :
                     v \in {"v3", "v4"}, s \in {<<>>, <<{}>>}, h \in BOOLEAN }
  /\ desk = <<>>
  /\ feed = Unfiltered(0)
  /\ crawls = [ made |-> 0, running |-> {} ]

OpenNews ==
  /\ desk = <<>>
  /\ desk' = <<Desk(browser)>> /\ browser' = Restored(browser)
  /\ feed' = Unfiltered(feed.all) /\ UNCHANGED crawls

\* Timers and answers of a screen that was left change nothing that is shown.
LeaveNews == desk # <<>> /\ desk' = <<>> /\ UNCHANGED <<browser, feed, crawls>>

Opened == desk # <<>>
Set(d) == desk' = <<d>>

-----------------------------------------------------------------------------
(* Configuration                                                           *)

SaveSources(s) == /\ Opened /\ Set([desk[1] EXCEPT !.sources = s])
                  /\ browser' = [browser EXCEPT !.sources = <<s>>]
                  /\ UNCHANGED <<feed, crawls>>
AddSource == Opened /\ \E s \in Sources \ desk[1].sources : SaveSources(desk[1].sources \cup {s})
RemoveSource == Opened /\ \E s \in desk[1].sources : SaveSources(desk[1].sources \ {s})
ResetSources == SaveSources(Defaults)
ToggleHealing == /\ Opened /\ Set([desk[1] EXCEPT !.healing = ~ @])
                 /\ browser' = [browser EXCEPT !.healing = ~ @]
                 /\ UNCHANGED <<feed, crawls>>
ChooseMode == \E m \in Modes :
  Opened /\ Set([desk[1] EXCEPT !.mode = m]) /\ UNCHANGED <<browser, feed, crawls>>

\* A file is read in the background and replaces what was typed meanwhile.
TypeHtml == \E text \in {"", "text"} :
  /\ Opened /\ desk[1].mode = "HTML"
  /\ Set([desk[1] EXCEPT !.html = text]) /\ UNCHANGED <<browser, feed, crawls>>
UploadFile ==
  /\ Opened /\ desk[1].mode = "HTML"
  /\ Set([desk[1] EXCEPT !.reading = TRUE]) /\ UNCHANGED <<browser, feed, crawls>>
FileRead ==
  /\ Opened /\ desk[1].reading
  /\ Set([desk[1] EXCEPT !.reading = FALSE, !.html = "text"])
  /\ UNCHANGED <<browser, feed, crawls>>

-----------------------------------------------------------------------------
(* Crawls                                                                  *)

\* The buttons know the latest crawl of this screen only.
CrawlPending(d) == crawls.made \in crawls.running \cap d.mine
Ask ==
  /\ crawls.made < MaxCrawls
  /\ crawls' = [ made |-> crawls.made + 1, running |-> crawls.running \cup {crawls.made + 1} ]
  /\ Set([desk[1] EXCEPT !.message = "crawling", !.mine = @ \cup {crawls.made + 1}])
  /\ UNCHANGED <<browser, feed>>

Active(d) == {s \in d.sources : SourceMode[s] = d.mode}
StartCrawl == Opened /\ ~ CrawlPending(desk[1]) /\ Active(desk[1]) # {} /\ Ask
NoSources ==
  /\ Opened /\ ~ CrawlPending(desk[1]) /\ Active(desk[1]) = {}
  /\ desk[1].timers < MaxTimers
  /\ Set([desk[1] EXCEPT !.message = "none configured", !.timers = @ + 1])
  /\ UNCHANGED <<browser, feed, crawls>>
AnalyzeHtml ==
  Opened /\ desk[1].mode = "HTML" /\ desk[1].html # "" /\ ~ CrawlPending(desk[1]) /\ Ask
\* The button of an empty feed may be pressed while a crawl runs.
QuickCrawl == Opened /\ feed.all = 0 /\ Ask

BugReported(d) == [d EXCEPT !.message = "result"]
Reported(d) == [d EXCEPT !.message = "result", !.timers = @ + 1]
CrawlDone == \E c \in crawls.running, ok \in BOOLEAN :
  /\ crawls' = [crawls EXCEPT !.running = @ \ {c}]
  /\ IF Opened /\ c \in desk[1].mine
     THEN /\ Set(Reported(desk[1]))
          /\ feed' = IF ok THEN [feed EXCEPT !.page = 1, !.shrunk = FALSE] ELSE feed
     ELSE UNCHANGED <<desk, feed>>
  /\ UNCHANGED browser

\* A timer clears the banner whatever it says by then.
ClearMessage ==
  /\ Opened /\ desk[1].timers > 0
  /\ Set([desk[1] EXCEPT !.message = "none", !.timers = @ - 1])
  /\ UNCHANGED <<browser, feed, crawls>>
CloseMessage ==
  /\ Opened /\ desk[1].message # "none"
  /\ Set([desk[1] EXCEPT !.message = "none"]) /\ UNCHANGED <<browser, feed, crawls>>

-----------------------------------------------------------------------------
(* Feed                                                                    *)

Pages == LET n == feed.hits IN IF n = 0 THEN 1 ELSE (n + PageOf - 1) \div PageOf
OnPage == LET left == feed.hits - (feed.page - 1) * PageOf
          IN  IF left < 0 THEN 0 ELSE IF left < PageOf THEN left ELSE PageOf

\* A crawl stores new articles and rewrites others, which may leave the filter.
Refetched == \E n \in feed.all .. MaxNews, h \in 0 .. MaxNews :
  /\ Opened /\ h <= n /\ (~ feed.filtered => h = n)
  /\ feed' = [feed EXCEPT !.all = n, !.hits = h, !.shrunk = @ \/ h < feed.hits]
  /\ UNCHANGED <<browser, desk, crawls>>
Filter == \E h \in 0 .. feed.all :
  /\ Opened
  /\ feed' = [feed EXCEPT !.filtered = TRUE, !.hits = h, !.page = 1, !.shrunk = FALSE]
  /\ UNCHANGED <<browser, desk, crawls>>
ClearFilters ==
  /\ Opened /\ feed.filtered
  /\ feed' = Unfiltered(feed.all) /\ UNCHANGED <<browser, desk, crawls>>
TurnPage ==
  /\ Opened /\ feed.hits > 0
  /\ \/ feed.page > 1 /\ feed' = [feed EXCEPT !.page = @ - 1]
     \/ feed.page < Pages /\ feed' = [feed EXCEPT !.page = @ + 1]
  /\ UNCHANGED <<browser, desk, crawls>>

NewsNext ==
  \/ OpenNews \/ LeaveNews \/ AddSource \/ RemoveSource \/ ResetSources \/ ToggleHealing
  \/ ChooseMode \/ TypeHtml \/ UploadFile \/ FileRead \/ StartCrawl \/ NoSources
  \/ AnalyzeHtml \/ QuickCrawl \/ CrawlDone \/ ClearMessage \/ CloseMessage
  \/ Refetched \/ Filter \/ ClearFilters \/ TurnPage

-----------------------------------------------------------------------------
(* What the screen promises                                                *)

\* No message stays for ever: it reports a crawl that runs, or a timer that was
\* started, perhaps for an earlier message, is going to clear it.
MessageGoesAway ==
  Opened /\ desk[1].message # "none" =>
    desk[1].timers > 0 \/ desk[1].mine \cap crawls.running # {}

\* What the configuration shows is what the next visit will show.
ConfigurationIsKept ==
  Opened => /\ desk[1].sources = Configured(browser)
            /\ desk[1].healing = browser.healing

\* The page shows articles as long as some pass the filters, unless the feed
\* shrank under it: the page is not taken back.
FeedShowsArticles == feed.hits > 0 /\ ~ feed.shrunk => OnPage > 0

NewsIsTrue == MessageGoesAway /\ ConfigurationIsKept /\ FeedShowsArticles
=============================================================================
