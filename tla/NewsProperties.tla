----------------------------- MODULE NewsProperties -----------------------------
(***************************************************************************)
(* What the collection of news and its templates promise.                  *)
(***************************************************************************)
EXTENDS NewsIngestion

\* Rows and calls have the fields the code gives them, and the crawler
\* follows no more redirects than its limit (fetchWithBounds).
NewsTypeOK ==
  /\ template \in [Versions -> {"absent", "active", "inactive"}]
  /\ \A a \in DOMAIN news : news[a] = NoItem \/ (news[a].owner \in Readers /\ news[a].text \in Kinds)
  /\ \A p \in Procs : /\ proc[p].version \in Versions /\ proc[p].hops \in 0 .. MaxRedirects
                      /\ proc[p].kind \in Kinds \cup {"none"}
                      /\ proc[p].items \cup proc[p].owed \subseteq Articles

\* Once a domain has a template, exactly one version is in force whenever no
\* template operation is between its statements, unless two such operations
\* crossed or one stopped half way (save and setActiveVersion are two
\* statements without a transaction).
OneVersionInForce ==
  ~crossed /\ ~torn /\ (\E v \in Versions : template[v] # "absent")
    /\ (\A p \in Procs : ~At(p, "store") /\ ~At(p, "activate"))
    => Cardinality(InForce) = 1

\* A call of collect that ends has stored every article it found, except the
\* ones whose own insert failed: no source, article or analysis that fails takes
\* another one with it (collect's loops and their try blocks).
FoundIsKept ==
  \A p \in Procs : At(p, "done") =>
    \A a \in proc[p].owed : news[a] # NoItem

\* No article is stored that only a model's answer mentions (normalizeCandidate
\* checks every candidate against the page).
NothingInvented == \A a \in Invented : news[a] = NoItem

\* An article is stored before it is judged, and neither its owner nor the
\* first verdict of the model ever changes, whoever collects it again
\* (persistAndAnalyze, the upsert of news_items, the insert of results).
OwnerAndVerdictStand ==
  [][\A a \in Articles :
       /\ verdict'[a] # {} => news[a] # NoItem
       /\ news[a] # NoItem => news'[a].owner = news[a].owner
       /\ verdict[a] \subseteq verdict'[a] /\ Cardinality(verdict'[a]) <= 1]_newsVars

\* What the collection leaves behind while requests, models and statements
\* fail: one template in force, every article that was found and no other.
CollectionIsSound == NewsTypeOK /\ OneVersionInForce /\ FoundIsKept /\ NothingInvented
=============================================================================
