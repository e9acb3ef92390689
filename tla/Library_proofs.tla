----------------------------- MODULE Library_proofs -----------------------------
(***************************************************************************)
(* The strategy library, for any users, families, contents and requests:   *)
(* its versions, composites, candidates and audit rows stay sound          *)
(* (LibraryIsSound), and a deletion removes what is its own and stops half *)
(* way for a cause only (DeletionIsExact).                                 *)
(***************************************************************************)
EXTENDS StrategyLibrary, FiniteSetTheorems, TLAPS

(* Rows, and the rows that requests have prepared but not written.         *)
DefType == [id : Nat, user : Users, fam : Families, ver : Nat, content : Contents]
CompType == [id : Nat, user : Users, fam : SUBSET Nat, ver : Nat,
             content : Contents \cup {"none"}, parts : SUBSET Nat]
CandType == [id : Nat, user : Users, layer : 0 .. 3, refs : SUBSET Nat]
AuditType == [user : Users, out : Nat]

Definers == {"define", "compose", "generate", "single"}
Deleters == {"delete", "deleteComposite"}
StagesOf(op) ==
  CASE op = "idle" -> {"idle"}
    [] op = "define" -> {"prepare", "insert", "done"}
    [] op = "compose" -> {"check", "insert", "done"}
    [] op = "generate" -> {"source", "model", "prepare", "check", "commit"}
    [] op = "single" -> {"prepare", "commit"}
    [] op = "submit" -> {"check", "insert"}
    [] op = "delete" -> {"cands", "results", "layer3", "layer2", "layer1", "layer0",
                         "audits", "comps", "row"}
    [] op = "deleteComposite" -> {"cands", "results", "layer3", "layer2", "layer1", "layer0",
                                  "audits", "row"}
Stages == {"idle", "source", "model", "prepare", "check", "insert", "commit", "done", "cands",
           "results", "layer3", "layer2", "layer1", "layer0", "audits", "comps", "row"}
RequestType ==
  [op : {"idle", "submit"} \cup Definers \cup Deleters, user : Users \cup {"none"}, stage : Stages,
   spec : Seq(Specs), parts : SUBSET Nat, fresh : SUBSET DefType, todo : SUBSET Nat,
   comp : SUBSET CompType, content : Contents \cup {"none"}, target : Nat,
   ks : SUBSET Nat, xs : SUBSET Nat]

(* What a request knows of itself.                                         *)
ShapeOK(q) ==
  /\ q \in RequestType /\ q.stage \in StagesOf(q.op)
  /\ q.op = "idle" => q = Idle
  /\ q.op # "idle" => q.user \in Users
  /\ q.stage \in {"source", "model"} => q.parts = {}
  /\ q.stage \in {"source", "model", "prepare"} => q.comp = {}
  /\ q.stage = "prepare" => q.spec # <<>>
  /\ q.stage = "prepare" /\ q.op \in {"define", "single"} => Len(q.spec) = 1 /\ q.parts = {}
  /\ Ids(q.fresh) \subseteq q.parts /\ q.todo \subseteq q.parts /\ q.xs \subseteq q.ks
  /\ \A d \in q.fresh : d.user = q.user
  /\ \A c \in q.comp : c.user = q.user /\ c.parts = q.parts
  /\ q.op = "define" => \A d, e \in q.fresh : d = e
  /\ q.op \in {"compose", "submit"} => q.fresh = {}
  /\ q.op \in {"compose", "generate", "submit"} =>
       /\ q.stage \in {"check", "insert", "commit"} => q.parts # {}
       /\ q.stage \in {"insert", "commit"} => q.todo = {}
  /\ q.op \in Deleters => q.parts = {} /\ q.target # 0
  /\ q.stage = "cands" => q.ks = {}
  /\ q.op \in {"define", "single"} \cup Deleters => q.comp = {}
ShapeInv == DOMAIN req = Reqs /\ \A r \in Reqs : ShapeOK(req[r])

DefRecs == defs \cup (UNION {req[r].fresh : r \in Reqs})
CompRecs == comps \cup (UNION {req[r].comp : r \in Reqs})
DefNames == Ids(DefRecs) \cup (UNION {req[r].parts : r \in Reqs}) \cup (UNION {c.parts : c \in CompRecs})
              \cup {req[r].target : r \in {s \in Reqs : req[s].op = "delete"}}
CompNames == Ids(CompRecs) \cup {req[r].target : r \in {s \in Reqs : req[s].op = "deleteComposite"}}
CandNames == Ids(cands) \cup (UNION {req[r].ks : r \in Reqs})
Issued == 1 .. (next - 1)

(* An id names one row of one table, for good.                             *)
RecordInv ==
  /\ defs \subseteq DefType /\ comps \subseteq CompType /\ cands \subseteq CandType
  /\ audits \subseteq AuditType /\ next \in 1 .. (MaxIds + 1) /\ void \subseteq Issued
  /\ DefNames \subseteq Issued /\ CompNames \subseteq Issued /\ CandNames \subseteq Issued
  /\ DefNames \cap CompNames = {} /\ DefNames \cap CandNames = {} /\ CompNames \cap CandNames = {}
  /\ \A d \in DefRecs : d.ver \in 1 .. d.id /\ \A e \in DefRecs : e.id = d.id => e = d
  /\ \A c \in CompRecs : /\ c.ver \in 1 .. c.id /\ c.parts # {} /\ c.fam = c.parts
                         /\ \A e \in CompRecs : e.id = c.id => e = c
  /\ \A k \in cands : /\ k.refs \subseteq Issued
                      /\ \A e \in cands : e.id = k.id => e.user = k.user /\ e.refs = k.refs
  /\ \A r \in Reqs : \A d \in req[r].fresh :
       d \notin defs /\ d.id \notin void /\ \A s \in Reqs : d \in req[s].fresh => s = r
  /\ \A d \in defs : d.id \notin void

(* In a family that never lost a row, the versions below a row are taken   *)
(* and have other contents; so they were when an unwritten row was made.   *)
Follows(d) ==
  /\ \A v \in 1 .. (d.ver - 1) : \E x \in Prior(d.user, d.fam) : x.ver = v
  /\ \A x \in Prior(d.user, d.fam) : x.ver < d.ver => x.content # d.content
HistoryInv ==
  /\ \A d, e \in defs : d.user = e.user /\ d.fam = e.fam /\ d.ver = e.ver => d = e
  /\ \A d \in DefRecs : <<d.user, d.fam>> \notin pruned => Follows(d)

(* What rows refer to is there, or a delete and its use overlapped.        *)
Here(id, user) == Owned(id, user) \/ \E c \in comps : c.id = id /\ c.user = user
PartsInv == \A c \in comps : \A id \in c.parts : Owned(id, c.user) \/ c.parts \cap overlap # {}
RefsInv == \A k \in cands :
  /\ \A id \in k.refs : Here(id, k.user) \/ k.refs \cap overlap # {}
  /\ \A c \in CompRecs : c.id \in k.refs => c.parts \subseteq k.refs
AuditInv == \A a \in audits : a.out \in Present /\ \A d \in defs : d.id = a.out => d.user = a.user

(* What a request has checked is still there, or a delete overlapped.      *)
UserOK(q) ==
  /\ \A id \in q.parts \ q.todo : Owned(id, q.user) \/ id \in Ids(q.fresh) \/ id \in overlap
  /\ q.op = "submit" /\ q.stage = "insert" =>
       \A c \in q.comp : c \in comps \/ (q.parts \cup Ids(q.comp)) \cap overlap # {}
  /\ q.op = "single" => \A d \in DefRecs : d.id \in q.parts => d.user = q.user

(* What a delete has behind it is gone, or somebody used its target.       *)
Alone(q) == q.target \notin overlap
Mine(q, k) == k.user = q.user /\ q.target \in k.refs
DeleteOK(q) == q.op \in Deleters =>
  /\ \A k \in cands : k.id \in q.ks => Mine(q, k)
  /\ Alone(q) =>
       /\ q.stage \in {"results", "layer3", "layer2", "layer1", "layer0"} =>
            \A k \in cands : Mine(q, k) => k.id \in q.ks
       /\ q.stage \in {"audits", "comps", "row"} => \A k \in cands : ~Mine(q, k)
       /\ q.stage \in {"layer3", "layer2"} => \A k \in Among(q.ks) : k.layer >= 2 => k.id \in q.xs
       /\ q.stage = "layer2" => \A k \in Among(q.ks) : k.layer <= 2
       /\ q.stage = "layer1" => \A k \in Among(q.ks) : k.layer <= 1
       /\ q.stage = "layer0" => \A k \in Among(q.ks) : k.layer = 0
       /\ q.op = "delete" /\ q.stage \in {"comps", "row"} => AuditsOf(q) = {}
  /\ q.op = "delete" /\ q.stage = "row" => \A c \in Mentions(q) : c.parts \cap overlap # {}
RequestInv == \A r \in Reqs : UserOK(req[r]) /\ DeleteOK(req[r])

LibraryInv ==
  ShapeInv /\ RecordInv /\ HistoryInv /\ PartsInv /\ RefsInv /\ AuditInv /\ RequestInv

--------------------------------------------------------------------------------
(* Names: what it means to be in one of the sets above.                    *)
LEMMA DefRecMember == \A d : d \in DefRecs <=> d \in defs \/ \E r \in Reqs : d \in req[r].fresh
BY DEF DefRecs

LEMMA CompRecMember == \A c : c \in CompRecs <=> c \in comps \/ \E r \in Reqs : c \in req[r].comp
BY DEF CompRecs

LEMMA DefNameMember ==
  \A id : id \in DefNames <=>
    \/ \E d \in DefRecs : id = d.id
    \/ \E r \in Reqs : id \in req[r].parts
    \/ \E c \in CompRecs : id \in c.parts
    \/ \E r \in Reqs : req[r].op = "delete" /\ id = req[r].target
BY DEF DefNames, Ids

LEMMA CompNameMember ==
  \A id : id \in CompNames <=>
    \/ \E c \in CompRecs : id = c.id
    \/ \E r \in Reqs : req[r].op = "deleteComposite" /\ id = req[r].target
BY DEF CompNames, Ids

LEMMA CandNameMember ==
  \A id : id \in CandNames <=> \/ \E k \in cands : id = k.id
                               \/ \E r \in Reqs : id \in req[r].ks
BY DEF CandNames, Ids

(* The same of the next state.                                             *)
LEMMA NextRecMember ==
  /\ \A d : d \in DefRecs' <=> d \in defs' \/ \E r \in Reqs : d \in req'[r].fresh
  /\ \A c : c \in CompRecs' <=> c \in comps' \/ \E r \in Reqs : c \in req'[r].comp
BY DEF DefRecs, CompRecs

LEMMA NextNameMember ==
  /\ \A id : id \in DefNames' <=>
       \/ \E d \in DefRecs' : id = d.id
       \/ \E r \in Reqs : id \in req'[r].parts
       \/ \E c \in CompRecs' : id \in c.parts
       \/ \E r \in Reqs : req'[r].op = "delete" /\ id = req'[r].target
  /\ \A id : id \in CompNames' <=>
       \/ \E c \in CompRecs' : id = c.id
       \/ \E r \in Reqs : req'[r].op = "deleteComposite" /\ id = req'[r].target
  /\ \A id : id \in CandNames' <=> \/ \E k \in cands' : id = k.id
                                   \/ \E r \in Reqs : id \in req'[r].ks
BY DEF DefNames, CompNames, CandNames, Ids

--------------------------------------------------------------------------------
(* A step of request r that leaves it at q and prepares the definitions D, *)
(* the composites C or the candidates K, at most one row, named next.      *)
Prepares(D, C, K) ==
  /\ \A d \in D : d \in DefType /\ d.id = next /\ d.ver \in 1 .. next /\ \A e \in D : e = d
  /\ \A c \in C : /\ c \in CompType /\ c.id = next /\ c.ver \in 1 .. next /\ c.parts # {} /\ c.fam = c.parts
                  /\ c.parts \subseteq DefNames /\ \A e \in C : e = c
  /\ \A k \in K : k.id = next /\ k.refs \subseteq Issued /\ \A e \in K : e = k
  /\ (C = {} /\ K = {}) \/ (D = {} /\ K = {}) \/ (D = {} /\ C = {})
  /\ next' \in 1 .. (MaxIds + 1)
  /\ IF D = {} /\ C = {} /\ K = {} THEN next' = next ELSE next' = next + 1
Settles(r, q) ==
  /\ defs' \subseteq defs \cup req[r].fresh /\ void' \subseteq void \cup Ids(req[r].fresh)
  /\ \/ void' = void /\ (defs' \subseteq defs \/ q.fresh = {})
     \/ defs' \subseteq defs /\ q.fresh = {}
Moved(r, q, D, C, K) ==
  /\ req' = [req EXCEPT ![r] = q] /\ ShapeOK(q)
  /\ Prepares(D, C, K) /\ Settles(r, q)
  /\ comps' \subseteq comps \cup req[r].comp
  /\ cands' \subseteq CandType /\ audits' \subseteq AuditType
  /\ \A k \in cands' : k \in K \/ \E x \in cands : x.id = k.id /\ x.user = k.user /\ x.refs = k.refs
  /\ q.fresh \subseteq req[r].fresh \cup D
  /\ q.comp \subseteq CompRecs \cup C
  /\ q.parts \subseteq DefNames \cup Ids(D)
  /\ q.ks \subseteq CandNames
  /\ q.op = "delete" => q.target \in DefNames
  /\ q.op = "deleteComposite" => q.target \in CompNames

(* The slots after the step.                                               *)
LEMMA SlotsAfter ==
  ASSUME DOMAIN req = Reqs, NEW r \in Reqs, NEW q, req' = [req EXCEPT ![r] = q]
  PROVE  DOMAIN req' = Reqs /\ req'[r] = q /\ \A s \in Reqs : s # r => req'[s] = req[s]
OBVIOUS

LEMMA MovedShape ==
  ASSUME ShapeInv, NEW r \in Reqs, NEW q, NEW D, NEW C, NEW K, Moved(r, q, D, C, K)
  PROVE  ShapeInv'
<1>1. DOMAIN req' = Reqs /\ req'[r] = q /\ \A s \in Reqs : s # r => req'[s] = req[s]
  BY SlotsAfter DEF Moved, ShapeInv
<1>2. ASSUME NEW s \in Reqs PROVE ShapeOK(req'[s])
  BY <1>1 DEF Moved, ShapeInv
<1>3. ASSUME NEW s \in Reqs PROVE ShapeOK(req[s])'
  BY <1>2 DEF ShapeOK
<1>4. QED
  BY <1>1, <1>3 DEF ShapeInv

LEMMA MovedRecs ==
  ASSUME ShapeInv, NEW r \in Reqs, NEW q, NEW D, NEW C, NEW K, Moved(r, q, D, C, K)
  PROVE  /\ \A d \in DefRecs' : d \in DefRecs \/ d \in D
         /\ \A c \in CompRecs' : c \in CompRecs \/ c \in C
<1>1. DOMAIN req' = Reqs /\ req'[r] = q /\ \A s \in Reqs : s # r => req'[s] = req[s]
  BY SlotsAfter DEF Moved, ShapeInv
<1>2. \A d \in DefRecs' : d \in DefRecs \/ d \in D
  BY <1>1, DefRecMember, NextRecMember DEF Moved, Settles
<1>3. \A c \in CompRecs' : c \in CompRecs \/ c \in C
  BY <1>1, CompRecMember, NextRecMember DEF Moved
<1>4. QED
  BY <1>2, <1>3

LEMMA MovedNames ==
  ASSUME ShapeInv, NEW r \in Reqs, NEW q, NEW D, NEW C, NEW K, Moved(r, q, D, C, K)
  PROVE  /\ DefNames' \subseteq DefNames \cup Ids(D)
         /\ CompNames' \subseteq CompNames \cup Ids(C)
         /\ CandNames' \subseteq CandNames \cup Ids(K)
<1>1. DOMAIN req' = Reqs /\ req'[r] = q /\ \A s \in Reqs : s # r => req'[s] = req[s]
  BY SlotsAfter DEF Moved, ShapeInv
<1>2. \A c \in C : c.parts \subseteq DefNames
  BY DEF Moved, Prepares
<1>3. ASSUME NEW id \in DefNames' PROVE id \in DefNames \cup Ids(D)
  <2>1. CASE \E d \in DefRecs' : id = d.id
    BY <2>1, MovedRecs, DefNameMember DEF Ids
  <2>2. CASE \E s \in Reqs : id \in req'[s].parts
    BY <2>2, <1>1, DefNameMember DEF Moved
  <2>3. CASE \E c \in CompRecs' : id \in c.parts
    BY <2>3, <1>2, MovedRecs, DefNameMember
  <2>4. CASE \E s \in Reqs : req'[s].op = "delete" /\ id = req'[s].target
    BY <2>4, <1>1, DefNameMember DEF Moved
  <2>5. QED
    BY <2>1, <2>2, <2>3, <2>4, NextNameMember
<1>4. ASSUME NEW id \in CompNames' PROVE id \in CompNames \cup Ids(C)
  <2>1. CASE \E c \in CompRecs' : id = c.id
    BY <2>1, MovedRecs, CompNameMember DEF Ids
  <2>2. CASE \E s \in Reqs : req'[s].op = "deleteComposite" /\ id = req'[s].target
    BY <2>2, <1>1, CompNameMember DEF Moved
  <2>3. QED
    BY <2>1, <2>2, NextNameMember
<1>5. ASSUME NEW id \in CandNames' PROVE id \in CandNames \cup Ids(K)
  <2>1. CASE \E k \in cands' : id = k.id
    BY <2>1, CandNameMember DEF Moved, Ids
  <2>2. CASE \E s \in Reqs : id \in req'[s].ks
    BY <2>2, <1>1, CandNameMember DEF Moved
  <2>3. QED
    BY <2>1, <2>2, NextNameMember
<1>6. QED
  BY <1>3, <1>4, <1>5

LEMMA FreshOnce ==
  ASSUME RecordInv, NEW r \in Reqs, NEW d \in req[r].fresh
  PROVE  /\ d \notin defs /\ d.id \notin void /\ d \in DefRecs
         /\ \A s \in Reqs : d \in req[s].fresh => s = r
BY DefRecMember DEF RecordInv

LEMMA MovedFresh ==
  ASSUME ShapeInv, RecordInv, NEW r \in Reqs, NEW q, NEW D, NEW C, NEW K, Moved(r, q, D, C, K)
  PROVE  /\ \A s \in Reqs : \A d \in req'[s].fresh :
              d \notin defs' /\ d.id \notin void' /\ \A t \in Reqs : d \in req'[t].fresh => t = s
         /\ \A d \in defs' : d.id \notin void'
<1>1. DOMAIN req' = Reqs /\ req'[r] = q /\ \A s \in Reqs : s # r => req'[s] = req[s]
  BY SlotsAfter DEF Moved, ShapeInv
<1>2. Settles(r, q) /\ q.fresh \subseteq req[r].fresh \cup D
  BY DEF Moved
<1>3. \A d \in D : d.id \notin DefNames /\ d.id \notin void
  <2>1. \A d \in D : d.id = next BY DEF Moved, Prepares
  <2>2. next \notin Issued BY DEF RecordInv, Issued
  <2>3. QED BY <2>1, <2>2 DEF RecordInv
<1>4. \A d \in DefRecs : d.id \in DefNames
  BY DefNameMember
<1>5. \A d \in D : d \notin DefRecs
  BY <1>3, <1>4
<1>6. ASSUME NEW s \in Reqs, NEW d \in req[s].fresh, NEW t \in Reqs, NEW e \in req[t].fresh, d.id = e.id
      PROVE  d = e /\ s = t
  <2>1. d \in DefRecs /\ e \in DefRecs BY <1>6, DefRecMember
  <2>2. d = e BY <1>6, <2>1 DEF RecordInv
  <2>3. QED BY <1>6, <2>2, FreshOnce
<1>7. ASSUME NEW s \in Reqs, NEW d \in req'[s].fresh
      PROVE  d \notin defs' /\ d.id \notin void' /\ \A t \in Reqs : d \in req'[t].fresh => t = s
  <2>1. CASE d \in req[s].fresh
    <3>1. d \notin defs /\ d.id \notin void /\ d \in DefRecs /\ \A t \in Reqs : d \in req[t].fresh => t = s
      BY <2>1, FreshOnce
    <3>2. \A t \in Reqs : d \in req'[t].fresh => t = s
      BY <3>1, <1>1, <1>2, <1>5
    <3>3. CASE s = r
      BY <3>1, <3>2, <3>3, <1>1, <1>2, <1>7 DEF Settles
    <3>4. CASE s # r
      <4>1. d \notin req[r].fresh BY <3>1, <3>4
      <4>2. d.id \notin Ids(req[r].fresh) BY <1>6, <2>1, <3>4 DEF Ids
      <4>3. QED BY <3>1, <3>2, <4>1, <4>2, <1>2 DEF Settles
    <3>5. QED BY <3>3, <3>4
  <2>2. CASE d \notin req[s].fresh
    <3>1. s = r /\ d \in D /\ d \in q.fresh BY <2>2, <1>1, <1>2, <1>7
    <3>2. void' = void /\ defs' \subseteq defs BY <3>1, <1>2 DEF Settles
    <3>3. d \notin DefRecs /\ d.id \notin void BY <3>1, <1>3, <1>5
    <3>4. d \notin defs' BY <3>2, <3>3, DefRecMember
    <3>5. \A t \in Reqs : d \in req'[t].fresh => t = s BY <3>1, <3>3, <1>1, DefRecMember
    <3>6. QED BY <3>2, <3>3, <3>4, <3>5
  <2>3. QED BY <2>1, <2>2
<1>8. ASSUME NEW d \in defs' PROVE d.id \notin void'
  <2>1. CASE d \in defs
    <3>1. d.id \notin void BY <2>1 DEF RecordInv
    <3>2. ASSUME NEW e \in req[r].fresh, e.id = d.id PROVE FALSE
      <4>1. e \in DefRecs /\ d \in DefRecs BY <2>1, DefRecMember
      <4>2. e = d BY <4>1, <3>2 DEF RecordInv
      <4>3. QED BY <4>2, <2>1, FreshOnce
    <3>3. QED BY <3>1, <3>2, <1>2 DEF Settles, Ids
  <2>2. CASE d \notin defs
    <3>1. d \in req[r].fresh /\ void' = void BY <2>2, <1>2, <1>8 DEF Settles
    <3>2. QED BY <3>1, FreshOnce
  <2>3. QED BY <2>1, <2>2
<1>9. QED
  BY <1>7, <1>8

LEMMA MovedRecord ==
  ASSUME ShapeInv, RecordInv, NEW r \in Reqs, NEW q, NEW D, NEW C, NEW K, Moved(r, q, D, C, K)
  PROVE  RecordInv'
<1>1. Prepares(D, C, K) /\ Settles(r, q) /\ cands' \subseteq CandType /\ audits' \subseteq AuditType
  BY DEF Moved
<1>2. /\ DefNames' \subseteq DefNames \cup Ids(D) /\ CompNames' \subseteq CompNames \cup Ids(C)
      /\ CandNames' \subseteq CandNames \cup Ids(K)
  BY MovedNames
<1>3. next \in 1 .. (MaxIds + 1) /\ next' \in 1 .. (MaxIds + 1) /\ next \in Nat /\ MaxIds \in Nat
  BY <1>1, LibraryAssumption DEF RecordInv, Prepares
<1>4. next \notin DefNames /\ next \notin CompNames /\ next \notin CandNames
  BY <1>3 DEF RecordInv, Issued
<1>5. /\ Ids(D) \subseteq {next} /\ Ids(C) \subseteq {next} /\ Ids(K) \subseteq {next}
      /\ Ids(D) \subseteq Issued' /\ Ids(C) \subseteq Issued' /\ Ids(K) \subseteq Issued'
  <2>1. \A x \in D \cup C \cup K : x.id = next BY <1>1 DEF Prepares
  <2>2. (D = {} /\ C = {} /\ K = {}) \/ next \in 1 .. (next' - 1)
    <3>1. (D = {} /\ C = {} /\ K = {}) \/ next' = next + 1 BY <1>1 DEF Prepares
    <3>2. next' = next + 1 => next \in 1 .. (next' - 1) BY <1>3
    <3>3. QED BY <3>1, <3>2
  <2>3. Ids(D) \subseteq {next} /\ Ids(C) \subseteq {next} /\ Ids(K) \subseteq {next}
    BY <2>1 DEF Ids
  <2>4. (Ids(D) = {} /\ Ids(C) = {} /\ Ids(K) = {}) \/ next \in Issued'
    BY <2>2 DEF Ids, Issued
  <2>5. QED BY <2>3, <2>4
<1>6. Issued \subseteq Issued'
  <2>1. next' = next \/ next' = next + 1 BY <1>1 DEF Prepares
  <2>2. PICK m \in Int : m = next' BY <1>3
  <2>3. m = next \/ m = next + 1 BY <2>1, <2>2
  <2>4. next \in Int BY <1>3
  <2>5. 1 .. (next - 1) \subseteq 1 .. (m - 1) BY <2>3, <2>4
  <2>6. QED BY <2>2, <2>5 DEF Issued
<1>7. DefNames' \subseteq Issued' /\ CompNames' \subseteq Issued' /\ CandNames' \subseteq Issued'
  BY <1>2, <1>5, <1>6 DEF RecordInv
<1>8. /\ DefNames' \cap CompNames' = {} /\ DefNames' \cap CandNames' = {}
      /\ CompNames' \cap CandNames' = {}
  <2>1. (Ids(C) = {} /\ Ids(K) = {}) \/ (Ids(D) = {} /\ Ids(K) = {}) \/ (Ids(D) = {} /\ Ids(C) = {})
    BY <1>1 DEF Prepares, Ids
  <2>2. DefNames \cap CompNames = {} /\ DefNames \cap CandNames = {} /\ CompNames \cap CandNames = {}
    BY DEF RecordInv
  <2>3. QED BY <2>1, <2>2, <1>2, <1>4, <1>5
<1>9. \A d \in DefRecs : d \in DefType /\ d.id \in DefNames
  <2>1. \A s \in Reqs : req[s].fresh \subseteq DefType BY DEF ShapeInv, ShapeOK, RequestType
  <2>2. QED BY <2>1, DefRecMember, DefNameMember DEF RecordInv
<1>10. \A c \in CompRecs : c \in CompType /\ c.id \in CompNames
  <2>1. \A s \in Reqs : req[s].comp \subseteq CompType BY DEF ShapeInv, ShapeOK, RequestType
  <2>2. QED BY <2>1, CompRecMember, CompNameMember DEF RecordInv
<1>11. \A d \in DefRecs' : d.ver \in 1 .. d.id /\ \A e \in DefRecs' : e.id = d.id => e = d
  <2>1. \A d \in DefRecs' : d \in DefRecs \/ d \in D BY MovedRecs
  <2>2. \A d \in D : d.id \notin DefNames /\ d.ver \in 1 .. d.id /\ \A e \in D : e = d
    BY <1>1, <1>4 DEF Prepares
  <2>3. \A d \in DefRecs : d.ver \in 1 .. d.id /\ \A e \in DefRecs : e.id = d.id => e = d
    BY DEF RecordInv
  <2>4. QED BY <2>1, <2>2, <2>3, <1>9
<1>12. \A c \in CompRecs' : c.ver \in 1 .. c.id /\ c.parts # {} /\ c.fam = c.parts /\ \A e \in CompRecs' : e.id = c.id => e = c
  <2>1. \A c \in CompRecs' : c \in CompRecs \/ c \in C BY MovedRecs
  <2>2. \A c \in C : c.id \notin CompNames /\ c.ver \in 1 .. c.id /\ c.parts # {} /\ c.fam = c.parts /\ \A e \in C : e = c
    BY <1>1, <1>4 DEF Prepares
  <2>3. \A c \in CompRecs : c.ver \in 1 .. c.id /\ c.parts # {} /\ c.fam = c.parts /\ \A e \in CompRecs : e.id = c.id => e = c
    BY DEF RecordInv
  <2>4. QED BY <2>1, <2>2, <2>3, <1>10
<1>13. defs' \subseteq DefType /\ comps' \subseteq CompType
  <2>1. req[r].fresh \subseteq DefType /\ req[r].comp \subseteq CompType BY DEF ShapeInv, ShapeOK, RequestType
  <2>2. QED BY <2>1 DEF Moved, Settles, RecordInv
<1>14. void' \subseteq Issued'
  <2>1. Ids(req[r].fresh) \subseteq Issued
    BY <1>9, DefRecMember DEF Ids, RecordInv
  <2>2. QED BY <2>1, <1>1, <1>6 DEF Settles, RecordInv
<1>15. /\ \A k \in cands' : k.refs \subseteq Issued'
       /\ \A k, e \in cands' : e.id = k.id => e.user = k.user /\ e.refs = k.refs
  <2>1. \A k \in cands' : k \in K \/ \E x \in cands : x.id = k.id /\ x.user = k.user /\ x.refs = k.refs
    BY DEF Moved
  <2>2. \A x \in cands : x.id # next BY <1>4, CandNameMember
  <2>3. \A k \in K : k.id = next /\ k.refs \subseteq Issued /\ \A e \in K : e = k
    BY <1>1 DEF Prepares
  <2>4. \A x, y \in cands : x.id = y.id => x.user = y.user /\ x.refs = y.refs BY DEF RecordInv
  <2>5. \A x \in cands : x.refs \subseteq Issued BY DEF RecordInv
  <2>6. QED BY <2>1, <2>2, <2>3, <2>4, <2>5, <1>6
<1>16. QED
  BY <1>1, <1>3, <1>7, <1>8, <1>11, <1>12, <1>13, <1>14, <1>15, MovedFresh DEF RecordInv

(* A worker's step, and a step of nobody.                                  *)
LEMMA WorkedRecord ==
  ASSUME RecordInv, UNCHANGED <<defs, comps, audits, req, next, void>>, cands' \subseteq CandType,
         \A k \in cands' : \E x \in cands : x.id = k.id /\ x.user = k.user /\ x.refs = k.refs
  PROVE  RecordInv'
<1>1. DefRecs' = DefRecs /\ CompRecs' = CompRecs
  BY DEF DefRecs, CompRecs
<1>2. DefNames' = DefNames /\ CompNames' = CompNames /\ Issued' = Issued
  BY <1>1 DEF DefNames, CompNames, Issued, Ids
<1>3. CandNames' \subseteq CandNames
  BY NextNameMember, CandNameMember
<1>4. \A k, e \in cands' : e.id = k.id => e.user = k.user /\ e.refs = k.refs
  BY DEF RecordInv
<1>5. \A k \in cands' : k.refs \subseteq Issued BY DEF RecordInv
<1>6. QED
  BY <1>1, <1>2, <1>3, <1>4, <1>5 DEF RecordInv
--------------------------------------------------------------------------------
(* The highest of finitely many versions.                                  *)
LEMMA MaxIsIn ==
  ASSUME NEW n \in Nat, NEW S \in SUBSET (0 .. n), S # {}
  PROVE  Max(S) \in S /\ \A y \in S : Max(S) >= y
<1> DEFINE above(v) == {w \in S : v < w}
           T == {above(v) : v \in S}
<1>1. S \subseteq Int /\ IsFiniteSet(S)
  <2>1. IsFiniteSet(0 .. n) /\ 0 .. n \subseteq Int BY FS_Interval
  <2> QED BY <2>1, FS_Subset
<1>2. IsWellFoundedOn(StrictSubsetOrdering(S), SUBSET S)
  BY <1>1, FS_FiniteSubsetsOfFinite, FS_StrictSubsetOrderingWellFounded
<1>3. T \subseteq SUBSET S /\ T # {} OBVIOUS
<1>4. PICK X \in T : \A Y \in T : <<Y, X>> \notin StrictSubsetOrdering(S)
  <2> HIDE DEF T
  <2> QED BY <1>2, <1>3, WFMin
<1>5. PICK v \in S : X = above(v) BY <1>4
<1>6. ASSUME NEW w \in S PROVE v >= w
  <2> SUFFICES ASSUME v < w PROVE FALSE BY <1>1
  <2>1. above(w) \in T /\ above(w) \in SUBSET S /\ above(v) \in SUBSET S OBVIOUS
  <2>2. ASSUME NEW x \in above(w) PROVE x \in above(v)
    <3>1. x \in S /\ x \in Int /\ v \in Int /\ w \in Int /\ w < x BY <1>1
    <3> QED BY <3>1
  <2>3. w \in above(v) /\ w \notin above(w) BY <1>1
  <2>4. above(w) # above(v) BY <2>3
  <2> HIDE DEF above, T
  <2>5. <<above(w), above(v)>> \in StrictSubsetOrdering(S)
    BY <2>1, <2>2, <2>4 DEF StrictSubsetOrdering
  <2> QED BY <1>4, <1>5, <2>1, <2>5
<1> HIDE DEF T, above
<1>7. \E x \in S : \A y \in S : x >= y BY <1>6
<1> QED BY <1>7 DEF Max

(* A new version is one above all of its predecessors, and no higher than  *)
(* the number of ids given out.                                            *)
LEMMA NextVersionIsNext ==
  ASSUME NEW prior, NEW n \in Nat, \A x \in prior : x.ver \in 1 .. n
  PROVE  /\ NextVersion(prior) \in 1 .. (n + 1)
         /\ \A x \in prior : x.ver < NextVersion(prior)
         /\ NextVersion(prior) = 1 \/ \E x \in prior : NextVersion(prior) = x.ver + 1
<1> DEFINE S == {0} \cup {x.ver : x \in prior}
<1>1. S \in SUBSET (0 .. n) /\ S # {} OBVIOUS
<1>2. \A x \in prior : x.ver \in S OBVIOUS
<1>3. \A y \in S : y = 0 \/ \E x \in prior : y = x.ver OBVIOUS
<1>4. NextVersion(prior) = 1 + Max(S) BY DEF NextVersion
<1> HIDE DEF S
<1>5. PICK m : m = Max(S) OBVIOUS
<1>6. m \in S /\ \A y \in S : m >= y BY <1>1, <1>5, MaxIsIn
<1>7. m \in 0 .. n BY <1>1, <1>6
<1>8. NextVersion(prior) = m + 1 BY <1>4, <1>5, <1>7
<1>9. \A x \in prior : x.ver < m + 1 BY <1>2, <1>6, <1>7
<1>10. m + 1 = 1 \/ \E x \in prior : m + 1 = x.ver + 1 BY <1>3, <1>6, <1>7
<1> QED BY <1>7, <1>8, <1>9, <1>10

--------------------------------------------------------------------------------
(* A row's versions are names of rows: they stay below next.               *)
LEMMA VersionBounds ==
  ASSUME RecordInv
  PROVE  next - 1 \in Nat /\ \A d \in DefRecs : d.ver \in 1 .. (next - 1) /\ d.id \in Issued
<1>1. next \in Nat /\ next >= 1 BY LibraryAssumption DEF RecordInv
<1>2. ASSUME NEW d \in DefRecs PROVE d.id \in Issued BY DefNameMember DEF RecordInv
<1>3. ASSUME NEW d \in DefRecs PROVE d.ver \in 1 .. d.id BY DEF RecordInv
<1>4. QED BY <1>1, <1>2, <1>3 DEF Issued

(* A definition prepared now continues the history of its family.          *)
LEMMA PreparedFollows ==
  ASSUME RecordInv, HistoryInv, NEW d, d.ver = NextVersion(Prior(d.user, d.fam)),
         <<d.user, d.fam>> \notin pruned, \A x \in Prior(d.user, d.fam) : x.content # d.content
  PROVE  Follows(d)
<1> DEFINE prior == Prior(d.user, d.fam)
<1>1. next - 1 \in Nat /\ \A x \in prior : x.ver \in 1 .. (next - 1)
  BY VersionBounds, DefRecMember DEF Prior
<1>2. /\ d.ver \in 1 .. (next - 1 + 1) /\ \A x \in prior : x.ver < d.ver
      /\ d.ver = 1 \/ \E x \in prior : d.ver = x.ver + 1
  <2> HIDE DEF prior
  <2>1. d.ver = NextVersion(prior) BY DEF prior
  <2> QED BY <1>1, <2>1, NextVersionIsNext
<1>3. ASSUME NEW v \in 1 .. (d.ver - 1) PROVE \E x \in prior : x.ver = v
  <2>1. PICK m \in prior : d.ver = m.ver + 1 BY <1>2, <1>3
  <2>2. m \in DefRecs /\ m.user = d.user /\ m.fam = d.fam BY DefRecMember DEF Prior
  <2>3. Follows(m) BY <2>2 DEF HistoryInv
  <2>4. v = m.ver \/ v \in 1 .. (m.ver - 1) BY <1>1, <1>3, <2>1
  <2>5. QED BY <2>2, <2>3, <2>4 DEF Follows
<1>4. QED BY <1>3 DEF Follows

(* Nothing written: only prepared definitions are new.                     *)
LEMMA HistoryPrepared ==
  ASSUME HistoryInv, defs' = defs, pruned' = pruned,
         \A d \in DefRecs' : d \in DefRecs \/ (<<d.user, d.fam>> \notin pruned => Follows(d))
  PROVE  HistoryInv'
<1>1. \A u, f : Prior(u, f)' = Prior(u, f) BY DEF Prior
<1>2. ASSUME NEW d PROVE Follows(d)' <=> Follows(d) BY <1>1 DEF Follows
<1>3. QED BY <1>2 DEF HistoryInv

(* Rows written in one statement: of different families, none taken.       *)
LEMMA HistoryWritten ==
  ASSUME RecordInv, HistoryInv, NEW N, N \subseteq DefRecs, defs' = defs \cup N, pruned' = pruned,
         \A d \in N : ~Taken(defs, d),
         \A d, e \in N : d.user = e.user /\ (d # e => d.fam # e.fam),
         DefRecs' \subseteq DefRecs
  PROVE  HistoryInv'
<1>1. ASSUME NEW d \in defs', NEW e \in defs', d.user = e.user, d.fam = e.fam, d.ver = e.ver
      PROVE  d = e
  BY <1>1 DEF HistoryInv, Taken
<1>2. ASSUME NEW d \in DefRecs', <<d.user, d.fam>> \notin pruned'
      PROVE  Follows(d)'
  <2>1. d \in DefRecs /\ Follows(d) BY <1>2 DEF HistoryInv
  <2>2. Prior(d.user, d.fam) \subseteq Prior(d.user, d.fam)' BY DEF Prior
  <2>3. ASSUME NEW x \in Prior(d.user, d.fam)', x.ver < d.ver PROVE x.content # d.content
    <3>1. CASE x \in defs BY <3>1, <2>1, <2>3 DEF Follows, Prior
    <3>2. CASE x \in N
      <4>1. x.ver \in 1 .. (next - 1) /\ d.ver \in 1 .. (next - 1) /\ next - 1 \in Nat
        BY <2>1, <3>2, VersionBounds
      <4>2. x.ver \in 1 .. (d.ver - 1) BY <4>1, <2>3
      <4>3. x.user = d.user /\ x.fam = d.fam BY DEF Prior
      <4>4. \E y \in Prior(d.user, d.fam) : y.ver = x.ver BY <4>2, <2>1 DEF Follows
      <4>5. Taken(defs, x) BY <4>3, <4>4 DEF Taken, Prior
      <4>6. QED BY <4>5, <3>2
    <3>3. QED BY <3>1, <3>2 DEF Prior
  <2>4. \A v \in 1 .. (d.ver - 1) : \E x \in Prior(d.user, d.fam)' : x.ver = v
    BY <2>1, <2>2 DEF Follows
  <2>5. QED BY <2>3, <2>4 DEF Follows
<1>3. QED BY <1>1, <1>2 DEF HistoryInv

(* Rows removed, and their families remembered.                            *)
LEMMA HistoryPruned ==
  ASSUME HistoryInv, NEW N, defs' = defs \ N, DefRecs' \subseteq DefRecs,
         pruned' = pruned \cup {<<x.user, x.fam>> : x \in N}
  PROVE  HistoryInv'
<1>1. ASSUME NEW d \in DefRecs', <<d.user, d.fam>> \notin pruned'
      PROVE  Follows(d)'
  <2>1. d \in DefRecs /\ <<d.user, d.fam>> \notin pruned BY <1>1
  <2>2. Prior(d.user, d.fam)' = Prior(d.user, d.fam)
    <3>1. \A x \in N : ~(x.user = d.user /\ x.fam = d.fam) BY <1>1
    <3>2. QED BY <3>1 DEF Prior
  <2>3. Follows(d) BY <2>1 DEF HistoryInv
  <2>4. QED BY <2>2, <2>3 DEF Follows
<1>2. QED BY <1>1 DEF HistoryInv

--------------------------------------------------------------------------------
(* The history variable overlap: what it is sure to hold after a step.     *)
LEMMA OverlapKept == ASSUME LibraryNext PROVE overlap \subseteq overlap'
BY DEF LibraryNext

LEMMA OverlapUsed ==
  ASSUME LibraryNext, NEW s \in Reqs, NEW t \in Reqs, NEW id,
         id # 0, id = req[s].target \/ id = req'[s].target,
         id \in Uses(req[t]) \/ id \in Uses(req'[t])
  PROVE  id \in overlap'
<1>1. id \in Targets(req) \cup Targets(req') BY DEF Targets
<1>2. id \in Touched BY DEF Touched
<1>3. QED BY <1>1, <1>2 DEF LibraryNext

LEMMA OverlapWorked ==
  ASSUME LibraryNext, NEW k \in cands, k \notin cands',
         NEW k2 \in cands', k2.id = k.id, k2.layer > k.layer,
         NEW s \in Reqs, req[s].target # 0, req[s].target \in k.refs
  PROVE  req[s].target \in overlap'
<1>1. req[s].target \in Targets(req) BY DEF Targets
<1>2. req[s].target \in Touched BY DEF Touched
<1>3. QED BY <1>1, <1>2 DEF LibraryNext

--------------------------------------------------------------------------------
(* Rows go only by a delete that names them, and come only from a request  *)
(* or a worker that holds what they refer to.                              *)
LostRows ==
  /\ \A d \in defs \ defs' : \E t \in Reqs :
       /\ req[t].op \in Deleters /\ req[t].stage = "row"
       /\ req[t].user = d.user /\ req[t].target = d.id
  /\ \A c \in comps \ comps' : \E t \in Reqs :
       /\ req[t].op \in Deleters /\ req[t].user = c.user
       /\ \/ req[t].op = "delete" /\ req[t].stage = "comps" /\ req[t].target \in c.parts
          \/ req[t].stage = "row" /\ req[t].target = c.id
  /\ \A a \in audits' \cap audits : a.out \notin Ids(defs \ defs') \cup Ids(comps \ comps')
NewRows ==
  /\ \A c \in comps' \ comps : \E t \in Reqs :
       c \in req[t].comp /\ req[t].todo = {} /\ req[t].fresh \subseteq defs'
  /\ \A a \in audits' \ audits : \E t \in Reqs :
       a.user = req[t].user /\ a.out \in Out(req[t]) /\ a.out \in Present'
  /\ \A k \in cands' :
       \/ \E x \in cands : /\ x.id = k.id /\ x.user = k.user /\ x.refs = k.refs
                           /\ k.layer <= x.layer \/ (k.layer > x.layer /\ x \notin cands')
       \/ /\ k.id = next
          /\ \E t \in Reqs : /\ req[t].op = "submit" /\ req[t].stage = "insert"
                             /\ k.user = req[t].user /\ k.refs = req[t].parts \cup Ids(req[t].comp)
Accounted == LostRows /\ NewRows

LEMMA Names ==
  ASSUME ShapeInv, RecordInv, NEW s \in Reqs
  PROVE  /\ \A id \in req[s].parts : id \in DefNames /\ id # 0 /\ id # next
         /\ \A c \in req[s].comp : c \in CompRecs /\ c.id \in CompNames /\ c.id # 0 /\ c.id # next
         /\ \A id \in req[s].ks : id \in CandNames /\ id # 0 /\ id # next
         /\ Deletes(s) => req[s].target # 0 /\ req[s].parts = {} /\ req[s].comp = {} /\ req[s].user \in Users
<1>1. 0 \notin Issued /\ next \notin Issued BY LibraryAssumption DEF RecordInv, Issued
<1>2. DefNames \subseteq Issued /\ CompNames \subseteq Issued /\ CandNames \subseteq Issued
  BY DEF RecordInv
<1>3. \A id \in req[s].parts : id \in DefNames BY DefNameMember
<1>4. \A c \in req[s].comp : c \in CompRecs /\ c.id \in CompNames BY CompRecMember, CompNameMember
<1>5. \A id \in req[s].ks : id \in CandNames BY CandNameMember
<1>6. Deletes(s) => req[s].target # 0 /\ req[s].parts = {} /\ req[s].comp = {} /\ req[s].user \in Users
  BY DEF ShapeInv, ShapeOK, Deleters, Deletes
<1>7. QED BY <1>1, <1>2, <1>3, <1>4, <1>5, <1>6

LEMMA UsesOf ==
  ASSUME ShapeInv, RecordInv, NEW s \in Reqs
  PROVE  /\ \A id \in req[s].parts : id \in Uses(req[s])
         /\ \A c \in req[s].comp : c.id \in Uses(req[s]) /\ c.parts \subseteq Uses(req[s])
<1>1. Deletes(s) => req[s].parts = {} /\ req[s].comp = {} BY Names
<1>2. \A c \in req[s].comp : c.parts = req[s].parts BY DEF ShapeInv, ShapeOK
<1>3. QED BY <1>1, <1>2 DEF Uses, Deletes, Ids

LEMMA UserKept ==
  ASSUME ShapeInv, RecordInv, LibraryNext, Accounted, NEW s \in Reqs, NEW q, q = req[s], UserOK(q),
         \A d \in DefRecs' : d \in DefRecs \/ d.id = next
  PROVE  UserOK(q)'
<1>1. overlap \subseteq overlap' BY OverlapKept
<1>2. ASSUME NEW id \in q.parts \ q.todo PROVE Owned(id, q.user)' \/ id \in Ids(q.fresh) \/ id \in overlap'
  <2>1. CASE Owned(id, q.user)
    <3>1. PICK d \in defs : d.id = id /\ d.user = q.user BY <2>1 DEF Owned
    <3>2. CASE d \in defs' BY <3>1, <3>2 DEF Owned
    <3>3. CASE d \notin defs'
      <4>1. \E t \in Reqs : req[t].target = d.id BY <3>3 DEF Accounted, LostRows
      <4>2. PICK t \in Reqs : req[t].target = id BY <3>1, <4>1
      <4>3. id # 0 /\ id \in Uses(req[s]) BY Names, UsesOf
      <4>4. QED BY <4>2, <4>3, OverlapUsed
    <3>4. QED BY <3>2, <3>3
  <2>2. QED BY <2>1, <1>1 DEF UserOK
<1>3. ASSUME q.op = "submit", q.stage = "insert", NEW c \in q.comp
      PROVE  c \in comps' \/ (q.parts \cup Ids(q.comp)) \cap overlap' # {}
  <2>1. CASE c \in comps /\ c \notin comps'
    <3>1. PICK t \in Reqs : Deletes(t) /\ req[t].target \in c.parts \cup {c.id}
      BY <2>1 DEF Accounted, LostRows, Deleters, Deletes
    <3>2. req[t].target # 0 BY <3>1, Names
    <3>3. c.parts = q.parts BY <1>3 DEF ShapeInv, ShapeOK
    <3>4. req[t].target \in Uses(req[s]) BY <3>1, <1>3, UsesOf
    <3>5. req[t].target \in overlap' BY <3>2, <3>4, OverlapUsed
    <3>6. req[t].target \in q.parts \cup Ids(q.comp) BY <3>1, <3>3, <1>3 DEF Ids
    <3>7. QED BY <3>5, <3>6
  <2>2. CASE c \in comps' BY <2>2
  <2>3. CASE c \notin comps BY <2>3, <1>1, <1>3 DEF UserOK
  <2>4. QED BY <2>1, <2>2, <2>3
<1>4. q.op = "single" => \A d \in DefRecs' : d.id \in q.parts => d.user = q.user
  BY Names DEF UserOK
<1>5. QED BY <1>2, <1>3, <1>4 DEF UserOK

LEMMA DeleteKept ==
  ASSUME ShapeInv, RecordInv, LibraryNext, Accounted, NEW s \in Reqs, NEW q, q = req[s], DeleteOK(q),
         cands' \subseteq CandType
  PROVE  DeleteOK(q)'
<1> SUFFICES ASSUME q.op \in Deleters PROVE DeleteOK(q)' BY DEF DeleteOK
<1>1. overlap \subseteq overlap' BY OverlapKept
<1>2. Deletes(s) /\ q.target # 0 BY Names DEF Deletes, Deleters
<1>3. ASSUME NEW t \in Reqs, q.target \in Uses(req[t]) PROVE q.target \in overlap'
  BY <1>2, <1>3, OverlapUsed
<1>4. ASSUME NEW k \in cands' \* a candidate now, and what it was
      PROVE  \/ \E x \in cands : /\ x.id = k.id /\ Mine(q, x) = Mine(q, k)
                                 /\ k.layer <= x.layer \/ (Mine(q, x) => q.target \in overlap')
             \/ k.id = next /\ (Mine(q, k) => q.target \in overlap')
  <2>1. CASE \E x \in cands : /\ x.id = k.id /\ x.user = k.user /\ x.refs = k.refs
                              /\ k.layer <= x.layer \/ (k.layer > x.layer /\ x \notin cands')
    <3>1. PICK x \in cands : /\ x.id = k.id /\ x.user = k.user /\ x.refs = k.refs
                             /\ k.layer <= x.layer \/ (k.layer > x.layer /\ x \notin cands')
      BY <2>1
    <3>2. Mine(q, x) = Mine(q, k) BY <3>1 DEF Mine
    <3>3. CASE k.layer <= x.layer BY <3>1, <3>2, <3>3
    <3>4. CASE k.layer > x.layer /\ x \notin cands'
      <4>1. Mine(q, x) => q.target \in x.refs BY DEF Mine
      <4>2. Mine(q, x) => q.target \in overlap' BY <4>1, <3>1, <3>4, <1>2, OverlapWorked
      <4>3. QED BY <3>1, <3>2, <4>2
    <3>5. QED BY <3>1, <3>3, <3>4
  <2>2. CASE k.id = next /\ \E t \in Reqs : /\ req[t].op = "submit" /\ req[t].stage = "insert"
                                           /\ k.user = req[t].user /\ k.refs = req[t].parts \cup Ids(req[t].comp)
    BY <2>2, <1>3, UsesOf DEF Mine, Ids
  <2>3. QED BY <2>1, <2>2 DEF Accounted, NewRows
<1>5. \A id \in q.ks : id # next BY Names
<1>6. q.xs \subseteq q.ks BY DEF ShapeInv, ShapeOK
<1>7. \A k \in cands' : k.id \in q.ks => Mine(q, k)
  BY <1>4, <1>5 DEF DeleteOK
<1>8. \A x \in cands : x.id \in q.ks => Mine(q, x) BY DEF DeleteOK
<1>9. cands \subseteq CandType /\ \A x \in cands : x.layer \in 0 .. 3 BY DEF RecordInv, CandType
<1>10. ASSUME q.target \notin overlap'
       PROVE  /\ q.target \notin overlap
              /\ \A k \in cands' : k.id \in q.ks => \E x \in cands : x.id = k.id /\ k.layer <= x.layer
              /\ \A k \in cands' : Mine(q, k) => \E x \in cands : x.id = k.id /\ Mine(q, x)
  BY <1>1, <1>4, <1>5, <1>8, <1>10
<1>11. ASSUME q.target \notin overlap', q.op = "delete", q.stage \in {"comps", "row"}
       PROVE  AuditsOf(q)' = {}
  <2>1. AuditsOf(q) = {} BY <1>10, <1>11 DEF DeleteOK, Alone
  <2>2. \A a \in audits' : a \in audits \/ a.out # q.target
    <3>1. \A a \in audits' \ audits : \E t \in Reqs : a.out \in Out(req[t])
      BY DEF Accounted, NewRows
    <3>2. \A t \in Reqs : Out(req[t]) \subseteq Uses(req[t])
      BY UsesOf DEF Out, Ids
    <3>3. QED BY <3>1, <3>2, <1>3, <1>11
  <2>3. QED BY <2>1, <2>2 DEF AuditsOf
<1>12. ASSUME q.op = "delete", q.stage = "row", NEW c \in Mentions(q)'
       PROVE  c.parts \cap overlap' # {}
  <2>1. c \in comps' /\ c.user = q.user /\ q.target \in c.parts BY <1>12 DEF Mentions
  <2>2. CASE c \in comps
    <3>1. c \in Mentions(q) BY <2>1, <2>2 DEF Mentions
    <3>2. QED BY <3>1, <1>1, <1>12 DEF DeleteOK
  <2>3. CASE c \notin comps
    <3>1. PICK t \in Reqs : c \in req[t].comp BY <2>1, <2>3 DEF Accounted, NewRows
    <3>2. q.target \in Uses(req[t]) BY <2>1, <3>1, UsesOf
    <3>3. QED BY <3>2, <1>3, <2>1
  <2>4. QED BY <2>2, <2>3
<1>13. ASSUME q.target \notin overlap'
       PROVE  /\ q.stage \in {"results", "layer3", "layer2", "layer1", "layer0"} =>
                   \A k \in cands' : Mine(q, k) => k.id \in q.ks
              /\ q.stage \in {"audits", "comps", "row"} => \A k \in cands' : ~Mine(q, k)
  BY <1>10, <1>13 DEF DeleteOK, Alone
<1>14. ASSUME q.target \notin overlap', NEW k \in cands', k.id \in q.ks, k.layer \in 0 .. 3
       PROVE  /\ q.stage \in {"layer3", "layer2"} => (k.layer >= 2 => k.id \in q.xs)
              /\ q.stage = "layer2" => k.layer <= 2
              /\ q.stage = "layer1" => k.layer <= 1
              /\ q.stage = "layer0" => k.layer = 0
  <2>1. PICK x \in cands : x.id = k.id /\ k.layer <= x.layer BY <1>10, <1>14
  <2>2. x \in Among(q.ks) /\ x.layer \in 0 .. 3 BY <2>1, <1>9, <1>14 DEF Among
  <2>3. Alone(q) BY <1>10, <1>14 DEF Alone
  <2>4. /\ q.stage \in {"layer3", "layer2"} => (x.layer >= 2 => x.id \in q.xs)
        /\ q.stage = "layer2" => x.layer <= 2
        /\ q.stage = "layer1" => x.layer <= 1
        /\ q.stage = "layer0" => x.layer = 0
    BY <2>2, <2>3 DEF DeleteOK
  <2>5. QED BY <2>1, <2>2, <2>4, <1>14
<1>15. \A k \in cands' : k.layer \in 0 .. 3
  BY DEF CandType
<1>16. QED
  BY <1>7, <1>11, <1>12, <1>13, <1>14, <1>15 DEF DeleteOK, Alone, Among, Mine, AuditsOf, Mentions

--------------------------------------------------------------------------------
(* What is left of the tables after rows went and came as above.           *)
LEMMA OneRecord ==
  ASSUME RecordInv
  PROVE  /\ \A d, e \in DefRecs : d.id = e.id => d = e
         /\ \A c, e \in CompRecs : c.id = e.id => c = e
         /\ \A d \in DefRecs, c \in CompRecs : d.id # c.id
         /\ \A d \in DefRecs : d.id \in DefNames
         /\ \A c \in CompRecs : c.id \in CompNames /\ c.parts \subseteq DefNames
<1>1. \A d \in DefRecs : d.id \in DefNames BY DefNameMember
<1>2. \A c \in CompRecs : c.id \in CompNames /\ c.parts \subseteq DefNames
  BY DefNameMember, CompNameMember
<1>3. DefNames \cap CompNames = {} BY DEF RecordInv
<1>4. \A d, e \in DefRecs : d.id = e.id => d = e BY DEF RecordInv
<1>5. \A c, e \in CompRecs : c.id = e.id => c = e BY DEF RecordInv
<1>6. QED BY <1>1, <1>2, <1>3, <1>4, <1>5

(* The delete that removes a definition, or a composite by its id.         *)
LEMMA LostDefinition ==
  ASSUME ShapeInv, RecordInv, Accounted, NEW d \in defs \ defs'
  PROVE  \E t \in Reqs : /\ req[t].op = "delete" /\ req[t].stage = "row"
                         /\ req[t].user = d.user /\ req[t].target = d.id
<1>1. PICK t \in Reqs : /\ req[t].op \in Deleters /\ req[t].stage = "row"
                        /\ req[t].user = d.user /\ req[t].target = d.id
  BY DEF Accounted, LostRows
<1>2. d.id \in DefNames BY DefRecMember, DefNameMember
<1>3. req[t].op = "deleteComposite" => d.id \in CompNames BY <1>1, CompNameMember
<1>4. req[t].op = "delete" BY <1>1, <1>2, <1>3 DEF RecordInv, Deleters
<1>5. QED BY <1>1, <1>4

LEMMA PartsKept ==
  ASSUME ShapeInv, RecordInv, PartsInv, RequestInv, LibraryNext, Accounted
  PROVE  PartsInv'
<1>1. overlap \subseteq overlap' BY OverlapKept
<1>2. ASSUME NEW c \in comps, NEW id \in c.parts
      PROVE  Owned(id, c.user)' \/ c.parts \cap overlap' # {}
  <2>1. CASE Owned(id, c.user)
    <3>1. PICK d \in defs : d.id = id /\ d.user = c.user BY <2>1 DEF Owned
    <3>2. CASE d \in defs' BY <3>1, <3>2 DEF Owned
    <3>3. CASE d \notin defs'
      <4>1. PICK t \in Reqs : /\ req[t].op = "delete" /\ req[t].stage = "row"
                              /\ req[t].user = d.user /\ req[t].target = d.id
        BY <3>3, LostDefinition
      <4>2. c \in Mentions(req[t]) BY <3>1, <4>1 DEF Mentions
      <4>3. DeleteOK(req[t]) BY DEF RequestInv
      <4>4. c.parts \cap overlap # {} BY <4>1, <4>2, <4>3 DEF DeleteOK, Deleters
      <4>5. QED BY <4>4, <1>1
    <3>4. QED BY <3>2, <3>3
  <2>2. CASE ~Owned(id, c.user) BY <2>2, <1>1 DEF PartsInv
  <2>3. QED BY <2>1, <2>2
<1>3. ASSUME NEW c \in comps' \ comps, NEW id \in c.parts
      PROVE  Owned(id, c.user)' \/ c.parts \cap overlap' # {}
  <2>1. PICK t \in Reqs : c \in req[t].comp /\ req[t].todo = {} /\ req[t].fresh \subseteq defs'
    BY <1>3 DEF Accounted, NewRows
  <2>2. c.user = req[t].user /\ c.parts = req[t].parts /\ \A d \in req[t].fresh : d.user = req[t].user
    BY <2>1 DEF ShapeInv, ShapeOK
  <2>3. UserOK(req[t]) BY DEF RequestInv
  <2>4. Owned(id, c.user) \/ id \in Ids(req[t].fresh) \/ id \in overlap
    BY <2>1, <2>2, <2>3, <1>3 DEF UserOK
  <2>5. CASE id \in Ids(req[t].fresh)
    BY <2>1, <2>2, <2>5 DEF Ids, Owned
  <2>6. CASE Owned(id, c.user)
    <3>1. PICK d \in defs : d.id = id /\ d.user = c.user BY <2>6 DEF Owned
    <3>2. CASE d \in defs' BY <3>1, <3>2 DEF Owned
    <3>3. CASE d \notin defs'
      <4>1. PICK s \in Reqs : req[s].target = d.id BY <3>3, LostDefinition
      <4>2. id # 0 /\ id \in Uses(req[t]) BY <2>1, <2>2, <1>3, Names, UsesOf
      <4>3. id \in overlap' BY <3>1, <4>1, <4>2, OverlapUsed
      <4>4. QED BY <4>3, <1>3
    <3>4. QED BY <3>2, <3>3
  <2>7. CASE id \in overlap BY <2>7, <1>1, <1>3
  <2>8. QED BY <2>4, <2>5, <2>6, <2>7
<1>4. QED BY <1>2, <1>3 DEF PartsInv

(* A row that is lost to a candidate was the target of a delete that had   *)
(* passed the candidates: its use and the delete overlapped.               *)
LEMMA HereKept ==
  ASSUME ShapeInv, RecordInv, RefsInv, RequestInv, LibraryNext, Accounted,
         NEW k \in cands, NEW id \in k.refs, Here(id, k.user)
  PROVE  Here(id, k.user)' \/ k.refs \cap overlap' # {}
<1>1. overlap \subseteq overlap' BY OverlapKept
<1>2. ASSUME NEW t \in Reqs, req[t].op \in Deleters, req[t].stage \in {"comps", "row"},
             req[t].user = k.user, req[t].target \in k.refs
      PROVE  k.refs \cap overlap' # {}
  <2>1. DeleteOK(req[t]) /\ Mine(req[t], k) BY <1>2 DEF RequestInv, Mine
  <2>2. ~Alone(req[t]) BY <2>1, <1>2 DEF DeleteOK
  <2>3. QED BY <2>2, <1>1, <1>2 DEF Alone
<1>3. CASE Owned(id, k.user)
  <2>1. PICK d \in defs : d.id = id /\ d.user = k.user BY <1>3 DEF Owned
  <2>2. CASE d \in defs' BY <2>1, <2>2 DEF Owned, Here
  <2>3. CASE d \notin defs'
    <3>1. PICK t \in Reqs : /\ req[t].op = "delete" /\ req[t].stage = "row"
                            /\ req[t].user = d.user /\ req[t].target = d.id
      BY <2>3, LostDefinition
    <3>2. QED BY <2>1, <3>1, <1>2 DEF Deleters
  <2>4. QED BY <2>2, <2>3
<1>4. CASE \E c \in comps : c.id = id /\ c.user = k.user
  <2>1. PICK c \in comps : c.id = id /\ c.user = k.user BY <1>4
  <2>2. CASE c \in comps' BY <2>1, <2>2 DEF Here
  <2>3. CASE c \notin comps'
    <3>1. PICK t \in Reqs : /\ req[t].op \in Deleters /\ req[t].user = c.user
                            /\ \/ req[t].op = "delete" /\ req[t].stage = "comps" /\ req[t].target \in c.parts
                               \/ req[t].stage = "row" /\ req[t].target = c.id
      BY <2>3 DEF Accounted, LostRows
    <3>2. c.parts \subseteq k.refs BY <2>1, CompRecMember DEF RefsInv
    <3>3. req[t].target \in k.refs BY <2>1, <3>1, <3>2
    <3>4. QED BY <2>1, <3>1, <3>3, <1>2
  <2>4. QED BY <2>2, <2>3
<1>5. QED BY <1>3, <1>4 DEF Here

(* A candidate is written with what its submission read.                   *)
LEMMA SubmittedHere ==
  ASSUME ShapeInv, RecordInv, RequestInv, LibraryNext, Accounted,
         NEW t \in Reqs, req[t].op = "submit", req[t].stage = "insert",
         NEW u, u = req[t].user,
         NEW refs, refs = req[t].parts \cup Ids(req[t].comp), NEW id \in refs
  PROVE  Here(id, u)' \/ refs \cap overlap' # {}
<1>1. overlap \subseteq overlap' BY OverlapKept
<1>2. UserOK(req[t]) BY DEF RequestInv
<1>3. req[t].todo = {} /\ req[t].fresh = {} /\ \A c \in req[t].comp : c.user = u /\ c.parts = req[t].parts
  BY DEF ShapeInv, ShapeOK
<1>4. refs \subseteq Uses(req[t]) BY UsesOf DEF Ids
<1>5. CASE id \in req[t].parts
  <2>1. Owned(id, u) \/ id \in overlap BY <1>2, <1>3, <1>5 DEF UserOK, Ids
  <2>2. CASE Owned(id, u)
    <3>1. PICK d \in defs : d.id = id /\ d.user = u BY <2>2 DEF Owned
    <3>2. CASE d \in defs' BY <3>1, <3>2 DEF Owned, Here
    <3>3. CASE d \notin defs'
      <4>1. PICK s \in Reqs : req[s].target = d.id BY <3>3, LostDefinition
      <4>2. id # 0 /\ id \in Uses(req[t]) BY <1>5, Names, UsesOf
      <4>3. id \in overlap' BY <3>1, <4>1, <4>2, OverlapUsed
      <4>4. QED BY <4>3
    <3>4. QED BY <3>2, <3>3
  <2>3. CASE id \in overlap BY <2>3, <1>1
  <2>4. QED BY <2>1, <2>2, <2>3
<1>6. CASE id \in Ids(req[t].comp)
  <2>1. PICK c \in req[t].comp : c.id = id BY <1>6 DEF Ids
  <2>2. c \in comps \/ refs \cap overlap # {} BY <2>1, <1>2 DEF UserOK
  <2>3. CASE c \in comps /\ c \notin comps'
    <3>1. PICK s \in Reqs : /\ req[s].op \in Deleters
                            /\ req[s].target \in c.parts \/ req[s].target = c.id
      BY <2>3 DEF Accounted, LostRows
    <3>2. req[s].target # 0 BY <3>1, Names DEF Deletes, Deleters
    <3>3. req[s].target \in refs BY <3>1, <2>1, <1>3 DEF Ids
    <3>4. req[s].target \in overlap' BY <3>2, <3>3, <1>4, OverlapUsed
    <3>5. QED BY <3>3, <3>4
  <2>4. CASE c \in comps' BY <2>1, <2>4, <1>3 DEF Here
  <2>5. QED BY <2>2, <2>3, <2>4, <1>1
<1>7. QED BY <1>5, <1>6

LEMMA RefsKept ==
  ASSUME ShapeInv, RecordInv, RefsInv, RequestInv, LibraryNext, Accounted,
         \A c \in CompRecs' : c \in CompRecs \/ c.id = next
  PROVE  RefsInv'
<1>1. overlap \subseteq overlap' BY OverlapKept
<1>2. next \notin Issued BY LibraryAssumption DEF RecordInv, Issued
<1>3. ASSUME NEW k \in cands, NEW id \in k.refs
      PROVE  Here(id, k.user)' \/ k.refs \cap overlap' # {}
  <2>1. Here(id, k.user) \/ k.refs \cap overlap # {} BY DEF RefsInv
  <2>2. QED BY <2>1, <1>1, HereKept
<1>4. ASSUME NEW k \in cands, NEW c \in CompRecs', c.id \in k.refs
      PROVE  c.parts \subseteq k.refs
  <2>1. k.refs \subseteq Issued BY DEF RecordInv
  <2>2. c \in CompRecs BY <2>1, <1>2, <1>4
  <2>3. QED BY <2>2, <1>4 DEF RefsInv
<1>5. ASSUME NEW t \in Reqs, NEW refs, refs = req[t].parts \cup Ids(req[t].comp),
             NEW c \in CompRecs', c.id \in refs
      PROVE  c.parts \subseteq refs
  <2>1. \A id \in refs : id # next BY <1>5, Names DEF Ids
  <2>2. c \in CompRecs BY <2>1, <1>5
  <2>3. c.id \notin req[t].parts
    <3>1. req[t].parts \subseteq DefNames BY Names
    <3>2. c.id \in CompNames BY <2>2, OneRecord
    <3>3. QED BY <3>1, <3>2 DEF RecordInv
  <2>4. PICK e \in req[t].comp : e.id = c.id BY <2>3, <1>5 DEF Ids
  <2>5. e = c BY <2>2, <2>4, OneRecord, Names
  <2>6. e.parts = req[t].parts BY <2>4 DEF ShapeInv, ShapeOK
  <2>7. QED BY <2>5, <2>6, <1>5
<1>6. ASSUME NEW k \in cands'
      PROVE  /\ \A id \in k.refs : Here(id, k.user)' \/ k.refs \cap overlap' # {}
             /\ \A c \in CompRecs' : c.id \in k.refs => c.parts \subseteq k.refs
  <2>1. CASE \E x \in cands : x.id = k.id /\ x.user = k.user /\ x.refs = k.refs
    <3>1. PICK x \in cands : x.user = k.user /\ x.refs = k.refs BY <2>1
    <3>2. QED BY <3>1, <1>3, <1>4
  <2>2. CASE \E t \in Reqs : /\ req[t].op = "submit" /\ req[t].stage = "insert"
                             /\ k.user = req[t].user /\ k.refs = req[t].parts \cup Ids(req[t].comp)
    <3>1. PICK t \in Reqs : /\ req[t].op = "submit" /\ req[t].stage = "insert"
                            /\ k.user = req[t].user /\ k.refs = req[t].parts \cup Ids(req[t].comp)
      BY <2>2
    <3>2. \A id \in k.refs : Here(id, k.user)' \/ k.refs \cap overlap' # {}
      BY <3>1, SubmittedHere
    <3>3. \A c \in CompRecs' : c.id \in k.refs => c.parts \subseteq k.refs
      BY <3>1, <1>5
    <3>4. QED BY <3>2, <3>3
  <2>3. QED BY <2>1, <2>2 DEF Accounted, NewRows
<1>7. QED BY <1>6 DEF RefsInv

LEMMA AuditKept ==
  ASSUME ShapeInv, RecordInv, AuditInv, RequestInv, Accounted,
         \A d \in defs' : d \in DefRecs
  PROVE  AuditInv'
<1>1. ASSUME NEW a \in audits' PROVE a.out \in Present'
  <2>1. CASE a \in audits
    <3>1. a.out \in Present BY <2>1 DEF AuditInv
    <3>2. a.out \notin Ids(defs \ defs') \cup Ids(comps \ comps')
      BY <2>1 DEF Accounted, LostRows
    <3>3. QED BY <3>1, <3>2 DEF Present, Ids
  <2>2. CASE a \notin audits BY <2>2 DEF Accounted, NewRows
  <2>3. QED BY <2>1, <2>2
<1>2. ASSUME NEW a \in audits', NEW d \in defs', d.id = a.out PROVE d.user = a.user
  <2>1. d \in DefRecs OBVIOUS
  <2>2. CASE a \in audits
    <3>1. a.out \in Ids(defs) \cup Ids(comps) BY <2>2 DEF AuditInv, Present
    <3>2. a.out \notin Ids(comps) BY <2>1, <1>2, OneRecord, CompRecMember DEF Ids
    <3>3. PICK e \in defs : e.id = d.id BY <3>1, <3>2, <1>2 DEF Ids
    <3>4. e = d BY <2>1, <3>3, OneRecord, DefRecMember
    <3>5. QED BY <2>2, <3>3, <3>4, <1>2 DEF AuditInv
  <2>3. CASE a \notin audits
    <3>1. PICK t \in Reqs : a.user = req[t].user /\ a.out \in Out(req[t])
      BY <2>3 DEF Accounted, NewRows
    <3>2. UserOK(req[t]) BY DEF RequestInv
    <3>3. CASE req[t].op = "single"
      BY <3>1, <3>2, <3>3, <2>1, <1>2 DEF UserOK, Out
    <3>4. CASE req[t].op # "single"
      <4>1. a.out \in Ids(req[t].comp) BY <3>1, <3>4 DEF Out
      <4>2. PICK c \in req[t].comp : c.id = a.out BY <4>1 DEF Ids
      <4>3. c \in CompRecs BY <4>2, Names
      <4>4. QED BY <4>2, <4>3, <2>1, <1>2, OneRecord
    <3>5. QED BY <3>3, <3>4
  <2>4. QED BY <2>2, <2>3
<1>3. QED BY <1>1, <1>2 DEF AuditInv

--------------------------------------------------------------------------------
(* A step that accounts for its rows and leaves its own request in order   *)
(* keeps the invariant; the other requests are in order by the frame       *)
(* lemmas.                                                                 *)
LEMMA StepKeeps ==
  ASSUME LibraryInv, LibraryNext, NEW r \in Reqs, NEW q, NEW D, NEW C, NEW K, Moved(r, q, D, C, K),
         Accounted, HistoryInv', UserOK(q)', DeleteOK(q)'
  PROVE  LibraryInv'
<1> USE DEF LibraryInv
<1>1. DOMAIN req' = Reqs /\ req'[r] = q /\ \A s \in Reqs : s # r => req'[s] = req[s]
  BY SlotsAfter DEF Moved, ShapeInv
<1>2. ShapeInv' /\ RecordInv' BY MovedShape, MovedRecord
<1>3. /\ \A d \in DefRecs' : d \in DefRecs \/ d.id = next
      /\ \A c \in CompRecs' : c \in CompRecs \/ c.id = next
  BY MovedRecs DEF Moved, Prepares
<1>4. \A d \in defs' : d \in DefRecs BY DefRecMember DEF Moved, Settles
<1>5. PartsInv' BY PartsKept
<1>6. RefsInv' BY <1>3, RefsKept
<1>7. AuditInv' BY <1>4, AuditKept
<1>8. ASSUME NEW s \in Reqs PROVE UserOK(req[s])' /\ DeleteOK(req[s])'
  <2>1. PICK x : x = req'[s] OBVIOUS
  <2>2. UserOK(x)' /\ DeleteOK(x)'
    <3>1. CASE s = r
      <4>1. x = q BY <3>1, <2>1, <1>1
      <4>2. QED BY <4>1
    <3>2. CASE s # r
      <4>1. x = req[s] /\ UserOK(x) /\ DeleteOK(x) BY <3>2, <2>1, <1>1 DEF RequestInv
      <4>2. UserOK(x)' BY <4>1, <1>3, UserKept
      <4>3. cands' \subseteq CandType BY DEF Moved
      <4>4. DeleteOK(x)' BY <4>1, <4>3, DeleteKept
      <4>5. QED BY <4>2, <4>4
    <3>3. QED BY <3>1, <3>2
  <2>3. QED BY <2>1, <2>2 DEF UserOK, DeleteOK, Owned, Alone, Mine, Among, AuditsOf, Mentions
<1>9. RequestInv' BY <1>8 DEF RequestInv
<1>10. QED BY <1>2, <1>5, <1>6, <1>7, <1>9

LEMMA NoRowsAccounted ==
  ASSUME UNCHANGED rows, cands \subseteq CandType
  PROVE  Accounted
<1>1. UNCHANGED <<defs, comps, audits, cands>> BY DEF rows
<1>2. Ids({}) = {} BY DEF Ids
<1>3. \A k \in cands : k.layer <= k.layer BY DEF CandType
<1>4. LostRows BY <1>1, <1>2 DEF LostRows
<1>5. NewRows BY <1>1, <1>3 DEF NewRows
<1>6. QED BY <1>4, <1>5 DEF Accounted

(* A step of r that writes no row.                                         *)
Quiet(r, q) ==
  /\ req' = [req EXCEPT ![r] = q] /\ ShapeOK(q)
  /\ UNCHANGED <<rows, next, pruned>>
  /\ void' = void \/ (void' = void \cup Ids(req[r].fresh) /\ q.fresh = {})
  /\ q.fresh \subseteq req[r].fresh /\ q.comp \subseteq CompRecs
  /\ q.parts \subseteq DefNames /\ q.ks \subseteq CandNames
  /\ q.op = "delete" => q.target \in DefNames
  /\ q.op = "deleteComposite" => q.target \in CompNames
LEMMA QuietKeeps ==
  ASSUME LibraryInv, LibraryNext, NEW r \in Reqs, NEW q, Quiet(r, q), UserOK(q)', DeleteOK(q)'
  PROVE  LibraryInv'
<1>1. UNCHANGED <<defs, comps, audits, cands, next, pruned>> BY DEF Quiet, rows
<1>2. Ids({}) = {} BY DEF Ids
<1>3. Prepares({}, {}, {}) BY <1>1 DEF Prepares, LibraryInv, RecordInv
<1>4. Settles(r, q) BY <1>1 DEF Settles, Quiet
<1>5. Moved(r, q, {}, {}, {}) BY <1>1, <1>2, <1>3, <1>4 DEF Moved, Quiet, LibraryInv, RecordInv
<1>6. \A d \in DefRecs' : d \in DefRecs BY <1>5, MovedRecs DEF LibraryInv
<1>7. HistoryInv' BY <1>1, <1>6, HistoryPrepared DEF LibraryInv
<1>8. Accounted BY NoRowsAccounted DEF Quiet, LibraryInv, RecordInv
<1>9. QED BY <1>5, <1>7, <1>8, StepKeeps

LEMMA IdleShape == ShapeOK(Idle)
<1>1. PICK e : e = <<>> /\ e \in Seq(Specs)
  <2>1. <<>> \in Seq(Specs) OBVIOUS
  <2>2. QED BY <2>1
<1>2. Idle \in RequestType
  <2>1. Idle = [op |-> "idle", user |-> "none", stage |-> "idle", spec |-> e, parts |-> {},
                fresh |-> {}, todo |-> {}, comp |-> {}, content |-> "none",
                target |-> 0, ks |-> {}, xs |-> {}]
    BY <1>1 DEF Idle
  <2>2. QED BY <1>1, <2>1 DEF RequestType, Stages
<1>3. StagesOf("idle") = {"idle"} BY DEF StagesOf
<1>4. Ids({}) = {} BY DEF Ids
<1>5. QED BY <1>2, <1>3, <1>4 DEF ShapeOK, Idle, Definers, Deleters

LEMMA IdleOK ==
  ASSUME NEW q, q = Idle
  PROVE  ShapeOK(q) /\ UserOK(q)' /\ DeleteOK(q)'
<1>1. q.op = "idle" /\ q.parts = {} BY DEF Idle
<1>2. QED BY <1>1, IdleShape DEF UserOK, DeleteOK, Deleters

LEMMA DropKeeps ==
  ASSUME LibraryInv, LibraryNext, NEW r \in Reqs, req' = Drop(r), UNCHANGED <<rows, next, pruned>>,
         void' = void \/ void' = void \cup Ids(req[r].fresh)
  PROVE  LibraryInv'
<1>1. PICK q : q = Idle OBVIOUS
<1>2. ShapeOK(q) /\ UserOK(q)' /\ DeleteOK(q)' BY <1>1, IdleOK
<1>3. q.op = "idle" /\ q.parts = {} /\ q.fresh = {} /\ q.comp = {} /\ q.ks = {} BY <1>1 DEF Idle
<1>4. req' = [req EXCEPT ![r] = q] BY <1>1 DEF Drop
<1>5. Quiet(r, q) BY <1>2, <1>3, <1>4 DEF Quiet
<1>6. QED BY <1>2, <1>5, QuietKeeps

--------------------------------------------------------------------------------
(* Requests that arrive.                                                   *)
LEMMA BusyOK ==
  ASSUME NEW q
  PROVE  /\ q.todo = q.parts /\ q.op # "single" /\ q.stage # "insert" => UserOK(q)'
         /\ q.op \notin Deleters => DeleteOK(q)'
         /\ q.stage = "cands" /\ q.ks = {} => DeleteOK(q)'
<1>1. q.todo = q.parts /\ q.op # "single" /\ q.stage # "insert" => UserOK(q)' BY DEF UserOK
<1>2. q.op \notin Deleters => DeleteOK(q)' BY DEF DeleteOK
<1>3. q.stage = "cands" /\ q.ks = {} => DeleteOK(q)' BY DEF DeleteOK
<1>4. QED BY <1>1, <1>2, <1>3

LEMMA ArriveKeeps ==
  ASSUME LibraryInv, LibraryNext, NEW r \in Reqs, NEW q, Arrive(r, q), ShapeOK(q),
         q.fresh = {}, q.comp \subseteq CompRecs, q.parts \subseteq DefNames, q.ks = {},
         q.op = "delete" => q.target \in DefNames,
         q.op = "deleteComposite" => q.target \in CompNames,
         q.todo = q.parts, q.op # "single", q.stage # "insert",
         q.op \notin Deleters \/ q.stage = "cands"
  PROVE  LibraryInv'
<1>1. UNCHANGED <<rows, next, pruned, void>> /\ req' = [req EXCEPT ![r] = q] BY DEF Arrive
<1>2. Quiet(r, q) BY <1>1 DEF Quiet
<1>3. UserOK(q)' /\ DeleteOK(q)' BY BusyOK
<1>4. QED BY <1>2, <1>3, QuietKeeps

LEMMA NoSpec == <<>> \in Seq(Specs)
OBVIOUS

LEMMA OneSpec ==
  ASSUME NEW s \in Specs
  PROVE  <<s>> \in Seq(Specs) /\ <<s>> # <<>> /\ Len(<<s>>) = 1
OBVIOUS

LEMMA DefineKeeps ==
  ASSUME LibraryInv, LibraryNext, NEW r \in Reqs, Define(r)
  PROVE  LibraryInv'
<1>1. PICK u \in Users, s \in Specs :
        Arrive(r, [Idle EXCEPT !.op = "define", !.user = u, !.stage = "prepare", !.spec = <<s>>])
  BY DEF Define
<1>2. PICK e : e = <<s>> /\ e \in Seq(Specs) /\ e # <<>> /\ Len(e) = 1 BY OneSpec
<1>3. PICK q : q = [Idle EXCEPT !.op = "define", !.user = u, !.stage = "prepare", !.spec = <<s>>]
  OBVIOUS
<1>4. q = [op |-> "define", user |-> u, stage |-> "prepare", spec |-> e, parts |-> {},
           fresh |-> {}, todo |-> {}, comp |-> {}, content |-> "none",
           target |-> 0, ks |-> {}, xs |-> {}]
  BY <1>2, <1>3 DEF Idle
<1>5. q \in RequestType BY <1>2, <1>4 DEF RequestType, Stages, Definers
<1>6. StagesOf("define") = {"prepare", "insert", "done"} BY DEF StagesOf
<1>7. Ids({}) = {} BY DEF Ids
<1>8. ShapeOK(q) BY <1>2, <1>4, <1>5, <1>6, <1>7 DEF ShapeOK, Deleters
<1>9. Arrive(r, q) BY <1>1, <1>3
<1>10. /\ q.fresh = {} /\ q.comp \subseteq CompRecs /\ q.parts \subseteq DefNames /\ q.ks = {}
       /\ q.todo = q.parts /\ q.op \notin {"delete", "deleteComposite", "single"} /\ q.stage # "insert"
  BY <1>4
<1>11. QED BY <1>8, <1>9, <1>10, ArriveKeeps DEF Deleters

LEMMA ComposeKeeps ==
  ASSUME LibraryInv, LibraryNext, NEW r \in Reqs, Compose(r)
  PROVE  LibraryInv'
<1>1. PICK u \in Users, c \in Contents, parts \in (SUBSET Ids(defs)) \ {{}} :
        Arrive(r, [Idle EXCEPT !.op = "compose", !.user = u, !.stage = "check", !.parts = parts,
                               !.todo = parts, !.content = c])
  BY DEF Compose
<1>2. PICK e : e = <<>> /\ e \in Seq(Specs) BY NoSpec
<1>3. PICK q : q = [Idle EXCEPT !.op = "compose", !.user = u, !.stage = "check", !.parts = parts,
                                !.todo = parts, !.content = c]
  OBVIOUS
<1>4. q = [op |-> "compose", user |-> u, stage |-> "check", spec |-> e, parts |-> parts,
           fresh |-> {}, todo |-> parts, comp |-> {}, content |-> c,
           target |-> 0, ks |-> {}, xs |-> {}]
  BY <1>2, <1>3 DEF Idle
<1>5. parts \subseteq DefNames BY DefRecMember, DefNameMember DEF Ids
<1>6. parts \in SUBSET Nat BY <1>5 DEF LibraryInv, RecordInv, Issued
<1>7. q \in RequestType BY <1>2, <1>4, <1>6 DEF RequestType, Stages, Definers
<1>8. StagesOf("compose") = {"check", "insert", "done"} BY DEF StagesOf
<1>9. Ids({}) = {} BY DEF Ids
<1>10. ShapeOK(q) BY <1>1, <1>4, <1>7, <1>8, <1>9 DEF ShapeOK, Deleters
<1>11. Arrive(r, q) BY <1>1, <1>3
<1>12. /\ q.fresh = {} /\ q.comp \subseteq CompRecs /\ q.parts \subseteq DefNames /\ q.ks = {}
       /\ q.todo = q.parts /\ q.op \notin {"delete", "deleteComposite", "single"} /\ q.stage # "insert"
  BY <1>4, <1>5
<1>13. QED BY <1>10, <1>11, <1>12, ArriveKeeps DEF Deleters

LEMMA GenerateKeeps ==
  ASSUME LibraryInv, LibraryNext, NEW r \in Reqs, Generate(r)
  PROVE  LibraryInv'
<1>1. PICK u \in Users, c \in Contents, source \in {"source", "model"} :
        Arrive(r, [Idle EXCEPT !.op = "generate", !.user = u, !.stage = source, !.content = c])
  BY DEF Generate
<1>2. PICK e : e = <<>> /\ e \in Seq(Specs) BY NoSpec
<1>3. PICK q : q = [Idle EXCEPT !.op = "generate", !.user = u, !.stage = source, !.content = c]
  OBVIOUS
<1>4. q = [op |-> "generate", user |-> u, stage |-> source, spec |-> e, parts |-> {},
           fresh |-> {}, todo |-> {}, comp |-> {}, content |-> c,
           target |-> 0, ks |-> {}, xs |-> {}]
  BY <1>2, <1>3 DEF Idle
<1>5. q \in RequestType BY <1>2, <1>4 DEF RequestType, Stages, Definers
<1>6. StagesOf("generate") = {"source", "model", "prepare", "check", "commit"} BY DEF StagesOf
<1>7. Ids({}) = {} BY DEF Ids
<1>8. ShapeOK(q) BY <1>4, <1>5, <1>6, <1>7 DEF ShapeOK, Deleters
<1>9. Arrive(r, q) BY <1>1, <1>3
<1>10. /\ q.fresh = {} /\ q.comp \subseteq CompRecs /\ q.parts \subseteq DefNames /\ q.ks = {}
       /\ q.todo = q.parts /\ q.op \notin {"delete", "deleteComposite", "single"} /\ q.stage # "insert"
  BY <1>4
<1>11. QED BY <1>8, <1>9, <1>10, ArriveKeeps DEF Deleters

LEMMA SubmitKeeps ==
  ASSUME LibraryInv, LibraryNext, NEW r \in Reqs, Submit(r)
  PROVE  LibraryInv'
<1>1. PICK c \in comps :
        Arrive(r, [Idle EXCEPT !.op = "submit", !.user = c.user, !.stage = "check", !.parts = c.parts,
                               !.todo = c.parts, !.comp = {c}])
  BY DEF Submit
<1>2. PICK e : e = <<>> /\ e \in Seq(Specs) BY NoSpec
<1>3. PICK q : q = [Idle EXCEPT !.op = "submit", !.user = c.user, !.stage = "check", !.parts = c.parts,
                                !.todo = c.parts, !.comp = {c}]
  OBVIOUS
<1>4. q = [op |-> "submit", user |-> c.user, stage |-> "check", spec |-> e, parts |-> c.parts,
           fresh |-> {}, todo |-> c.parts, comp |-> {c}, content |-> "none",
           target |-> 0, ks |-> {}, xs |-> {}]
  BY <1>2, <1>3 DEF Idle
<1>5. c \in CompRecs /\ c \in CompType /\ c.parts \subseteq DefNames /\ c.parts # {}
  BY CompRecMember, DefNameMember DEF LibraryInv, RecordInv
<1>6. c.user \in Users /\ c.parts \in SUBSET Nat BY <1>5 DEF CompType
<1>7. q \in RequestType BY <1>2, <1>4, <1>5, <1>6 DEF RequestType, Stages, Definers
<1>8. StagesOf("submit") = {"check", "insert"} BY DEF StagesOf
<1>9. Ids({}) = {} BY DEF Ids
<1>10. ShapeOK(q) BY <1>4, <1>5, <1>6, <1>7, <1>8, <1>9 DEF ShapeOK, Deleters
<1>11. Arrive(r, q) BY <1>1, <1>3
<1>12. /\ q.fresh = {} /\ q.comp \subseteq CompRecs /\ q.parts \subseteq DefNames /\ q.ks = {}
       /\ q.todo = q.parts /\ q.op \notin {"delete", "deleteComposite", "single"} /\ q.stage # "insert"
  BY <1>4, <1>5
<1>13. QED BY <1>10, <1>11, <1>12, ArriveKeeps DEF Deleters

LEMMA ArriveDeleteKeeps ==
  ASSUME LibraryInv, LibraryNext, NEW r \in Reqs, NEW op \in Deleters, NEW u \in Users,
         NEW id \in IF op = "delete" THEN DefNames ELSE CompNames,
         Arrive(r, [Idle EXCEPT !.op = op, !.user = u, !.stage = "cands", !.target = id])
  PROVE  LibraryInv'
<1>1. PICK e : e = <<>> /\ e \in Seq(Specs) BY NoSpec
<1>2. PICK q : q = [Idle EXCEPT !.op = op, !.user = u, !.stage = "cands", !.target = id]
  OBVIOUS
<1>3. q = [op |-> op, user |-> u, stage |-> "cands", spec |-> e, parts |-> {},
           fresh |-> {}, todo |-> {}, comp |-> {}, content |-> "none",
           target |-> id, ks |-> {}, xs |-> {}]
  BY <1>1, <1>2 DEF Idle
<1>4. id \in Issued BY DEF LibraryInv, RecordInv
<1>5. id \in Nat /\ id # 0 BY <1>4 DEF Issued
<1>6. q \in RequestType BY <1>1, <1>3, <1>5 DEF RequestType, Stages, Definers
<1>7. "cands" \in StagesOf(op) BY DEF StagesOf, Deleters
<1>8. Ids({}) = {} BY DEF Ids
<1>9. ShapeOK(q) BY <1>3, <1>5, <1>6, <1>7, <1>8 DEF ShapeOK, Deleters
<1>10. Arrive(r, q) BY <1>2
<1>11. /\ q.fresh = {} /\ q.comp \subseteq CompRecs /\ q.parts \subseteq DefNames /\ q.ks = {}
       /\ q.todo = q.parts /\ q.stage = "cands"
  BY <1>3
<1>12. q.op = op /\ q.target = id BY <1>3
<1>13. op = "delete" \/ op = "deleteComposite" BY DEF Deleters
<1>14. (q.op = "delete" => q.target \in DefNames) /\ (q.op = "deleteComposite" => q.target \in CompNames)
  BY <1>12
<1>15. q.op # "single" /\ q.stage # "insert" BY <1>11, <1>12, <1>13
<1>16. QED BY <1>9, <1>10, <1>11, <1>14, <1>15, ArriveKeeps

LEMMA DeleteDefinitionKeeps ==
  ASSUME LibraryInv, LibraryNext, NEW r \in Reqs, DeleteDefinition(r)
  PROVE  LibraryInv'
<1>1. PICK u \in Users, id \in Ids(defs) :
        Arrive(r, [Idle EXCEPT !.op = "delete", !.user = u, !.stage = "cands", !.target = id])
  BY DEF DeleteDefinition
<1>2. id \in DefNames BY DefRecMember, DefNameMember DEF Ids
<1>3. QED BY <1>1, <1>2, ArriveDeleteKeeps DEF Deleters

LEMMA DeleteCompositeKeeps ==
  ASSUME LibraryInv, LibraryNext, NEW r \in Reqs, DeleteComposite(r)
  PROVE  LibraryInv'
<1>1. PICK u \in Users, id \in Ids(comps) :
        Arrive(r, [Idle EXCEPT !.op = "deleteComposite", !.user = u, !.stage = "cands", !.target = id])
  BY DEF DeleteComposite
<1>2. id \in CompNames BY CompRecMember, CompNameMember DEF Ids
<1>3. QED BY <1>1, <1>2, ArriveDeleteKeeps DEF Deleters

--------------------------------------------------------------------------------
(* Which request can be where.                                             *)
LEMMA StageOp ==
  ASSUME NEW x, ShapeOK(x)
  PROVE  /\ x.stage \in {"source", "model"} => x.op = "generate"
         /\ x.stage = "prepare" => x.op \in {"define", "generate", "single"}
         /\ x.stage = "check" => x.op \in {"compose", "generate", "submit"}
         /\ x.stage = "insert" => x.op \in {"define", "compose", "submit"}
         /\ x.stage = "commit" => x.op \in {"generate", "single"}
         /\ x.stage = "done" => x.op \in {"define", "compose"}
         /\ x.stage = "comps" => x.op = "delete"
         /\ x.op = "deleteComposite" => x.stage # "comps"
<1>1. x.op \in {"idle", "submit", "define", "compose", "generate", "single", "delete", "deleteComposite"}
  BY DEF ShapeOK, RequestType, Definers, Deleters
<1>2. x.stage \in StagesOf(x.op) BY DEF ShapeOK
<1>3. CASE x.op = "idle" BY <1>2, <1>3 DEF StagesOf
<1>4. CASE x.op = "submit" BY <1>2, <1>4 DEF StagesOf
<1>5. CASE x.op = "define" BY <1>2, <1>5 DEF StagesOf
<1>6. CASE x.op = "compose" BY <1>2, <1>6 DEF StagesOf
<1>7. CASE x.op = "generate" BY <1>2, <1>7 DEF StagesOf
<1>8. CASE x.op = "single" BY <1>2, <1>8 DEF StagesOf
<1>9. CASE x.op = "delete" BY <1>2, <1>9 DEF StagesOf
<1>10. CASE x.op = "deleteComposite" BY <1>2, <1>10 DEF StagesOf
<1>11. QED BY <1>1, <1>3, <1>4, <1>5, <1>6, <1>7, <1>8, <1>9, <1>10

LEMMA Own ==
  ASSUME LibraryInv, NEW r \in Reqs, NEW x, x = req[r]
  PROVE  /\ ShapeOK(x) /\ UserOK(x) /\ DeleteOK(x) /\ x \in RequestType /\ x.stage \in StagesOf(x.op)
         /\ x.parts \subseteq DefNames /\ x.ks \subseteq CandNames /\ x.comp \subseteq CompRecs
         /\ x.fresh \subseteq DefRecs
         /\ x.op = "delete" => x.target \in DefNames
         /\ x.op = "deleteComposite" => x.target \in CompNames
<1>1. ShapeOK(x) /\ UserOK(x) /\ DeleteOK(x) BY DEF LibraryInv, ShapeInv, RequestInv
<1>2. x \in RequestType /\ x.stage \in StagesOf(x.op) BY <1>1 DEF ShapeOK
<1>3. x.fresh \subseteq DefRecs /\ x.comp \subseteq CompRecs BY DefRecMember, CompRecMember
<1>4. x.parts \subseteq DefNames /\ x.ks \subseteq CandNames BY DefNameMember, CandNameMember
<1>5. x.op = "delete" => x.target \in DefNames BY DefNameMember
<1>6. x.op = "deleteComposite" => x.target \in CompNames BY CompNameMember
<1>7. QED BY <1>1, <1>2, <1>3, <1>4, <1>5, <1>6

LEMMA EmptyUser ==
  ASSUME NEW q, q.parts = {}, q.stage # "insert"
  PROVE  UserOK(q)'
BY DEF UserOK

LEMMA LoadSourceKeeps ==
  ASSUME LibraryInv, LibraryNext, NEW r \in Reqs, LoadSource(r)
  PROVE  LibraryInv'
<1>1. UNCHANGED <<rows, next, pruned, void>> BY DEF LoadSource
<1>2. CASE req' = Drop(r) BY <1>1, <1>2, DropKeeps
<1>3. CASE req' = Goto(r, "model")
  <2>1. PICK x : x = req[r] OBVIOUS
  <2>2. PICK q : q = [x EXCEPT !.stage = "model"] OBVIOUS
  <2>3. req' = [req EXCEPT ![r] = q] BY <1>3, <2>1, <2>2 DEF Goto
  <2>4. ShapeOK(x) /\ x \in RequestType /\ x.stage = "source" /\ x.op = "generate"
    BY <2>1, Own, StageOp DEF LoadSource
  <2>5. q \in RequestType /\ q.stage = "model" /\ q.op = "generate" /\ q.parts = x.parts /\ q.fresh = x.fresh
        /\ q.comp = x.comp /\ q.ks = x.ks /\ q.user = x.user /\ q.todo = x.todo /\ q.xs = x.xs
    BY <2>2, <2>4 DEF RequestType, Stages
  <2>6. ShapeOK(q) BY <2>4, <2>5 DEF ShapeOK, StagesOf, Deleters
  <2>7. q.parts = {} BY <2>4, <2>5 DEF ShapeOK
  <2>8. UserOK(q)' /\ DeleteOK(q)' BY <2>5, <2>7, EmptyUser, BusyOK DEF Deleters
  <2>9. Quiet(r, q) BY <1>1, <2>1, <2>3, <2>5, <2>6, Own DEF Quiet
  <2>10. QED BY <2>8, <2>9, QuietKeeps
<1>4. QED BY <1>2, <1>3 DEF LoadSource

LEMMA TwoSpecs ==
  ASSUME NEW s \in Specs, NEW t \in Specs
  PROVE  <<s, t>> \in Seq(Specs) /\ <<s, t>> # <<>>
OBVIOUS

LEMMA ModelAnswersKeeps ==
  ASSUME LibraryInv, LibraryNext, NEW r \in Reqs, ModelAnswers(r)
  PROVE  LibraryInv'
<1>1. UNCHANGED <<rows, next, pruned, void>> BY DEF ModelAnswers
<1>2. PICK x : x = req[r] OBVIOUS
<1>3. ShapeOK(x) /\ x \in RequestType /\ x.stage = "model" /\ x.op = "generate"
  BY <1>2, Own, StageOp DEF ModelAnswers
<1>4. x.parts = {} /\ x.comp = {} /\ x.fresh = {} /\ x.todo = {}
  BY <1>3 DEF ShapeOK, Ids
<1>5. ASSUME NEW op \in {"generate", "single"}, NEW spec \in Seq(Specs), spec # <<>>,
             op = "single" => Len(spec) = 1,
             NEW q, q = [x EXCEPT !.stage = "prepare", !.spec = spec, !.op = op],
             req' = [req EXCEPT ![r] = q]
      PROVE  LibraryInv'
  <2>1. q \in RequestType /\ q.stage = "prepare" /\ q.op = op /\ q.parts = {} /\ q.fresh = {}
        /\ q.comp = {} /\ q.ks = x.ks /\ q.user = x.user /\ q.todo = x.todo /\ q.xs = x.xs /\ q.spec = spec
    BY <1>3, <1>4, <1>5 DEF RequestType, Stages, Definers
  <2>2. Ids({}) = {} BY DEF Ids
  <2>3. "prepare" \in StagesOf(op) BY <1>5 DEF StagesOf
  <2>4. x.user \in Users /\ x.xs \subseteq x.ks BY <1>3 DEF ShapeOK
  <2>5. ShapeOK(q) BY <1>4, <1>5, <2>1, <2>2, <2>3, <2>4 DEF ShapeOK, Deleters
  <2>6. UserOK(q)' /\ DeleteOK(q)' BY <1>5, <2>1, EmptyUser, BusyOK DEF Deleters
  <2>7. x.ks \subseteq CandNames BY <1>2, Own
  <2>8. Quiet(r, q) BY <1>1, <1>5, <2>1, <2>5, <2>7 DEF Quiet
  <2>9. QED BY <2>6, <2>8, QuietKeeps
<1>6. ASSUME NEW s \in Specs, NEW kind \in {"single", "generate"},
             req' = [req EXCEPT ![r].stage = "prepare", ![r].spec = <<s>>, ![r].op = kind]
      PROVE  LibraryInv'
  <2>1. PICK spec : spec = <<s>> /\ spec \in Seq(Specs) /\ spec # <<>> /\ Len(spec) = 1 BY OneSpec
  <2>2. PICK q : q = [x EXCEPT !.stage = "prepare", !.spec = spec, !.op = kind] OBVIOUS
  <2>3. req' = [req EXCEPT ![r] = q] BY <1>2, <1>6, <2>1, <2>2
  <2>4. QED BY <1>5, <2>1, <2>2, <2>3
<1>7. ASSUME NEW s \in Specs, NEW t \in Specs,
             req' = [req EXCEPT ![r].stage = "prepare", ![r].spec = <<s, t>>]
      PROVE  LibraryInv'
  <2>1. PICK spec : spec = <<s, t>> /\ spec \in Seq(Specs) /\ spec # <<>> BY TwoSpecs
  <2>2. PICK q : q = [x EXCEPT !.stage = "prepare", !.spec = spec, !.op = "generate"] OBVIOUS
  <2>3. q = [x EXCEPT !.stage = "prepare", !.spec = spec] BY <1>3, <2>2 DEF RequestType
  <2>4. req' = [req EXCEPT ![r] = q] BY <1>2, <1>7, <2>1, <2>3
  <2>5. QED BY <1>5, <2>1, <2>2, <2>4
<1>8. CASE req' = Drop(r) BY <1>1, <1>8, DropKeeps
<1>9. QED BY <1>6, <1>7, <1>8 DEF ModelAnswers

LEMMA AnswerKeeps ==
  ASSUME LibraryInv, LibraryNext, NEW r \in Reqs, Answer(r)
  PROVE  LibraryInv'
BY DropKeeps DEF Answer

LEMMA CheckPartKeeps ==
  ASSUME LibraryInv, LibraryNext, NEW r \in Reqs, CheckPart(r)
  PROVE  LibraryInv'
<1>1. UNCHANGED <<rows, next, pruned>> BY DEF CheckPart
<1>2. PICK x : x = req[r] OBVIOUS
<1>3. ShapeOK(x) /\ UserOK(x) /\ x \in RequestType /\ x.stage = "check" /\ x.op \in {"compose", "generate", "submit"}
  BY <1>2, Own, StageOp DEF CheckPart
<1>4. PICK id \in x.todo : IF Admits(id, x.user)
                           THEN req' = [req EXCEPT ![r].todo = @ \ {id}] /\ UNCHANGED void
                           ELSE req' = Drop(r) /\ void' = void \cup Ids(req[r].fresh)
  BY <1>2 DEF CheckPart
<1>5. CASE ~Admits(id, x.user) BY <1>1, <1>4, <1>5, DropKeeps
<1>6. CASE Admits(id, x.user)
  <2>1. PICK q : q = [x EXCEPT !.todo = @ \ {id}] OBVIOUS
  <2>2. req' = [req EXCEPT ![r] = q] /\ void' = void BY <1>2, <1>4, <1>6, <2>1
  <2>3. q \in RequestType /\ q.stage = "check" /\ q.op = x.op /\ q.parts = x.parts /\ q.fresh = x.fresh
        /\ q.comp = x.comp /\ q.ks = x.ks /\ q.user = x.user /\ q.todo = x.todo \ {id} /\ q.xs = x.xs
    BY <1>3, <2>1 DEF RequestType
  <2>4. ShapeOK(q) BY <1>3, <2>3 DEF ShapeOK, StagesOf, Deleters
  <2>5. overlap \subseteq overlap' /\ UNCHANGED defs BY <1>1, OverlapKept DEF rows
  <2>6. Owned(id, x.user) BY <1>6 DEF Admits
  <2>7. \A i \in q.parts \ q.todo : Owned(i, q.user) \/ i \in Ids(q.fresh) \/ i \in overlap
    BY <1>3, <2>3, <2>6 DEF UserOK
  <2>8. UserOK(q)' BY <1>3, <2>3, <2>5, <2>7 DEF UserOK, Owned
  <2>9. DeleteOK(q)' BY <1>3, <2>3, BusyOK DEF Deleters
  <2>10. Quiet(r, q) BY <1>1, <1>2, <1>3, <2>2, <2>3, <2>4, Own DEF Quiet
  <2>11. QED BY <2>8, <2>9, <2>10, QuietKeeps
<1>7. QED BY <1>5, <1>6

LEMMA ReadForSubmitKeeps ==
  ASSUME LibraryInv, LibraryNext, NEW r \in Reqs, ReadForSubmit(r)
  PROVE  LibraryInv'
<1>1. UNCHANGED <<rows, next, pruned, void>> BY DEF ReadForSubmit
<1>2. PICK x : x = req[r] OBVIOUS
<1>3. ShapeOK(x) /\ UserOK(x) /\ x \in RequestType /\ x.stage = "check" /\ x.op = "submit" /\ x.todo = {}
  BY <1>2, Own DEF ReadForSubmit
<1>4. CASE ~(x.comp \subseteq comps) BY <1>1, <1>2, <1>4, DropKeeps DEF ReadForSubmit
<1>5. CASE x.comp \subseteq comps
  <2>1. PICK q : q = [x EXCEPT !.stage = "insert"] OBVIOUS
  <2>2. req' = [req EXCEPT ![r] = q] BY <1>2, <1>5, <2>1 DEF ReadForSubmit, Goto
  <2>3. q \in RequestType /\ q.stage = "insert" /\ q.op = "submit" /\ q.parts = x.parts /\ q.fresh = x.fresh
        /\ q.comp = x.comp /\ q.ks = x.ks /\ q.user = x.user /\ q.todo = {} /\ q.xs = x.xs
    BY <1>3, <2>1 DEF RequestType, Stages
  <2>4. ShapeOK(q) BY <1>3, <2>3 DEF ShapeOK, StagesOf, Deleters
  <2>5. overlap \subseteq overlap' /\ UNCHANGED <<defs, comps>> BY <1>1, OverlapKept DEF rows
  <2>6. \A i \in q.parts \ q.todo : Owned(i, q.user) \/ i \in Ids(q.fresh) \/ i \in overlap
    BY <1>3, <2>3 DEF UserOK
  <2>7. UserOK(q)' BY <1>5, <2>3, <2>5, <2>6 DEF UserOK, Owned
  <2>8. DeleteOK(q)' BY <2>3, BusyOK DEF Deleters
  <2>9. Quiet(r, q) BY <1>1, <1>2, <2>2, <2>3, <2>4, Own DEF Quiet
  <2>10. QED BY <2>7, <2>8, <2>9, QuietKeeps
<1>6. QED BY <1>4, <1>5

--------------------------------------------------------------------------------
(* prepareStrategy and prepareComposite.                                   *)
LEMMA NamesAreNew ==
  ASSUME LibraryInv
  PROVE  /\ next \in Nat /\ next >= 1 /\ next - 1 \in Nat /\ next \notin Issued
         /\ next \notin DefNames /\ next \notin CompNames /\ next \notin CandNames
         /\ \A id \in DefNames : id \in Nat /\ id # 0
         /\ next <= MaxIds => next + 1 \in 1 .. (MaxIds + 1)
<1>1. next \in 1 .. (MaxIds + 1) /\ MaxIds \in Nat BY LibraryAssumption DEF LibraryInv, RecordInv
<1>2. next \in Nat /\ next >= 1 /\ next - 1 \in Nat BY <1>1
<1>3. next \notin Issued /\ \A id \in Issued : id \in Nat /\ id # 0 BY <1>2 DEF Issued
<1>4. DefNames \subseteq Issued /\ CompNames \subseteq Issued /\ CandNames \subseteq Issued
  BY DEF LibraryInv, RecordInv
<1>5. next <= MaxIds => next + 1 \in 1 .. (MaxIds + 1) BY <1>1
<1>6. QED BY <1>2, <1>3, <1>4, <1>5

LEMMA SpecParts ==
  ASSUME NEW spec \in Seq(Specs), spec # <<>>
  PROVE  /\ Head(spec) \in Specs /\ Tail(spec) \in Seq(Specs)
         /\ Len(spec) > 1 => Tail(spec) # <<>>
<1>1. Len(spec) > 1 => Len(Tail(spec)) = Len(spec) - 1 /\ Len(Tail(spec)) > 0 OBVIOUS
<1>2. Len(<<>>) = 0 OBVIOUS
<1>3. Head(spec) \in Specs /\ Tail(spec) \in Seq(Specs) OBVIOUS
<1>4. PICK t, e : t = Tail(spec) /\ e = <<>> OBVIOUS
<1>5. Len(spec) > 1 => Len(t) > 0 BY <1>1, <1>4
<1>6. Len(e) = 0 BY <1>2, <1>4
<1>7. Len(spec) > 1 => t # e BY <1>5, <1>6
<1>8. QED BY <1>3, <1>4, <1>7

(* The request after prepareStrategy: one definition more among its parts. *)
Advanced(x, q, id, todo, fresh, then) ==
  q = [x EXCEPT !.parts = x.parts \cup {id}, !.todo = todo, !.fresh = fresh,
                !.spec = Tail(x.spec), !.stage = then]
Extended(x, id, fresh) ==
  fresh = x.fresh \/ \E d \in DefType : fresh = x.fresh \cup {d} /\ d.id = id /\ d.user = x.user
Continues(x, then) ==
  /\ Len(x.spec) > 1 => then = "prepare"
  /\ ~(Len(x.spec) > 1) => \/ x.op = "define" /\ then \in {"done", "insert"}
                           \/ x.op = "single" /\ then = "commit"
                           \/ x.op = "generate" /\ then = "check"
Waits(x, id, todo) == todo = x.todo \/ todo = x.todo \cup {id}
IsPrepared(x, q, id, todo, fresh, then) ==
  /\ ShapeOK(q) /\ q.parts = x.parts \cup {id} /\ q.fresh = fresh /\ q.comp = {} /\ q.ks = x.ks
  /\ q.op = x.op /\ q.user = x.user /\ q.todo = todo /\ q.stage = then
LEMMA PreparedShape ==
  ASSUME NEW x, ShapeOK(x), x.stage = "prepare", NEW id \in Nat, NEW fresh, NEW then,
         Extended(x, id, fresh), Continues(x, then),
         NEW todo, Waits(x, id, todo),
         NEW q, Advanced(x, q, id, todo, fresh, then)
  PROVE  IsPrepared(x, q, id, todo, fresh, then)
<1>1. /\ x \in RequestType /\ x.op \in {"define", "generate", "single"} /\ x.spec # <<>>
      /\ x.user \in Users /\ x.comp = {}
      /\ Ids(x.fresh) \subseteq x.parts /\ x.todo \subseteq x.parts /\ x.xs \subseteq x.ks
      /\ \A d \in x.fresh : d.user = x.user
      /\ x.op \in {"define", "single"} => Len(x.spec) = 1 /\ x.parts = {}
  BY StageOp DEF ShapeOK, Definers
<1>2. x.spec \in Seq(Specs) /\ x.fresh \subseteq DefType /\ x.parts \subseteq Nat BY <1>1 DEF RequestType
<1>3. Tail(x.spec) \in Seq(Specs) /\ (Len(x.spec) > 1 => Tail(x.spec) # <<>>)
  BY <1>1, <1>2, SpecParts
<1>4. fresh \in SUBSET DefType /\ x.parts \cup {id} \in SUBSET Nat /\ todo \in SUBSET Nat
  BY <1>1, <1>2 DEF Extended, Waits
<1>5. then \in Stages /\ then \in StagesOf(x.op) /\ (then = "prepare" => x.op = "generate")
  <2>1. x.op \in {"define", "single"} => ~(Len(x.spec) > 1)
    <3>1. x.op \in {"define", "single"} => Len(x.spec) = 1 BY <1>1
    <3>2. ASSUME NEW n, n = 1 PROVE ~(n > 1) BY <3>2
    <3>3. QED BY <3>1, <3>2
  <2>2. (x.op = "define" /\ then \in {"done", "insert"}) \/ (x.op = "single" /\ then = "commit")
        \/ (x.op = "generate" /\ then \in {"prepare", "check"})
    <3>1. CASE Len(x.spec) > 1 BY <1>1, <2>1, <3>1 DEF Continues
    <3>2. CASE ~(Len(x.spec) > 1) BY <3>2 DEF Continues
    <3>3. QED BY <3>1, <3>2
  <2>3. QED BY <2>2 DEF StagesOf, Stages
<1>6. /\ q.op = x.op /\ q.user = x.user /\ q.stage = then /\ q.spec = Tail(x.spec) /\ q.parts = x.parts \cup {id}
      /\ q.fresh = fresh /\ q.comp = {} /\ q.todo = todo /\ q.ks = x.ks /\ q.xs = x.xs
  BY <1>1 DEF RequestType, Advanced
<1>7. q \in RequestType
  <2>1. PICK spec \in Seq(Specs) : spec = Tail(x.spec) BY <1>3
  <2>2. PICK parts \in SUBSET Nat : parts = x.parts \cup {id} BY <1>4
  <2>3. q = [x EXCEPT !.parts = parts, !.todo = todo, !.fresh = fresh, !.spec = spec, !.stage = then]
    BY <2>1, <2>2 DEF Advanced
  <2>4. QED BY <1>1, <1>4, <1>5, <2>1, <2>2, <2>3 DEF RequestType
<1>8. Ids(fresh) \subseteq q.parts /\ \A d \in fresh : d.user = x.user
  BY <1>1, <1>6 DEF Ids, Extended
<1>9. x.op = "define" => \A d, e \in fresh : d = e
  <2>1. x.op = "define" => x.fresh = {}
    <3>1. \A d \in x.fresh : d.id \in Ids(x.fresh) BY DEF Ids
    <3>2. x.op = "define" => x.parts = {} BY <1>1
    <3>3. QED BY <1>1, <3>1, <3>2
  <2>2. ASSUME NEW d, fresh = x.fresh \cup {d}, x.op = "define" PROVE \A e, f \in fresh : e = f
    BY <2>1, <2>2
  <2>3. QED BY <2>1, <2>2 DEF Extended
<1>10. then = "prepare" => x.op = "generate" /\ q.spec # <<>>
  <2>1. then = "prepare" => Len(x.spec) > 1 BY DEF Continues
  <2>2. QED BY <1>5, <1>1, <1>3, <1>6, <2>1
<1>11. then \notin {"source", "model", "cands"} /\ (x.op = "generate" => then \notin {"insert", "commit"})
  BY <1>1 DEF Continues
<1>12. q.todo \subseteq q.parts /\ q.parts # {} BY <1>1, <1>6 DEF Waits
<1>13. ShapeOK(q)
  BY <1>1, <1>5, <1>6, <1>7, <1>8, <1>9, <1>10, <1>11, <1>12 DEF ShapeOK, Deleters
<1>14. QED BY <1>1, <1>6, <1>13 DEF IsPrepared

LEMMA PrepareKeeps ==
  ASSUME LibraryInv, LibraryNext, NEW r \in Reqs, Prepare(r)
  PROVE  LibraryInv'
<1>1. PICK x : x = req[r] OBVIOUS
<1>2. PICK s : s = Head(x.spec) OBVIOUS
<1>3. PICK prior : prior = Prior(x.user, s.fam) OBVIOUS
<1>4. PICK same : same = {d \in prior : d.content = s.content} OBVIOUS
<1>5. PICK new : new = [id |-> next, user |-> x.user, fam |-> s.fam, ver |-> NextVersion(prior),
                        content |-> s.content]
  OBVIOUS
<1>6. PICK then : then = CASE Len(x.spec) > 1 -> "prepare"
                           [] x.op = "define" /\ same # {} -> "done"
                           [] x.op = "define" /\ same = {} -> "insert"
                           [] x.op = "single" -> "commit"
                           [] OTHER -> "check"
  OBVIOUS
<1>7. /\ x.stage = "prepare" /\ UNCHANGED <<rows, pruned, void>>
      /\ IF same # {}
         THEN /\ \E d \in same :
                   req' = [req EXCEPT ![r].parts = @ \cup {d.id}, ![r].todo = @ \cup {d.id},
                                      ![r].spec = Tail(@), ![r].stage = then]
              /\ UNCHANGED next
         ELSE /\ next <= MaxIds
              /\ next' = next + 1
              /\ req' = [req EXCEPT ![r].parts = @ \cup {next}, ![r].fresh = @ \cup {new},
                                    ![r].spec = Tail(@), ![r].stage = then]
  BY <1>1, <1>2, <1>3, <1>4, <1>5, <1>6 DEF Prepare
<1>8. /\ ShapeOK(x) /\ UserOK(x) /\ x \in RequestType /\ x.op \in {"define", "generate", "single"}
      /\ x.spec # <<>> /\ x.user \in Users /\ x.comp = {}
      /\ x.op \in {"define", "single"} => Len(x.spec) = 1 /\ x.parts = {}
  <2>1. ShapeOK(x) /\ UserOK(x) /\ x \in RequestType BY <1>1, Own
  <2>2. x.op \in {"define", "generate", "single"} BY <1>7, <2>1, StageOp
  <2>3. x.spec # <<>> /\ x.user \in Users /\ x.comp = {} BY <1>7, <2>1, <2>2 DEF ShapeOK
  <2>4. x.op \in {"define", "single"} => Len(x.spec) = 1 /\ x.parts = {} BY <1>7, <2>1 DEF ShapeOK
  <2>5. QED BY <2>1, <2>2, <2>3, <2>4
<1>9. s \in Specs /\ s.fam \in Families /\ s.content \in Contents
  <2>1. x.spec \in Seq(Specs) BY <1>8 DEF RequestType
  <2>2. s \in Specs BY <1>2, <1>8, <2>1, SpecParts
  <2>3. QED BY <2>2 DEF Specs
<1>10. x.op \in {"define", "single"} => ~(Len(x.spec) > 1)
  <2>1. x.op \in {"define", "single"} => Len(x.spec) = 1 BY <1>8
  <2>2. ASSUME NEW n, n = 1 PROVE ~(n > 1) BY <2>2
  <2>3. QED BY <2>1, <2>2
<1>11. Len(x.spec) > 1 => then = "prepare"
  <2>1. SUFFICES ASSUME Len(x.spec) > 1 PROVE then = "prepare" OBVIOUS
  <2>2. x.op = "generate" BY <1>8, <1>10, <2>1
  <2>3. QED BY <1>6, <2>1, <2>2
<1>12. ~(Len(x.spec) > 1) => \/ x.op = "define" /\ then \in {"done", "insert"}
                             \/ x.op = "single" /\ then = "commit"
                             \/ x.op = "generate" /\ then = "check"
  <2>1. SUFFICES ASSUME ~(Len(x.spec) > 1)
                 PROVE  \/ x.op = "define" /\ then \in {"done", "insert"}
                        \/ x.op = "single" /\ then = "commit"
                        \/ x.op = "generate" /\ then = "check"
    OBVIOUS
  <2>2. CASE x.op = "define" BY <1>6, <2>1, <2>2
  <2>3. CASE x.op = "single" BY <1>6, <2>1, <2>3
  <2>4. CASE x.op = "generate" BY <1>6, <2>1, <2>4
  <2>5. QED BY <1>8, <2>2, <2>3, <2>4
<1>13. Continues(x, then) BY <1>11, <1>12 DEF Continues
<1>14. /\ UNCHANGED <<defs, comps, audits, cands, pruned, void>> /\ overlap \subseteq overlap'
       /\ Accounted
  BY <1>7, OverlapKept, NoRowsAccounted DEF rows, LibraryInv, RecordInv
<1>15. \A id \in x.parts \ x.todo : Owned(id, x.user)' \/ id \in Ids(x.fresh) \/ id \in overlap'
  BY <1>8, <1>14 DEF UserOK, Owned
<1>16. x.parts \subseteq DefNames /\ x.ks \subseteq CandNames /\ x.fresh \subseteq DefRecs
  BY <1>1, Own
<1>17. CASE same # {}
  <2>1. PICK d \in same :
          req' = [req EXCEPT ![r].parts = @ \cup {d.id}, ![r].todo = @ \cup {d.id},
                             ![r].spec = Tail(@), ![r].stage = then]
    BY <1>7, <1>17
  <2>2. next' = next BY <1>7, <1>17
  <2>3. d \in defs /\ d.user = x.user BY <1>3, <1>4 DEF Prior
  <2>4. d \in DefRecs /\ d.id \in DefNames /\ d.id \in Nat
    BY <2>3, DefRecMember, DefNameMember, NamesAreNew
  <2>5. PICK q : q = [x EXCEPT !.parts = x.parts \cup {d.id}, !.todo = x.todo \cup {d.id},
                               !.fresh = x.fresh, !.spec = Tail(x.spec), !.stage = then]
    OBVIOUS
  <2>6. q = [x EXCEPT !.parts = x.parts \cup {d.id}, !.todo = x.todo \cup {d.id},
                      !.spec = Tail(x.spec), !.stage = then]
    BY <1>8, <2>5 DEF RequestType
  <2>7. req' = [req EXCEPT ![r] = q] BY <1>1, <2>1, <2>6
  <2>8. /\ ShapeOK(q) /\ q.parts = x.parts \cup {d.id} /\ q.fresh = x.fresh /\ q.comp = {} /\ q.ks = x.ks
        /\ q.op = x.op /\ q.user = x.user /\ q.todo = x.todo \cup {d.id} /\ q.stage = then
    <3>1. PICK id \in Nat : id = d.id BY <2>4
    <3>2. PICK todo : todo = x.todo \cup {id} OBVIOUS
    <3>3. PICK fresh : fresh = x.fresh OBVIOUS
    <3>4. Advanced(x, q, id, todo, fresh, then) BY <2>5, <3>1, <3>2, <3>3 DEF Advanced
    <3>5. Extended(x, id, fresh) BY <3>3 DEF Extended
    <3>6. ShapeOK(x) /\ x.stage = "prepare" BY <1>7, <1>8
    <3>7. Waits(x, id, todo) BY <3>2 DEF Waits
    <3>8. IsPrepared(x, q, id, todo, fresh, then)
      BY <1>13, <3>1, <3>4, <3>5, <3>6, <3>7, PreparedShape
    <3>9. QED BY <3>1, <3>2, <3>3, <3>8 DEF IsPrepared
  <2>9. Quiet(r, q) BY <1>1, <1>7, <1>8, <1>16, <2>2, <2>4, <2>7, <2>8 DEF Quiet
  <2>10. \A e \in DefRecs' : e \in DefRecs
    <3>1. \A t \in Reqs : req'[t].fresh = req[t].fresh
      BY <1>1, <2>7, <2>8, SlotsAfter DEF LibraryInv, ShapeInv
    <3>2. QED BY <3>1, <1>14, DefRecMember, NextRecMember
  <2>11. q.op = "single" => \A e \in DefRecs' : e.id \in q.parts => e.user = q.user
    BY <1>8, <2>3, <2>4, <2>8, <2>10, OneRecord DEF LibraryInv
  <2>12. UserOK(q)' BY <1>8, <1>15, <2>8, <2>11 DEF UserOK
  <2>13. DeleteOK(q)' BY <1>8, <2>8, BusyOK DEF Deleters
  <2>14. QED BY <2>9, <2>12, <2>13, QuietKeeps
<1>18. CASE same = {}
  <2>1. /\ next <= MaxIds /\ next' = next + 1
        /\ req' = [req EXCEPT ![r].parts = @ \cup {next}, ![r].fresh = @ \cup {new},
                              ![r].spec = Tail(@), ![r].stage = then]
    BY <1>7, <1>18
  <2>2. new.id = next /\ new.user = x.user /\ new.fam = s.fam /\ new.ver = NextVersion(prior)
        /\ new.content = s.content
    BY <1>5
  <2>3. new.ver \in 1 .. next
    <3>1. \A d \in prior : d.ver \in 1 .. (next - 1)
      BY <1>3, VersionBounds, DefRecMember DEF Prior, LibraryInv
    <3>2. new.ver \in 1 .. ((next - 1) + 1) BY <2>2, <3>1, NamesAreNew, NextVersionIsNext
    <3>3. QED BY <3>2, NamesAreNew
  <2>4. new \in DefType BY <1>5, <1>8, <1>9, <2>2, <2>3, NamesAreNew DEF DefType
  <2>5. PICK q : q = [x EXCEPT !.parts = x.parts \cup {next}, !.todo = x.todo,
                               !.fresh = x.fresh \cup {new}, !.spec = Tail(x.spec), !.stage = then]
    OBVIOUS
  <2>6. q = [x EXCEPT !.parts = x.parts \cup {next}, !.fresh = x.fresh \cup {new},
                      !.spec = Tail(x.spec), !.stage = then]
    BY <1>8, <2>5 DEF RequestType
  <2>7. req' = [req EXCEPT ![r] = q] BY <1>1, <2>1, <2>6
  <2>8. /\ ShapeOK(q) /\ q.parts = x.parts \cup {next} /\ q.fresh = x.fresh \cup {new} /\ q.comp = {}
        /\ q.ks = x.ks /\ q.op = x.op /\ q.user = x.user /\ q.todo = x.todo /\ q.stage = then
    <3>1. PICK id \in Nat : id = next BY NamesAreNew
    <3>2. PICK todo : todo = x.todo OBVIOUS
    <3>3. PICK fresh : fresh = x.fresh \cup {new} OBVIOUS
    <3>4. Advanced(x, q, id, todo, fresh, then) BY <2>5, <3>1, <3>2, <3>3 DEF Advanced
    <3>5. Extended(x, id, fresh) BY <2>2, <2>4, <3>1, <3>3 DEF Extended
    <3>6. ShapeOK(x) /\ x.stage = "prepare" BY <1>7, <1>8
    <3>7. Waits(x, id, todo) BY <3>2 DEF Waits
    <3>8. IsPrepared(x, q, id, todo, fresh, then)
      BY <1>13, <3>1, <3>4, <3>5, <3>6, <3>7, PreparedShape
    <3>9. QED BY <3>1, <3>2, <3>3, <3>8 DEF IsPrepared
  <2>9. PICK D : D = {new} OBVIOUS
  <2>10. Ids(D) = {next} BY <2>2, <2>9 DEF Ids
  <2>11. Prepares(D, {}, {}) BY <2>1, <2>2, <2>3, <2>4, <2>9, NamesAreNew DEF Prepares
  <2>12. Settles(r, q) BY <1>14 DEF Settles
  <2>13. Moved(r, q, D, {}, {})
    BY <1>1, <1>8, <1>14, <1>16, <2>7, <2>8, <2>9, <2>10, <2>11, <2>12
    DEF Moved, LibraryInv, RecordInv, Deleters
  <2>14. \A e \in DefRecs' : e \in DefRecs \/ e = new
    BY <2>9, <2>13, MovedRecs DEF LibraryInv
  <2>15. <<new.user, new.fam>> \notin pruned => Follows(new)
    <3>1. Prior(new.user, new.fam) = prior BY <1>3, <2>2
    <3>2. \A d \in prior : d.content # new.content BY <1>4, <1>18, <2>2
    <3>3. QED BY <2>2, <3>1, <3>2, PreparedFollows DEF LibraryInv
  <2>16. HistoryInv' BY <1>14, <2>14, <2>15, HistoryPrepared DEF LibraryInv
  <2>17. q.op = "single" => \A e \in DefRecs' : e.id \in q.parts => e.user = q.user
    BY <1>8, <2>2, <2>8, <2>14, OneRecord, NamesAreNew DEF LibraryInv
  <2>18. next \in Ids(q.fresh) /\ Ids(x.fresh) \subseteq Ids(q.fresh) BY <2>2, <2>8 DEF Ids
  <2>19. UserOK(q)' BY <1>8, <1>15, <2>8, <2>17, <2>18 DEF UserOK
  <2>20. DeleteOK(q)' BY <1>8, <2>8, BusyOK DEF Deleters
  <2>21. QED BY <1>14, <2>13, <2>16, <2>19, <2>20, StepKeeps
<1>19. QED BY <1>17, <1>18

LEMMA PrepareCompositeKeeps ==
  ASSUME LibraryInv, LibraryNext, NEW r \in Reqs, PrepareComposite(r)
  PROVE  LibraryInv'
<1>1. PICK x : x = req[r] OBVIOUS
<1>2. PICK prior : prior = {c \in comps : c.user = x.user /\ c.fam = x.parts} OBVIOUS
<1>3. PICK same : same = {c \in prior : c.content = x.content} OBVIOUS
<1>4. PICK new : new = [id |-> next, user |-> x.user, fam |-> x.parts, ver |-> NextVersion(prior),
                        content |-> x.content, parts |-> x.parts]
  OBVIOUS
<1>5. /\ x.stage = "check" /\ x.todo = {} /\ x.op \in {"compose", "generate"}
      /\ UNCHANGED <<rows, pruned, void>>
      /\ IF same # {}
         THEN /\ \E c \in same :
                   req' = [req EXCEPT ![r].comp = {c},
                                      ![r].stage = IF x.op = "generate" THEN "commit" ELSE "done"]
              /\ UNCHANGED next
         ELSE /\ next <= MaxIds
              /\ next' = next + 1
              /\ req' = [req EXCEPT ![r].comp = {new},
                                    ![r].stage = IF x.op = "generate" THEN "commit" ELSE "insert"]
  BY <1>1, <1>2, <1>3, <1>4 DEF PrepareComposite
<1>6. ShapeOK(x) /\ UserOK(x) /\ x \in RequestType /\ x.user \in Users /\ x.parts # {}
  <2>1. ShapeOK(x) /\ UserOK(x) /\ x \in RequestType BY <1>1, Own
  <2>2. x.op # "idle" /\ x.op \in {"compose", "generate"} /\ x.stage = "check" BY <1>5
  <2>3. QED BY <2>1, <2>2 DEF ShapeOK
<1>7. x.parts \subseteq DefNames /\ x.ks \subseteq CandNames BY <1>1, Own
<1>8. /\ UNCHANGED <<defs, comps, audits, cands, pruned, void>> /\ overlap \subseteq overlap'
      /\ Accounted
  BY <1>5, OverlapKept, NoRowsAccounted DEF rows, LibraryInv, RecordInv
<1>9. ASSUME NEW c \in CompType, c.user = x.user, c.parts = x.parts, NEW then,
             then \in {"done", "insert", "commit"}, then = "commit" <=> x.op = "generate",
             NEW q, q = [x EXCEPT !.comp = {c}, !.stage = then]
      PROVE  /\ ShapeOK(q) /\ UserOK(q)' /\ DeleteOK(q)'
             /\ q.parts = x.parts /\ q.fresh = x.fresh /\ q.ks = x.ks /\ q.comp = {c}
             /\ q.op \in {"compose", "generate"}
  <2>1. q \in RequestType BY <1>6, <1>9 DEF RequestType, Stages
  <2>2. /\ q.parts = x.parts /\ q.fresh = x.fresh /\ q.ks = x.ks /\ q.comp = {c} /\ q.op = x.op
        /\ q.user = x.user /\ q.todo = {} /\ q.xs = x.xs /\ q.stage = then
    BY <1>5, <1>6, <1>9 DEF RequestType
  <2>3. then \in StagesOf(x.op) BY <1>5, <1>9 DEF StagesOf
  <2>4. ShapeOK(q) BY <1>5, <1>6, <1>9, <2>1, <2>2, <2>3 DEF ShapeOK, Deleters
  <2>5. UserOK(q)' BY <1>5, <1>6, <1>8, <2>2 DEF UserOK, Owned
  <2>6. DeleteOK(q)' BY <1>5, <2>2, BusyOK DEF Deleters
  <2>7. QED BY <1>5, <2>2, <2>4, <2>5, <2>6
<1>10. CASE same # {}
  <2>1. PICK c \in same :
          req' = [req EXCEPT ![r].comp = {c},
                             ![r].stage = IF x.op = "generate" THEN "commit" ELSE "done"]
    BY <1>5, <1>10
  <2>2. c \in comps /\ c.user = x.user /\ c.fam = x.parts BY <1>2, <1>3
  <2>3. c \in CompRecs /\ c \in CompType BY <2>2, CompRecMember DEF LibraryInv, RecordInv
  <2>4. c.parts = x.parts BY <2>2, <2>3 DEF LibraryInv, RecordInv
  <2>5. PICK then : then = IF x.op = "generate" THEN "commit" ELSE "done" OBVIOUS
  <2>6. PICK q : q = [x EXCEPT !.comp = {c}, !.stage = then] OBVIOUS
  <2>7. req' = [req EXCEPT ![r] = q] BY <1>1, <2>1, <2>5, <2>6
  <2>8. /\ ShapeOK(q) /\ UserOK(q)' /\ DeleteOK(q)'
        /\ q.parts = x.parts /\ q.fresh = x.fresh /\ q.ks = x.ks /\ q.comp = {c}
        /\ q.op \in {"compose", "generate"}
    BY <1>9, <2>2, <2>3, <2>4, <2>5, <2>6
  <2>9. Quiet(r, q) BY <1>1, <1>5, <1>7, <1>10, <2>3, <2>7, <2>8 DEF Quiet
  <2>10. QED BY <2>8, <2>9, QuietKeeps
<1>11. CASE same = {}
  <2>1. /\ next <= MaxIds /\ next' = next + 1
        /\ req' = [req EXCEPT ![r].comp = {new},
                              ![r].stage = IF x.op = "generate" THEN "commit" ELSE "insert"]
    BY <1>5, <1>11
  <2>2. new.id = next /\ new.user = x.user /\ new.fam = x.parts /\ new.ver = NextVersion(prior)
        /\ new.parts = x.parts
    BY <1>4
  <2>3. new.ver \in 1 .. next
    <3>1. ASSUME NEW c \in prior PROVE c.ver \in 1 .. (next - 1)
      <4>1. c \in CompRecs BY <1>2, CompRecMember
      <4>2. c.ver \in 1 .. c.id /\ c.id \in Issued
        BY <4>1, CompNameMember DEF LibraryInv, RecordInv
      <4>3. QED BY <4>2, NamesAreNew DEF Issued
    <3>2. new.ver \in 1 .. ((next - 1) + 1) BY <2>2, <3>1, NamesAreNew, NextVersionIsNext
    <3>3. QED BY <3>2, NamesAreNew
  <2>4. new \in CompType
    BY <1>4, <1>6, <2>2, <2>3, NamesAreNew DEF CompType, RequestType
  <2>5. PICK then : then = IF x.op = "generate" THEN "commit" ELSE "insert" OBVIOUS
  <2>6. PICK q : q = [x EXCEPT !.comp = {new}, !.stage = then] OBVIOUS
  <2>7. req' = [req EXCEPT ![r] = q] BY <1>1, <2>1, <2>5, <2>6
  <2>8. /\ ShapeOK(q) /\ UserOK(q)' /\ DeleteOK(q)'
        /\ q.parts = x.parts /\ q.fresh = x.fresh /\ q.ks = x.ks /\ q.comp = {new}
        /\ q.op \in {"compose", "generate"}
    BY <1>9, <2>2, <2>4, <2>5, <2>6
  <2>9. PICK C : C = {new} OBVIOUS
  <2>10. Ids({}) = {} BY DEF Ids
  <2>11. Prepares({}, C, {})
    BY <1>6, <1>7, <2>1, <2>2, <2>3, <2>4, <2>9, NamesAreNew DEF Prepares
  <2>12. Settles(r, q) BY <1>8 DEF Settles
  <2>13. Moved(r, q, {}, C, {})
    BY <1>1, <1>7, <1>8, <2>7, <2>8, <2>9, <2>10, <2>11, <2>12
    DEF Moved, LibraryInv, RecordInv
  <2>14. \A e \in DefRecs' : e \in DefRecs BY <2>13, MovedRecs DEF LibraryInv
  <2>15. HistoryInv' BY <1>8, <2>14, HistoryPrepared DEF LibraryInv
  <2>16. QED BY <1>8, <2>8, <2>13, <2>15, StepKeeps
<1>12. QED BY <1>10, <1>11

--------------------------------------------------------------------------------
(* The INSERT of a row, the transaction of a generation, and a candidate.  *)
LEMMA WriteKeeps ==
  ASSUME LibraryInv, LibraryNext, NEW r \in Reqs, NEW x, x = req[r], req' = Drop(r),
         UNCHANGED <<cands, next, pruned>>,
         NEW N \in SUBSET x.fresh, defs' = defs \cup N,
         \A d \in N : ~Taken(defs, d), \A d, e \in N : d # e => d.fam # e.fam,
         void' = void \/ (N = {} /\ void' = void \cup Ids(x.fresh)),
         comps \subseteq comps', comps' \subseteq comps \cup x.comp,
         comps' = comps \/ (x.todo = {} /\ x.fresh \subseteq defs'),
         audits \subseteq audits', audits' \subseteq AuditType,
         \A a \in audits' \ audits : a.user = x.user /\ a.out \in Out(x) /\ a.out \in Present'
  PROVE  LibraryInv'
<1>1. PICK q : q = Idle OBVIOUS
<1>2. ShapeOK(q) /\ UserOK(q)' /\ DeleteOK(q)' BY <1>1, IdleOK
<1>3. q.op = "idle" /\ q.parts = {} /\ q.fresh = {} /\ q.comp = {} /\ q.ks = {} BY <1>1 DEF Idle
<1>4. req' = [req EXCEPT ![r] = q] BY <1>1 DEF Drop
<1>5. Ids({}) = {} BY DEF Ids
<1>6. Prepares({}, {}, {}) BY DEF Prepares, LibraryInv, RecordInv
<1>7. Settles(r, q) BY <1>3 DEF Settles
<1>8. Moved(r, q, {}, {}, {}) BY <1>2, <1>3, <1>4, <1>5, <1>6, <1>7 DEF Moved, LibraryInv, RecordInv
<1>9. N \subseteq DefRecs BY Own
<1>10. \A d, e \in N : d.user = e.user /\ (d # e => d.fam # e.fam)
  BY Own DEF ShapeOK
<1>11. \A d \in DefRecs' : d \in DefRecs BY <1>8, MovedRecs DEF LibraryInv
<1>12. HistoryInv' BY <1>9, <1>10, <1>11, HistoryWritten DEF LibraryInv
<1>13. LostRows BY <1>5 DEF LostRows
<1>14. \A k \in cands : k.layer <= k.layer BY DEF LibraryInv, RecordInv, CandType
<1>15. NewRows BY <1>14 DEF NewRows
<1>16. Accounted BY <1>13, <1>15 DEF Accounted
<1>17. QED BY <1>2, <1>8, <1>12, <1>16, StepKeeps

LEMMA InsertRowKeeps ==
  ASSUME LibraryInv, LibraryNext, NEW r \in Reqs, InsertRow(r)
  PROVE  LibraryInv'
<1>1. PICK x : x = req[r] OBVIOUS
<1>2. /\ x.stage = "insert" /\ x.op \in {"define", "compose"} /\ req' = Drop(r)
      /\ UNCHANGED <<audits, cands, next, pruned>>
  BY <1>1 DEF InsertRow
<1>3. ShapeOK(x) BY <1>1, Own
<1>4. audits' \subseteq AuditType BY <1>2 DEF LibraryInv, RecordInv
<1>5. CASE x.op = "define"
  <2>1. comps' = comps BY <1>1, <1>5 DEF InsertRow
  <2>2. CASE \E d \in x.fresh : Taken(defs, d)
    <3>1. UNCHANGED rows /\ void' = void \cup Ids(x.fresh)
      BY <1>1, <1>2, <1>5, <2>1, <2>2 DEF InsertRow, rows
    <3>2. QED BY <1>1, <1>2, <3>1, DropKeeps
  <2>3. CASE \A d \in x.fresh : ~Taken(defs, d)
    <3>1. defs' = defs \cup x.fresh /\ void' = void BY <1>1, <1>5, <2>3 DEF InsertRow
    <3>2. \A d, e \in x.fresh : d = e BY <1>3, <1>5 DEF ShapeOK
    <3>3. QED BY <1>1, <1>2, <1>4, <2>1, <2>3, <3>1, <3>2, WriteKeeps
  <2>4. QED BY <2>2, <2>3
<1>6. CASE x.op = "compose"
  <2>1. defs' = defs /\ void' = void BY <1>1, <1>6 DEF InsertRow
  <2>2. comps \subseteq comps' /\ comps' \subseteq comps \cup x.comp BY <1>1, <1>6 DEF InsertRow
  <2>3. x.fresh = {} /\ x.todo = {} BY <1>2, <1>3, <1>6 DEF ShapeOK
  <2>4. PICK N \in SUBSET x.fresh : N = {} OBVIOUS
  <2>5. defs' = defs \cup N BY <2>1, <2>4
  <2>6. x.fresh \subseteq defs' BY <2>3
  <2>7. QED BY <1>1, <1>2, <1>4, <2>1, <2>2, <2>3, <2>4, <2>5, <2>6, WriteKeeps
<1>7. QED BY <1>2, <1>5, <1>6

LEMMA CommitGenerationKeeps ==
  ASSUME LibraryInv, LibraryNext, NEW r \in Reqs, CommitGeneration(r)
  PROVE  LibraryInv'
<1>1. PICK x : x = req[r] OBVIOUS
<1>2. /\ x.stage = "commit" /\ req' = Drop(r) /\ UNCHANGED <<cands, next, pruned>>
      /\ defs' = defs \cup Kept(x)
      /\ IF Commits(x)
         THEN /\ comps' = comps \cup x.comp
              /\ audits' = audits \cup {[user |-> x.user, out |-> id] : id \in Out(x)}
              /\ void' = void
         ELSE void' = void \cup Ids(x.fresh) /\ comps' = comps /\ audits' = audits
  BY <1>1 DEF CommitGeneration
<1>3. ShapeOK(x) /\ x.op \in {"generate", "single"} BY <1>1, <1>2, Own, StageOp
<1>4. CASE ~Commits(x)
  <2>1. UNCHANGED <<rows, next, pruned>> /\ void' = void \cup Ids(x.fresh)
    BY <1>2, <1>4 DEF Kept, rows
  <2>2. QED BY <1>1, <1>2, <2>1, DropKeeps
<1>5. CASE Commits(x)
  <2>1. defs' = defs \cup x.fresh /\ comps' = comps \cup x.comp /\ void' = void
    BY <1>2, <1>5 DEF Kept
  <2>2. PICK N \in SUBSET x.fresh : N = x.fresh OBVIOUS
  <2>3. \A d \in N : ~Taken(defs, d) BY <1>5, <2>2 DEF Commits
  <2>4. \A d, e \in N : d # e => d.fam # e.fam BY <1>5, <2>2 DEF Commits
  <2>5. comps' = comps \/ (x.todo = {} /\ x.fresh \subseteq defs')
    <3>1. x.op = "single" => x.comp = {} BY <1>3 DEF ShapeOK
    <3>2. x.op = "generate" => x.todo = {} BY <1>2, <1>3 DEF ShapeOK
    <3>3. QED BY <1>3, <2>1, <3>1, <3>2
  <2>6. Out(x) \subseteq Present'
    BY <1>5, <2>1 DEF Commits, Present, Ids
  <2>7. x.user \in Users /\ Out(x) \subseteq Nat
    <3>1. x.user \in Users BY <1>3 DEF ShapeOK
    <3>2. x.parts \subseteq Nat /\ x.comp \subseteq CompType BY <1>3 DEF ShapeOK, RequestType
    <3>3. Ids(x.comp) \subseteq Nat BY <3>2 DEF Ids, CompType
    <3>4. QED BY <3>1, <3>2, <3>3 DEF Out
  <2>8. /\ audits \subseteq audits'
        /\ \A a \in audits' \ audits : \E id \in Out(x) : a = [user |-> x.user, out |-> id]
    BY <1>2, <1>5
  <2>9. \A a \in audits' \ audits : a.user = x.user /\ a.out \in Out(x) /\ a.out \in Present'
    BY <2>6, <2>8
  <2>10. audits' \subseteq AuditType
    <3>1. audits \subseteq AuditType BY DEF LibraryInv, RecordInv
    <3>2. \A a \in audits' \ audits : a \in AuditType BY <2>7, <2>8 DEF AuditType
    <3>3. QED BY <3>1, <3>2
  <2>11. defs' = defs \cup N BY <2>1, <2>2
  <2>12. comps \subseteq comps' /\ comps' \subseteq comps \cup x.comp BY <2>1
  <2>13. QED BY <1>1, <1>2, <2>1, <2>3, <2>4, <2>5, <2>8, <2>9, <2>10, <2>11, <2>12, WriteKeeps
<1>6. QED BY <1>4, <1>5

LEMMA InsertCandidateKeeps ==
  ASSUME LibraryInv, LibraryNext, NEW r \in Reqs, InsertCandidate(r)
  PROVE  LibraryInv'
<1>1. PICK x : x = req[r] OBVIOUS
<1>2. PICK new : new = [id |-> next, user |-> x.user, layer |-> 0, refs |-> x.parts \cup Ids(x.comp)]
  OBVIOUS
<1>3. /\ x.stage = "insert" /\ x.op = "submit" /\ next <= MaxIds /\ cands' = cands \cup {new}
      /\ next' = next + 1 /\ req' = Drop(r) /\ UNCHANGED <<defs, comps, audits, pruned, void>>
  BY <1>1, <1>2 DEF InsertCandidate
<1>4. PICK q : q = Idle OBVIOUS
<1>5. ShapeOK(q) /\ UserOK(q)' /\ DeleteOK(q)' BY <1>4, IdleOK
<1>6. q.op = "idle" /\ q.parts = {} /\ q.fresh = {} /\ q.comp = {} /\ q.ks = {} BY <1>4 DEF Idle
<1>7. req' = [req EXCEPT ![r] = q] BY <1>3, <1>4 DEF Drop
<1>8. Ids({}) = {} BY DEF Ids
<1>9. new.id = next /\ new.user = x.user /\ new.layer = 0 /\ new.refs = x.parts \cup Ids(x.comp)
  BY <1>2
<1>10. new.refs \subseteq Issued
  <2>1. x.parts \subseteq DefNames BY <1>1, Own
  <2>2. Ids(x.comp) \subseteq CompNames BY <1>1, Names DEF Ids, LibraryInv
  <2>3. QED BY <1>9, <2>1, <2>2 DEF LibraryInv, RecordInv
<1>11. x.user \in Users BY <1>1, <1>3, Own DEF ShapeOK
<1>12. new \in CandType
  <2>1. PICK refs \in SUBSET Nat : refs = x.parts \cup Ids(x.comp) BY <1>9, <1>10 DEF Issued
  <2>2. new = [id |-> next, user |-> x.user, layer |-> 0, refs |-> refs] BY <1>2, <2>1
  <2>3. QED BY <1>11, <2>2, NamesAreNew DEF CandType
<1>13. PICK K : K = {new} OBVIOUS
<1>14. Prepares({}, {}, K)
  <2>1. next' \in 1 .. (MaxIds + 1) BY <1>3, NamesAreNew
  <2>2. QED BY <1>3, <1>9, <1>10, <1>13, <2>1 DEF Prepares
<1>15. Settles(r, q) BY <1>3 DEF Settles
<1>16. cands' \subseteq CandType BY <1>3, <1>12 DEF LibraryInv, RecordInv
<1>17. Moved(r, q, {}, {}, K)
  BY <1>3, <1>5, <1>6, <1>7, <1>8, <1>13, <1>14, <1>15, <1>16 DEF Moved, LibraryInv, RecordInv
<1>18. \A d \in DefRecs' : d \in DefRecs BY <1>17, MovedRecs DEF LibraryInv
<1>19. HistoryInv' BY <1>3, <1>18, HistoryPrepared DEF LibraryInv
<1>20. LostRows BY <1>3, <1>8 DEF LostRows
<1>21. \A k \in cands : k.layer <= k.layer BY DEF LibraryInv, RecordInv, CandType
<1>22. NewRows BY <1>1, <1>3, <1>9, <1>21 DEF NewRows
<1>23. Accounted BY <1>20, <1>22 DEF Accounted
<1>24. QED BY <1>5, <1>17, <1>19, <1>23, StepKeeps

--------------------------------------------------------------------------------
(* The statements of a deletion.                                           *)
Prunes(N) == defs' = defs \ N /\ pruned' = pruned \cup {<<x.user, x.fam>> : x \in N}
LEMMA NothingPruned ==
  ASSUME UNCHANGED <<defs, pruned>>, NEW N, N = {}
  PROVE  Prunes(N)
<1>1. {<<x.user, x.fam>> : x \in N} = {} OBVIOUS
<1>2. QED BY <1>1 DEF Prunes

Removes(r, x, q) ==
  /\ x = req[r] /\ req' = [req EXCEPT ![r] = q] /\ ShapeOK(q)
  /\ q.fresh = {} /\ q.comp = {} /\ q.parts = {} /\ q.ks \subseteq CandNames
  /\ q.op = "idle" \/ (q.op = x.op /\ q.target = x.target)
  /\ UNCHANGED <<next, void>>
  /\ comps' \subseteq comps /\ audits' \subseteq audits /\ cands' \subseteq CandType
  /\ \A k \in cands' : \E y \in cands : /\ y.id = k.id /\ y.user = k.user /\ y.refs = k.refs
                                        /\ k.layer <= y.layer
LEMMA RemovalKeeps ==
  ASSUME LibraryInv, LibraryNext, NEW r \in Reqs, NEW x, NEW q, Removes(r, x, q),
         NEW N, Prunes(N), LostRows, UserOK(q)', DeleteOK(q)'
  PROVE  LibraryInv'
<1>1. Ids({}) = {} BY DEF Ids
<1>2. Prepares({}, {}, {}) BY DEF Prepares, LibraryInv, RecordInv, Removes
<1>3. defs' = defs \ N BY DEF Prunes
<1>4. Settles(r, q) BY <1>3 DEF Settles, Removes
<1>5. q.op = "delete" => q.target \in DefNames BY Own DEF Removes
<1>6. q.op = "deleteComposite" => q.target \in CompNames BY Own DEF Removes
<1>7. audits' \subseteq AuditType BY DEF LibraryInv, RecordInv, Removes
<1>8. \A k \in cands' : \E y \in cands : y.id = k.id /\ y.user = k.user /\ y.refs = k.refs
  BY DEF Removes
<1>9. Moved(r, q, {}, {}, {}) BY <1>1, <1>2, <1>4, <1>5, <1>6, <1>7, <1>8 DEF Moved, Removes
<1>10. \A d \in DefRecs' : d \in DefRecs BY <1>9, MovedRecs DEF LibraryInv
<1>11. HistoryInv' BY <1>10, HistoryPruned DEF LibraryInv, Prunes
<1>12. NewRows BY DEF NewRows, Removes
<1>13. Accounted BY <1>12 DEF Accounted
<1>14. QED BY <1>9, <1>11, <1>13, StepKeeps

(* A delete that goes on to its next statement.                            *)
Proceeds(x, q, ks, xs, then) == q = [x EXCEPT !.ks = ks, !.xs = xs, !.stage = then]
IsOn(x, q, ks, xs, then) ==
  /\ ShapeOK(q) /\ q.op = x.op /\ q.user = x.user /\ q.target = x.target /\ q.stage = then
  /\ q.parts = {} /\ q.fresh = {} /\ q.comp = {} /\ q.ks = ks /\ q.xs = xs
LEMMA ProceedsShape ==
  ASSUME NEW x, ShapeOK(x), x.op \in Deleters, NEW ks \in SUBSET Nat, NEW xs \in SUBSET ks,
         NEW then, then \in StagesOf(x.op), then # "cands", NEW q, Proceeds(x, q, ks, xs, then)
  PROVE  IsOn(x, q, ks, xs, then)
<1>1. x \in RequestType /\ x.user \in Users /\ x.parts = {} /\ x.comp = {} /\ x.target # 0
      /\ x.todo = {} /\ Ids(x.fresh) = {}
  BY DEF ShapeOK, Deleters
<1>2. x.fresh = {} BY <1>1 DEF Ids
<1>3. then \in {"cands", "results", "layer3", "layer2", "layer1", "layer0", "audits", "comps", "row"}
  BY DEF StagesOf, Deleters
<1>4. q \in RequestType BY <1>1, <1>3 DEF RequestType, Stages, Proceeds
<1>5. /\ q.op = x.op /\ q.user = x.user /\ q.target = x.target /\ q.stage = then /\ q.parts = {}
      /\ q.fresh = {} /\ q.comp = {} /\ q.ks = ks /\ q.xs = xs /\ q.todo = {}
  BY <1>1, <1>2 DEF RequestType, Proceeds
<1>6. Ids({}) = {} BY DEF Ids
<1>7. ShapeOK(q) BY <1>1, <1>3, <1>4, <1>5, <1>6 DEF ShapeOK, Deleters
<1>8. QED BY <1>5, <1>7 DEF IsOn

LEMMA Deleting ==
  ASSUME LibraryInv, NEW r \in Reqs, NEW x, x = req[r], Deletes(r)
  PROVE  /\ ShapeOK(x) /\ DeleteOK(x) /\ x \in RequestType /\ x.op \in Deleters
         /\ x.ks \in SUBSET Nat /\ x.xs \in SUBSET x.ks /\ x.ks \subseteq CandNames
         /\ x.target # 0 /\ x.user \in Users
         /\ {"cands", "results", "layer3", "layer2", "layer1", "layer0", "audits", "row"} \subseteq StagesOf(x.op)
<1>1. ShapeOK(x) /\ DeleteOK(x) /\ x \in RequestType /\ x.ks \subseteq CandNames BY Own
<1>2. x.op \in Deleters BY DEF Deletes, Deleters
<1>3. x.target # 0 /\ x.user \in Users /\ x.xs \subseteq x.ks BY <1>1, <1>2 DEF ShapeOK, Deleters
<1>4. x.ks \in SUBSET Nat BY <1>1 DEF RequestType
<1>5. {"cands", "results", "layer3", "layer2", "layer1", "layer0", "audits", "row"} \subseteq StagesOf(x.op)
  BY <1>2 DEF StagesOf, Deleters
<1>6. QED BY <1>1, <1>2, <1>3, <1>4, <1>5

(* The selects.                                                            *)
LEMMA SelectCandidatesKeeps ==
  ASSUME LibraryInv, LibraryNext, NEW r \in Reqs, SelectCandidates(r)
  PROVE  LibraryInv'
<1>1. PICK x : x = req[r] OBVIOUS
<1>2. PICK ks : ks = Referring(x) OBVIOUS
<1>3. PICK then : then = IF ks = {} THEN "audits" ELSE "results" OBVIOUS
<1>4. /\ Deletes(r) /\ x.stage = "cands" /\ UNCHANGED <<rows, next, pruned, void>>
      /\ req' = [req EXCEPT ![r].ks = ks, ![r].stage = then]
  BY <1>1, <1>2, <1>3 DEF SelectCandidates
<1>5. ShapeOK(x) /\ x \in RequestType /\ x.op \in Deleters /\ {"results", "audits"} \subseteq StagesOf(x.op)
  BY <1>1, <1>4, Deleting
<1>6. ks \subseteq CandNames /\ ks \in SUBSET Nat
  <2>1. \A id \in ks : \E k \in cands : id = k.id BY <1>2 DEF Referring
  <2>2. cands \subseteq CandType BY DEF LibraryInv, RecordInv
  <2>3. QED BY <2>1, <2>2, CandNameMember DEF CandType
<1>7. PICK xs \in SUBSET ks : xs = {} OBVIOUS
<1>8. x.xs = xs BY <1>4, <1>5, <1>7 DEF ShapeOK
<1>9. PICK q : q = [x EXCEPT !.ks = ks, !.xs = xs, !.stage = then] OBVIOUS
<1>10. q = [x EXCEPT !.ks = ks, !.stage = then] BY <1>5, <1>8, <1>9 DEF RequestType
<1>11. req' = [req EXCEPT ![r] = q] BY <1>1, <1>4, <1>10
<1>12. Proceeds(x, q, ks, xs, then) BY <1>9 DEF Proceeds
<1>13. then \in StagesOf(x.op) /\ then # "cands" BY <1>3, <1>5
<1>14. IsOn(x, q, ks, xs, then) BY <1>5, <1>6, <1>12, <1>13, ProceedsShape
<1>15. Quiet(r, q) BY <1>1, <1>4, <1>6, <1>11, <1>14, Own DEF Quiet, IsOn
<1>16. UserOK(q)' BY <1>3, <1>14, EmptyUser DEF IsOn
<1>17. ASSUME NEW k \in cands' PROVE k.id \in ks <=> Mine(q, k)
  <2>1. q.user = x.user /\ q.target = x.target BY <1>14 DEF IsOn
  <2>2. k \in cands BY <1>4 DEF rows
  <2>3. Mine(q, k) => k.id \in ks BY <1>2, <2>1, <2>2 DEF Mine, Referring
  <2>4. ASSUME k.id \in ks PROVE Mine(q, k)
    <3>1. PICK y \in cands : y.id = k.id /\ y.user = x.user /\ x.target \in y.refs
      BY <1>2, <2>4 DEF Referring
    <3>2. k.user = y.user /\ k.refs = y.refs BY <2>2, <3>1 DEF LibraryInv, RecordInv
    <3>3. QED BY <2>1, <3>1, <3>2 DEF Mine
  <2>5. QED BY <2>3, <2>4
<1>18. DeleteOK(q)'
  <2>1. q.ks = ks /\ q.stage = then BY <1>14 DEF IsOn
  <2>2. then \in {"results", "audits"} /\ (then = "audits" => ks = {}) BY <1>3
  <2>3. QED BY <1>17, <2>1, <2>2 DEF DeleteOK, Alone, Mine, Among
<1>19. QED BY <1>15, <1>16, <1>18, QuietKeeps

LEMMA SelectResultsKeeps ==
  ASSUME LibraryInv, LibraryNext, NEW r \in Reqs, SelectResults(r)
  PROVE  LibraryInv'
<1>1. PICK x : x = req[r] OBVIOUS
<1>2. PICK xs : xs = Ids({k \in Among(x.ks) : k.layer >= 2}) OBVIOUS
<1>3. PICK then : then = IF xs = {} THEN "layer1" ELSE "layer3" OBVIOUS
<1>4. /\ Deletes(r) /\ x.stage = "results" /\ UNCHANGED <<rows, next, pruned, void>>
      /\ req' = [req EXCEPT ![r].xs = xs, ![r].stage = then]
  BY <1>1, <1>2, <1>3 DEF SelectResults
<1>5. /\ ShapeOK(x) /\ DeleteOK(x) /\ x \in RequestType /\ x.op \in Deleters
      /\ x.ks \in SUBSET Nat /\ x.ks \subseteq CandNames
      /\ {"layer1", "layer3"} \subseteq StagesOf(x.op)
  BY <1>1, <1>4, Deleting
<1>6. xs \in SUBSET x.ks BY <1>2 DEF Ids, Among
<1>7. PICK ks : ks = x.ks OBVIOUS
<1>8. PICK q : q = [x EXCEPT !.ks = ks, !.xs = xs, !.stage = then] OBVIOUS
<1>9. q = [x EXCEPT !.xs = xs, !.stage = then] BY <1>5, <1>7, <1>8 DEF RequestType
<1>10. req' = [req EXCEPT ![r] = q] BY <1>1, <1>4, <1>9
<1>11. Proceeds(x, q, ks, xs, then) BY <1>8 DEF Proceeds
<1>12. then \in StagesOf(x.op) /\ then # "cands" BY <1>3, <1>5
<1>13. IsOn(x, q, ks, xs, then)
  <2>1. ks \in SUBSET Nat /\ xs \in SUBSET ks BY <1>5, <1>6, <1>7
  <2>2. QED BY <1>5, <1>11, <1>12, <2>1, ProceedsShape
<1>14. Quiet(r, q) BY <1>1, <1>4, <1>5, <1>7, <1>10, <1>13, Own DEF Quiet, IsOn
<1>15. UserOK(q)' BY <1>3, <1>13, EmptyUser DEF IsOn
<1>16. UNCHANGED <<defs, comps, audits, cands>> /\ overlap \subseteq overlap'
  BY <1>4, OverlapKept DEF rows
<1>17. DeleteOK(q)'
  <2>1. /\ q.op = x.op /\ q.ks = ks /\ q.stage = then /\ q.xs = xs
        /\ q.user = x.user /\ q.target = x.target
    BY <1>13 DEF IsOn
  <2>2. then \in {"layer1", "layer3"} /\ (then = "layer1" => xs = {}) BY <1>3
  <2>3. \A k \in Among(ks) : k.layer >= 2 => k.id \in xs BY <1>2, <1>7 DEF Ids
  <2>4. \A k \in cands : k.layer \in 0 .. 3 BY DEF LibraryInv, RecordInv, CandType
  <2>5. then = "layer1" => \A k \in Among(ks) : k.layer <= 1 BY <2>2, <2>3, <2>4 DEF Among
  <2>6. /\ \A k \in cands : k.id \in ks => Mine(q, k)
        /\ q.target \notin overlap => \A k \in cands : Mine(q, k) => k.id \in ks
    BY <1>4, <1>5, <1>7, <2>1 DEF DeleteOK, Alone, Mine
  <2>7. QED BY <1>16, <2>1, <2>2, <2>3, <2>5, <2>6 DEF DeleteOK, Alone, Mine, Among
<1>18. QED BY <1>14, <1>15, <1>17, QuietKeeps

(* The deletes of dependent rows, kind by kind.                            *)
LEMMA LowerMember ==
  ASSUME cands \subseteq CandType, NEW ids, NEW layer \in 0 .. 2, NEW k \in Lower(ids, layer)
  PROVE  k \in CandType
         /\ \E y \in cands : /\ y.id = k.id /\ y.user = k.user /\ y.refs = k.refs /\ k.layer <= y.layer
                             /\ k.id \in ids => k.layer <= layer
<1>1. PICK y \in cands : k = IF y.id \in ids /\ y.layer > layer THEN [y EXCEPT !.layer = layer] ELSE y
  BY DEF Lower
<1>2. y \in CandType /\ y.layer \in 0 .. 3 BY DEF CandType
<1>3. CASE y.id \in ids /\ y.layer > layer
  <2>1. k = [y EXCEPT !.layer = layer] BY <1>1, <1>3
  <2>2. k \in CandType BY <1>2, <2>1 DEF CandType
  <2>3. k.id = y.id /\ k.user = y.user /\ k.refs = y.refs /\ k.layer = layer BY <1>2, <2>1 DEF CandType
  <2>4. k.layer <= y.layer /\ k.layer <= layer BY <1>2, <1>3, <2>3
  <2>5. QED BY <2>2, <2>3, <2>4
<1>4. CASE ~(y.id \in ids /\ y.layer > layer)
  <2>1. k = y BY <1>1, <1>4
  <2>2. k.layer <= y.layer /\ (k.id \in ids => k.layer <= layer) BY <1>2, <1>4, <2>1
  <2>3. QED BY <1>2, <2>1, <2>2
<1>5. QED BY <1>3, <1>4

(* What the candidates of a delete whose target nobody used look like      *)
(* before and after one of these statements.                               *)
Lowers(r, x, q, after) ==
  /\ x = req[r] /\ q = [x EXCEPT !.ks = x.ks, !.xs = x.xs, !.stage = after]
  /\ Deletes(r) /\ after \in {"layer2", "layer1", "layer0", "audits"}
  /\ req' = [req EXCEPT ![r] = q]
  /\ UNCHANGED <<defs, comps, audits, next, pruned, void>>
  /\ cands' \subseteq CandType
  /\ \A k \in cands' : \E y \in cands : /\ y.id = k.id /\ y.user = k.user /\ y.refs = k.refs
                                        /\ k.layer <= y.layer
LEMMA LowersKeeps ==
  ASSUME LibraryInv, LibraryNext, NEW r \in Reqs, NEW x, NEW q, NEW after, Lowers(r, x, q, after),
         Alone(x) =>
           /\ IF after = "audits" THEN \A k \in cands' : ~Mine(x, k)
              ELSE \A k \in cands' : Mine(x, k) => k.id \in x.ks
           /\ after = "layer2" => \A k \in cands' : k.id \in x.ks =>
                                    k.layer <= 2 /\ (k.layer >= 2 => k.id \in x.xs)
           /\ after = "layer1" => \A k \in cands' : k.id \in x.ks => k.layer <= 1
           /\ after = "layer0" => \A k \in cands' : k.id \in x.ks => k.layer = 0
  PROVE  LibraryInv'
<1>1. /\ x = req[r] /\ q = [x EXCEPT !.ks = x.ks, !.xs = x.xs, !.stage = after]
      /\ Deletes(r) /\ after \in {"layer2", "layer1", "layer0", "audits"}
      /\ req' = [req EXCEPT ![r] = q]
      /\ UNCHANGED <<defs, comps, audits, next, pruned, void>>
      /\ cands' \subseteq CandType
      /\ \A k \in cands' : \E y \in cands : /\ y.id = k.id /\ y.user = k.user /\ y.refs = k.refs
                                            /\ k.layer <= y.layer
  BY DEF Lowers
<1>2. /\ ShapeOK(x) /\ DeleteOK(x) /\ x.op \in Deleters
      /\ x.ks \in SUBSET Nat /\ x.xs \in SUBSET x.ks /\ x.ks \subseteq CandNames
      /\ {"layer2", "layer1", "layer0", "audits"} \subseteq StagesOf(x.op)
  BY <1>1, Deleting
<1>3. PICK ks : ks = x.ks OBVIOUS
<1>4. PICK xs : xs = x.xs OBVIOUS
<1>5. Proceeds(x, q, ks, xs, after) BY <1>1, <1>3, <1>4 DEF Proceeds
<1>6. after \in StagesOf(x.op) /\ after # "cands" BY <1>1, <1>2
<1>7. IsOn(x, q, ks, xs, after)
  <2>1. ks \in SUBSET Nat /\ xs \in SUBSET ks BY <1>2, <1>3, <1>4
  <2>2. QED BY <1>2, <1>5, <1>6, <2>1, ProceedsShape
<1>8. /\ q.op = x.op /\ q.ks = x.ks /\ q.stage = after /\ q.xs = x.xs /\ q.user = x.user
      /\ q.target = x.target /\ ShapeOK(q) /\ q.parts = {} /\ q.fresh = {} /\ q.comp = {}
  BY <1>3, <1>4, <1>7 DEF IsOn
<1>9. UserOK(q)' BY <1>1, <1>8, EmptyUser
<1>10. overlap \subseteq overlap' BY OverlapKept
<1>11. \A k \in cands' : k.id \in x.ks => Mine(x, k) BY <1>1, <1>2 DEF DeleteOK, Mine
<1>12. \A k : Mine(q, k) <=> Mine(x, k) BY <1>8 DEF Mine
<1>13. DeleteOK(q)'
  <2>1. q.target \notin overlap' => Alone(x) BY <1>8, <1>10 DEF Alone
  <2>2. QED BY <1>1, <1>8, <1>11, <1>12, <2>1 DEF DeleteOK, Alone, Among, Mine
<1>14. PICK N : N = {} OBVIOUS
<1>15. Prunes(N) BY <1>1, <1>14, NothingPruned
<1>16. Ids({}) = {} BY DEF Ids
<1>17. LostRows BY <1>1, <1>16 DEF LostRows
<1>18. Removes(r, x, q) BY <1>1, <1>2, <1>8 DEF Removes
<1>19. QED BY <1>9, <1>13, <1>15, <1>17, <1>18, RemovalKeeps

(* One kind of rows, removed or refused.                                   *)
LEMMA DeleteLayerStep ==
  ASSUME LibraryInv, LibraryNext, NEW r \in Reqs, NEW x, x = req[r], NEW layer \in 1 .. 3, NEW ids,
         NEW after \in {"layer2", "layer1", "layer0"}, DeleteLayer(r, layer, ids, after)
  PROVE  \/ LibraryInv'
         \/ \E q : /\ Lowers(r, x, q, after)
                   /\ \A k \in cands' : \E y \in cands :
                        /\ y.id = k.id /\ y.user = k.user /\ y.refs = k.refs
                        /\ k.layer <= y.layer /\ y.layer \in 0 .. 3 /\ k.layer \in 0 .. 3
                        /\ k.id \in ids => k.layer <= layer - 1
<1>1. Deletes(r) /\ UNCHANGED <<defs, comps, audits, next, pruned, void>> BY DEF DeleteLayer
<1>2. CASE \E k \in Among(ids) : k.layer > layer
  <2>1. req' = Drop(r) /\ UNCHANGED rows BY <1>1, <1>2 DEF DeleteLayer, rows
  <2>2. QED BY <1>1, <2>1, DropKeeps
<1>3. CASE ~ \E k \in Among(ids) : k.layer > layer
  <2>1. req' = Goto(r, after) /\ cands' = Lower(ids, layer - 1) BY <1>3 DEF DeleteLayer
  <2>2. cands \subseteq CandType /\ \A y \in cands : y.layer \in 0 .. 3
    BY DEF LibraryInv, RecordInv, CandType
  <2>3. layer - 1 \in 0 .. 2 OBVIOUS
  <2>4. PICK below \in 0 .. 2 : below = layer - 1 BY <2>3
  <2>5. ASSUME NEW k \in cands'
        PROVE  k \in CandType
               /\ \E y \in cands : /\ y.id = k.id /\ y.user = k.user /\ y.refs = k.refs /\ k.layer <= y.layer
                                   /\ k.id \in ids => k.layer <= below
    BY <2>1, <2>2, <2>4, LowerMember
  <2>6. PICK q : q = [x EXCEPT !.ks = x.ks, !.xs = x.xs, !.stage = after] OBVIOUS
  <2>7. x \in RequestType BY <1>1, Deleting
  <2>8. q = [x EXCEPT !.stage = after] BY <2>6, <2>7 DEF RequestType
  <2>9. req' = [req EXCEPT ![r] = q] BY <2>1, <2>8 DEF Goto
  <2>10. Lowers(r, x, q, after) BY <1>1, <2>5, <2>6, <2>9 DEF Lowers
  <2>11. \A k \in cands' : k.layer \in 0 .. 3 BY <2>5 DEF CandType
  <2>12. QED BY <2>2, <2>4, <2>5, <2>10, <2>11
<1>4. QED BY <1>2, <1>3

LEMMA DeleteRankedKeeps ==
  ASSUME LibraryInv, LibraryNext, NEW r \in Reqs, DeleteRanked(r)
  PROVE  LibraryInv'
<1>1. PICK x : x = req[r] OBVIOUS
<1>2. x.stage = "layer3" /\ DeleteLayer(r, 3, x.xs, "layer2") BY <1>1 DEF DeleteRanked
<1>3. Deletes(r) BY <1>2 DEF DeleteLayer
<1>4. DeleteOK(x) /\ x.op \in Deleters BY <1>1, <1>3, Deleting
<1>5. SUFFICES ASSUME NEW q, Lowers(r, x, q, "layer2"),
                      \A k \in cands' : \E y \in cands :
                        /\ y.id = k.id /\ y.user = k.user /\ y.refs = k.refs
                        /\ k.layer <= y.layer /\ y.layer \in 0 .. 3 /\ k.layer \in 0 .. 3
                        /\ k.id \in x.xs => k.layer <= 3 - 1
               PROVE  LibraryInv'
  BY <1>1, <1>2, DeleteLayerStep
<1>6. ASSUME Alone(x), NEW k \in cands'
      PROVE  /\ Mine(x, k) => k.id \in x.ks
             /\ k.id \in x.ks => k.layer <= 2 /\ (k.layer >= 2 => k.id \in x.xs)
  <2>1. PICK y \in cands : /\ y.id = k.id /\ y.user = k.user /\ y.refs = k.refs
                           /\ k.layer <= y.layer /\ y.layer \in 0 .. 3 /\ k.layer \in 0 .. 3
                           /\ k.id \in x.xs => k.layer <= 3 - 1
    BY <1>5
  <2>2. Mine(x, y) => y.id \in x.ks BY <1>2, <1>4, <1>6 DEF DeleteOK
  <2>3. y.id \in x.ks => (y.layer >= 2 => y.id \in x.xs)
    BY <1>2, <1>4, <1>6 DEF DeleteOK, Among
  <2>4. Mine(x, k) => Mine(x, y) BY <2>1 DEF Mine
  <2>5. QED BY <2>1, <2>2, <2>3, <2>4
<1>7. QED BY <1>5, <1>6, LowersKeeps

LEMMA DeleteResultsKeeps ==
  ASSUME LibraryInv, LibraryNext, NEW r \in Reqs, DeleteResults(r)
  PROVE  LibraryInv'
<1>1. PICK x : x = req[r] OBVIOUS
<1>2. x.stage = "layer2" /\ DeleteLayer(r, 2, x.xs, "layer1") BY <1>1 DEF DeleteResults
<1>3. Deletes(r) BY <1>2 DEF DeleteLayer
<1>4. DeleteOK(x) /\ x.op \in Deleters BY <1>1, <1>3, Deleting
<1>5. SUFFICES ASSUME NEW q, Lowers(r, x, q, "layer1"),
                      \A k \in cands' : \E y \in cands :
                        /\ y.id = k.id /\ y.user = k.user /\ y.refs = k.refs
                        /\ k.layer <= y.layer /\ y.layer \in 0 .. 3 /\ k.layer \in 0 .. 3
                        /\ k.id \in x.xs => k.layer <= 2 - 1
               PROVE  LibraryInv'
  BY <1>1, <1>2, DeleteLayerStep
<1>6. ASSUME Alone(x), NEW k \in cands'
      PROVE  (Mine(x, k) => k.id \in x.ks) /\ (k.id \in x.ks => k.layer <= 1)
  <2>1. PICK y \in cands : /\ y.id = k.id /\ y.user = k.user /\ y.refs = k.refs
                           /\ k.layer <= y.layer /\ y.layer \in 0 .. 3 /\ k.layer \in 0 .. 3
                           /\ k.id \in x.xs => k.layer <= 2 - 1
    BY <1>5
  <2>2. Mine(x, y) => y.id \in x.ks BY <1>2, <1>4, <1>6 DEF DeleteOK
  <2>3. y.id \in x.ks => y.layer <= 2 /\ (y.layer >= 2 => y.id \in x.xs)
    BY <1>2, <1>4, <1>6 DEF DeleteOK, Among
  <2>4. Mine(x, k) => Mine(x, y) BY <2>1 DEF Mine
  <2>5. QED BY <2>1, <2>2, <2>3, <2>4
<1>7. QED BY <1>5, <1>6, LowersKeeps

LEMMA DeleteAttemptsKeeps ==
  ASSUME LibraryInv, LibraryNext, NEW r \in Reqs, DeleteAttempts(r)
  PROVE  LibraryInv'
<1>1. PICK x : x = req[r] OBVIOUS
<1>2. x.stage = "layer1" /\ DeleteLayer(r, 1, x.ks, "layer0") BY <1>1 DEF DeleteAttempts
<1>3. Deletes(r) BY <1>2 DEF DeleteLayer
<1>4. DeleteOK(x) /\ x.op \in Deleters BY <1>1, <1>3, Deleting
<1>5. SUFFICES ASSUME NEW q, Lowers(r, x, q, "layer0"),
                      \A k \in cands' : \E y \in cands :
                        /\ y.id = k.id /\ y.user = k.user /\ y.refs = k.refs
                        /\ k.layer <= y.layer /\ y.layer \in 0 .. 3 /\ k.layer \in 0 .. 3
                        /\ k.id \in x.ks => k.layer <= 1 - 1
               PROVE  LibraryInv'
  BY <1>1, <1>2, DeleteLayerStep
<1>6. ASSUME Alone(x), NEW k \in cands'
      PROVE  (Mine(x, k) => k.id \in x.ks) /\ (k.id \in x.ks => k.layer = 0)
  <2>1. PICK y \in cands : /\ y.id = k.id /\ y.user = k.user /\ y.refs = k.refs
                           /\ k.layer <= y.layer /\ y.layer \in 0 .. 3 /\ k.layer \in 0 .. 3
                           /\ k.id \in x.ks => k.layer <= 1 - 1
    BY <1>5
  <2>2. Mine(x, y) => y.id \in x.ks BY <1>2, <1>4, <1>6 DEF DeleteOK
  <2>3. Mine(x, k) => Mine(x, y) BY <2>1 DEF Mine
  <2>4. QED BY <2>1, <2>2, <2>3
<1>7. QED BY <1>5, <1>6, LowersKeeps

LEMMA DeleteCandidatesKeeps ==
  ASSUME LibraryInv, LibraryNext, NEW r \in Reqs, DeleteCandidates(r)
  PROVE  LibraryInv'
<1>1. PICK x : x = req[r] OBVIOUS
<1>2. /\ x.stage = "layer0" /\ Deletes(r) /\ UNCHANGED <<defs, comps, audits, next, pruned, void>>
      /\ IF \E k \in Among(x.ks) : k.layer > 0
         THEN req' = Drop(r) /\ UNCHANGED cands
         ELSE req' = Goto(r, "audits") /\ cands' = cands \ Among(x.ks)
  BY <1>1 DEF DeleteCandidates
<1>3. DeleteOK(x) /\ x.op \in Deleters /\ x \in RequestType BY <1>1, <1>2, Deleting
<1>4. CASE \E k \in Among(x.ks) : k.layer > 0
  <2>1. UNCHANGED rows BY <1>2, <1>4 DEF rows
  <2>2. QED BY <1>2, <1>4, <2>1, DropKeeps
<1>5. CASE ~ \E k \in Among(x.ks) : k.layer > 0
  <2>1. PICK q : q = [x EXCEPT !.ks = x.ks, !.xs = x.xs, !.stage = "audits"] OBVIOUS
  <2>2. q = [x EXCEPT !.stage = "audits"] BY <1>3, <2>1 DEF RequestType
  <2>3. req' = [req EXCEPT ![r] = q] BY <1>1, <1>2, <1>5, <2>2 DEF Goto
  <2>4. cands' = cands \ Among(x.ks) BY <1>2, <1>5
  <2>5. \A k \in cands' : k \in cands /\ k \in CandType /\ k.layer <= k.layer
    BY <2>4 DEF LibraryInv, RecordInv, CandType
  <2>6. Lowers(r, x, q, "audits") BY <1>1, <1>2, <2>1, <2>3, <2>5 DEF Lowers
  <2>7. Alone(x) => \A k \in cands' : ~Mine(x, k)
    BY <1>2, <1>3, <2>4 DEF DeleteOK, Among
  <2>8. QED BY <2>6, <2>7, LowersKeeps
<1>6. QED BY <1>4, <1>5

LEMMA DeleteAuditsKeeps ==
  ASSUME LibraryInv, LibraryNext, NEW r \in Reqs, DeleteAudits(r)
  PROVE  LibraryInv'
<1>1. PICK x : x = req[r] OBVIOUS
<1>2. PICK then : then = IF x.op = "delete" THEN "comps" ELSE "row" OBVIOUS
<1>3. /\ x.stage = "audits" /\ Deletes(r) /\ req' = Goto(r, then)
      /\ UNCHANGED <<defs, comps, cands, next, pruned, void>>
      /\ audits' = audits \ AuditsOf(x)
  BY <1>1, <1>2 DEF DeleteAudits
<1>4. /\ ShapeOK(x) /\ DeleteOK(x) /\ x \in RequestType /\ x.op \in Deleters
      /\ x.ks \in SUBSET Nat /\ x.xs \in SUBSET x.ks /\ x.ks \subseteq CandNames
  BY <1>1, <1>3, Deleting
<1>5. then \in StagesOf(x.op) /\ then # "cands" /\ (x.op = "delete" => then = "comps")
      /\ then \in {"comps", "row"}
  BY <1>2, <1>4 DEF StagesOf, Deleters
<1>6. PICK ks, xs : ks = x.ks /\ xs = x.xs OBVIOUS
<1>7. PICK q : q = [x EXCEPT !.ks = ks, !.xs = xs, !.stage = then] OBVIOUS
<1>8. q = [x EXCEPT !.stage = then] BY <1>4, <1>6, <1>7 DEF RequestType
<1>9. req' = [req EXCEPT ![r] = q] BY <1>1, <1>3, <1>8 DEF Goto
<1>10. IsOn(x, q, ks, xs, then)
  <2>1. ks \in SUBSET Nat /\ xs \in SUBSET ks BY <1>4, <1>6
  <2>2. Proceeds(x, q, ks, xs, then) BY <1>7 DEF Proceeds
  <2>3. QED BY <1>4, <1>5, <2>1, <2>2, ProceedsShape
<1>11. /\ q.op = x.op /\ q.ks = x.ks /\ q.stage = then /\ q.user = x.user
       /\ q.target = x.target /\ ShapeOK(q) /\ q.parts = {} /\ q.fresh = {} /\ q.comp = {}
  BY <1>6, <1>10 DEF IsOn
<1>12. cands' \subseteq CandType /\ \A k \in cands' : k \in cands /\ k.layer <= k.layer
  BY <1>3 DEF LibraryInv, RecordInv, CandType
<1>13. Removes(r, x, q) BY <1>1, <1>3, <1>4, <1>9, <1>11, <1>12 DEF Removes
<1>14. PICK N : N = {} OBVIOUS
<1>15. Prunes(N) BY <1>3, <1>14, NothingPruned
<1>16. Ids({}) = {} BY DEF Ids
<1>17. LostRows BY <1>3, <1>16 DEF LostRows
<1>18. UserOK(q)' BY <1>5, <1>11, EmptyUser
<1>19. DeleteOK(q)'
  <2>1. q.target \notin overlap' => Alone(x) BY <1>11, OverlapKept DEF Alone
  <2>2. Alone(x) => \A k \in cands : ~Mine(x, k) BY <1>3, <1>4 DEF DeleteOK
  <2>3. \A k \in cands : k.id \in x.ks => Mine(x, k) BY <1>4 DEF DeleteOK
  <2>4. AuditsOf(q)' = {} BY <1>3, <1>11 DEF AuditsOf
  <2>5. QED BY <1>3, <1>5, <1>11, <2>1, <2>2, <2>3, <2>4 DEF DeleteOK, Alone, Mine, AuditsOf
<1>20. QED BY <1>13, <1>15, <1>17, <1>18, <1>19, RemovalKeeps

LEMMA DeleteMentionsKeeps ==
  ASSUME LibraryInv, LibraryNext, NEW r \in Reqs, DeleteMentions(r)
  PROVE  LibraryInv'
<1>1. PICK x : x = req[r] OBVIOUS
<1>2. /\ x.stage = "comps" /\ Deletes(r) /\ UNCHANGED <<defs, audits, cands, next, pruned, void>>
      /\ IF \E a \in audits : a.out \in Ids(Mentions(x))
         THEN req' = Drop(r) /\ UNCHANGED comps
         ELSE comps' = comps \ Mentions(x) /\ req' = Goto(r, "row")
  BY <1>1 DEF DeleteMentions
<1>3. /\ ShapeOK(x) /\ DeleteOK(x) /\ x \in RequestType /\ x.op \in Deleters
      /\ x.ks \in SUBSET Nat /\ x.xs \in SUBSET x.ks /\ x.ks \subseteq CandNames
      /\ "row" \in StagesOf(x.op)
  BY <1>1, <1>2, Deleting
<1>4. x.op = "delete" BY <1>2, <1>3, StageOp
<1>5. CASE \E a \in audits : a.out \in Ids(Mentions(x))
  <2>1. UNCHANGED rows BY <1>2, <1>5 DEF rows
  <2>2. QED BY <1>2, <1>5, <2>1, DropKeeps
<1>6. CASE ~ \E a \in audits : a.out \in Ids(Mentions(x))
  <2>1. comps' = comps \ Mentions(x) /\ req' = Goto(r, "row") BY <1>2, <1>6
  <2>2. PICK ks, xs : ks = x.ks /\ xs = x.xs OBVIOUS
  <2>3. PICK q : q = [x EXCEPT !.ks = ks, !.xs = xs, !.stage = "row"] OBVIOUS
  <2>4. q = [x EXCEPT !.stage = "row"] BY <1>3, <2>2, <2>3 DEF RequestType
  <2>5. req' = [req EXCEPT ![r] = q] BY <1>1, <2>1, <2>4 DEF Goto
  <2>6. IsOn(x, q, ks, xs, "row")
    <3>1. ks \in SUBSET Nat /\ xs \in SUBSET ks BY <1>3, <2>2
    <3>2. Proceeds(x, q, ks, xs, "row") BY <2>3 DEF Proceeds
    <3>3. QED BY <1>3, <3>1, <3>2, ProceedsShape
  <2>7. /\ q.op = x.op /\ q.ks = x.ks /\ q.stage = "row" /\ q.user = x.user
        /\ q.target = x.target /\ ShapeOK(q) /\ q.parts = {} /\ q.fresh = {} /\ q.comp = {}
    BY <2>2, <2>6 DEF IsOn
  <2>8. cands' \subseteq CandType /\ \A k \in cands' : k \in cands /\ k.layer <= k.layer
    BY <1>2 DEF LibraryInv, RecordInv, CandType
  <2>9. Removes(r, x, q) BY <1>1, <1>2, <1>3, <2>1, <2>5, <2>7, <2>8 DEF Removes
  <2>10. PICK N : N = {} OBVIOUS
  <2>11. Prunes(N) BY <1>2, <2>10, NothingPruned
  <2>12. LostRows
    <3>1. Ids({}) = {} BY DEF Ids
    <3>2. comps \ comps' \subseteq Mentions(x) BY <2>1
    <3>3. \A a \in audits : a.out \notin Ids(comps \ comps') BY <1>6, <3>2 DEF Ids
    <3>4. QED BY <1>1, <1>2, <1>3, <1>4, <3>1, <3>2, <3>3 DEF LostRows, Mentions
  <2>13. UserOK(q)' BY <2>7, EmptyUser
  <2>14. DeleteOK(q)'
    <3>1. q.target \notin overlap' => Alone(x) BY <2>7, OverlapKept DEF Alone
    <3>2. Alone(x) => (\A k \in cands : ~Mine(x, k)) /\ AuditsOf(x) = {} BY <1>2, <1>3, <1>4 DEF DeleteOK
    <3>3. \A k \in cands : k.id \in x.ks => Mine(x, k) BY <1>3 DEF DeleteOK
    <3>4. Mentions(q)' = {} BY <2>1, <2>7 DEF Mentions
    <3>5. AuditsOf(q)' = AuditsOf(x) BY <1>2, <2>7 DEF AuditsOf
    <3>6. QED BY <1>2, <2>7, <3>1, <3>2, <3>3, <3>4, <3>5 DEF DeleteOK, Alone, Mine, AuditsOf, Mentions
  <2>15. QED BY <2>9, <2>11, <2>12, <2>13, <2>14, RemovalKeeps
<1>7. QED BY <1>5, <1>6

LEMMA DeleteRowKeeps ==
  ASSUME LibraryInv, LibraryNext, NEW r \in Reqs, DeleteRow(r)
  PROVE  LibraryInv'
<1>1. PICK x : x = req[r] OBVIOUS
<1>2. PICK d : d = {y \in defs : y.id = x.target /\ y.user = x.user} OBVIOUS
<1>3. PICK c : c = {y \in comps : y.id = x.target /\ y.user = x.user} OBVIOUS
<1>4. /\ x.stage = "row" /\ Deletes(r) /\ req' = Drop(r) /\ UNCHANGED <<audits, cands, next, void>>
      /\ IF \E a \in audits : a.out \in Ids(d \cup c)
         THEN UNCHANGED <<defs, comps, pruned>>
         ELSE /\ defs' = defs \ d /\ comps' = comps \ c
              /\ pruned' = pruned \cup {<<y.user, y.fam>> : y \in d}
  BY <1>1, <1>2, <1>3 DEF DeleteRow
<1>5. CASE \E a \in audits : a.out \in Ids(d \cup c)
  <2>1. UNCHANGED <<rows, next, pruned>> BY <1>4, <1>5 DEF rows
  <2>2. QED BY <1>4, <2>1, DropKeeps
<1>6. CASE ~ \E a \in audits : a.out \in Ids(d \cup c)
  <2>1. comps' = comps \ c /\ defs' = defs \ d BY <1>4, <1>6
  <2>2. Prunes(d) BY <1>4, <1>6 DEF Prunes
  <2>3. PICK q : q = Idle OBVIOUS
  <2>4. ShapeOK(q) /\ UserOK(q)' /\ DeleteOK(q)' BY <2>3, IdleOK
  <2>5. q.op = "idle" /\ q.parts = {} /\ q.fresh = {} /\ q.comp = {} /\ q.ks = {} BY <2>3 DEF Idle
  <2>6. req' = [req EXCEPT ![r] = q] BY <1>4, <2>3 DEF Drop
  <2>7. cands' \subseteq CandType /\ \A k \in cands' : k \in cands /\ k.layer <= k.layer
    BY <1>4 DEF LibraryInv, RecordInv, CandType
  <2>8. Removes(r, x, q) BY <1>1, <1>4, <2>1, <2>4, <2>5, <2>6, <2>7 DEF Removes
  <2>9. LostRows
    <3>1. x.op \in Deleters BY <1>1, <1>4, Deleting
    <3>2. defs \ defs' \subseteq d /\ comps \ comps' \subseteq c BY <2>1
    <3>3. \A a \in audits : a.out \notin Ids(defs \ defs') \cup Ids(comps \ comps')
      BY <1>6, <3>2 DEF Ids
    <3>4. QED BY <1>1, <1>2, <1>3, <1>4, <3>1, <3>2, <3>3 DEF LostRows
  <2>10. QED BY <2>2, <2>4, <2>8, <2>9, RemovalKeeps
<1>7. QED BY <1>5, <1>6

--------------------------------------------------------------------------------
(* A worker's step, and a step that changes nothing.                       *)
LEMMA WorkKeeps ==
  ASSUME LibraryInv, LibraryNext, NEW k \in cands, Work(k)
  PROVE  LibraryInv'
<1>1. PICK w : w = [k EXCEPT !.layer = @ + 1] OBVIOUS
<1>2. /\ k.layer < 3 /\ cands' = (cands \ {k}) \cup {w}
      /\ UNCHANGED <<defs, comps, audits, req, next, pruned, void>>
  BY <1>1 DEF Work
<1>3. k \in CandType /\ cands \subseteq CandType BY DEF LibraryInv, RecordInv
<1>4. w \in CandType /\ w.id = k.id /\ w.user = k.user /\ w.refs = k.refs /\ w.layer > k.layer
  BY <1>1, <1>2, <1>3 DEF CandType
<1>5. k \notin cands'
  <2>1. w # k BY <1>3, <1>4 DEF CandType
  <2>2. QED BY <1>2, <2>1
<1>6. cands' \subseteq CandType BY <1>2, <1>3, <1>4
<1>7. ASSUME NEW y \in cands'
      PROVE  \E x \in cands : /\ x.id = y.id /\ x.user = y.user /\ x.refs = y.refs
                              /\ y.layer <= x.layer \/ (y.layer > x.layer /\ x \notin cands')
  <2>1. CASE y = w BY <1>4, <1>5, <2>1
  <2>2. CASE y \in cands
    <3>1. y.layer <= y.layer BY <1>3, <2>2 DEF CandType
    <3>2. QED BY <2>2, <3>1
  <2>3. QED BY <1>2, <2>1, <2>2
<1>8. RecordInv' BY <1>2, <1>6, <1>7, WorkedRecord DEF LibraryInv
<1>9. Ids({}) = {} BY DEF Ids
<1>10. LostRows BY <1>2, <1>9 DEF LostRows
<1>11. NewRows BY <1>2, <1>7 DEF NewRows
<1>12. Accounted BY <1>10, <1>11 DEF Accounted
<1>13. DefRecs' = DefRecs /\ CompRecs' = CompRecs BY <1>2 DEF DefRecs, CompRecs
<1>14. HistoryInv' BY <1>2, <1>13, HistoryPrepared DEF LibraryInv
<1>15. ShapeInv'
  <2>1. \A s \in Reqs : ShapeOK(req'[s]) BY <1>2 DEF LibraryInv, ShapeInv
  <2>2. \A s \in Reqs : ShapeOK(req[s])' BY <2>1 DEF ShapeOK
  <2>3. QED BY <1>2, <2>2 DEF LibraryInv, ShapeInv
<1>16. PartsInv' BY <1>12, PartsKept DEF LibraryInv
<1>17. RefsInv' BY <1>12, <1>13, RefsKept DEF LibraryInv
<1>18. AuditInv' BY <1>2, <1>12, AuditKept, DefRecMember DEF LibraryInv
<1>19. ASSUME NEW s \in Reqs PROVE UserOK(req[s])' /\ DeleteOK(req[s])'
  <2>1. PICK x : x = req[s] OBVIOUS
  <2>2. UserOK(x) /\ DeleteOK(x) BY <2>1 DEF LibraryInv, RequestInv
  <2>3. UserOK(x)' BY <1>12, <1>13, <2>1, <2>2, UserKept DEF LibraryInv
  <2>4. DeleteOK(x)' BY <1>6, <1>12, <2>1, <2>2, DeleteKept DEF LibraryInv
  <2>5. x = req'[s] BY <1>2, <2>1
  <2>6. QED BY <2>3, <2>4, <2>5 DEF UserOK, DeleteOK, Owned, Alone, Mine, Among, AuditsOf, Mentions
<1>20. RequestInv' BY <1>19 DEF RequestInv
<1>21. QED BY <1>8, <1>14, <1>15, <1>16, <1>17, <1>18, <1>20 DEF LibraryInv

LEMMA StutterKeeps ==
  ASSUME LibraryInv, UNCHANGED libraryVars
  PROVE  LibraryInv'
<1>1. UNCHANGED <<defs, comps, audits, cands, req, next, pruned, void, overlap>>
  BY DEF libraryVars
<1>2. ShapeInv' BY <1>1 DEF LibraryInv, ShapeInv, ShapeOK
<1>3. DefRecs' = DefRecs /\ CompRecs' = CompRecs BY <1>1 DEF DefRecs, CompRecs
<1>4. DefNames' = DefNames /\ CompNames' = CompNames /\ CandNames' = CandNames /\ Issued' = Issued
  BY <1>1, <1>3 DEF DefNames, CompNames, CandNames, Issued, Ids
<1>5. RecordInv' BY <1>1, <1>3, <1>4 DEF LibraryInv, RecordInv
<1>6. HistoryInv'
  <2>1. \A d \in DefRecs' : d \in DefRecs BY <1>3
  <2>2. QED BY <1>1, <2>1, HistoryPrepared DEF LibraryInv
<1>7. PartsInv' BY <1>1 DEF LibraryInv, PartsInv, Owned
<1>8. RefsInv' BY <1>1, <1>3 DEF LibraryInv, RefsInv, Here, Owned
<1>9. AuditInv' BY <1>1 DEF LibraryInv, AuditInv, Present, Ids
<1>10. ASSUME NEW s \in Reqs PROVE UserOK(req[s])' /\ DeleteOK(req[s])'
  <2>1. UserOK(req[s]) /\ DeleteOK(req[s]) BY DEF LibraryInv, RequestInv
  <2>2. UserOK(req[s])' BY <1>1, <1>3, <2>1 DEF UserOK, Owned
  <2>3. DeleteOK(req[s])' BY <1>1, <2>1 DEF DeleteOK, Alone, Mine, Among, AuditsOf, Mentions
  <2>4. QED BY <2>2, <2>3
<1>11. RequestInv' BY <1>10 DEF RequestInv
<1>12. QED BY <1>2, <1>5, <1>6, <1>7, <1>8, <1>9, <1>11 DEF LibraryInv

--------------------------------------------------------------------------------
(* The invariant.                                                          *)
LEMMA LibraryInitInv == LibraryInit => LibraryInv
<1> SUFFICES ASSUME LibraryInit PROVE LibraryInv OBVIOUS
<1>1. /\ defs = {} /\ comps = {} /\ audits = {} /\ cands = {} /\ next = 1
      /\ pruned = {} /\ void = {} /\ DOMAIN req = Reqs /\ \A r \in Reqs : req[r] = Idle
  BY DEF LibraryInit
<1>2. \A r \in Reqs : ShapeOK(req[r])
  BY <1>1, IdleShape
<1>3. ShapeInv BY <1>1, <1>2 DEF ShapeInv
<1>4. /\ Idle.op = "idle" /\ Idle.parts = {} /\ Idle.fresh = {} /\ Idle.comp = {} /\ Idle.ks = {}
  BY DEF Idle
<1>5. DefRecs = {} /\ CompRecs = {}
  <2>1. \A d : d \notin DefRecs BY <1>1, <1>4, DefRecMember
  <2>2. \A c : c \notin CompRecs BY <1>1, <1>4, CompRecMember
  <2>3. QED BY <2>1, <2>2
<1>6. DefNames = {} /\ CompNames = {} /\ CandNames = {}
  <2>1. \A id : id \notin DefNames BY <1>1, <1>4, <1>5, DefNameMember
  <2>2. \A id : id \notin CompNames BY <1>1, <1>4, <1>5, CompNameMember
  <2>3. \A id : id \notin CandNames BY <1>1, <1>4, CandNameMember
  <2>4. QED BY <2>1, <2>2, <2>3
<1>7. next \in 1 .. (MaxIds + 1) BY <1>1, LibraryAssumption
<1>8. RecordInv BY <1>1, <1>4, <1>5, <1>6, <1>7 DEF RecordInv
<1>9. HistoryInv BY <1>1, <1>5 DEF HistoryInv
<1>10. PartsInv /\ RefsInv /\ AuditInv BY <1>1 DEF PartsInv, RefsInv, AuditInv
<1>11. RequestInv
  <2>1. SUFFICES ASSUME NEW r \in Reqs PROVE UserOK(req[r]) /\ DeleteOK(req[r]) BY DEF RequestInv
  <2>2. req[r].op = "idle" /\ req[r].parts = {} BY <1>1, <1>4
  <2>3. QED BY <2>2 DEF UserOK, DeleteOK, Deleters
<1>12. QED BY <1>3, <1>8, <1>9, <1>10, <1>11 DEF LibraryInv

LEMMA LibraryStepInv == LibraryInv /\ [LibraryNext]_libraryVars => LibraryInv'
<1> SUFFICES ASSUME LibraryInv, [LibraryNext]_libraryVars PROVE LibraryInv' OBVIOUS
<1>1. CASE UNCHANGED libraryVars BY <1>1, StutterKeeps
<1>2. CASE LibraryNext
  <2>1. CASE \E k \in cands : Work(k) BY <1>2, <2>1, WorkKeeps
  <2>2. ASSUME NEW r \in Reqs,
               \/ Define(r) \/ Compose(r) \/ Generate(r) \/ Submit(r)
               \/ DeleteDefinition(r) \/ DeleteComposite(r)
        PROVE  LibraryInv'
    BY <1>2, <2>2, DefineKeeps, ComposeKeeps, GenerateKeeps, SubmitKeeps, DeleteDefinitionKeeps,
       DeleteCompositeKeeps
  <2>3. ASSUME NEW r \in Reqs,
               \/ LoadSource(r) \/ ModelAnswers(r) \/ Prepare(r) \/ CheckPart(r) \/ PrepareComposite(r)
               \/ InsertRow(r) \/ CommitGeneration(r) \/ Answer(r)
               \/ ReadForSubmit(r) \/ InsertCandidate(r)
        PROVE  LibraryInv'
    BY <1>2, <2>3, LoadSourceKeeps, ModelAnswersKeeps, PrepareKeeps, CheckPartKeeps,
       PrepareCompositeKeeps, InsertRowKeeps, CommitGenerationKeeps, AnswerKeeps,
       ReadForSubmitKeeps, InsertCandidateKeeps
  <2>4. ASSUME NEW r \in Reqs,
               \/ SelectCandidates(r) \/ SelectResults(r) \/ DeleteRanked(r) \/ DeleteResults(r)
               \/ DeleteAttempts(r) \/ DeleteCandidates(r) \/ DeleteAudits(r) \/ DeleteMentions(r)
               \/ DeleteRow(r)
        PROVE  LibraryInv'
    BY <1>2, <2>4, SelectCandidatesKeeps, SelectResultsKeeps, DeleteRankedKeeps, DeleteResultsKeeps,
       DeleteAttemptsKeeps, DeleteCandidatesKeeps, DeleteAuditsKeeps, DeleteMentionsKeeps, DeleteRowKeeps
  <2>5. QED BY <1>2, <2>1, <2>2, <2>3, <2>4 DEF LibraryNext, RequestStep
<1>3. QED BY <1>1, <1>2

(* A row's ids, owners and stages are in order in every state of any       *)
(* library: the invariant the other theorems rest on.                      *)
LEMMA LibraryAlwaysInv == LibrarySpec => []LibraryInv
BY LibraryInitInv, LibraryStepInv, PTL DEF LibrarySpec

--------------------------------------------------------------------------------
(* Versions are counted: a set of rows and its set of versions are of one  *)
(* size, and versions without a gap are 1, 2, ... n.                       *)
LEMMA SameSize ==
  ASSUME NEW S, NEW T, IsFiniteSet(T), NEW g \in [T -> S],
         \A a, b \in T : g[a] = g[b] => a = b, \A s \in S : \E t \in T : g[t] = s
  PROVE  IsFiniteSet(S) /\ Cardinality(S) = Cardinality(T)
<1>1. g \in Bijection(T, S) BY DEF Bijection, Injection, Surjection, IsInjective
<1>2. ExistsBijection(T, S) BY <1>1 DEF ExistsBijection
<1>3. QED BY <1>2, FS_Bijection

LEMMA NoGaps ==
  ASSUME NEW n \in Nat, NEW V \in SUBSET (1 .. n), \A v \in V : 1 .. (v - 1) \subseteq V
  PROVE  \E m \in Nat : V = 1 .. m /\ IsFiniteSet(V) /\ Cardinality(V) = m
<1>1. {0} \cup V \in SUBSET (0 .. n) OBVIOUS
<1>2. PICK m : m \in {0} \cup V /\ \A y \in {0} \cup V : m >= y BY <1>1, MaxIsIn
<1>3. m \in 0 .. n BY <1>1, <1>2
<1>4. V \subseteq 1 .. m BY <1>2, <1>3
<1>5. 1 .. m \subseteq V
  <2>1. CASE m = 0
    <3>1. 1 .. m = {} BY <2>1
    <3>2. QED BY <3>1
  <2>2. CASE m # 0
    <3>1. m \in V /\ 1 .. (m - 1) \subseteq V BY <1>2, <2>2
    <3>2. \A v \in 1 .. m : v = m \/ v \in 1 .. (m - 1) BY <1>3
    <3>3. QED BY <3>1, <3>2
  <2>3. QED BY <2>1, <2>2
<1>6. IsFiniteSet(1 .. m) /\ Cardinality(1 .. m) = m
  <2>1. m \in Int /\ 1 \in Int /\ m >= 0 BY <1>3
  <2>2. IsFiniteSet(1 .. m) /\ Cardinality(1 .. m) = IF 1 > m THEN 0 ELSE m - 1 + 1
    BY <2>1, FS_Interval
  <2>3. 1 > m => m = 0 BY <2>1
  <2>4. m - 1 + 1 = m BY <2>1
  <2>5. QED BY <2>2, <2>3, <2>4
<1>7. V = 1 .. m BY <1>4, <1>5
<1>8. QED BY <1>3, <1>6, <1>7

LEMMA HistoryCounts ==
  ASSUME RecordInv, HistoryInv, NEW u, NEW f, <<u, f>> \notin pruned
  PROVE  /\ {d.ver : d \in Prior(u, f)} = 1 .. Cardinality(Prior(u, f))
         /\ \A d, e \in Prior(u, f) : d.content = e.content => d = e
<1>1. PICK S : S = Prior(u, f) OBVIOUS
<1>2. PICK V : V = {d.ver : d \in S} OBVIOUS
<1>3. PICK n \in Nat : n = next - 1 BY VersionBounds
<1>4. \A d \in S : /\ d \in defs /\ d.user = u /\ d.fam = f /\ d.ver \in 1 .. n
  BY <1>1, <1>3, VersionBounds, DefRecMember DEF Prior
<1>5. \A d \in S : Follows(d) BY <1>4, DefRecMember DEF HistoryInv
<1>6. V \in SUBSET (1 .. n) BY <1>2, <1>4
<1>7. ASSUME NEW v \in V PROVE 1 .. (v - 1) \subseteq V
  <2>1. PICK d \in S : d.ver = v BY <1>2, <1>7
  <2>2. \A w \in 1 .. (v - 1) : \E x \in S : x.ver = w BY <1>1, <1>4, <1>5, <2>1 DEF Follows
  <2>3. QED BY <1>2, <2>2
<1>8. PICK m \in Nat : V = 1 .. m /\ IsFiniteSet(V) /\ Cardinality(V) = m BY <1>6, <1>7, NoGaps
<1>9. Cardinality(S) = m
  <2>1. PICK g : g = [v \in V |-> CHOOSE d \in S : d.ver = v] OBVIOUS
  <2>2. ASSUME NEW v \in V PROVE g[v] \in S /\ g[v].ver = v
    <3>1. \E d \in S : d.ver = v BY <1>2
    <3>2. QED BY <2>1, <3>1
  <2>3. \A d, e \in S : d.ver = e.ver => d = e BY <1>4 DEF HistoryInv
  <2>4. g \in [V -> S] BY <2>1, <2>2
  <2>5. \A a, b \in V : g[a] = g[b] => a = b BY <2>2
  <2>6. ASSUME NEW d \in S PROVE \E v \in V : g[v] = d
    <3>1. d.ver \in V BY <1>2
    <3>2. QED BY <2>2, <2>3, <3>1
  <2>7. IsFiniteSet(V) /\ Cardinality(V) = m BY <1>8
  <2>8. Cardinality(S) = Cardinality(V) BY <2>4, <2>5, <2>6, <2>7, SameSize
  <2>9. QED BY <2>7, <2>8
<1>10. ASSUME NEW d \in S, NEW e \in S, d.content = e.content PROVE d = e
  <2>1. d.ver \in Nat /\ e.ver \in Nat BY <1>4
  <2>2. ~(d.ver < e.ver) /\ ~(e.ver < d.ver) BY <1>1, <1>4, <1>5, <1>10 DEF Follows
  <2>3. d.ver = e.ver BY <2>1, <2>2
  <2>4. QED BY <1>4, <2>3 DEF HistoryInv
<1>11. QED BY <1>1, <1>2, <1>8, <1>9, <1>10

LEMMA NamesAreCounted ==
  ASSUME RecordInv
  PROVE  /\ Cardinality(Ids(defs)) + Cardinality(Ids(comps)) + Cardinality(Ids(cands))
              = Cardinality(Present \cup Ids(cands))
         /\ Cardinality(defs) = Cardinality(Ids(defs))
<1>1. PICK A, B, C : A = Ids(defs) /\ B = Ids(comps) /\ C = Ids(cands) OBVIOUS
<1>2. A \subseteq DefNames BY <1>1, DefRecMember, DefNameMember DEF Ids
<1>3. B \subseteq CompNames BY <1>1, CompRecMember, CompNameMember DEF Ids
<1>4. C \subseteq CandNames BY <1>1, CandNameMember DEF Ids
<1>5. A \cap B = {} /\ (A \cup B) \cap C = {} BY <1>2, <1>3, <1>4 DEF RecordInv
<1>6. A \subseteq Issued /\ B \subseteq Issued /\ C \subseteq Issued
  BY <1>2, <1>3, <1>4 DEF RecordInv
<1>7. IsFiniteSet(Issued)
  <2>1. 1 \in Int /\ next - 1 \in Int BY VersionBounds
  <2>2. QED BY <2>1, FS_Interval DEF Issued
<1>8. IsFiniteSet(A) /\ IsFiniteSet(B) /\ IsFiniteSet(C) BY <1>6, <1>7, FS_Subset
<1>9. Cardinality(A) \in Nat /\ Cardinality(B) \in Nat /\ Cardinality(C) \in Nat
  BY <1>8, FS_CardinalityType
<1>10. Cardinality({}) = 0 BY FS_EmptySet
<1>11. IsFiniteSet(A \cup B) /\ Cardinality(A \cup B) = Cardinality(A) + Cardinality(B)
  <2>1. Cardinality(A \cup B) = Cardinality(A) + Cardinality(B) - Cardinality(A \cap B)
        /\ IsFiniteSet(A \cup B)
    BY <1>8, FS_Union
  <2>2. Cardinality(A \cap B) = 0 BY <1>5, <1>10, Zenon
  <2>3. QED BY <1>9, <2>1, <2>2
<1>12. Cardinality((A \cup B) \cup C) = Cardinality(A) + Cardinality(B) + Cardinality(C)
  <2>1. Cardinality((A \cup B) \cup C) = Cardinality(A \cup B) + Cardinality(C) - Cardinality((A \cup B) \cap C)
    BY <1>8, <1>11, FS_Union
  <2>2. Cardinality((A \cup B) \cap C) = 0 BY <1>5, <1>10, Zenon
  <2>3. QED BY <1>9, <1>11, <2>1, <2>2
<1>13. Cardinality(defs) = Cardinality(A)
  <2>1. PICK g : g = [i \in A |-> CHOOSE d \in defs : d.id = i] OBVIOUS
  <2>2. ASSUME NEW i \in A PROVE g[i] \in defs /\ g[i].id = i
    <3>1. \E d \in defs : d.id = i BY <1>1 DEF Ids
    <3>2. QED BY <2>1, <3>1
  <2>3. \A d, e \in defs : d.id = e.id => d = e BY OneRecord, DefRecMember
  <2>4. g \in [A -> defs] BY <2>1, <2>2
  <2>5. \A a, b \in A : g[a] = g[b] => a = b BY <2>2
  <2>6. ASSUME NEW d \in defs PROVE \E i \in A : g[i] = d
    <3>1. d.id \in A BY <1>1 DEF Ids
    <3>2. QED BY <2>2, <2>3, <3>1
  <2>7. QED BY <1>8, <2>4, <2>5, <2>6, SameSize
<1>14. QED BY <1>1, <1>12, <1>13 DEF Present

(* The invariant says what the library promises.                           *)
LEMMA InvIsSound == LibraryInv => LibraryIsSound
<1> SUFFICES ASSUME LibraryInv PROVE LibraryIsSound OBVIOUS
<1>1. MaxIds \in Nat /\ next \in 1 .. (MaxIds + 1) BY LibraryAssumption DEF LibraryInv, RecordInv
<1>2. \A id, v : id \in Issued /\ v \in 1 .. id => v \in 1 .. MaxIds BY <1>1 DEF Issued
<1>3. \A d \in defs : d \in DefType /\ d.id \in Issued /\ d.ver \in 1 .. d.id
  BY DefRecMember, DefNameMember DEF LibraryInv, RecordInv
<1>4. \A c \in comps : c \in CompType /\ c.id \in Issued /\ c.ver \in 1 .. c.id /\ c.parts # {}
  BY CompRecMember, CompNameMember DEF LibraryInv, RecordInv
<1>5. \A k \in cands : k \in CandType BY DEF LibraryInv, RecordInv
<1>6. \A r \in Reqs : req[r] \in RequestType BY DEF LibraryInv, ShapeInv, ShapeOK
<1>7. LibraryTypeOK
  <2>1. \A d \in defs : d.user \in Users /\ d.fam \in Families /\ d.ver \in 1 .. MaxIds
    BY <1>2, <1>3 DEF DefType
  <2>2. \A c \in comps : c.user \in Users /\ c.parts # {} /\ c.ver \in 1 .. MaxIds
    BY <1>2, <1>4 DEF CompType
  <2>3. \A k \in cands : k.user \in Users /\ k.layer \in 0 .. 3 BY <1>5 DEF CandType
  <2>4. \A r \in Reqs : req[r].user \in Users \cup {"none"} BY <1>6 DEF RequestType
  <2>5. QED BY <1>1, <2>1, <2>2, <2>3, <2>4, NamesAreCounted DEF LibraryTypeOK, LibraryInv
<1>8. FamilyIsAHistory BY HistoryCounts DEF FamilyIsAHistory, LibraryInv
<1>9. FailureWritesNothing BY DEF FailureWritesNothing, LibraryInv, RecordInv, Ids
<1>10. CompositeIsWhole BY DEF CompositeIsWhole, LibraryInv, PartsInv
<1>11. NoOrphanCandidate
  <2>1. \A id, u : Here(id, u) => id \in Present BY DEF Here, Owned, Present, Ids
  <2>2. QED BY <2>1 DEF NoOrphanCandidate, LibraryInv, RefsInv
<1>12. QED BY <1>7, <1>8, <1>9, <1>10, <1>11 DEF LibraryIsSound

(* However definitions, generations, submissions, workers and deletions    *)
(* interleave (src/modules/strategy/application/service.ts): an id names   *)
(* one row, a family that never lost a row is its history 1, 2, ... n      *)
(* without repetition, a failed request wrote nothing, and composites and  *)
(* candidates refer to rows that exist unless a delete crossed their use.  *)
THEOREM LibraryAlwaysSound == LibrarySpec => []LibraryIsSound
BY LibraryAlwaysInv, InvIsSound, PTL

--------------------------------------------------------------------------------
(* Deletions.  The two properties as formulas about a step.                *)
OwnRowsOnly ==
  /\ \A k \in cands : k.id \notin {x.id : x \in cands'} =>
       \E r \in Reqs : Deletes(r) /\ req[r].user = k.user /\ req[r].target \in k.refs
  /\ \A c \in comps : c.id \notin {x.id : x \in comps'} =>
       \E r \in Reqs : Deletes(r) /\ req[r].user = c.user /\ req[r].target \in c.parts \cup {c.id}
  /\ \A d \in defs : d.id \notin {x.id : x \in defs'} =>
       \E r \in Reqs : Deletes(r) /\ req[r].user = d.user /\ req[r].target = d.id
FailsForACause ==
  \A r \in Reqs :
    Deletes(r) /\ req'[r] = Idle /\ Owned(req[r].target, req[r].user)
               /\ (\E d \in defs' : d.id = req[r].target) =>
      \/ req[r].target \in overlap'
      \/ \E a \in audits, c \in comps : a.out = c.id /\ req[r].target \in c.parts

(* Steps that touch no table.                                              *)
LEMMA QuietSteps ==
  ASSUME NEW r \in Reqs,
         \/ Define(r) \/ Compose(r) \/ Generate(r) \/ Submit(r)
         \/ DeleteDefinition(r) \/ DeleteComposite(r)
         \/ LoadSource(r) \/ ModelAnswers(r) \/ Prepare(r) \/ CheckPart(r) \/ PrepareComposite(r)
         \/ Answer(r) \/ ReadForSubmit(r) \/ SelectCandidates(r) \/ SelectResults(r)
  PROVE  UNCHANGED rows
<1>1. CASE Define(r) \/ Compose(r) \/ Generate(r) \/ Submit(r) \/ DeleteDefinition(r) \/ DeleteComposite(r)
  BY <1>1 DEF Define, Compose, Generate, Submit, DeleteDefinition, DeleteComposite, Arrive
<1>2. CASE LoadSource(r) \/ ModelAnswers(r) \/ CheckPart(r) \/ Answer(r) \/ ReadForSubmit(r)
  BY <1>2 DEF LoadSource, ModelAnswers, CheckPart, Answer, ReadForSubmit
<1>3. CASE Prepare(r) BY <1>3 DEF Prepare
<1>4. CASE PrepareComposite(r) BY <1>4 DEF PrepareComposite
<1>5. CASE SelectCandidates(r) \/ SelectResults(r) BY <1>5 DEF SelectCandidates, SelectResults
<1>6. QED BY <1>1, <1>2, <1>3, <1>4, <1>5

LEMMA UnchangedRowsAreOwn == UNCHANGED rows => OwnRowsOnly
BY DEF rows, OwnRowsOnly

(* A row that disappears is the deleter's own.                             *)
LEMMA StepDeletesOwn ==
  ASSUME LibraryInv, RequestStep
  PROVE  OwnRowsOnly
<1>1. ASSUME \A k \in cands : \E y \in cands' : y.id = k.id, comps \subseteq comps', defs \subseteq defs'
      PROVE  OwnRowsOnly
  BY <1>1 DEF OwnRowsOnly
<1>2. cands \subseteq CandType BY DEF LibraryInv, RecordInv
<1>3. CASE \E k \in cands : Work(k)
  <2>1. PICK k \in cands : Work(k) BY <1>3
  <2>2. PICK w : w = [k EXCEPT !.layer = @ + 1] OBVIOUS
  <2>3. w.id = k.id BY <1>2, <2>2 DEF CandType
  <2>4. cands' = (cands \ {k}) \cup {w} /\ UNCHANGED <<defs, comps>> BY <2>1, <2>2 DEF Work
  <2>5. QED BY <1>1, <2>3, <2>4
<1>4. ASSUME NEW r \in Reqs, InsertRow(r) \/ CommitGeneration(r) \/ InsertCandidate(r)
      PROVE  OwnRowsOnly
  <2>1. cands \subseteq cands' /\ comps \subseteq comps' /\ defs \subseteq defs'
    BY <1>4 DEF InsertRow, CommitGeneration, InsertCandidate
  <2>2. QED BY <1>1, <2>1
<1>5. ASSUME NEW r \in Reqs, NEW layer \in 1 .. 3, NEW ids, NEW after, DeleteLayer(r, layer, ids, after)
      PROVE  OwnRowsOnly
  <2>1. UNCHANGED <<defs, comps>> /\ (cands' = cands \/ cands' = Lower(ids, layer - 1))
    BY <1>5 DEF DeleteLayer
  <2>2. ASSUME NEW k \in cands, cands' = Lower(ids, layer - 1) PROVE \E y \in cands' : y.id = k.id
    <3>1. PICK y : y = IF k.id \in ids /\ k.layer > layer - 1 THEN [k EXCEPT !.layer = layer - 1] ELSE k
      OBVIOUS
    <3>2. y.id = k.id BY <1>2, <3>1 DEF CandType
    <3>3. y \in cands' BY <2>2, <3>1 DEF Lower
    <3>4. QED BY <3>2, <3>3
  <2>3. QED BY <1>1, <2>1, <2>2
<1>6. ASSUME NEW r \in Reqs, DeleteRanked(r) \/ DeleteResults(r) \/ DeleteAttempts(r)
      PROVE  OwnRowsOnly
  BY <1>5, <1>6 DEF DeleteRanked, DeleteResults, DeleteAttempts
<1>7. ASSUME NEW r \in Reqs, DeleteCandidates(r) PROVE OwnRowsOnly
  <2>1. PICK x : x = req[r] OBVIOUS
  <2>2. Deletes(r) /\ UNCHANGED <<defs, comps>> /\ (cands' = cands \/ cands' = cands \ Among(x.ks))
    BY <1>7, <2>1 DEF DeleteCandidates
  <2>3. DeleteOK(x) /\ x.op \in Deleters BY <2>1, <2>2, Deleting
  <2>4. ASSUME NEW k \in cands, k \notin cands' PROVE x.user = k.user /\ x.target \in k.refs
    <3>1. k.id \in x.ks BY <2>2, <2>4 DEF Among
    <3>2. QED BY <2>3, <3>1 DEF DeleteOK, Mine
  <2>5. QED BY <2>1, <2>2, <2>4 DEF OwnRowsOnly
<1>8. ASSUME NEW r \in Reqs, DeleteMentions(r) PROVE OwnRowsOnly
  <2>1. PICK x : x = req[r] OBVIOUS
  <2>2. Deletes(r) /\ UNCHANGED <<defs, cands>> /\ (comps' = comps \/ comps' = comps \ Mentions(x))
    BY <1>8, <2>1 DEF DeleteMentions
  <2>3. \A c \in comps \ comps' : x.user = c.user /\ x.target \in c.parts BY <2>2 DEF Mentions
  <2>4. QED BY <2>1, <2>2, <2>3 DEF OwnRowsOnly
<1>9. ASSUME NEW r \in Reqs, DeleteRow(r) PROVE OwnRowsOnly
  <2>1. PICK x : x = req[r] OBVIOUS
  <2>2. Deletes(r) /\ UNCHANGED cands BY <1>9 DEF DeleteRow
  <2>3. \A d \in defs \ defs' : x.user = d.user /\ x.target = d.id BY <1>9, <2>1 DEF DeleteRow
  <2>4. \A c \in comps \ comps' : x.user = c.user /\ x.target = c.id BY <1>9, <2>1 DEF DeleteRow
  <2>5. QED BY <2>1, <2>2, <2>3, <2>4 DEF OwnRowsOnly
<1>10. ASSUME NEW r \in Reqs, DeleteAudits(r) PROVE OwnRowsOnly
  BY <1>10 DEF DeleteAudits, OwnRowsOnly
<1>11. ASSUME NEW r \in Reqs,
         \/ Define(r) \/ Compose(r) \/ Generate(r) \/ Submit(r)
         \/ DeleteDefinition(r) \/ DeleteComposite(r)
         \/ LoadSource(r) \/ ModelAnswers(r) \/ Prepare(r) \/ CheckPart(r) \/ PrepareComposite(r)
         \/ Answer(r) \/ ReadForSubmit(r) \/ SelectCandidates(r) \/ SelectResults(r)
       PROVE  OwnRowsOnly
  BY <1>11, QuietSteps, UnchangedRowsAreOwn
<1>12. QED BY <1>3, <1>4, <1>6, <1>7, <1>8, <1>9, <1>10, <1>11 DEF RequestStep

(* A step of one request leaves the others alone.                          *)
Acts(s) ==
  \/ Define(s) \/ Compose(s) \/ Generate(s) \/ Submit(s)
  \/ DeleteDefinition(s) \/ DeleteComposite(s)
  \/ LoadSource(s) \/ ModelAnswers(s) \/ Prepare(s) \/ CheckPart(s) \/ PrepareComposite(s)
  \/ InsertRow(s) \/ CommitGeneration(s) \/ Answer(s)
  \/ ReadForSubmit(s) \/ InsertCandidate(s)
Removing(s) ==
  \/ DeleteRanked(s) \/ DeleteResults(s) \/ DeleteAttempts(s) \/ DeleteCandidates(s)
  \/ DeleteMentions(s) \/ DeleteRow(s)
LEMMA OneAtATime ==
  ASSUME DOMAIN req = Reqs, NEW s \in Reqs, NEW r \in Reqs, r # s,
         \/ Acts(s) \/ Removing(s) \/ SelectCandidates(s) \/ SelectResults(s) \/ DeleteAudits(s)
  PROVE  req'[r] = req[r]
<1>1. CASE Define(s) \/ Compose(s) \/ Generate(s) \/ Submit(s) \/ DeleteDefinition(s) \/ DeleteComposite(s)
  BY <1>1 DEF Define, Compose, Generate, Submit, DeleteDefinition, DeleteComposite, Arrive
<1>2. CASE LoadSource(s) \/ ModelAnswers(s) \/ CheckPart(s) \/ Answer(s) \/ ReadForSubmit(s)
  BY <1>2 DEF LoadSource, ModelAnswers, CheckPart, Answer, ReadForSubmit, Goto, Drop
<1>3. CASE Prepare(s) BY <1>3 DEF Prepare
<1>4. CASE PrepareComposite(s) BY <1>4 DEF PrepareComposite
<1>5. CASE InsertRow(s) \/ CommitGeneration(s) \/ InsertCandidate(s)
  BY <1>5 DEF InsertRow, CommitGeneration, InsertCandidate, Drop
<1>6. CASE SelectCandidates(s) \/ SelectResults(s) \/ DeleteAudits(s)
  BY <1>6 DEF SelectCandidates, SelectResults, DeleteAudits, Goto
<1>7. CASE Removing(s)
  BY <1>7 DEF Removing, DeleteRanked, DeleteResults, DeleteAttempts, DeleteLayer, DeleteCandidates,
             DeleteMentions, DeleteRow, Goto, Drop
<1>8. QED BY <1>1, <1>2, <1>3, <1>4, <1>5, <1>6, <1>7 DEF Acts

(* A delete ends in one of the statements that remove rows.                *)
LEMMA DeleteEnds ==
  ASSUME LibraryInv, RequestStep, NEW r \in Reqs, Deletes(r), req'[r] = Idle
  PROVE  Removing(r)
<1>1. PICK x : x = req[r] OBVIOUS
<1>2. ShapeOK(x) /\ x \in RequestType /\ x.op \in Deleters BY <1>1, Deleting
<1>3. Idle.op = "idle" /\ x # Idle /\ x.op # "idle" BY <1>2 DEF Idle, Deleters
<1>4. DOMAIN req = Reqs BY DEF LibraryInv, ShapeInv
<1>5. ~ \E k \in cands : Work(k) BY <1>1, <1>3 DEF Work
<1>6. PICK s \in Reqs : Acts(s) \/ Removing(s) \/ SelectCandidates(s) \/ SelectResults(s) \/ DeleteAudits(s)
  BY <1>5 DEF RequestStep, Acts, Removing
<1>7. s = r BY <1>1, <1>3, <1>4, <1>6, OneAtATime
<1>8. ~Acts(r)
  <2>1. x.stage \notin {"source", "model", "prepare", "check", "insert", "commit", "done"}
    BY <1>2, StageOp DEF Deleters
  <2>2. ~(Define(r) \/ Compose(r) \/ Generate(r) \/ Submit(r) \/ DeleteDefinition(r) \/ DeleteComposite(r))
    BY <1>1, <1>3 DEF Define, Compose, Generate, Submit, DeleteDefinition, DeleteComposite, Arrive
  <2>3. ~(LoadSource(r) \/ ModelAnswers(r) \/ CheckPart(r) \/ Answer(r) \/ ReadForSubmit(r))
    BY <1>1, <2>1 DEF LoadSource, ModelAnswers, CheckPart, Answer, ReadForSubmit
  <2>4. ~(Prepare(r) \/ PrepareComposite(r)) BY <1>1, <2>1 DEF Prepare, PrepareComposite
  <2>5. ~(InsertRow(r) \/ CommitGeneration(r) \/ InsertCandidate(r))
    BY <1>1, <2>1 DEF InsertRow, CommitGeneration, InsertCandidate
  <2>6. QED BY <2>2, <2>3, <2>4, <2>5 DEF Acts
<1>9. ~(SelectCandidates(r) \/ SelectResults(r) \/ DeleteAudits(r))
  <2>1. SUFFICES ASSUME SelectCandidates(r) \/ SelectResults(r) \/ DeleteAudits(r) PROVE FALSE OBVIOUS
  <2>2. req'[r].op = x.op
    BY <1>1, <1>2, <1>4, <2>1 DEF SelectCandidates, SelectResults, DeleteAudits, Goto, RequestType
  <2>3. QED BY <1>3, <2>2
<1>10. QED BY <1>6, <1>7, <1>8, <1>9

(* A delete that ends with its row in place was stopped for a cause.       *)
LEMMA StepFailsForACause ==
  ASSUME LibraryInv, LibraryNext
  PROVE  FailsForACause
<1>1. SUFFICES ASSUME NEW r \in Reqs, Deletes(r), req'[r] = Idle, Owned(req[r].target, req[r].user),
                      NEW e \in defs', e.id = req[r].target
               PROVE  \/ req[r].target \in overlap'
                      \/ \E a \in audits, c \in comps : a.out = c.id /\ req[r].target \in c.parts
  BY DEF FailsForACause
<1>2. PICK x : x = req[r] OBVIOUS
<1>3. /\ ShapeOK(x) /\ DeleteOK(x) /\ x \in RequestType /\ x.op \in Deleters
      /\ x.ks \in SUBSET Nat /\ x.xs \in SUBSET x.ks
  BY <1>1, <1>2, Deleting
<1>4. overlap \subseteq overlap' BY OverlapKept
<1>5. SUFFICES ASSUME Alone(x)
               PROVE  \E a \in audits, c \in comps : a.out = c.id /\ x.target \in c.parts
  BY <1>2, <1>4 DEF Alone
<1>6. Removing(r) BY <1>1, DeleteEnds DEF LibraryNext
<1>7. DOMAIN req = Reqs /\ Idle.op = "idle" /\ x.op # "idle"
  BY <1>3 DEF LibraryInv, ShapeInv, Idle, Deleters
<1>8. \A then : req' = Goto(r, then) => req'[r].op = x.op
  BY <1>2, <1>3, <1>7 DEF Goto, RequestType
<1>9. \A then : req' # Goto(r, then) BY <1>1, <1>7, <1>8
<1>10. \A k \in cands : k.layer \in 0 .. 3 BY DEF LibraryInv, RecordInv, CandType
<1>11. ~DeleteRanked(r)
  BY <1>2, <1>9, <1>10 DEF DeleteRanked, DeleteLayer, Among
<1>12. ~DeleteResults(r)
  <2>1. SUFFICES ASSUME DeleteResults(r) PROVE FALSE OBVIOUS
  <2>2. x.stage = "layer2" /\ \E k \in Among(x.xs) : k.layer > 2
    BY <1>2, <1>9, <2>1 DEF DeleteResults, DeleteLayer
  <2>3. \A k \in Among(x.ks) : k.layer <= 2 BY <1>3, <1>5, <2>2 DEF DeleteOK
  <2>4. QED BY <1>3, <1>10, <2>2, <2>3 DEF Among
<1>13. ~DeleteAttempts(r)
  <2>1. SUFFICES ASSUME DeleteAttempts(r) PROVE FALSE OBVIOUS
  <2>2. x.stage = "layer1" /\ \E k \in Among(x.ks) : k.layer > 1
    BY <1>2, <1>9, <2>1 DEF DeleteAttempts, DeleteLayer
  <2>3. \A k \in Among(x.ks) : k.layer <= 1 BY <1>3, <1>5, <2>2 DEF DeleteOK
  <2>4. QED BY <1>10, <2>2, <2>3 DEF Among
<1>14. ~DeleteCandidates(r)
  <2>1. SUFFICES ASSUME DeleteCandidates(r) PROVE FALSE OBVIOUS
  <2>2. x.stage = "layer0" /\ \E k \in Among(x.ks) : k.layer > 0
    BY <1>2, <1>9, <2>1 DEF DeleteCandidates
  <2>3. \A k \in Among(x.ks) : k.layer = 0 BY <1>3, <1>5, <2>2 DEF DeleteOK
  <2>4. QED BY <2>2, <2>3
<1>15. CASE DeleteMentions(r)
  <2>1. \E a \in audits : a.out \in Ids(Mentions(x)) BY <1>2, <1>9, <1>15 DEF DeleteMentions
  <2>2. QED BY <2>1 DEF Ids, Mentions
<1>16. ~DeleteRow(r)
  <2>1. SUFFICES ASSUME DeleteRow(r) PROVE FALSE OBVIOUS
  <2>2. PICK d \in defs : d.id = x.target /\ d.user = x.user BY <1>1, <1>2 DEF Owned
  <2>3. d \in DefRecs /\ d.id \in DefNames BY <2>2, DefRecMember, DefNameMember
  <2>4. defs' \subseteq defs BY <2>1 DEF DeleteRow
  <2>5. e = d BY <1>1, <1>2, <2>2, <2>4, OneRecord, DefRecMember DEF LibraryInv
  <2>6. PICK a \in audits : a.out = x.target
    BY <1>1, <1>2, <2>1, <2>2, <2>5 DEF DeleteRow, Ids
  <2>7. a.user = x.user BY <2>2, <2>6 DEF LibraryInv, AuditInv
  <2>8. a \in AuditsOf(x) BY <2>6, <2>7 DEF AuditsOf
  <2>9. x.op = "delete"
    <3>1. x.op = "deleteComposite" => x.target \in CompNames BY <1>2, Own
    <3>2. QED BY <1>3, <2>2, <2>3, <3>1 DEF LibraryInv, RecordInv, Deleters
  <2>10. x.stage = "row" BY <1>2, <2>1 DEF DeleteRow
  <2>11. AuditsOf(x) = {} BY <1>3, <1>5, <2>9, <2>10 DEF DeleteOK
  <2>12. QED BY <2>8, <2>11
<1>17. QED BY <1>6, <1>11, <1>12, <1>13, <1>14, <1>15, <1>16 DEF Removing

(* deleteDefinition and deleteComposite, statement by statement beside     *)
(* other requests and workers (src/modules/strategy/application/service.ts *)
(* and its repository): a row that goes is the deleter's own and names or  *)
(* is the target, and a delete that ends with its row still there was      *)
(* crossed by a use of it or met the audit row of a generated composite.   *)
THEOREM DeletionsAreExact == LibrarySpec => DeletionIsExact
<1>1. LibraryInv /\ [LibraryNext]_libraryVars => [OwnRowsOnly]_libraryVars
  BY StepDeletesOwn DEF LibraryNext
<1>2. LibraryInv /\ [LibraryNext]_libraryVars => [FailsForACause]_libraryVars
  BY StepFailsForACause
<1>3. LibrarySpec => [][OwnRowsOnly]_libraryVars BY <1>1, LibraryAlwaysInv, PTL DEF LibrarySpec
<1>4. LibrarySpec => [][FailsForACause]_libraryVars BY <1>2, LibraryAlwaysInv, PTL DEF LibrarySpec
<1>5. QED
  BY <1>3, <1>4 DEF DeletionIsExact, DeletesOnlyItsOwn, DeleteFailsForACause, OwnRowsOnly, FailsForACause
=============================================================================
