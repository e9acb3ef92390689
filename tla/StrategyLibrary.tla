-------------------------- MODULE StrategyLibrary --------------------------
(***************************************************************************)
(* The strategy module (src/modules/strategy): versioned, content-         *)
(* addressed definitions, composites of definitions, model generation with *)
(* its audit row, and deletion with its cascade over the backtests made    *)
(* from a strategy.  Every SQL statement outside a transaction is a step   *)
(* of its own, so the steps of concurrent requests interleave; the commit  *)
(* of a generation is one transaction and one step.                        *)
(*                                                                         *)
(* Parameters, weights and thresholds are one value of Contents; a         *)
(* candidate row carries `layer', the number of dependent row kinds it     *)
(* still has (1 attempt and trades, 2 experiment result, 3 leaderboard and *)
(* replay rows), each kind referencing the one below with ON DELETE        *)
(* RESTRICT.                                                               *)
(***************************************************************************)
EXTENDS Integers, Sequences, FiniteSets, FiniteSetsExt

CONSTANTS
    Users,      \* owners
    Families,   \* canonical strategy names: one logical family each
    Contents,   \* parameter values of a definition, thresholds of a composite
    Reqs,       \* request slots served concurrently
    MaxIds,     \* bound: rows that may be given an id
    MaxRequests \* bound: requests that arrive

ASSUME LibraryAssumption == MaxIds \in Nat /\ MaxRequests \in Nat /\ IsFiniteSet(Reqs)

VARIABLES
    defs,       \* strategy_definitions
    comps,      \* composite_strategy_definitions
    audits,     \* strategy_generation_requests
    cands,      \* backtest_candidates with their dependent rows
    req,        \* what each request slot is doing
    next,       \* ids handed out (randomUUID: never reused)
    arrived,    \* requests that have arrived
    pruned,     \* history: <<user, family>> that ever lost a definition
    void,       \* history: ids of definitions whose request failed
    overlap     \* history: targets of a delete that ran while another request
                \* or a worker used the same row
rows == <<defs, comps, audits, cands>>
libraryVars == <<defs, comps, audits, cands, req, next, arrived, pruned, void, overlap>>

Idle == [op |-> "idle", user |-> "none", stage |-> "idle", spec |-> <<>>,
         parts |-> {}, fresh |-> {}, todo |-> {}, comp |-> {}, content |-> "none",
         target |-> 0, ks |-> {}, xs |-> {}]
Ids(set) == {x.id : x \in set}
Goto(r, stage) == [req EXCEPT ![r].stage = stage]
Drop(r) == [req EXCEPT ![r] = Idle]

(***************************************************************************)
(* The unique key (user_id, logical_family_key, version), and the version  *)
(* a new row takes: one more than the highest the request has read.        *)
(***************************************************************************)
BugTaken(set, row) == FALSE
Taken(set, row) == \E x \in set : x.user = row.user /\ x.fam = row.fam /\ x.ver = row.ver
NextVersion(prior) == 1 + Max({0} \cup {x.ver : x \in prior})
Owned(id, user) == \E d \in defs : d.id = id /\ d.user = user

LibraryInit ==
    /\ defs = {} /\ comps = {} /\ audits = {} /\ cands = {}
    /\ req = [r \in Reqs |-> Idle]
    /\ next = 1 /\ arrived = 0
    /\ pruned = {} /\ void = {} /\ overlap = {}

----------------------------------------------------------------------------
(* Requests arrive: the guards are what the handlers validate first. *)
Arrive(r, request) ==
    /\ req[r] = Idle /\ arrived < MaxRequests
    /\ arrived' = arrived + 1
    /\ req' = [req EXCEPT ![r] = request]
    /\ UNCHANGED <<rows, next, pruned, void>>

Specs == [fam : Families, content : Contents]
Define(r) == \E u \in Users, s \in Specs :
    Arrive(r, [Idle EXCEPT !.op = "define", !.user = u, !.stage = "prepare", !.spec = <<s>>])
Compose(r) == \E u \in Users, c \in Contents : \E parts \in (SUBSET Ids(defs)) \ {{}} :
    Arrive(r, [Idle EXCEPT !.op = "compose", !.user = u, !.stage = "check", !.parts = parts,
                           !.todo = parts, !.content = c])
Generate(r) == \E u \in Users, c \in Contents, source \in {"source", "model"} :
    Arrive(r, [Idle EXCEPT !.op = "generate", !.user = u, !.stage = source, !.content = c])
DeleteDefinition(r) == \E u \in Users : \E id \in Ids(defs) :
    Arrive(r, [Idle EXCEPT !.op = "delete", !.user = u, !.stage = "cands", !.target = id])
DeleteComposite(r) == \E u \in Users : \E id \in Ids(comps) :
    Arrive(r, [Idle EXCEPT !.op = "deleteComposite", !.user = u, !.stage = "cands", !.target = id])
Submit(r) == \E c \in comps :
    Arrive(r, [Idle EXCEPT !.op = "submit", !.user = c.user, !.stage = "check", !.parts = c.parts,
                           !.todo = c.parts, !.comp = {c}])

(* A URL source is fetched first, through its redirects; a text goes straight to the model. *)
LoadSource(r) ==
    /\ req[r].stage = "source"
    /\ req' = Goto(r, "model") \/ req' = Drop(r)
    /\ UNCHANGED <<rows, next, arrived, pruned, void>>

(***************************************************************************)
(* The language model answers with a proposal for one definition or for a  *)
(* composite of some, or fails (timeout, schema, unreachable): a failure   *)
(* ends the request with nothing written.                                  *)
(***************************************************************************)
ModelAnswers(r) ==
    /\ req[r].stage = "model"
    /\ \/ \E s \in Specs, kind \in {"single", "generate"} :
            req' = [req EXCEPT ![r].stage = "prepare", ![r].spec = <<s>>, ![r].op = kind]
       \/ \E s, t \in Specs :
            req' = [req EXCEPT ![r].stage = "prepare", ![r].spec = <<s, t>>]
       \/ req' = Drop(r)
    /\ UNCHANGED <<rows, next, arrived, pruned, void>>

(***************************************************************************)
(* prepareStrategy: read the family; an equal definition is reused, else a *)
(* new one is made in memory.  The read does not see what the same request *)
(* has prepared so far.                                                    *)
(***************************************************************************)
Prior(user, fam) == {d \in defs : d.user = user /\ d.fam = fam}
Prepare(r) ==
    LET q == req[r]
        s == Head(q.spec)
        prior == Prior(q.user, s.fam)
        same == {d \in prior : d.content = s.content}
        new == [id |-> next, user |-> q.user, fam |-> s.fam, ver |-> NextVersion(prior),
                content |-> s.content]
        then == CASE Len(q.spec) > 1 -> "prepare"
                  [] q.op = "define" /\ same # {} -> "done"
                  [] q.op = "define" /\ same = {} -> "insert"
                  [] q.op = "single" -> "commit"
                  [] OTHER -> "check"
    IN  /\ q.stage = "prepare"
        /\ IF same # {}
           THEN /\ \E d \in same : /\ \A e \in same : d.ver <= e.ver
                                   /\ req' = [req EXCEPT ![r].parts = @ \cup {d.id}, ![r].todo = @ \cup {d.id},
                                                         ![r].spec = Tail(@), ![r].stage = then]
                /\ UNCHANGED next
           ELSE /\ next <= MaxIds
                /\ next' = next + 1
                /\ req' = [req EXCEPT ![r].parts = @ \cup {next}, ![r].fresh = @ \cup {new},
                                      ![r].spec = Tail(@), ![r].stage = then]
        /\ UNCHANGED <<rows, arrived, pruned, void>>

(* requireOwnedDefinition, one query for each component the request did not make itself. *)
BugAdmits(id, user) == \E d \in defs : d.id = id
Admits(id, user) == Owned(id, user)
CheckPart(r) ==
    /\ req[r].stage = "check"
    /\ \E id \in req[r].todo :
         IF Admits(id, req[r].user)
         THEN /\ req' = [req EXCEPT ![r].todo = @ \ {id}]
              /\ UNCHANGED void
         ELSE /\ req' = Drop(r)
              /\ void' = void \cup Ids(req[r].fresh)
    /\ UNCHANGED <<rows, next, arrived, pruned>>

(* The rest of prepareComposite: reuse an equal composite or make a new one. *)
PrepareComposite(r) ==
    LET q == req[r]
        prior == {c \in comps : c.user = q.user /\ c.fam = q.parts}
        same == {c \in prior : c.content = q.content}
        new == [id |-> next, user |-> q.user, fam |-> q.parts, ver |-> NextVersion(prior),
                content |-> q.content, parts |-> q.parts]
        then == IF q.op = "generate" THEN "commit" ELSE "insert"
    IN  /\ q.stage = "check" /\ q.todo = {} /\ q.op \in {"compose", "generate"}
        /\ IF same # {}
           THEN /\ \E c \in same :
                     req' = [req EXCEPT ![r].comp = {c},
                                        ![r].stage = IF q.op = "generate" THEN "commit" ELSE "done"]
                /\ UNCHANGED next
           ELSE /\ next <= MaxIds
                /\ next' = next + 1
                /\ req' = [req EXCEPT ![r].comp = {new}, ![r].stage = then]
        /\ UNCHANGED <<rows, arrived, pruned, void>>

(* The single INSERT of defineStrategy and defineComposite: the unique key may refuse it. *)
InsertRow(r) ==
    LET q == req[r] IN
    /\ q.stage = "insert" /\ q.op \in {"define", "compose"}
    /\ IF q.op = "define"
       THEN IF \E d \in q.fresh : Taken(defs, d)
            THEN UNCHANGED defs /\ void' = void \cup Ids(q.fresh)
            ELSE defs' = defs \cup q.fresh /\ UNCHANGED void
       ELSE UNCHANGED <<defs, void>>
    /\ comps' = IF q.op = "compose" /\ \A c \in q.comp : ~Taken(comps, c)
                THEN comps \cup q.comp ELSE comps
    /\ req' = Drop(r)
    /\ UNCHANGED <<audits, cands, next, arrived, pruned>>

(***************************************************************************)
(* The unit of work of a generation: definitions, composite and audit in   *)
(* one transaction.  ON CONFLICT (id) skips a row that is already there    *)
(* (and puts a deleted composite back); a version taken meanwhile, and an  *)
(* output that does not exist for the audit's foreign key, roll back.      *)
(***************************************************************************)
Out(q) == IF q.op = "single" THEN q.parts ELSE Ids(q.comp)
Commits(q) ==
    /\ \A d \in q.fresh : ~Taken(defs, d)
    /\ \A d, e \in q.fresh : d # e => d.fam # e.fam
    /\ \A c \in q.comp : c \in comps \/ ~Taken(comps, c)
    /\ Out(q) \subseteq Ids(defs) \cup Ids(q.fresh) \cup Ids(q.comp)
Kept(q) == IF Commits(q) THEN q.fresh ELSE {}
CommitGeneration(r) ==
    LET q == req[r] IN
    /\ q.stage = "commit"
    /\ defs' = defs \cup Kept(q)
    /\ IF Commits(q)
       THEN /\ comps' = comps \cup q.comp
            /\ audits' = audits \cup {[user |-> q.user, out |-> id] : id \in Out(q)}
            /\ UNCHANGED void
       ELSE /\ void' = void \cup Ids(q.fresh)
            /\ UNCHANGED <<comps, audits>>
    /\ req' = Drop(r)
    /\ UNCHANGED <<cands, next, arrived, pruned>>

Answer(r) ==
    /\ req[r].stage = "done"
    /\ req' = Drop(r)
    /\ UNCHANGED <<rows, next, arrived, pruned, void>>

----------------------------------------------------------------------------
(***************************************************************************)
(* Backtesting, as far as a deletion meets it: a submission re-reads the   *)
(* definitions (CheckPart) and the composite and then inserts a candidate  *)
(* that embeds copies of both; a worker adds an attempt, a result and its  *)
(* leaderboard row.                                                        *)
(***************************************************************************)
ReadForSubmit(r) ==
    /\ req[r].stage = "check" /\ req[r].todo = {} /\ req[r].op = "submit"
    /\ req' = IF req[r].comp \subseteq comps THEN Goto(r, "insert") ELSE Drop(r)
    /\ UNCHANGED <<rows, next, arrived, pruned, void>>
InsertCandidate(r) ==
    LET q == req[r] IN
    /\ q.stage = "insert" /\ q.op = "submit" /\ next <= MaxIds
    /\ cands' = cands \cup {[id |-> next, user |-> q.user, layer |-> 0,
                             refs |-> q.parts \cup Ids(q.comp)]}
    /\ next' = next + 1
    /\ req' = Drop(r)
    /\ UNCHANGED <<defs, comps, audits, arrived, pruned, void>>
Work(k) ==
    /\ k.layer < 3
    /\ cands' = (cands \ {k}) \cup {[k EXCEPT !.layer = @ + 1]}
    /\ UNCHANGED <<defs, comps, audits, req, next, arrived, pruned, void>>

----------------------------------------------------------------------------
(***************************************************************************)
(* deleteDefinition and deleteComposite: cascadeDeleteStrategyArtifacts,   *)
(* then the audits, then (for a definition) the composites that mention    *)
(* it, then the row.  Every statement commits by itself; a statement a     *)
(* foreign key refuses ends the request and leaves the earlier ones done.  *)
(***************************************************************************)
Deletes(r) == req[r].op \in {"delete", "deleteComposite"}
Among(ids) == {k \in cands : k.id \in ids}
Lower(ids, layer) ==
    {IF k.id \in ids /\ k.layer > layer THEN [k EXCEPT !.layer = layer] ELSE k : k \in cands}

BugReferring(q) == {k.id : k \in {c \in cands : q.target \in c.refs}}
Referring(q) == {k.id : k \in {c \in cands : c.user = q.user /\ q.target \in c.refs}}
SelectCandidates(r) ==
    /\ Deletes(r) /\ req[r].stage = "cands"
    /\ req' = [req EXCEPT ![r].ks = Referring(req[r]),
                          ![r].stage = IF Referring(req[r]) = {} THEN "audits" ELSE "results"]
    /\ UNCHANGED <<rows, next, arrived, pruned, void>>
SelectResults(r) ==
    LET xs == Ids({k \in Among(req[r].ks) : k.layer >= 2}) IN
    /\ Deletes(r) /\ req[r].stage = "results"
    /\ req' = [req EXCEPT ![r].xs = xs, ![r].stage = IF xs = {} THEN "layer1" ELSE "layer3"]
    /\ UNCHANGED <<rows, next, arrived, pruned, void>>

(* Remove one kind of dependent rows; the kind above it must be gone already. *)
DeleteLayer(r, layer, ids, after) ==
    /\ Deletes(r)
    /\ IF \E k \in Among(ids) : k.layer > layer
       THEN req' = Drop(r) /\ UNCHANGED cands
       ELSE req' = Goto(r, after) /\ cands' = Lower(ids, layer - 1)
    /\ UNCHANGED <<defs, comps, audits, next, arrived, pruned, void>>
DeleteRanked(r) == req[r].stage = "layer3" /\ DeleteLayer(r, 3, req[r].xs, "layer2")
DeleteResults(r) == req[r].stage = "layer2" /\ DeleteLayer(r, 2, req[r].xs, "layer1")
DeleteAttempts(r) == req[r].stage = "layer1" /\ DeleteLayer(r, 1, req[r].ks, "layer0")
DeleteCandidates(r) ==
    /\ Deletes(r) /\ req[r].stage = "layer0"
    /\ IF \E k \in Among(req[r].ks) : k.layer > 0
       THEN req' = Drop(r) /\ UNCHANGED cands
       ELSE req' = Goto(r, "audits") /\ cands' = cands \ Among(req[r].ks)
    /\ UNCHANGED <<defs, comps, audits, next, arrived, pruned, void>>
AuditsOf(q) == {a \in audits : a.user = q.user /\ a.out = q.target}
DeleteAudits(r) ==
    /\ Deletes(r) /\ req[r].stage = "audits"
    /\ audits' = audits \ AuditsOf(req[r])
    /\ req' = Goto(r, IF req[r].op = "delete" THEN "comps" ELSE "row")
    /\ UNCHANGED <<defs, comps, cands, next, arrived, pruned, void>>

Mentions(q) == {c \in comps : c.user = q.user /\ q.target \in c.parts}
DeleteMentions(r) ==
    /\ Deletes(r) /\ req[r].stage = "comps"
    /\ IF \E a \in audits : a.out \in Ids(Mentions(req[r]))
       THEN req' = Drop(r) /\ UNCHANGED comps
       ELSE /\ comps' = comps \ Mentions(req[r])
            /\ req' = Goto(r, "row")
    /\ UNCHANGED <<defs, audits, cands, next, arrived, pruned, void>>
DeleteRow(r) ==
    LET q == req[r]
        d == {x \in defs : x.id = q.target /\ x.user = q.user}
        c == {x \in comps : x.id = q.target /\ x.user = q.user}
    IN  /\ Deletes(r) /\ q.stage = "row"
        /\ IF \E a \in audits : a.out \in Ids(d \cup c)
           THEN UNCHANGED <<defs, comps, pruned>>
           ELSE /\ defs' = defs \ d /\ comps' = comps \ c
                /\ pruned' = pruned \cup {<<x.user, x.fam>> : x \in d}
        /\ req' = Drop(r)
        /\ UNCHANGED <<audits, cands, next, arrived, void>>

----------------------------------------------------------------------------
(* History: deletions in progress whose target another request or a worker is using. *)
Uses(q) == IF q.op \in {"delete", "deleteComposite"} THEN {} ELSE q.parts \cup Ids(q.comp)
Targets(reqs) == {reqs[r].target : r \in Reqs} \ {0}
Touched ==
    (UNION {Uses(req'[r]) \cup Uses(req[r]) : r \in Reqs})
        \cup (UNION {k.refs : k \in {c \in cands : c \notin cands' /\ \E k2 \in cands' : k2.id = c.id /\ k2.layer > c.layer}})

RequestStep ==
    \/ \E r \in Reqs :
         \/ Define(r) \/ Compose(r) \/ Generate(r) \/ Submit(r)
         \/ DeleteDefinition(r) \/ DeleteComposite(r)
         \/ LoadSource(r) \/ ModelAnswers(r) \/ Prepare(r) \/ CheckPart(r) \/ PrepareComposite(r)
         \/ InsertRow(r) \/ CommitGeneration(r) \/ Answer(r)
         \/ ReadForSubmit(r) \/ InsertCandidate(r)
         \/ SelectCandidates(r) \/ SelectResults(r) \/ DeleteRanked(r) \/ DeleteResults(r)
         \/ DeleteAttempts(r) \/ DeleteCandidates(r) \/ DeleteAudits(r) \/ DeleteMentions(r)
         \/ DeleteRow(r)
    \/ \E k \in cands : Work(k)
LibraryNext == RequestStep /\ overlap' = overlap \cup (Targets(req) \cap Touched) \cup (Targets(req') \cap Touched)

LibrarySpec == LibraryInit /\ [][LibraryNext]_libraryVars

----------------------------------------------------------------------------
(* What the library promises. *)
Present == Ids(defs) \cup Ids(comps)

(* The shape of the tables: ids are given to one row only, and a request slot is always somewhere. *)
LibraryTypeOK ==
    /\ \A d \in defs : d.user \in Users /\ d.fam \in Families /\ d.ver \in 1..MaxIds
    /\ \A c \in comps : c.user \in Users /\ c.parts # {} /\ c.ver \in 1..MaxIds
    /\ \A k \in cands : k.user \in Users /\ k.layer \in 0..3
    /\ Cardinality(Ids(defs)) + Cardinality(Ids(comps)) + Cardinality(Ids(cands))
         = Cardinality(Present \cup Ids(cands))
    /\ Cardinality(defs) = Cardinality(Ids(defs))
    /\ next \in 1..(MaxIds + 1)
    /\ \A r \in Reqs : req[r].user \in Users \cup {"none"}

(***************************************************************************)
(* prepareStrategy reads, awaits and inserts: in a family that never lost a *)
(* row, however requests, generations and search submissions interleave,    *)
(* the versions are exactly 1, 2, ... n and no content is stored twice.      *)
(***************************************************************************)
FamilyIsAHistory == \A u \in Users, f \in Families : <<u, f>> \notin pruned =>
    LET rowsOf == Prior(u, f) IN
        /\ {d.ver : d \in rowsOf} = 1..Cardinality(rowsOf)
        /\ \A d, e \in rowsOf : d.content = e.content => d = e

(***************************************************************************)
(* requireOwnedDefinition checks the components before the composite is     *)
(* written, and deletions come in between: a composite names definitions of *)
(* its owner that exist, unless one was deleted while a request used it.    *)
(***************************************************************************)
CompositeIsWhole == \A c \in comps :
    \/ \A id \in c.parts : Owned(id, c.user)
    \/ c.parts \cap overlap # {}

(***************************************************************************)
(* FR-14: a generation that fails writes nothing, and so does a definition  *)
(* refused by the unique key.                                               *)
(***************************************************************************)
FailureWritesNothing == Ids(defs) \cap void = {}

(***************************************************************************)
(* The cascade selects candidates first and deletes the strategy last: a    *)
(* candidate whose strategy is gone was submitted, or worked on, while the   *)
(* delete ran.                                                              *)
(***************************************************************************)
NoOrphanCandidate == \A k \in cands : k.refs \subseteq Present \/ k.refs \cap overlap # {}

(***************************************************************************)
(* Cascades, LIKE filters and owner filters: a row that disappears belongs  *)
(* to the user of a delete in progress whose target it is or mentions.      *)
(***************************************************************************)
DeletesOnlyItsOwn == [][
    /\ \A k \in cands : k.id \notin {x.id : x \in cands'} =>
         \E r \in Reqs : Deletes(r) /\ req[r].user = k.user /\ req[r].target \in k.refs
    /\ \A c \in comps : c.id \notin {x.id : x \in comps'} =>
         \E r \in Reqs : Deletes(r) /\ req[r].user = c.user /\ req[r].target \in c.parts \cup {c.id}
    /\ \A d \in defs : d.id \notin {x.id : x \in defs'} =>
         \E r \in Reqs : Deletes(r) /\ req[r].user = d.user /\ req[r].target = d.id
    ]_libraryVars

(***************************************************************************)
(* A delete that ends without removing its row was blocked by a foreign     *)
(* key: another request or a worker crossed it, or the definition is a part *)
(* of a generated composite, whose audit row deleteDefinition does not       *)
(* remove.  By then the backtests of the strategy are deleted already.      *)
(***************************************************************************)
DeleteFailsForACause == [][\A r \in Reqs :
    Deletes(r) /\ req'[r] = Idle /\ Owned(req[r].target, req[r].user)
               /\ (\E d \in defs' : d.id = req[r].target) =>
        \/ req[r].target \in overlap'
        \/ \E a \in audits, c \in comps : a.out = c.id /\ req[r].target \in c.parts
    ]_libraryVars

(* Versions and contents of a family are the history of the requests that    *)
(* succeeded (prepareStrategy, commit of a generation), and what a composite *)
(* or a candidate refers to exists, though it was checked before it was      *)
(* written and deletions are up to ten statements.                           *)
LibraryIsSound ==
    LibraryTypeOK /\ FamilyIsAHistory /\ FailureWritesNothing /\ CompositeIsWhole /\ NoOrphanCandidate

(* A deletion removes what is its own, and stops half way for a cause only.  *)
DeletionIsExact == DeletesOnlyItsOwn /\ DeleteFailsForACause
=============================================================================
