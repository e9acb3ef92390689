-------------------------- MODULE SearchCandidates --------------------------
(***************************************************************************)
(* The candidates of a search run: the random, the domain-guided and the   *)
(* genetic generator pick definitions of the search space and mutate their *)
(* parameters, and submit maps the result back to rows of the strategy     *)
(* library before a backtest accepts it.                                   *)
(*                                                                         *)
(* The search space is the copy taken when the run started; the library    *)
(* goes on changing.  Random numbers are choices; parameters are small     *)
(* whole numbers.  The race of two definitions for one version is in       *)
(* StrategyLibrary, the loop over the slots of a run in SearchRun.         *)
(***************************************************************************)
EXTENDS Integers, FiniteSets, SequencesExt

CONSTANTS
  Bounds,        \* family -> its parameters, each with its least and greatest value
  Related,       \* families whose first parameter must stay below the second
  Category,      \* family -> category
  Warmup,        \* family -> candles it needs before its first signal
  Space,         \* availableStrategies, by id; described when its implementation is the registered one
  Required, Forbidden,  \* the domain rules
  MaxComponents, \* largest number of components
  WarmupCapacity, \* candles the scope reserves for warm-up
  Reach,         \* how far a value may move when its descriptor is unknown
  MaxTries,      \* bound: candidates generated
  MaxDeletes     \* bound: definitions deleted

ASSUME SpaceIsOwned ==
  /\ Len(Space) \in Nat \ {0} /\ DOMAIN Space = 1 .. Len(Space)
  /\ \A i \in DOMAIN Space :
       /\ Space[i].id = i /\ Space[i].described \in BOOLEAN /\ Warmup[Space[i].family] \in Nat
       /\ DOMAIN Space[i].params = DOMAIN Bounds[Space[i].family]
       /\ \A k \in DOMAIN Space[i].params :
            {Bounds[Space[i].family][k].least, Bounds[Space[i].family][k].greatest} \subseteq Int
ASSUME SearchIsLimited ==
  /\ MaxComponents \in Nat \ {0} /\ {WarmupCapacity, MaxDeletes} \subseteq Nat
  /\ Required \in Seq(ToSet(Required))

VARIABLES
  library,  \* strategy_definitions of the owner
  cand,     \* the candidate that is being submitted
  seen,     \* generatedFingerprints
  nextId, tries, deletes,
  outcome   \* history: how the last submission ended
candidateVars == <<library, cand, seen, nextId, tries, deletes, outcome>>

LibraryRow(id, family, params, current) ==
  [id |-> id, family |-> family, params |-> params, current |-> current]
NoCandidate == [stage |-> "none"]

CandidatesInit ==
  /\ library = {LibraryRow(i, Space[i].family, Space[i].params, Space[i].described) : i \in DOMAIN Space}
  /\ cand = NoCandidate /\ seen = {} /\ nextId = Len(Space) + 1
  /\ tries = 0 /\ deletes = 0 /\ outcome = [ok |-> TRUE, of |-> <<>>, ran |-> <<>>, kind |-> "none"]

(***************************************************************************)
(* What the library accepts: validateParameters and the check of the       *)
(* plugin.                                                                 *)
(***************************************************************************)
Ordered(family, p) == family \in Related => p[1] < p[2]
Valid(family, p) ==
  /\ \A k \in DOMAIN p : Bounds[family][k].least <= p[k] /\ p[k] <= Bounds[family][k].greatest
  /\ Ordered(family, p)

(***************************************************************************)
(* mutateSearchStrategyDefinition: any parameters change to legal values,  *)
(* at least one when force is set; then a pair out of order is replaced.   *)
(* Without a descriptor (the implementation changed since) the values near *)
(* the old one count as legal.                                             *)
(***************************************************************************)
Legal(d, k, v) == IF d.described THEN Bounds[d.family][k].least .. Bounds[d.family][k].greatest
                  ELSE v - Reach .. v + Reach
Vectors(d, p) ==
  {q \in [DOMAIN p -> UNION {Legal(d, k, p[k]) : k \in DOMAIN p}] :
     \A k \in DOMAIN p : q[k] \in Legal(d, k, p[k])}
BugRepaired(d, p) == {p}
Repaired(d, p) == IF Ordered(d.family, p) THEN {p}
                  ELSE {q \in Vectors(d, p) : /\ Ordered(d.family, q)
                                              /\ \A k \in DOMAIN p \ {1, 2} : q[k] = p[k]}
Mutants(d, force) ==
  UNION {Repaired(d, q) : q \in {v \in Vectors(d, d.params) :
           force /\ Vectors(d, d.params) # {d.params} => v # d.params}}

(***************************************************************************)
(* The choice of definitions.                                              *)
(***************************************************************************)
Limit(n) == IF MaxComponents < n THEN MaxComponents ELSE n
Picks(n) == {s \in [1 .. n -> DOMAIN Space] : \A i, j \in 1 .. n : s[i] = s[j] => i = j}
SomePicks == UNION {Picks(n) : n \in 1 .. Limit(Len(Space))}

(* The members of a set of numbers, smallest first; each item of a sequence *)
(* once, where it comes first; no more components than a candidate may have. *)
Before(S, k) == Cardinality({j \in S : j <= k})
InOrder(S) == [n \in 1 .. Cardinality(S) |-> CHOOSE k \in S : Before(S, k) = n]
Distinct(s) ==
  LET at == InOrder({k \in DOMAIN s : \A j \in 1 .. (k - 1) : s[j] # s[k]})
  IN  [n \in DOMAIN at |-> s[at[n]]]
Cut(s) == SubSeq(s, 1, Limit(Len(s)))

(* Only a definition with a descriptor has a category. *)
CategoryOf(i) == IF Space[i].described THEN Category[Space[i].family] ELSE "none"
Available == {i \in DOMAIN Space : CategoryOf(i) \notin Forbidden}
OfCategory(c) == {i \in Available : CategoryOf(i) = c}
FirstOf(c) == CHOOSE i \in OfCategory(c) : \A j \in OfCategory(c) : i <= j

(* The first definition of each required category, then the others; without *)
(* a definition for each, or a place, the generator throws.                 *)
Wanted == Distinct(Required)
Satisfiable ==
  Available # {} /\ Len(Wanted) <= MaxComponents /\ \A c \in ToSet(Wanted) : OfCategory(c) # {}
GuidedPick ==
  LET first == [k \in DOMAIN Wanted |-> FirstOf(Wanted[k])]
  IN  Cut(first \o InOrder(Available \ ToSet(first)))

(* Two parents share a prefix and a suffix, and fill up from both in order; *)
(* then one component may be replaced.                                      *)
Crossed(a, b, point) ==
  Cut(Distinct(SubSeq(a, 1, point) \o SubSeq(b, point + 1, Len(b)) \o a \o b))
Children == UNION {{Crossed(a, b, n) : n \in {k \in 0 .. Len(Space) : k <= Len(a) /\ k <= Len(b)}} :
                   a \in SomePicks, b \in SomePicks}
GeneticPicks == Children \cup UNION {{[c EXCEPT ![k] = i] : k \in DOMAIN c, i \in DOMAIN Space \ ToSet(c)} :
                                       c \in Children}

(***************************************************************************)
(* A generated candidate; its fingerprint does not know the order.         *)
(***************************************************************************)
Fingerprint(kind, defs) == <<kind, ToSet(defs)>>
Draws(pick, force) ==
  {[k \in DOMAIN pick |-> LibraryRow(pick[k], Space[pick[k]].family, p[k], Space[pick[k]].described)] :
     p \in {q \in [DOMAIN pick -> UNION {Mutants(Space[i], force) : i \in ToSet(pick)}] :
              \A k \in DOMAIN pick : q[k] \in Mutants(Space[pick[k]], force)}}
RandomDraws == UNION {Draws(pick, TRUE) : pick \in SomePicks}
GuidedDraws == IF Satisfiable THEN Draws(GuidedPick, TRUE) ELSE {}
GeneticDraws == UNION {Draws(pick, FALSE) : pick \in GeneticPicks}

GenerateCandidate(kind, draws) ==
  /\ cand = NoCandidate /\ tries < MaxTries
  /\ tries' = tries + 1
  /\ \E defs \in draws :
       cand' = IF Fingerprint(kind, defs) \in seen THEN NoCandidate
               ELSE [stage |-> "define", kind |-> kind, defs |-> defs, read |-> {}, ids |-> <<>>]
  /\ UNCHANGED <<library, seen, nextId, deletes, outcome>>

(***************************************************************************)
(* submit: definitions read once, one statement or two for each that was   *)
(* mutated, the composite, and the checks of the backtest.                 *)
(***************************************************************************)
Refuse(why) ==
  /\ cand' = NoCandidate
  /\ outcome' = [ok |-> FALSE, why |-> why, of |-> cand.defs, kind |-> cand.kind]
ReadDefinitions ==
  LET wanted == {d.id : d \in ToSet(cand.defs)} IN
  /\ cand.stage = "define" /\ cand.read = {}
  /\ IF wanted \subseteq {r.id : r \in library}
     THEN /\ cand' = [cand EXCEPT !.read = {r \in library : r.id \in wanted}]
          /\ UNCHANGED outcome
     ELSE Refuse("deleted")
  /\ UNCHANGED <<library, seen, nextId, tries, deletes>>

Mapped(id) == cand' = [cand EXCEPT !.ids = Append(@, id),
                                   !.stage = IF Len(cand.ids) + 1 = Len(cand.defs) THEN "compose" ELSE @]
DefineNext ==
  LET d == cand.defs[Len(cand.ids) + 1]
      equal == {r \in library : r.current /\ r.family = d.family /\ r.params = d.params} IN
  /\ cand.stage = "define" /\ cand.read # {}
  /\ CASE d \in cand.read -> Mapped(d.id) /\ UNCHANGED <<library, nextId, outcome>>
       [] d \notin cand.read /\ ~ Valid(d.family, d.params) ->
            Refuse("invalid") /\ UNCHANGED <<library, nextId>>
       [] OTHER -> IF equal # {}
                   THEN \E r \in equal : Mapped(r.id) /\ UNCHANGED <<library, nextId, outcome>>
                   ELSE /\ Mapped(nextId) /\ nextId' = nextId + 1
                        /\ library' = library \cup {LibraryRow(nextId, d.family, d.params, TRUE)}
                        /\ UNCHANGED outcome
  /\ UNCHANGED <<seen, tries, deletes>>
DefineComposite ==
  /\ cand.stage = "compose"
  /\ IF ToSet(cand.ids) \subseteq {r.id : r \in library}
     THEN cand' = [cand EXCEPT !.stage = "submit"] /\ UNCHANGED outcome
     ELSE Refuse("deleted")
  /\ UNCHANGED <<library, seen, nextId, tries, deletes>>

(* validateStrategyReferences and the warm-up; accepted, the fingerprint is kept. *)
RowOf(id) == CHOOSE r \in library : r.id = id
SubmitCandidate ==
  /\ cand.stage = "submit"
  /\ CASE Len(cand.ids) # Cardinality(ToSet(cand.ids)) -> Refuse("twins") /\ UNCHANGED seen
       [] ~ ToSet(cand.ids) \subseteq {r.id : r \in library} -> Refuse("deleted") /\ UNCHANGED seen
       [] OTHER ->
            LET used == [k \in DOMAIN cand.ids |-> RowOf(cand.ids[k])] IN
            CASE \E r \in ToSet(used) : ~ r.current -> Refuse("replaced") /\ UNCHANGED seen
              [] \A r \in ToSet(used) : r.current /\ Warmup[r.family] <= WarmupCapacity ->
                   /\ outcome' = [ok |-> TRUE, of |-> cand.defs, kind |-> cand.kind, ran |-> used]
                   /\ seen' = seen \cup {Fingerprint(cand.kind, cand.defs)}
                   /\ cand' = NoCandidate
              [] OTHER -> Refuse("warmup") /\ UNCHANGED seen
  /\ UNCHANGED <<library, nextId, tries, deletes>>

(* The owner deletes a definition, at any time. *)
DeleteOwned == \E r \in library :
  /\ deletes < MaxDeletes /\ deletes' = deletes + 1
  /\ library' = library \ {r}
  /\ UNCHANGED <<cand, seen, nextId, tries, outcome>>

CandidatesNext ==
  \/ GenerateCandidate("RANDOM", RandomDraws) \/ GenerateCandidate("DOMAIN_GUIDED", GuidedDraws)
  \/ GenerateCandidate("GENETIC", GeneticDraws)
  \/ ReadDefinitions \/ DefineNext \/ DefineComposite \/ SubmitCandidate \/ DeleteOwned

----------------------------------------------------------------------------
(* An accepted candidate runs exactly the families and parameters that     *)
(* were generated, in their order, each from a row of its own.             *)
RunsWhatWasGenerated ==
  outcome.ok => /\ Len(outcome.ran) = Len(outcome.of)
                /\ \A k \in DOMAIN outcome.of :
                     /\ outcome.ran[k].family = outcome.of[k].family
                     /\ outcome.ran[k].params = outcome.of[k].params
                /\ \A j, k \in DOMAIN outcome.ran : outcome.ran[j].id = outcome.ran[k].id => j = k
(* The rules and the limit hold, and what runs is what a user could have   *)
(* defined.                                                                *)
ObeysTheSpace ==
  outcome.ok => /\ Len(outcome.of) <= MaxComponents
                /\ \A k \in DOMAIN outcome.ran : Valid(outcome.ran[k].family, outcome.ran[k].params)
                /\ outcome.kind = "DOMAIN_GUIDED" =>
                     LET used == {CategoryOf(d.id) : d \in ToSet(outcome.of)} IN
                     ToSet(Required) \subseteq used /\ used \cap Forbidden = {}
(* A candidate is lost only to a deletion, to two components that mutated  *)
(* into one definition, to a longer warm-up than the scope has, or to a    *)
(* definition whose implementation is no longer registered: mutated, its   *)
(* values may be illegal, and unchanged it cannot run.                     *)
RefusedForCause ==
  ~ outcome.ok =>
    CASE outcome.why = "deleted" -> deletes > 0
      [] outcome.why = "twins" -> \E j, k \in DOMAIN outcome.of :
           /\ j # k /\ outcome.of[j].family = outcome.of[k].family
           /\ outcome.of[j].params = outcome.of[k].params
      [] outcome.why = "replaced" -> \E d \in ToSet(outcome.of) :
           ~ Space[d.id].described /\ d.params = Space[d.id].params
      [] outcome.why = "invalid" -> \E d \in ToSet(outcome.of) : ~ Space[d.id].described
      [] OTHER -> \E d \in ToSet(outcome.of) : Warmup[d.family] > WarmupCapacity
(* CandidatesAreFaithful: generators and library agree on what is legal,   *)
(* and submit maps one to the other without mixing components up.          *)
CandidatesAreFaithful == RunsWhatWasGenerated /\ ObeysTheSpace /\ RefusedForCause
=============================================================================
