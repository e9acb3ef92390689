---------------------------- MODULE Screens_proofs ----------------------------
(* Theorems about the screens of the frontend: each keeps state that several *)
(* requests, timers and tabs change, and what it shows must stay what was    *)
(* asked for and stored. One section for each screen: its specification, the *)
(* invariant that its steps keep, and the property that follows; the screens *)
(* that only display what there is are in Displays_proofs. The last section  *)
(* puts all of them together.                                                *)
EXTENDS MCScreens, Displays_proofs

-----------------------------------------------------------------------------
(* The strategy screen                                                     *)

StrategySpec == ScreenInit /\ [][ScreenNext]_screenVars

Draft == [id : Nat, def : Defs, saved : BOOLEAN]
Actives == Draft \cup {NoDraft}
StoreType == [drafts : SUBSET Draft, active : Actives, deleted : SUBSET Defs]
ScreenType == [mount : Nat, open : BOOLEAN, drafts : SUBSET Draft, active : Actives,
               selected : Nat, deleted : SUBSET Defs]

\* The requests that delete ids of the backend.
Deletions == Pending("purge") \cup Pending("delete")

ScreenTyped ==
  /\ store \in StoreType /\ screen \in ScreenType /\ rows \subseteq Defs /\ made \in Nat
  /\ \A c \in Deletions : c.ids \subseteq Defs
  /\ \A c \in Pending("delete") : c.drafts \subseteq Draft

\* What was saved is stored, and neither on the list nor being deleted.
KeptInv ==
  /\ kept \subseteq rows /\ kept \cap store.deleted = {}
  /\ \A c \in Deletions : kept \cap c.ids = {}

\* The mounted screen and localStorage, until an earlier mount interferes.
AgreeInv ==
  screen.open /\ ~foreign =>
    store.drafts = Newest(screen.drafts) /\ store.deleted \subseteq screen.deleted

\* What localStorage holds was cut once and is never cut again.
FullInv == Newest(store.drafts) = store.drafts

\* The draft of a generation under way has a number of its own, which nobody
\* has seen; what a click on delete takes away is removed.
Seen == Ids(screen.drafts) \cup Ids(store.drafts) \cup removed
CallsInv ==
  /\ Seen \subseteq 1 .. made
  /\ \A g \in Pending("generate") : g.draft \in 1 .. made /\ g.draft \notin Seen
  /\ \A g, h \in Pending("generate") : g.draft = h.draft => g = h
  /\ \A c \in Pending("delete") :
       /\ c.gone \subseteq removed
       /\ Ids(c.drafts) \subseteq 1 .. made
       /\ \A d \in c.drafts : d.def \in c.ids => d.id \in removed
       /\ \A g \in Pending("generate") : g.draft \notin Ids(c.drafts)

ScreenInv == ScreenTyped /\ KeptInv /\ AgreeInv /\ FullInv /\ CallsInv

\* A step changes the stored drafts for a cause.
Finished == {c \in calls \ calls' : c.kind = "delete"}
Cause ==
  /\ \A i \in Ids(store.drafts) \ Ids(store'.drafts) :
       \/ i \in removed' \/ foreign \/ Crowded(i, screen'.drafts)
       \/ \E c \in Finished : i \notin Ids(c.drafts) \/ Crowded(i, c.drafts)
  /\ \A i \in removed \cap (Ids(store'.drafts) \ Ids(store.drafts)) :
       \/ foreign \/ i \in Ids(screen.drafts)
       \/ \E c \in Finished : i \in Ids(c.drafts)

\* More drafts crowd more of them out, so a list that was cut stays as it is.
LEMMA MoreCrowded ==
  ASSUME NEW A, NEW B, Ids(A) \subseteq Ids(B), NEW n \in Nat, Ids(B) \subseteq 1 .. n, NEW i,
         Crowded(i, A)
  PROVE  Crowded(i, B)
<1> DEFINE above(D) == {j \in Ids(D) : j > i}
<1>1. IsFiniteSet(1 .. n) BY FS_Interval
<1>2. IsFiniteSet(above(B)) BY <1>1, FS_Subset
<1>3. above(A) \subseteq above(B) OBVIOUS
<1>4. /\ IsFiniteSet(above(A)) /\ Cardinality(above(A)) <= Cardinality(above(B))
      /\ Cardinality(above(A)) \in Nat /\ Cardinality(above(B)) \in Nat
  BY <1>2, <1>3, FS_Subset, FS_CardinalityType
<1> QED BY <1>4, ScreenAssumption DEF Crowded

LEMMA NewestIsNewest ==
  ASSUME NEW D, NEW n \in Nat, Ids(D) \subseteq 1 .. n
  PROVE  /\ Newest(D) \subseteq D /\ Ids(Newest(D)) \subseteq Ids(D)
         /\ Newest(Newest(D)) = Newest(D)
<1>1. Newest(D) \subseteq D BY DEF Newest
<1>2. Ids(Newest(D)) \subseteq Ids(D) BY <1>1 DEF Ids
<1>3. ASSUME NEW d \in Newest(D), Crowded(d.id, Newest(D)) PROVE FALSE
  <2>1. Crowded(d.id, D) BY <1>2, <1>3, MoreCrowded
  <2> QED BY <2>1 DEF Newest
<1>4. \A d \in Newest(D) : d \in Newest(Newest(D)) BY <1>3 DEF Newest
<1>5. Newest(Newest(D)) \subseteq Newest(D) BY DEF Newest
<1> QED BY <1>1, <1>2, <1>4, <1>5

\* A draft that is not among the newest is crowded out.
LEMMA NewestKeeps ==
  ASSUME NEW D, NEW i \in Ids(D), i \notin Ids(Newest(D))
  PROVE  Crowded(i, D)
BY DEF Newest, Ids

\* Every list that is written to localStorage is cut from numbered drafts.
LEMMA WrittenIsFull ==
  ASSUME NEW D, NEW n \in Nat, Ids(D) \subseteq 1 .. n, store'.drafts = Newest(D)
  PROVE  FullInv'
<1>1. Newest(Newest(D)) = Newest(D) BY NewestIsNewest
<1>2. Newest(store'.drafts) = store'.drafts BY <1>1
<1> QED BY <1>2 DEF FullInv, Newest, Crowded, Ids

LEMMA SameStoreIsFull == FullInv /\ store'.drafts = store.drafts => FullInv'
BY DEF FullInv, Newest, Crowded, Ids

\* The list of the screen is written: what leaves was removed or crowded out,
\* what comes was on the screen before.
LEMMA RewriteHasACause ==
  ASSUME CallsInv, AgreeInv, screen.open, NEW n \in Nat, Ids(screen'.drafts) \subseteq 1 .. n,
         store'.drafts = Newest(screen'.drafts),
         \A i \in Ids(screen.drafts) : i \in Ids(screen'.drafts) \/ i \in removed',
         \A i \in Ids(screen'.drafts) : i \in removed => i \in Ids(screen.drafts)
  PROVE  Cause
<1>1. CASE foreign BY <1>1 DEF Cause
<1>2. CASE ~foreign
  <2>1. store.drafts = Newest(screen.drafts) BY <1>2 DEF AgreeInv
  <2>2. ASSUME NEW i \in Ids(store.drafts) \ Ids(store'.drafts), i \notin removed'
        PROVE  Crowded(i, screen'.drafts)
    <3>1. i \in Ids(screen.drafts) BY <2>1, <2>2 DEF Newest, Ids
    <3>2. i \in Ids(screen'.drafts) BY <2>2, <3>1
    <3> QED BY <2>2, <3>2, NewestKeeps
  <2>3. \A i \in Ids(store'.drafts) : i \in Ids(screen'.drafts) BY DEF Newest, Ids
  <2> QED BY <2>2, <2>3 DEF Cause
<1> QED BY <1>1, <1>2

LEMMA TypedFields ==
  ASSUME ScreenTyped
  PROVE  /\ screen.active \in Actives /\ store.active \in Actives /\ NoDraft \in Actives
         /\ screen.selected \in Nat /\ None \in Nat
<1>1. screen.active \in Actives /\ store.active \in Actives /\ screen.selected \in Nat
  BY DEF ScreenTyped, ScreenType, StoreType
<1> QED BY <1>1 DEF Actives, None

LEMMA ScreenStarts == ScreenInit => ScreenInv
<1> SUFFICES ASSUME ScreenInit PROVE ScreenInv OBVIOUS
<1>1. store \in StoreType /\ screen \in ScreenType
  BY DEF ScreenInit, StoreType, ScreenType, Actives, None
<1>2. \A k : Pending(k) = {} BY DEF ScreenInit, Pending
<1>3. Seen = {} BY DEF ScreenInit, Seen, Ids
<1>4. store.drafts = {} /\ screen.drafts = {} /\ Newest({}) = {} BY DEF ScreenInit, Newest
<1>5. AgreeInv /\ FullInv BY <1>4 DEF ScreenInit, AgreeInv, FullInv
<1> QED BY <1>1, <1>2, <1>3, <1>5
        DEF ScreenInit, ScreenInv, ScreenTyped, KeptInv, CallsInv, Deletions

LEMMA ContentIsStored == \A d \in Defs : d \in Content(d) /\ Content(d) \subseteq Defs
BY ScreenAssumption DEF Content

LEMMA SameDrafts == store'.drafts = store.drafts => Cause
BY DEF Cause, Ids

\* Requests that go take nothing with them that the others rest on.
LEMMA FewerCalls ==
  ASSUME calls' \subseteq calls
  PROVE  /\ \A k : Pending(k)' \subseteq Pending(k)
         /\ Deletions' \subseteq Deletions
BY DEF Pending, Deletions

\* A step that neither makes a request nor a draft.
LEMMA FewerNames ==
  ASSUME CallsInv, calls' \subseteq calls, made' = made, removed \subseteq removed',
         \A i \in Seen' : i \in Seen
  PROVE  CallsInv'
<1>1. \A k : Pending(k)' \subseteq Pending(k) BY FewerCalls
<1>2. Seen' \subseteq 1 .. made' BY DEF CallsInv
<1>3. \A g \in Pending("generate")' : g.draft \in 1 .. made' /\ g.draft \notin Seen'
  BY <1>1 DEF CallsInv
<1>4. \A g, h \in Pending("generate")' : g.draft = h.draft => g = h BY <1>1 DEF CallsInv
<1>5. \A c \in Pending("delete")' :
        /\ c.gone \subseteq removed'
        /\ Ids(c.drafts) \subseteq 1 .. made'
        /\ \A d \in c.drafts : d.def \in c.ids => d.id \in removed'
        /\ \A g \in Pending("generate")' : g.draft \notin Ids(c.drafts)
  BY <1>1 DEF CallsInv
<1> QED BY <1>2, <1>3, <1>4, <1>5 DEF CallsInv

LEMMA MountSteps ==
  ASSUME ScreenInv, Open \/ Leave
  PROVE  ScreenInv' /\ Cause
<1> USE DEF ScreenInv
<1>1. CASE Open
  <2>1. /\ screen'.open /\ screen'.drafts = store.drafts /\ screen'.deleted = store.deleted
        /\ UNCHANGED <<rows, store, made, kept, removed>>
    BY <1>1 DEF Open
  <2>2. screen' \in ScreenType BY <1>1 DEF Open, ScreenTyped, ScreenType, StoreType, None
  <2>3. /\ \A c \in Deletions' : c \in Deletions \/ c.ids = store.deleted
        /\ Pending("delete")' = Pending("delete") /\ Pending("generate")' = Pending("generate")
    BY <1>1 DEF Open, Deletions, Pending
  <2>4. ScreenTyped' BY <2>1, <2>2, <2>3 DEF ScreenTyped, StoreType
  <2>5. KeptInv' BY <2>1, <2>3 DEF KeptInv
  <2>6. AgreeInv' BY <2>1 DEF AgreeInv, FullInv
  <2>9. FullInv' BY <2>1, SameStoreIsFull
  <2>7. \A i \in Seen' : i \in Seen BY <2>1 DEF Seen
  <2>8. CallsInv' BY <2>1, <2>3, <2>7 DEF CallsInv
  <2> QED BY <2>1, <2>4, <2>5, <2>6, <2>8, <2>9, SameDrafts
<1>2. CASE Leave
  <2>1. /\ screen' = [screen EXCEPT !.open = FALSE]
        /\ UNCHANGED <<rows, store, calls, made, kept, removed, foreign>>
    BY <1>2 DEF Leave, requestVars, historyVars
  <2>2. screen' \in ScreenType /\ ~screen'.open /\ screen'.drafts = screen.drafts
    BY <2>1 DEF ScreenTyped, ScreenType
  <2>3. Deletions' = Deletions /\ Pending("delete")' = Pending("delete")
    BY <2>1 DEF Deletions, Pending
  <2>4. ScreenTyped' BY <2>1, <2>2, <2>3 DEF ScreenTyped
  <2>5. KeptInv' BY <2>1, <2>3 DEF KeptInv
  <2>6. AgreeInv' BY <2>2 DEF AgreeInv
  <2>9. FullInv' BY <2>1, SameStoreIsFull
  <2>7. \A i \in Seen' : i \in Seen BY <2>1, <2>2 DEF Seen
  <2>8. CallsInv' BY <2>1, <2>7, FewerNames
  <2> QED BY <2>1, <2>4, <2>5, <2>6, <2>8, <2>9, SameDrafts
<1> QED BY <1>1, <1>2

LEMMA PurgeStep ==
  ASSUME ScreenInv, FinishPurge
  PROVE  ScreenInv' /\ Cause
<1> USE DEF ScreenInv
<1>20. PICK c \in Pending("purge") : \E gone \in SUBSET c.ids :
        /\ Answered(c) /\ rows' = rows \ gone
        /\ store' = [store EXCEPT !.deleted = {}]
        /\ screen' = IF Mounted(c) THEN [screen EXCEPT !.deleted = {}] ELSE screen
        /\ UNCHANGED <<made, kept, removed>>
  BY DEF FinishPurge
<1>1. PICK gone \in SUBSET c.ids :
        /\ Answered(c) /\ rows' = rows \ gone
        /\ store' = [store EXCEPT !.deleted = {}]
        /\ screen' = IF Mounted(c) THEN [screen EXCEPT !.deleted = {}] ELSE screen
        /\ UNCHANGED <<made, kept, removed>>
  BY <1>20
<1>2. calls' \subseteq calls /\ foreign' = (foreign \/ ~Mounted(c)) BY <1>1 DEF Answered
<1>3. \A k : Pending(k)' \subseteq Pending(k) BY <1>2, FewerCalls
<1>4. Deletions' \subseteq Deletions BY <1>2, FewerCalls
<1>5. store' \in StoreType /\ store'.deleted = {} /\ store'.drafts = store.drafts
  BY <1>1 DEF ScreenTyped, StoreType
<1>6. screen' \in ScreenType /\ screen'.drafts = screen.drafts /\ screen'.open = screen.open
  BY <1>1 DEF ScreenTyped, ScreenType
<1>7. ScreenTyped' BY <1>1, <1>3, <1>4, <1>5, <1>6 DEF ScreenTyped
<1>8. KeptInv'
  <2>1. kept \cap c.ids = {} BY DEF KeptInv, Deletions
  <2> QED BY <1>1, <1>4, <1>5, <2>1 DEF KeptInv
<1>9. AgreeInv' BY <1>2, <1>5, <1>6 DEF AgreeInv
<1>12. FullInv' BY <1>5, SameStoreIsFull
<1>10. \A i \in Seen' : i \in Seen BY <1>1, <1>5, <1>6 DEF Seen
<1>11. CallsInv' BY <1>1, <1>2, <1>10, FewerNames
<1> QED BY <1>5, <1>7, <1>8, <1>9, <1>11, <1>12, SameDrafts

LEMMA GenerateStep ==
  ASSUME ScreenInv, Generate
  PROVE  ScreenInv' /\ Cause
<1> USE DEF ScreenInv
<1>1. PICK n : n = [kind |-> "generate", mount |-> screen.mount, draft |-> made + 1] OBVIOUS
<1>2. calls' = calls \cup {n} /\ made' = made + 1
      /\ UNCHANGED <<rows, store, screen, kept, removed, foreign>>
  BY <1>1 DEF Generate, historyVars
<1>3. n.kind = "generate" /\ n.draft = made + 1 BY <1>1
<1>4. Deletions' = Deletions /\ Pending("delete")' = Pending("delete")
      /\ Pending("generate")' = Pending("generate") \cup {n}
  BY <1>2, <1>3 DEF Deletions, Pending
<1>5. ScreenTyped' BY <1>2, <1>4 DEF ScreenTyped
<1>6. KeptInv' BY <1>2, <1>4 DEF KeptInv
<1>7. AgreeInv' BY <1>2 DEF AgreeInv
<1>9. FullInv' BY <1>2, SameStoreIsFull
<1>8. CallsInv'
  <2>1. Seen' = Seen BY <1>2 DEF Seen
  <2>2. made \in Nat /\ \A k \in 1 .. made : k \in 1 .. made' /\ k # made + 1
    BY <1>2 DEF ScreenTyped
  <2>3. made + 1 \in 1 .. made' BY <1>2 DEF ScreenTyped
  <2>4. Seen' \subseteq 1 .. made' BY <2>1, <2>2 DEF CallsInv
  <2>5. \A g \in Pending("generate")' : g.draft \in 1 .. made' /\ g.draft \notin Seen'
    BY <1>3, <1>4, <2>1, <2>2, <2>3 DEF CallsInv
  <2>6. \A g, h \in Pending("generate")' : g.draft = h.draft => g = h
    BY <1>3, <1>4, <2>2 DEF CallsInv
  <2>7. \A c \in Pending("delete")' :
          /\ c.gone \subseteq removed'
          /\ Ids(c.drafts) \subseteq 1 .. made'
          /\ \A d \in c.drafts : d.def \in c.ids => d.id \in removed'
    BY <1>2, <1>4, <2>2 DEF CallsInv
  <2>8. \A c \in Pending("delete")' : \A g \in Pending("generate")' : g.draft \notin Ids(c.drafts)
    BY <1>3, <1>4, <2>2 DEF CallsInv
  <2> QED BY <2>4, <2>5, <2>6, <2>7, <2>8 DEF CallsInv
<1> QED BY <1>2, <1>5, <1>6, <1>7, <1>8, <1>9, SameDrafts

LEMMA AnswerStep ==
  ASSUME ScreenInv, FinishGenerate
  PROVE  ScreenInv' /\ Cause
<1> USE DEF ScreenInv
<1>1. PICK c, d, draft :
        /\ c \in Pending("generate") /\ d \in Storable
        /\ draft = [id |-> c.draft, def |-> d, saved |-> FALSE]
        /\ Answered(c) /\ rows' = rows \cup Content(d)
        /\ IF Mounted(c)
           THEN /\ screen' = [screen EXCEPT !.drafts = screen.drafts \cup {draft}, !.active = draft,
                                            !.selected = c.draft]
                /\ store' = [store EXCEPT !.drafts = Newest(screen.drafts \cup {draft}), !.active = draft]
           ELSE /\ store' = [store EXCEPT !.active = draft]
                /\ screen' = screen
        /\ UNCHANGED <<made, kept, removed>>
  BY DEF FinishGenerate
<1>2. /\ calls' = calls \ {c} /\ foreign' = (foreign \/ ~Mounted(c))
      /\ Mounted(c) => screen.open
  BY <1>1 DEF Answered, Mounted
<1>3. Deletions' = Deletions /\ Pending("delete")' = Pending("delete")
      /\ Pending("generate")' = Pending("generate") \ {c}
  BY <1>1, <1>2 DEF Deletions, Pending
<1>4. d \in Defs /\ c.draft \in 1 .. made /\ c.draft \notin Seen BY <1>1 DEF Storable, CallsInv
<1>5. draft \in Draft /\ draft.id = c.draft BY <1>1, <1>4 DEF Draft
<1>20. draft \in Actives /\ c.draft \in Nat BY <1>4, <1>5 DEF Actives, ScreenTyped
<1>6. /\ store' \in StoreType /\ store'.deleted = store.deleted
      /\ store'.drafts = IF Mounted(c) THEN Newest(screen.drafts \cup {draft}) ELSE store.drafts
  <2>1. CASE Mounted(c)
    <3>1. PICK ds \in SUBSET Draft : ds = Newest(screen.drafts \cup {draft})
      BY <1>5 DEF ScreenTyped, ScreenType, Newest
    <3>2. store' = [store EXCEPT !.drafts = ds, !.active = draft] BY <1>1, <2>1, <3>1
    <3> QED BY <2>1, <3>1, <3>2, <1>20 DEF ScreenTyped, StoreType
  <2>2. CASE ~Mounted(c)
    <3>1. store' = [store EXCEPT !.active = draft] BY <1>1, <2>2
    <3> QED BY <2>2, <3>1, <1>20 DEF ScreenTyped, StoreType
  <2> QED BY <2>1, <2>2
<1>7. /\ screen' \in ScreenType /\ screen'.deleted = screen.deleted /\ screen'.open = screen.open
      /\ screen'.drafts = IF Mounted(c) THEN screen.drafts \cup {draft} ELSE screen.drafts
  <2>1. CASE Mounted(c)
    <3>1. PICK ds \in SUBSET Draft : ds = screen.drafts \cup {draft}
      BY <1>5 DEF ScreenTyped, ScreenType
    <3>2. screen' = [screen EXCEPT !.drafts = ds, !.active = draft, !.selected = c.draft]
      BY <1>1, <2>1, <3>1
    <3> QED BY <2>1, <3>1, <3>2, <1>20 DEF ScreenTyped, ScreenType
  <2>2. CASE ~Mounted(c)
    <3>1. screen' = screen BY <1>1, <2>2
    <3> QED BY <2>2, <3>1 DEF ScreenTyped
  <2> QED BY <2>1, <2>2
<1>8. ScreenTyped' BY <1>1, <1>3, <1>4, <1>6, <1>7, ContentIsStored DEF ScreenTyped
<1>9. KeptInv' BY <1>1, <1>3, <1>6 DEF KeptInv
<1>10. AgreeInv' BY <1>2, <1>6, <1>7 DEF AgreeInv
<1>21. \A i \in Ids(screen'.drafts) : i \in Ids(screen.drafts) \/ i = c.draft BY <1>5, <1>7 DEF Ids
<1>22. \A i \in Ids(store'.drafts) : i \in Ids(store.drafts) \/ i \in Ids(screen.drafts) \/ i = c.draft
  BY <1>5, <1>6 DEF Ids, Newest
<1>11. \A i \in Seen' : i \in Seen \/ i = c.draft BY <1>1, <1>21, <1>22 DEF Seen
<1>23. made \in Nat /\ Ids(screen'.drafts) \subseteq 1 .. made
  BY <1>4, <1>21 DEF CallsInv, Seen, ScreenTyped
<1>24. FullInv'
  <2>1. CASE Mounted(c) BY <1>6, <1>7, <1>23, <2>1, WrittenIsFull
  <2>2. CASE ~Mounted(c) BY <1>6, <2>2, SameStoreIsFull
  <2> QED BY <2>1, <2>2
<1>12. CallsInv'
  <2>1. Seen' \subseteq 1 .. made' BY <1>1, <1>4, <1>11 DEF CallsInv
  <2>2. \A g \in Pending("generate")' : g.draft \in 1 .. made' /\ g.draft \notin Seen'
    BY <1>1, <1>3, <1>11 DEF CallsInv
  <2>3. \A g, h \in Pending("generate")' : g.draft = h.draft => g = h BY <1>3 DEF CallsInv
  <2> QED BY <1>1, <1>3, <2>1, <2>2, <2>3 DEF CallsInv
<1>13. Cause
  <2>1. CASE ~Mounted(c) BY <1>6, <2>1, SameDrafts
  <2>2. CASE Mounted(c)
    <3>1. store'.drafts = Newest(screen'.drafts) /\ screen.open BY <1>2, <1>6, <1>7, <2>2
    <3>2. \A i \in Ids(screen.drafts) : i \in Ids(screen'.drafts) BY <1>7, <2>2 DEF Ids
    <3>3. c.draft \notin removed BY <1>4 DEF Seen
    <3> QED BY <1>21, <1>23, <3>1, <3>2, <3>3, RewriteHasACause
  <2> QED BY <2>1, <2>2
<1> QED BY <1>8, <1>9, <1>10, <1>12, <1>13, <1>24

LEMMA RefusalStep ==
  ASSUME ScreenInv, FailGenerate
  PROVE  ScreenInv' /\ Cause
<1> USE DEF ScreenInv
<1>1. /\ calls' \subseteq calls /\ (foreign => foreign')
      /\ UNCHANGED <<rows, store, screen, made, kept, removed>>
  BY DEF FailGenerate, Answered
<1>2. \A k : Pending(k)' \subseteq Pending(k) BY <1>1, FewerCalls
<1>3. Deletions' \subseteq Deletions BY <1>1, FewerCalls
<1>4. ScreenTyped' BY <1>1, <1>2, <1>3 DEF ScreenTyped
<1>5. KeptInv' BY <1>1, <1>3 DEF KeptInv
<1>6. AgreeInv' BY <1>1 DEF AgreeInv
<1>7. \A i \in Seen' : i \in Seen BY <1>1 DEF Seen
<1>8. CallsInv' BY <1>1, <1>7, FewerNames
<1>9. FullInv' BY <1>1, SameStoreIsFull
<1> QED BY <1>1, <1>4, <1>5, <1>6, <1>8, <1>9, SameDrafts

LEMMA SelectSteps ==
  ASSUME ScreenInv, Select \/ ClearActive
  PROVE  ScreenInv' /\ Cause
<1> USE DEF ScreenInv
<1>1. /\ screen' \in ScreenType /\ screen'.drafts = screen.drafts
      /\ screen'.deleted = screen.deleted /\ screen'.open = screen.open
  <2>1. PICK a \in Actives, n \in Nat : screen' = [screen EXCEPT !.active = a, !.selected = n]
    BY DEF Select, ClearActive, Unsaved, Actives, Draft, None, ScreenTyped, ScreenType
  <2> QED BY <2>1 DEF ScreenTyped, ScreenType
<1>2. store' \in StoreType /\ store'.drafts = store.drafts /\ store'.deleted = store.deleted
  BY DEF Select, ClearActive, Actives, ScreenTyped, StoreType
<1>3. UNCHANGED <<rows, calls, made, kept, removed, foreign>>
  BY DEF Select, ClearActive, requestVars, historyVars
<1>4. Deletions' = Deletions /\ Pending("delete")' = Pending("delete")
  BY <1>3 DEF Deletions, Pending
<1>5. ScreenTyped' BY <1>1, <1>2, <1>3, <1>4 DEF ScreenTyped
<1>6. KeptInv' BY <1>2, <1>3, <1>4 DEF KeptInv
<1>7. AgreeInv' BY <1>1, <1>2, <1>3 DEF AgreeInv
<1>8. \A i \in Seen' : i \in Seen BY <1>1, <1>2, <1>3 DEF Seen
<1>9. CallsInv' BY <1>3, <1>8, FewerNames
<1>10. FullInv' BY <1>2, SameStoreIsFull
<1> QED BY <1>2, <1>5, <1>6, <1>7, <1>9, <1>10, SameDrafts

\* Drafts are taken away: from the screen and, with its list, from localStorage.
LEMMA DropStep ==
  ASSUME ScreenInv, screen.open, NEW left, NEW gone, NEW more \in SUBSET Defs,
         left \subseteq screen.drafts, gone \subseteq Ids(screen.drafts),
         \A d \in screen.drafts : d \in left \/ d.id \in gone,
         store' \in StoreType, screen' \in ScreenType, screen'.open = screen.open,
         store'.drafts = Newest(left), store'.deleted = store.deleted \cup more,
         screen'.drafts = left, screen'.deleted = screen.deleted \cup more,
         kept' = kept \ more, removed' = removed \cup gone,
         UNCHANGED <<rows, calls, made, foreign>>
  PROVE  ScreenInv' /\ Cause
<1> USE DEF ScreenInv
<1>1. Deletions' = Deletions /\ Pending("delete")' = Pending("delete") BY DEF Deletions, Pending
<1>2. ScreenTyped' BY <1>1 DEF ScreenTyped
<1>3. KeptInv' BY <1>1 DEF KeptInv
<1>4. AgreeInv' BY DEF AgreeInv
<1>8. Ids(left) \subseteq Ids(screen.drafts) /\ Ids(Newest(left)) \subseteq Ids(left)
  BY DEF Ids, Newest
<1>9. made \in Nat /\ Ids(left) \subseteq 1 .. made BY <1>8 DEF CallsInv, Seen, ScreenTyped
<1>10. FullInv' BY <1>9, WrittenIsFull
<1>5. \A i \in Seen' : i \in Seen BY <1>8 DEF Seen
<1>6. CallsInv' BY <1>5, FewerNames
<1>7. Cause
  <2>1. \A i \in Ids(screen.drafts) : i \in Ids(screen'.drafts) \/ i \in removed' BY DEF Ids
  <2> QED BY <1>8, <1>9, <2>1, RewriteHasACause
<1> QED BY <1>2, <1>3, <1>4, <1>6, <1>7, <1>10

LEMMA DeleteDraftStep ==
  ASSUME ScreenInv, DeleteDraft
  PROVE  ScreenInv' /\ Cause
<1>1. PICK d, as, at, sel :
        /\ d \in Unsaved
        /\ screen.open
        /\ screen' = [screen EXCEPT !.drafts = screen.drafts \ {d},
                        !.deleted = screen.deleted \cup Content(d.def), !.active = as, !.selected = sel]
        /\ store' = [store EXCEPT !.drafts = Newest(screen.drafts \ {d}),
                       !.deleted = store.deleted \cup Content(d.def), !.active = at]
        /\ as \in {NoDraft, screen.active} /\ at \in {NoDraft, store.active}
        /\ sel \in {None, screen.selected}
        /\ kept' = kept \ Content(d.def) /\ removed' = removed \cup {d.id}
        /\ UNCHANGED <<rows, calls, made, foreign>>
  BY DEF DeleteDraft, requestVars
<1>2. ScreenTyped BY DEF ScreenInv
<1>3. d \in screen.drafts /\ d \in Draft /\ d.def \in Defs
  BY <1>1, <1>2 DEF Unsaved, ScreenTyped, ScreenType, Draft
<1>4. PICK more : more = Content(d.def) OBVIOUS
<1>5. more \in SUBSET Defs BY <1>3, <1>4, ContentIsStored
<1>6. PICK left : left = screen.drafts \ {d} OBVIOUS
<1>7. as \in Actives /\ at \in Actives /\ sel \in Nat BY <1>1, <1>2, TypedFields
<1>8. left \in SUBSET Draft /\ Newest(left) \in SUBSET Draft
  BY <1>2, <1>6 DEF ScreenTyped, ScreenType, Newest
<1>9. /\ store' \in StoreType /\ store'.drafts = Newest(left) /\ store'.deleted = store.deleted \cup more
  BY <1>1, <1>2, <1>4, <1>5, <1>6, <1>7, <1>8 DEF ScreenTyped, StoreType
<1>10. /\ screen' \in ScreenType /\ screen'.open = screen.open /\ screen'.drafts = left
       /\ screen'.deleted = screen.deleted \cup more
  BY <1>1, <1>2, <1>4, <1>5, <1>6, <1>7, <1>8 DEF ScreenTyped, ScreenType
<1>11. PICK gone : gone = {d.id} OBVIOUS
<1>12. /\ left \subseteq screen.drafts /\ gone \subseteq Ids(screen.drafts)
       /\ \A x \in screen.drafts : x \in left \/ x.id \in gone
  BY <1>3, <1>6, <1>11 DEF Ids
<1>13. kept' = kept \ more /\ removed' = removed \cup gone BY <1>1, <1>4, <1>11
<1>14. screen.open /\ UNCHANGED <<rows, calls, made, foreign>> BY <1>1
<1> QED BY <1>5, <1>9, <1>10, <1>12, <1>13, <1>14, DropStep

LEMMA DropDraftsStep ==
  ASSUME ScreenInv, DropDrafts
  PROVE  ScreenInv' /\ Cause
<1>1. PICK G, as, sel :
        /\ G \in (SUBSET Unsaved) \ {{}}
        /\ screen.open
        /\ screen' = [screen EXCEPT !.drafts = {d \in screen.drafts : d.id \notin Ids(G)},
                                    !.active = as, !.selected = sel]
        /\ store' = [store EXCEPT !.drafts = Newest({d \in screen.drafts : d.id \notin Ids(G)})]
        /\ as \in {NoDraft, screen.active} /\ sel \in {None, screen.selected}
        /\ kept' = kept /\ removed' = removed \cup Ids(G)
        /\ UNCHANGED <<rows, calls, made, foreign>>
  BY DEF DropDrafts, requestVars
<1>2. ScreenTyped BY DEF ScreenInv
<1>3. PICK left : left = {d \in screen.drafts : d.id \notin Ids(G)} OBVIOUS
<1>4. PICK gone : gone = Ids(G) OBVIOUS
<1>5. PICK more : more = {} OBVIOUS
<1>6. as \in Actives /\ sel \in Nat BY <1>1, <1>2, TypedFields
<1>7. left \in SUBSET Draft /\ Newest(left) \in SUBSET Draft
  BY <1>2, <1>3 DEF ScreenTyped, ScreenType, Newest
<1>8. store' \in StoreType /\ store'.drafts = Newest(left) /\ store'.deleted = store.deleted
  BY <1>1, <1>2, <1>3, <1>7 DEF ScreenTyped, StoreType
<1>9. /\ screen' \in ScreenType /\ screen'.open = screen.open /\ screen'.drafts = left
      /\ screen'.deleted = screen.deleted
  BY <1>1, <1>2, <1>3, <1>6, <1>7 DEF ScreenTyped, ScreenType
<1>10. left \subseteq screen.drafts /\ \A x \in screen.drafts : x \in left \/ x.id \in gone
  BY <1>3, <1>4
<1>11. gone \subseteq Ids(screen.drafts) BY <1>1, <1>4 DEF Ids, Unsaved
<1>12. /\ store'.deleted = store.deleted \cup more /\ screen'.deleted = screen.deleted \cup more
       /\ kept' = kept \ more /\ more \in SUBSET Defs
  BY <1>1, <1>5, <1>8, <1>9
<1>13. removed' = removed \cup gone BY <1>1, <1>4
<1>14. screen.open /\ UNCHANGED <<rows, calls, made, foreign>> BY <1>1
<1> QED BY <1>8, <1>9, <1>10, <1>11, <1>12, <1>13, <1>14, DropStep

LEMMA SaveStep ==
  ASSUME ScreenInv, Save
  PROVE  ScreenInv' /\ Cause
<1> USE DEF ScreenInv
<1> DEFINE T(d, x) == IF x.id = d.id \/ x.def = d.def THEN [x EXCEPT !.saved = TRUE] ELSE x
<1>1. PICK d, as, at :
        /\ d \in Unsaved \cup {screen.active}
        /\ screen.open /\ ~d.saved
        /\ screen' = [screen EXCEPT !.drafts = {[x \in screen.drafts |-> T(d, x)][y] : y \in screen.drafts},
                                    !.active = as, !.deleted = store.deleted \ {d.def}]
        /\ store' = [drafts |-> Newest({[x \in screen.drafts |-> T(d, x)][y] : y \in screen.drafts}),
                     active |-> at, deleted |-> Unlisted(d, store.deleted)]
        /\ as \in {screen.active, [d EXCEPT !.saved = TRUE]}
        /\ at \in {store.active, [d EXCEPT !.saved = TRUE]}
        /\ kept' = kept \cup ((Content(d.def) \cap rows) \ Deleting)
        /\ UNCHANGED <<rows, calls, made, removed, foreign>>
  BY DEF Save, requestVars
<1>2. PICK new : new = {[x \in screen.drafts |-> T(d, x)][y] : y \in screen.drafts} OBVIOUS
<1>3. new = {T(d, y) : y \in screen.drafts} BY <1>2
<1>4. screen.drafts \subseteq Draft BY DEF ScreenTyped, ScreenType
<1>5. \A x \in Draft : T(d, x) \in Draft /\ T(d, x).id = x.id BY DEF Draft
<1>6. new \in SUBSET Draft /\ Ids(new) = Ids(screen.drafts)
  <2> HIDE DEF T
  <2> QED BY <1>3, <1>4, <1>5 DEF Ids
<1>7. d \in Draft
  <2>1. d \in Actives BY <1>1 DEF Unsaved, ScreenTyped, ScreenType, Actives
  <2>2. NoDraft.saved BY DEF NoDraft
  <2> QED BY <2>1, <2>2, <1>1 DEF Actives
<1>8. as \in Actives /\ at \in Actives
  <2>1. [d EXCEPT !.saved = TRUE] \in Draft BY <1>7 DEF Draft
  <2> QED BY <2>1, <1>1 DEF Actives, ScreenTyped, ScreenType, StoreType
<1>9. d.def \in Defs /\ d.def \in Content(d.def) BY <1>7, ContentIsStored DEF Draft
<1>19. Newest(new) \in SUBSET Draft /\ Ids(Newest(new)) \subseteq Ids(screen.drafts)
  BY <1>6 DEF Newest, Ids
<1>10. /\ store' \in StoreType /\ store'.drafts = Newest(new)
       /\ store'.deleted = store.deleted \ Content(d.def)
  BY <1>1, <1>2, <1>6, <1>8, <1>19 DEF ScreenTyped, StoreType, Unlisted
<1>11. /\ screen' \in ScreenType /\ screen'.drafts = new /\ screen'.open = screen.open
       /\ screen'.deleted = store.deleted \ {d.def}
  BY <1>1, <1>2, <1>6, <1>8 DEF ScreenTyped, ScreenType, StoreType
<1>12. Deletions' = Deletions /\ Pending("delete")' = Pending("delete")
  BY <1>1 DEF Deletions, Pending
<1>13. ScreenTyped' BY <1>1, <1>10, <1>11, <1>12 DEF ScreenTyped
<1>14. KeptInv'
  <2>1. \A c \in Deletions : c.ids \subseteq Deleting BY DEF Deletions, Deleting
  <2> QED BY <1>1, <1>10, <1>12, <2>1 DEF KeptInv
<1>15. AgreeInv' BY <1>9, <1>10, <1>11 DEF AgreeInv
<1>16. \A i \in Seen' : i \in Seen BY <1>1, <1>6, <1>10, <1>11, <1>19 DEF Seen
<1>17. CallsInv' BY <1>1, <1>16, FewerNames
<1>20. made \in Nat /\ Ids(new) \subseteq 1 .. made BY <1>6 DEF CallsInv, Seen, ScreenTyped
<1>21. FullInv' BY <1>10, <1>20, WrittenIsFull
<1>18. Cause BY <1>1, <1>6, <1>10, <1>11, <1>20, RewriteHasACause
<1> QED BY <1>13, <1>14, <1>15, <1>17, <1>18, <1>21

LEMMA RenameStep ==
  ASSUME ScreenInv, Rename
  PROVE  ScreenInv' /\ Cause
<1> USE DEF ScreenInv
<1>1. PICK a \in {store.active, screen.active} :
        store' = [store EXCEPT !.drafts = Newest(screen.drafts), !.active = a]
  BY DEF Rename, Renamed
<1>2. screen.open /\ UNCHANGED <<rows, calls, screen, made, kept, removed, foreign>>
  BY DEF Rename, requestVars, historyVars
<1>3. a \in Actives BY <1>1, TypedFields
<1>4. Newest(screen.drafts) \in SUBSET Draft BY DEF Newest, ScreenTyped, ScreenType
<1>5. /\ store' \in StoreType /\ store'.drafts = Newest(screen.drafts)
      /\ store'.deleted = store.deleted
  BY <1>1, <1>3, <1>4 DEF ScreenTyped, StoreType
<1>6. Deletions' = Deletions /\ Pending("delete")' = Pending("delete")
  BY <1>2 DEF Deletions, Pending
<1>7. ScreenTyped' BY <1>2, <1>5, <1>6 DEF ScreenTyped
<1>8. KeptInv' BY <1>2, <1>5, <1>6 DEF KeptInv
<1>9. AgreeInv' BY <1>2, <1>5 DEF AgreeInv
<1>10. Ids(Newest(screen.drafts)) \subseteq Ids(screen.drafts) BY DEF Newest, Ids
<1>11. CallsInv'
  <2>1. \A i \in Seen' : i \in Seen BY <1>2, <1>5, <1>10 DEF Seen
  <2> QED BY <1>2, <2>1, FewerNames
<1>12. made \in Nat /\ Ids(screen.drafts) \subseteq 1 .. made BY DEF CallsInv, Seen, ScreenTyped
<1>13. FullInv' BY <1>5, <1>12, WrittenIsFull
<1>14. Cause BY <1>2, <1>5, <1>12, RewriteHasACause
<1> QED BY <1>7, <1>8, <1>9, <1>11, <1>13, <1>14

LEMMA StartDeleteStep ==
  ASSUME ScreenInv, StartDelete
  PROVE  ScreenInv' /\ Cause
<1> USE DEF ScreenInv
<1>1. PICK ids, gone, n :
        /\ ids \in (SUBSET Visible) \ {{}} /\ gone \in SUBSET Unsaved
        /\ n = [kind |-> "delete", mount |-> screen.mount, ids |-> ids, gone |-> Ids(gone),
                drafts |-> screen.drafts, selected |-> screen.selected]
        /\ calls' = calls \cup {n}
        /\ kept' = kept \ ids
        /\ removed' = removed \cup Ids(gone) \cup Ids({d \in screen.drafts : d.def \in ids})
        /\ UNCHANGED <<rows, store, screen, made, foreign>>
  BY DEF StartDelete
<1>2. n.kind = "delete" /\ n.ids = ids /\ n.gone = Ids(gone) /\ n.drafts = screen.drafts BY <1>1
<1>3. Deletions' = Deletions \cup {n} /\ Pending("delete")' = Pending("delete") \cup {n}
      /\ Pending("generate")' = Pending("generate")
  BY <1>1, <1>2 DEF Deletions, Pending
<1>4. ids \subseteq Defs /\ screen.drafts \subseteq Draft
  BY <1>1 DEF Visible, ScreenTyped, ScreenType
<1>5. ScreenTyped' BY <1>1, <1>2, <1>3, <1>4 DEF ScreenTyped
<1>6. KeptInv' BY <1>1, <1>2, <1>3 DEF KeptInv
<1>7. AgreeInv' BY <1>1 DEF AgreeInv
<1>9. FullInv' BY <1>1, SameStoreIsFull
<1>8. CallsInv'
  <2>1. Ids(gone) \subseteq Ids(screen.drafts) /\ Ids({d \in screen.drafts : d.def \in ids}) \subseteq Ids(screen.drafts)
    BY <1>1 DEF Ids, Unsaved
  <2>2. \A i \in Seen' : i \in Seen BY <1>1, <2>1 DEF Seen
  <2>3. Seen' \subseteq 1 .. made' BY <1>1, <2>2 DEF CallsInv
  <2>4. \A g \in Pending("generate")' : g.draft \in 1 .. made' /\ g.draft \notin Seen'
    BY <1>1, <1>3, <2>2 DEF CallsInv
  <2>5. \A g, h \in Pending("generate")' : g.draft = h.draft => g = h BY <1>3 DEF CallsInv
  <2>6. \A c \in Pending("delete") :
          /\ c.gone \subseteq removed'
          /\ Ids(c.drafts) \subseteq 1 .. made'
          /\ \A d \in c.drafts : d.def \in c.ids => d.id \in removed'
          /\ \A g \in Pending("generate")' : g.draft \notin Ids(c.drafts)
    BY <1>1, <1>3 DEF CallsInv
  <2>7. n.gone \subseteq removed' BY <1>1, <1>2
  <2>8. Ids(n.drafts) \subseteq 1 .. made' BY <1>1, <1>2 DEF CallsInv, Seen
  <2>9. \A d \in n.drafts : d.def \in n.ids => d.id \in removed' BY <1>1, <1>2 DEF Ids
  <2>10. \A g \in Pending("generate")' : g.draft \notin Ids(n.drafts)
    BY <1>2, <1>3 DEF CallsInv, Seen
  <2> QED BY <1>3, <2>3, <2>4, <2>5, <2>6, <2>7, <2>8, <2>9, <2>10 DEF CallsInv
<1> QED BY <1>1, <1>5, <1>6, <1>7, <1>8, <1>9, SameDrafts

LEMMA FinishDeleteStep ==
  ASSUME ScreenInv, FinishDelete
  PROVE  ScreenInv' /\ Cause
<1> USE DEF ScreenInv
<1>20. PICK c \in Pending("delete") : \E deleted, left, as, sel :
        /\ deleted \in SUBSET c.ids
        /\ left = {d \in c.drafts : d.id \notin c.gone /\ d.def \notin c.ids}
        /\ Answered(c) /\ rows' = rows \ deleted
        /\ store' = [store EXCEPT !.drafts = Newest(left), !.deleted = store.deleted \cup c.ids]
        /\ screen' = IF ~Mounted(c) THEN screen
                     ELSE [screen EXCEPT !.drafts = left, !.deleted = screen.deleted \cup c.ids,
                                         !.active = as, !.selected = sel]
        /\ as \in {NoDraft, screen.active} /\ sel \in {None, screen.selected}
        /\ UNCHANGED <<made, kept, removed>>
  BY DEF FinishDelete
<1>1. PICK deleted, left, as, sel :
        /\ deleted \in SUBSET c.ids
        /\ left = {d \in c.drafts : d.id \notin c.gone /\ d.def \notin c.ids}
        /\ Answered(c) /\ rows' = rows \ deleted
        /\ store' = [store EXCEPT !.drafts = Newest(left), !.deleted = store.deleted \cup c.ids]
        /\ screen' = IF ~Mounted(c) THEN screen
                     ELSE [screen EXCEPT !.drafts = left, !.deleted = screen.deleted \cup c.ids,
                                         !.active = as, !.selected = sel]
        /\ as \in {NoDraft, screen.active} /\ sel \in {None, screen.selected}
        /\ UNCHANGED <<made, kept, removed>>
  BY <1>20
<1>2. calls' = calls \ {c} /\ foreign' = (foreign \/ ~Mounted(c)) /\ c \in calls /\ c.kind = "delete"
  BY <1>1 DEF Answered, Pending
<1>3. /\ Deletions' \subseteq Deletions /\ \A k : Pending(k)' \subseteq Pending(k)
      /\ c \in Deletions /\ c \in Finished
  BY <1>1, <1>2, FewerCalls DEF Deletions, Finished
<1>4. c.ids \subseteq Defs /\ c.drafts \subseteq Draft BY <1>1, <1>3 DEF ScreenTyped
<1>5. left \in SUBSET Draft /\ Newest(left) \in SUBSET Draft /\ as \in Actives /\ sel \in Nat
  BY <1>1, <1>4, TypedFields DEF Newest
<1>6. /\ store' \in StoreType /\ store'.drafts = Newest(left)
      /\ store'.deleted = store.deleted \cup c.ids
  BY <1>1, <1>4, <1>5 DEF ScreenTyped, StoreType
<1>7. /\ screen' \in ScreenType /\ screen'.open = screen.open
      /\ screen'.drafts = IF Mounted(c) THEN left ELSE screen.drafts
      /\ screen'.deleted = IF Mounted(c) THEN screen.deleted \cup c.ids ELSE screen.deleted
  BY <1>1, <1>4, <1>5 DEF ScreenTyped, ScreenType
<1>8. ScreenTyped' BY <1>1, <1>3, <1>6, <1>7 DEF ScreenTyped
<1>9. KeptInv'
  <2>1. kept \cap c.ids = {} BY <1>3 DEF KeptInv
  <2> QED BY <1>1, <1>3, <1>6, <2>1 DEF KeptInv
<1>10. AgreeInv' BY <1>2, <1>6, <1>7 DEF AgreeInv
<1>11. /\ \A i \in Ids(left) : i \in Ids(c.drafts)
       /\ \A i \in Ids(Newest(left)) : i \in Ids(left)
  BY <1>1 DEF Ids, Newest
<1>15. made \in Nat /\ Ids(c.drafts) \subseteq 1 .. made BY <1>1 DEF CallsInv, ScreenTyped
<1>16. FullInv' BY <1>6, <1>11, <1>15, WrittenIsFull
<1>12. \A i \in Seen' : i \in Seen \/ i \in Ids(c.drafts) BY <1>1, <1>6, <1>7, <1>11 DEF Seen
<1>13. CallsInv'
  <2>1. Ids(c.drafts) \subseteq 1 .. made /\ \A g \in Pending("generate") : g.draft \notin Ids(c.drafts)
    BY <1>1 DEF CallsInv
  <2>2. Seen' \subseteq 1 .. made' BY <1>1, <1>12, <2>1 DEF CallsInv
  <2>3. \A g \in Pending("generate")' : g.draft \in 1 .. made' /\ g.draft \notin Seen'
    BY <1>1, <1>3, <1>12, <2>1 DEF CallsInv
  <2>4. \A g, h \in Pending("generate")' : g.draft = h.draft => g = h BY <1>3 DEF CallsInv
  <2>5. \A e \in Pending("delete")' :
          /\ e.gone \subseteq removed'
          /\ Ids(e.drafts) \subseteq 1 .. made'
          /\ \A d \in e.drafts : d.def \in e.ids => d.id \in removed'
          /\ \A g \in Pending("generate")' : g.draft \notin Ids(e.drafts)
    BY <1>1, <1>3 DEF CallsInv
  <2> QED BY <2>2, <2>3, <2>4, <2>5 DEF CallsInv
<1>14. Cause
  <2>1. ASSUME NEW i \in Ids(store.drafts) \ Ids(store'.drafts), i \in Ids(c.drafts),
               ~Crowded(i, c.drafts)
        PROVE  i \in removed'
    <3>1. PICK d \in c.drafts : d.id = i BY <2>1 DEF Ids
    <3>2. ASSUME d \in left PROVE FALSE
      <4>1. Crowded(i, left) BY <1>6, <2>1, <3>1, <3>2, NewestKeeps DEF Ids
      <4>2. Ids(left) \subseteq Ids(c.drafts) BY <1>11
      <4> QED BY <1>15, <2>1, <4>1, <4>2, MoreCrowded
    <3>3. d.id \in c.gone \/ d.def \in c.ids BY <1>1, <3>1, <3>2
    <3> QED BY <1>1, <3>1, <3>3 DEF CallsInv
  <2>2. \A i \in Ids(store'.drafts) : i \in Ids(c.drafts) BY <1>6, <1>11
  <2> QED BY <1>3, <2>1, <2>2 DEF Cause
<1> QED BY <1>8, <1>9, <1>10, <1>13, <1>14, <1>16

LEMMA ScreenStep ==
  ASSUME ScreenInv, [ScreenNext]_screenVars
  PROVE  ScreenInv' /\ Cause
<1>1. CASE UNCHANGED screenVars
  <2>1. UNCHANGED <<rows, store, screen, calls, made, kept, removed, foreign>>
    BY <1>1 DEF screenVars, requestVars, historyVars
  <2>2. Deletions' = Deletions /\ Pending("delete")' = Pending("delete")
    BY <2>1 DEF Deletions, Pending
  <2>3. \A i \in Seen' : i \in Seen BY <2>1 DEF Seen
  <2>4. CallsInv' BY <2>1, <2>3, FewerNames DEF ScreenInv
  <2>6. FullInv' BY <2>1, SameStoreIsFull DEF ScreenInv
  <2>5. ScreenTyped' /\ KeptInv' /\ AgreeInv'
    BY <2>1, <2>2 DEF ScreenInv, ScreenTyped, KeptInv, AgreeInv
  <2> QED BY <2>1, <2>4, <2>5, <2>6, SameDrafts DEF ScreenInv
<1> QED BY <1>1, MountSteps, PurgeStep, GenerateStep, AnswerStep, RefusalStep, SelectSteps,
           DeleteDraftStep, DropDraftsStep, SaveStep, RenameStep, StartDeleteStep, FinishDeleteStep
        DEF ScreenNext

\* For any definitions, drafts, mounts and late answers: a saved strategy and
\* its components survive until the user asks for their deletion, unless a purge
\* or a deletion was already under way when they were saved; and while no request
\* of an earlier mount answers, localStorage holds the newest drafts the screen
\* shows, as many as it keeps, and lists nothing it shows for deletion
\* (persistDrafts, handleSaveToDatabase, handleDeleteDraft, the effect that purges
\* the list on mount).
THEOREM StorageStaysTrue == StrategySpec => []StorageIsTrue
<1>1. ScreenInit => ScreenInv BY ScreenStarts
<1>2. ScreenInv /\ [ScreenNext]_screenVars => ScreenInv' BY ScreenStep
<1>3. ScreenInv => StorageIsTrue
  BY DEF ScreenInv, KeptInv, AgreeInv, StorageIsTrue, SavedSurvives, StorageIsTheScreen, Visible
<1> QED BY <1>1, <1>2, <1>3, PTL DEF StrategySpec

\* A draft leaves localStorage because the user removed it, because newer drafts
\* fill the places there are, or because a deletion writes the drafts of its click
\* back; a removed one comes back only with such a deletion, while the screen
\* still shows it, or after a request of an earlier mount (persistDrafts, onSuccess
\* of generation, handleBatchDelete).
THEOREM DraftsAlwaysChangeForACause == StrategySpec => DraftsChangeForACause
<1>1. ScreenInit => ScreenInv BY ScreenStarts
<1>2. ScreenInv /\ [ScreenNext]_screenVars => ScreenInv' BY ScreenStep
<1>3. ASSUME ScreenInv, [ScreenNext]_screenVars
      PROVE  [LET finished == {c \in calls \ calls' : c.kind = "delete"}
              IN  /\ \A i \in Ids(store.drafts) \ Ids(store'.drafts) :
                       \/ i \in removed' \/ foreign \/ Crowded(i, screen'.drafts)
                       \/ \E c \in finished : i \notin Ids(c.drafts) \/ Crowded(i, c.drafts)
                  /\ \A i \in removed \cap (Ids(store'.drafts) \ Ids(store.drafts)) :
                       \/ foreign \/ i \in Ids(screen.drafts)
                       \/ \E c \in finished : i \in Ids(c.drafts)]_screenVars
  BY <1>3, ScreenStep DEF Cause, Finished
<1> QED BY <1>1, <1>2, <1>3, PTL DEF StrategySpec, DraftsChangeForACause

-----------------------------------------------------------------------------
(* The session of a page                                                   *)

SessionSpec == SessionInit /\ [][SessionNext]_sessionVars

AppFields == {"in", "screen", "data", "socket"}
FormFields == {"step", "email", "register"}
FlightFields == {"kind", "token", "wanted"}

\* A query whose answer is still wanted was asked by this session.
FlightOK(f, t) ==
  DOMAIN f = FlightFields /\ (f.kind = "query" /\ f.wanted => f.token = t /\ t # 0)

SessionInv ==
  /\ accounts \in [Emails -> {"none"} \cup Visitors]
  /\ DOMAIN login = FormFields /\ (login.step = "registering" => login.email \in Emails)
  /\ DOMAIN tokens = {"of", "expired"} /\ DOMAIN app = AppFields
  /\ \A f \in flights : FlightOK(f, token)
  /\ AccountsAreKept
  /\ DataIsOfSession

LEMMA FormAtRest == DOMAIN IdleForm = FormFields /\ IdleForm.step = "idle"
BY DEF IdleForm, FormFields

LEMMA SessionStarts == SessionInit => SessionInv
<1> SUFFICES ASSUME SessionInit PROVE SessionInv OBVIOUS
<1>1. accounts \in [Emails -> {"none"} \cup Visitors] BY DEF SessionInit, Visitors
<1>2. DOMAIN login = FormFields /\ login.step = "idle" BY FormAtRest DEF SessionInit
<1>3. DOMAIN app = AppFields /\ app.in = FALSE /\ app.data = {} /\ app.socket = 0
  BY DEF SessionInit, SignedOut, AppFields
<1>4. AccountsAreKept
  <2>1. \A e \in Emails, w \in Visitors : <<w, e>> \in created <=> (w = "page" /\ accounts[e] = "page")
    BY DEF SessionInit
  <2>2. \A e \in Emails : accounts[e] \in {"none", "page"} BY DEF SessionInit
  <2> QED BY <2>1, <2>2 DEF AccountsAreKept, Visitors
<1>5. DataIsOfSession BY <1>3 DEF SessionInit, DataIsOfSession
<1> QED BY <1>1, <1>2, <1>3, <1>4, <1>5 DEF SessionInit, SessionInv

\* An insertion keeps one account per address.
LEMMA InsertedKeeps ==
  ASSUME SessionInv, NEW who \in Visitors, NEW email \in Emails, Inserted(who, email)
  PROVE  accounts' \in [Emails -> {"none"} \cup Visitors] /\ AccountsAreKept'
<1>0. who # "none" BY DEF Visitors
<1>1. CASE accounts[email] = "none"
  <2>1. accounts' = [accounts EXCEPT ![email] = who] /\ created' = created \cup {<<who, email>>}
    BY <1>1 DEF Inserted, Inserts
  <2>2. accounts' \in [Emails -> {"none"} \cup Visitors] BY <2>1 DEF SessionInv
  <2>3. ASSUME NEW e \in Emails
        PROVE  {w \in Visitors : <<w, e>> \in created'} = {accounts'[e]} \ {"none"}
    <3>0. {w \in Visitors : <<w, e>> \in created} = {accounts[e]} \ {"none"}
      BY DEF SessionInv, AccountsAreKept
    <3>1. CASE e = email
      <4>1. accounts'[e] = who BY <2>1, <3>1 DEF SessionInv
      <4>2. \A w \in Visitors : <<w, e>> \notin created BY <1>1, <3>0, <3>1
      <4> QED BY <1>0, <2>1, <3>1, <4>1, <4>2
    <3>2. CASE e # email
      <4>1. accounts'[e] = accounts[e] BY <2>1, <3>2 DEF SessionInv
      <4>2. \A w \in Visitors : <<w, e>> \in created' <=> <<w, e>> \in created BY <2>1, <3>2
      <4> QED BY <3>0, <4>1, <4>2
    <3> QED BY <3>1, <3>2
  <2> QED BY <2>2, <2>3 DEF AccountsAreKept
<1>2. CASE accounts[email] # "none"
  BY <1>2 DEF Inserted, Inserts, SessionInv, AccountsAreKept
<1> QED BY <1>1, <1>2

\* A new token, or the loss of one, leaves nothing of the session before.
LEMMA TokenClears ==
  ASSUME SessionInv, NEW t, NEW old, NEW new, SetToken(t, old, new),
         old \subseteq flights, \A f \in new : FlightOK(f, t)
  PROVE  /\ DOMAIN app' = AppFields /\ app'.in = (t # 0) /\ app'.data = {} /\ app'.socket = 0
         /\ token' = t /\ \A f \in flights' : FlightOK(f, token')
<1>1. PICK b \in BOOLEAN : b = (t # 0) OBVIOUS
<1>2. PICK s : s = IF t = 0 THEN "market" ELSE ClearedState(app).screen OBVIOUS
<1>3. DOMAIN app = AppFields BY DEF SessionInv
<1>4. DOMAIN ClearedState(app) = AppFields /\ ClearedState(app).data = {} /\ ClearedState(app).socket = 0
  BY <1>3 DEF ClearedState, AppFields
<1>5. PICK c : c = ClearedState(app) OBVIOUS
<1>6. app' = [c EXCEPT !.in = b, !.screen = s] BY <1>1, <1>2, <1>5 DEF SetToken
<1>7. DOMAIN app' = AppFields /\ app'.in = b /\ app'.data = {} /\ app'.socket = 0
  BY <1>4, <1>5, <1>6 DEF AppFields
<1>8. token' = t /\ flights' = Dropped(old) \cup new BY DEF SetToken
<1>9. ASSUME NEW f \in Dropped(old) PROVE FlightOK(f, t)
  <2>1. PICK g \in old : f = [g EXCEPT !.wanted = FALSE] BY DEF Dropped
  <2>2. DOMAIN g = FlightFields BY DEF SessionInv, FlightOK
  <2>3. DOMAIN f = FlightFields /\ f.wanted = FALSE BY <2>1, <2>2 DEF FlightFields
  <2> QED BY <2>3 DEF FlightOK
<1> QED BY <1>1, <1>7, <1>8, <1>9

LEMMA SignedIn ==
  ASSUME SessionInv, DOMAIN app' = AppFields, app'.in = (token' # 0), app'.data = {}, app'.socket = 0
  PROVE  DataIsOfSession'
BY DEF DataIsOfSession

LEMMA AccountStep ==
  ASSUME SessionInv, OtherVisitor \/ Registered \/ Login
  PROVE  SessionInv'
<1>1. CASE OtherVisitor
  <2>1. PICK email \in Emails : \/ Registers("other", email) /\ UNCHANGED <<accounts, created>>
                                \/ Inserted("other", email)
    BY <1>1 DEF OtherVisitor
  <2>2. UNCHANGED <<tokens, token, app, login, flights>> BY <1>1 DEF OtherVisitor
  <2>3. accounts' \in [Emails -> {"none"} \cup Visitors] /\ AccountsAreKept'
    BY <2>1, InsertedKeeps DEF Visitors, SessionInv, AccountsAreKept
  <2> QED BY <2>2, <2>3 DEF SessionInv, DataIsOfSession
<1>2. CASE Registered
  <2>1. login.email \in Emails /\ Inserted("page", login.email) BY <1>2 DEF Registered, SessionInv
  <2>2. UNCHANGED <<tokens, token, app, flights>> BY <1>2 DEF Registered
  <2>3. accounts' \in [Emails -> {"none"} \cup Visitors] /\ AccountsAreKept'
    BY <2>1, InsertedKeeps DEF Visitors
  <2>4. DOMAIN login' = FormFields /\ login'.step # "registering"
    <3>1. login' = IdleForm \/ login' = [login EXCEPT !.step = "login"] BY <1>2 DEF Registered
    <3>2. DOMAIN login = FormFields BY DEF SessionInv
    <3>3. CASE login' = IdleForm BY <3>3, FormAtRest
    <3>4. CASE login' = [login EXCEPT !.step = "login"] BY <3>2, <3>4 DEF FormFields
    <3> QED BY <3>1, <3>3, <3>4
  <2> QED BY <2>2, <2>3, <2>4 DEF SessionInv, DataIsOfSession
<1>3. CASE Login
  <2>1. UNCHANGED <<accounts, created, tokens, token, app, flights>> BY <1>3 DEF Login
  <2>2. PICK email \in Emails, step \in {"registering", "login"}, register \in BOOLEAN :
          login' = [step |-> step, email |-> email, register |-> register]
    BY <1>3 DEF Login
  <2>3. DOMAIN login' = FormFields /\ login'.email \in Emails BY <2>2 DEF FormFields
  <2> QED BY <2>1, <2>3 DEF SessionInv, DataIsOfSession, AccountsAreKept
<1> QED BY <1>1, <1>2, <1>3

LEMMA TokenStep ==
  ASSUME SessionInv, LoggedIn \/ Logout
  PROVE  SessionInv'
<1>1. PICK t, new : SetToken(t, flights, new) /\ \A f \in new : FlightOK(f, t)
  <2>1. CASE Logout BY <2>1 DEF Logout
  <2>2. CASE LoggedIn /\ accounts[login.email] = "page"
    <3>1. PICK f : f = Flight("me", Issued + 1) OBVIOUS
    <3>2. SetToken(Issued + 1, flights, {f}) BY <2>2, <3>1 DEF LoggedIn
    <3>3. DOMAIN f = FlightFields /\ f.kind = "me" BY <3>1 DEF Flight, FlightFields
    <3>4. FlightOK(f, Issued + 1) BY <3>3 DEF FlightOK
    <3> QED BY <3>2, <3>4
  <2>3. CASE LoggedIn /\ accounts[login.email] # "page" BY <2>3 DEF LoggedIn
  <2> QED BY <2>1, <2>2, <2>3
<1>2. /\ DOMAIN app' = AppFields /\ app'.in = (t # 0) /\ app'.data = {} /\ app'.socket = 0
      /\ token' = t /\ \A f \in flights' : FlightOK(f, token')
  BY <1>1, TokenClears
<1>3. DataIsOfSession' BY <1>2, SignedIn
<1>4. DOMAIN tokens' = {"of", "expired"}
  <2>1. DOMAIN tokens = {"of", "expired"} BY DEF SessionInv
  <2>2. tokens' = tokens \/ \E x : tokens' = [tokens EXCEPT !.of = x] BY DEF LoggedIn, Logout
  <2> QED BY <2>1, <2>2
<1>5. DOMAIN login' = FormFields /\ (login'.step = "registering" => login'.email \in Emails)
  <2>1. login' = login \/ login' = IdleForm BY DEF LoggedIn, Logout
  <2> QED BY <2>1, FormAtRest DEF SessionInv
<1>6. UNCHANGED <<accounts, created>> BY DEF LoggedIn, Logout
<1> QED BY <1>2, <1>3, <1>4, <1>5, <1>6 DEF SessionInv, AccountsAreKept

LEMMA AnswerOfSession ==
  ASSUME SessionInv, Replied
  PROVE  SessionInv'
<1>1. PICK f \in flights :
        IF f.token \in tokens.expired
        THEN SetToken(0, flights \ {f}, {})
        ELSE /\ flights' = flights \ {f} /\ UNCHANGED token
             /\ app' = [app EXCEPT !.screen = IF f.kind = "me" THEN "market" ELSE @,
                                   !.data = IF f.kind = "query" /\ f.wanted
                                            THEN @ \cup {tokens.of[f.token]} ELSE @]
  BY DEF Replied
<1>2. UNCHANGED <<accounts, inserting, created, tokens, login>> BY DEF Replied
<1>3. DOMAIN app = AppFields /\ FlightOK(f, token) BY DEF SessionInv
<1>4. CASE f.token \in tokens.expired
  <2>1. SetToken(0, flights \ {f}, {}) BY <1>1, <1>4
  <2>2. /\ DOMAIN app' = AppFields /\ app'.in = (0 # 0) /\ app'.data = {} /\ app'.socket = 0
        /\ token' = 0 /\ \A g \in flights' : FlightOK(g, token')
    BY <2>1, TokenClears
  <2>3. DataIsOfSession' BY <2>2, SignedIn
  <2> QED BY <1>2, <2>2, <2>3 DEF SessionInv, AccountsAreKept
<1>5. CASE f.token \notin tokens.expired
  <2>1. flights' = flights \ {f} /\ token' = token BY <1>1, <1>5
  <2>2. PICK s : s = IF f.kind = "me" THEN "market" ELSE app.screen OBVIOUS
  <2>3. PICK d : d = IF f.kind = "query" /\ f.wanted THEN app.data \cup {tokens.of[f.token]} ELSE app.data
    OBVIOUS
  <2>4. app' = [app EXCEPT !.screen = s, !.data = d] BY <1>1, <1>5, <2>2, <2>3
  <2>5. DOMAIN app' = AppFields /\ app'.in = app.in /\ app'.data = d /\ app'.socket = app.socket
    BY <1>3, <2>4 DEF AppFields
  <2>6. d \subseteq (IF token = 0 THEN {} ELSE {tokens.of[token]})
    BY <1>3, <2>3 DEF SessionInv, DataIsOfSession, FlightOK
  <2>7. DataIsOfSession' BY <1>2, <2>1, <2>5, <2>6 DEF DataIsOfSession, SessionInv
  <2> QED BY <1>2, <2>1, <2>5, <2>7 DEF SessionInv, AccountsAreKept
<1> QED BY <1>4, <1>5

LEMMA PageStep ==
  ASSUME SessionInv, Expire \/ AskBackend \/ Unanswered \/ LoadPage \/ Navigate \/ OpenSocket
  PROVE  SessionInv'
<1>0. UNCHANGED <<accounts, created, token>>
  BY DEF Expire, AskBackend, Unanswered, LoadPage, Navigate, OpenSocket
<1>a. DOMAIN app = AppFields /\ DOMAIN tokens = {"of", "expired"} BY DEF SessionInv
<1>1. DOMAIN tokens' = {"of", "expired"} /\ tokens'.of = tokens.of
  <2>1. tokens' = tokens \/ \E x : tokens' = [tokens EXCEPT !.expired = x]
    BY DEF Expire, AskBackend, Unanswered, LoadPage, Navigate, OpenSocket
  <2> QED BY <1>a, <2>1
<1>2. DOMAIN login' = FormFields /\ (login'.step = "registering" => login'.email \in Emails)
  <2>1. login' = login \/ login' = IdleForm
    BY DEF Expire, AskBackend, Unanswered, LoadPage, Navigate, OpenSocket
  <2> QED BY <2>1, FormAtRest DEF SessionInv
<1>3. \A f \in flights' : FlightOK(f, token')
  <2>1. CASE AskBackend
    <3>1. PICK q : q = Flight("query", token) OBVIOUS
    <3>2. DOMAIN q = FlightFields /\ q.token = token BY <3>1 DEF Flight, FlightFields
    <3>3. token # 0 BY <2>1 DEF AskBackend, SessionInv, DataIsOfSession
    <3>4. FlightOK(q, token) BY <3>2, <3>3 DEF FlightOK
    <3> QED BY <1>0, <2>1, <3>1, <3>4 DEF AskBackend, SessionInv
  <2>2. CASE Expire \/ Unanswered \/ LoadPage \/ Navigate \/ OpenSocket
    <3>1. flights' \subseteq flights
      BY <2>2 DEF Expire, Unanswered, LoadPage, Navigate, OpenSocket
    <3> QED BY <1>0, <3>1 DEF SessionInv
  <2> QED BY <2>1, <2>2
<1>4. /\ DOMAIN app' = AppFields /\ app'.in = (token # 0)
      /\ app'.data = {} \/ app'.data = app.data
      /\ app'.socket \in {0, token, app.socket}
  <2>1. CASE LoadPage
    <3>1. PICK b \in BOOLEAN : b = (token # 0) OBVIOUS
    <3>2. PICK s : s = app.screen OBVIOUS
    <3>3. app' = [SignedOut EXCEPT !.in = b, !.screen = s] BY <2>1, <3>1, <3>2 DEF LoadPage
    <3>4. DOMAIN app' = AppFields /\ app'.in = b /\ app'.data = {} /\ app'.socket = 0
      BY <3>3 DEF SignedOut, AppFields
    <3> QED BY <3>1, <3>4
  <2>2. CASE Expire \/ AskBackend \/ Unanswered
    BY <1>a, <2>2 DEF Expire, AskBackend, Unanswered, SessionInv, DataIsOfSession
  <2>3. CASE Navigate
    <3>1. PICK s : app' = [app EXCEPT !.screen = s] BY <2>3 DEF Navigate
    <3>2. DOMAIN app' = AppFields /\ app'.in = app.in /\ app'.data = app.data
          /\ app'.socket = app.socket
      BY <1>a, <3>1 DEF AppFields
    <3> QED BY <3>2 DEF SessionInv, DataIsOfSession
  <2>4. CASE OpenSocket
    <3>1. app' = [app EXCEPT !.socket = token] BY <2>4 DEF OpenSocket
    <3>2. DOMAIN app' = AppFields /\ app'.in = app.in /\ app'.data = app.data
          /\ app'.socket = token
      BY <1>a, <3>1 DEF AppFields
    <3> QED BY <3>2 DEF SessionInv, DataIsOfSession
  <2> QED BY <2>1, <2>2, <2>3, <2>4
<1>5. DataIsOfSession' BY <1>0, <1>1, <1>4 DEF DataIsOfSession, SessionInv
<1> QED BY <1>0, <1>1, <1>2, <1>3, <1>4, <1>5 DEF SessionInv, AccountsAreKept

\* Through logins, losses of the token, late answers and competing
\* registrations: the query cache of the page holds answers to its account only,
\* its socket carries its token, and an address belongs to the one registration
\* that succeeded; of what localStorage keeps the theorem says nothing
\* (clearAuthenticatedClientState, session.set, the unique address of insert).
THEOREM SessionStaysTrue == SessionSpec => []SessionIsTrue
<1>1. SessionInit => SessionInv BY SessionStarts
<1>2. SessionInv /\ [SessionNext]_sessionVars => SessionInv'
  <2> SUFFICES ASSUME SessionInv, [SessionNext]_sessionVars PROVE SessionInv' OBVIOUS
  <2>1. CASE UNCHANGED sessionVars
    BY <2>1 DEF sessionVars, SessionInv, AccountsAreKept, DataIsOfSession
  <2> QED BY <2>1, AccountStep, TokenStep, AnswerOfSession, PageStep DEF SessionNext
<1>3. SessionInv => SessionIsTrue BY DEF SessionInv, SessionIsTrue
<1> QED BY <1>1, <1>2, <1>3, PTL DEF SessionSpec

-----------------------------------------------------------------------------
(* The backtest screen                                                     *)

BacktestSpec == BacktestInit /\ [][BacktestNext]_btVars

Forms == Params \cup {Default}
ScopeType == [params : Forms, deleted : BOOLEAN]
Moving == {"queued", "processing", "deleted"} \cup Ended
CandType == [scope : Nat, status : Moving, form : Forms, clean : BOOLEAN]
UiType == [mount : Nat, open : BOOLEAN, form : Forms, scope : Nat, cand : Nat,
           seen : Moving \cup {"none"}, shown : Nat]
Kinds == {"create", "save", "submit", "delete", "deleted"}
CallType == [kind : Kinds, mount : Nat, scope : Nat, form : Forms, clean : BOOLEAN]

\* The scope a form was saved as.
ScopeHolds(ss, s, f) == s \in DOMAIN ss /\ ss[s].params = f

\* A call made on the screen that is mounted.
Of(c, u) == u.open /\ c.mount = u.mount

\* A call that submits a clean run names the scope that holds its form.
CallOK(c, ss) ==
  /\ c.kind = "submit" /\ c.clean => ScopeHolds(ss, c.scope, c.form)
  /\ c.kind = "create" => c.clean

\* While a scope is created or saved the form is the one of the click, unless
\* it is known to have been changed.
FormKept(c, u, x) ==
  Of(c, u) /\ (c.kind = "save" \/ (c.kind = "create" /\ ~x)) => u.form = c.form

\* A preset that is chosen holds the form.
ChosenHolds(u, ss, x) == u.open /\ ~x /\ u.scope # 0 => ScopeHolds(ss, u.scope, u.form)

\* A Candidate tests a scope there is, which holds the form of a clean click.
RunOK(k, ss) == k.scope \in DOMAIN ss /\ (k.clean => ss[k.scope].params = k.form)

BtTyped ==
  /\ scopes \in Seq(ScopeType) /\ cands \in Seq(CandType) /\ ui \in UiType
  /\ latest \in Nat /\ waiting \subseteq CallType
  /\ crossed \in BOOLEAN /\ outdated \in BOOLEAN

RunsInv ==
  /\ \A k \in DOMAIN cands : RunOK(cands[k], scopes)
  /\ \A c \in waiting : /\ CallOK(c, scopes) /\ FormKept(c, ui, crossed)
                        /\ c.mount <= ui.mount
  /\ ChosenHolds(ui, scopes, crossed)

ShownInv ==
  /\ {ui.shown, ui.cand, latest} \subseteq {0} \cup DOMAIN cands
  /\ ShownExists

BtInv == BtTyped /\ RunsInv /\ ShownInv

LEMMA BacktestStarts == BacktestInit => BtInv
<1> SUFFICES ASSUME BacktestInit PROVE BtInv OBVIOUS
<1>1. BtTyped
  <2>1. ui = NoScreen(0) /\ Default \in Forms BY DEF BacktestInit, Forms
  <2>2. ui \in UiType BY <2>1 DEF NoScreen, UiType
  <2>3. scopes \in Seq(ScopeType) /\ cands \in Seq(CandType) /\ waiting = {} BY DEF BacktestInit
  <2> QED BY <2>2, <2>3 DEF BacktestInit, BtTyped
<1>2. RunsInv
  <2>1. DOMAIN cands = {} /\ waiting = {} /\ ~ ui.open BY DEF BacktestInit, NoScreen
  <2> QED BY <2>1 DEF RunsInv, ChosenHolds
<1>3. ShownInv BY DEF BacktestInit, ShownInv, NoScreen, ShownExists, At
<1> QED BY <1>1, <1>2, <1>3 DEF BtInv

\* A scope that is added or deleted keeps what the others were saved as.
LEMMA ScopesStay ==
  ASSUME NEW ss, NEW tt,
         DOMAIN ss \subseteq DOMAIN tt, \A s \in DOMAIN ss : tt[s].params = ss[s].params
  PROVE  /\ \A s, f : ScopeHolds(ss, s, f) => ScopeHolds(tt, s, f)
         /\ \A c : CallOK(c, ss) => CallOK(c, tt)
         /\ \A u, x : ChosenHolds(u, ss, x) => ChosenHolds(u, tt, x)
         /\ \A k : RunOK(k, ss) => RunOK(k, tt)
<1>1. \A s, f : ScopeHolds(ss, s, f) => ScopeHolds(tt, s, f) BY DEF ScopeHolds
<1>2. \A c : CallOK(c, ss) => CallOK(c, tt) BY <1>1 DEF CallOK
<1>3. \A u, x : ChosenHolds(u, ss, x) => ChosenHolds(u, tt, x) BY <1>1 DEF ChosenHolds
<1>4. \A k : RunOK(k, ss) => RunOK(k, tt) BY DEF RunOK
<1> QED BY <1>1, <1>2, <1>3, <1>4

\* The first scope of the list is one of them.
LEMMA FirstIsLive ==
  ASSUME BtTyped, Live # {}
  PROVE  (CHOOSE s \in Live : \A t \in Live : s <= t) \in Live
<1>1. IsFiniteSet(DOMAIN scopes) /\ DOMAIN scopes \subseteq Int
  <2>1. scopes \in Seq(ScopeType) BY DEF BtTyped
  <2>2. DOMAIN scopes = 1 .. Len(scopes) /\ Len(scopes) \in Int BY <2>1
  <2> QED BY <2>2, FS_Interval
<1>2. IsFiniteSet(Live) /\ Live \in SUBSET Int BY <1>1, FS_Subset DEF Live
<1>3. \E s \in Live : \A t \in Live : s <= t BY <1>2, EndsOf
<1> QED BY <1>3

LEMMA BtFields ==
  ASSUME BtTyped
  PROVE  /\ DOMAIN ui = {"mount", "open", "form", "scope", "cand", "seen", "shown"}
         /\ DOMAIN scopes = 1 .. Len(scopes) /\ Len(scopes) \in Nat
         /\ DOMAIN cands = 1 .. Len(cands) /\ Len(cands) \in Nat
         /\ ui.mount \in Nat /\ ui.open \in BOOLEAN /\ ui.form \in Forms /\ Default \in Forms
         /\ \A s \in DOMAIN scopes : scopes[s] \in ScopeType /\ scopes[s].params \in Forms
         /\ \A k \in DOMAIN cands : cands[k] \in CandType
         /\ \A c \in waiting : c \in CallType /\ c.form \in Forms /\ c.mount \in Nat
<1>1. ui \in UiType /\ scopes \in Seq(ScopeType) /\ cands \in Seq(CandType) /\ waiting \subseteq CallType
  BY DEF BtTyped
<1>2. DOMAIN ui = {"mount", "open", "form", "scope", "cand", "seen", "shown"}
      /\ ui.mount \in Nat /\ ui.open \in BOOLEAN /\ ui.form \in Forms
  BY <1>1 DEF UiType
<1>3. DOMAIN scopes = 1 .. Len(scopes) /\ Len(scopes) \in Nat
      /\ \A s \in DOMAIN scopes : scopes[s] \in ScopeType
  BY <1>1
<1>4. \A s \in DOMAIN scopes : scopes[s].params \in Forms BY <1>3 DEF ScopeType
<1>5. DOMAIN cands = 1 .. Len(cands) /\ Len(cands) \in Nat
      /\ \A k \in DOMAIN cands : cands[k] \in CandType
  BY <1>1
<1>6. \A c \in waiting : c \in CallType /\ c.form \in Forms /\ c.mount \in Nat BY <1>1 DEF CallType
<1> QED BY <1>2, <1>3, <1>4, <1>5, <1>6 DEF Forms

\* A step that leaves the backend and the calls alone, and shows no other
\* Experiment than one there is.
LEMMA ShownStays ==
  ASSUME ShownInv, cands' = cands, waiting' = waiting, outdated' = outdated,
         {ui'.shown, ui'.cand, latest'} \subseteq {ui.shown, ui.cand, latest, 0},
         {ui'.shown, latest'} \subseteq {ui.shown, latest, 0}
  PROVE  ShownInv'
BY DEF ShownInv, ShownExists, At

\* The screen is opened and left, and its form is changed.
LEMMA FormSteps ==
  ASSUME BtInv, OpenBacktest \/ LeaveBacktest \/ Edit \/ SelectScope
  PROVE  BtInv'
<1> USE DEF BtInv
<1>1. CASE OpenBacktest
  <2>1. PICK first : first = (IF Live = {} THEN 0 ELSE CHOOSE s \in Live : \A t \in Live : s <= t)
    OBVIOUS
  <2>2. first = 0 \/ first \in Live BY <2>1, FirstIsLive
  <2>3. first \in Nat /\ (first # 0 => first \in DOMAIN scopes) BY <2>2, BtFields DEF Live
  <2>4. PICK f : f = (IF first = 0 THEN Default ELSE scopes[first].params) OBVIOUS
  <2>5. f \in Forms BY <2>3, <2>4, BtFields
  <2>6. PICK m \in Nat : m = ui.mount + 1 BY BtFields
  <2>7. ui' = [NoScreen(m) EXCEPT !.open = TRUE, !.shown = latest, !.scope = first, !.form = f]
    BY <1>1, <2>1, <2>4, <2>6 DEF OpenBacktest, NoScreen
  <2>8. ui' = [mount |-> m, open |-> TRUE, form |-> f, scope |-> first, cand |-> 0,
               seen |-> "none", shown |-> latest]
    BY <2>7 DEF NoScreen
  <2>9. BtTyped'
    <3>1. latest \in Nat BY DEF BtTyped
    <3>2. ui' \in UiType BY <2>3, <2>5, <2>8, <3>1 DEF UiType
    <3> QED BY <1>1, <3>2 DEF OpenBacktest, BtTyped
  <2>10. \A c \in waiting : ~ Of(c, ui')
    BY <2>6, <2>8, BtFields DEF RunsInv, Of
  <2>11. RunsInv'
    <3>1. \A k \in DOMAIN cands' : RunOK(cands'[k], scopes') BY <1>1 DEF OpenBacktest, RunsInv
    <3>2. ASSUME NEW c \in waiting
          PROVE CallOK(c, scopes') /\ FormKept(c, ui', crossed') /\ c.mount <= ui'.mount
      <4>0. scopes' = scopes BY <1>1 DEF OpenBacktest
      <4>1. CallOK(c, scopes) /\ c.mount <= ui.mount BY DEF RunsInv
      <4>2. c.mount \in Nat /\ ui.mount \in Nat /\ ui'.mount = ui.mount + 1 BY <2>6, <2>8, BtFields
      <4> QED BY <2>10, <4>0, <4>1, <4>2 DEF FormKept
    <3>3. ChosenHolds(ui', scopes', crossed')
      <4>1. scopes' = scopes BY <1>1 DEF OpenBacktest
      <4> QED BY <2>3, <2>4, <2>8, <4>1 DEF ChosenHolds, ScopeHolds
    <3>4. waiting' = waiting BY <1>1 DEF OpenBacktest
    <3> QED BY <3>1, <3>2, <3>3, <3>4 DEF RunsInv
  <2>12. ShownInv'
    <3>1. UNCHANGED <<cands, waiting, outdated, latest>> BY <1>1 DEF OpenBacktest
    <3> QED BY <2>8, <3>1, ShownStays
  <2> QED BY <2>9, <2>11, <2>12
<1>2. CASE LeaveBacktest
  <2>1. ui' = [mount |-> ui.mount, open |-> FALSE, form |-> Default, scope |-> 0, cand |-> 0,
               seen |-> "none", shown |-> 0]
    BY <1>2 DEF LeaveBacktest, NoScreen
  <2>2. BtTyped'
    <3>1. ui' \in UiType BY <2>1, BtFields DEF UiType
    <3> QED BY <1>2, <3>1 DEF LeaveBacktest, BtTyped
  <2>3. RunsInv' BY <1>2, <2>1 DEF LeaveBacktest, RunsInv, FormKept, ChosenHolds, Of
  <2>4. ShownInv' BY <1>2, <2>1, ShownStays DEF LeaveBacktest
  <2> QED BY <2>2, <2>3, <2>4
<1>3. ASSUME NEW f \in Forms, NEW s \in Nat, Changes,
             ui' = [ui EXCEPT !.form = f, !.scope = s], s # 0 => ScopeHolds(scopes, s, f),
             crossed' = Creating, UNCHANGED <<scopes, cands, latest, waiting, outdated>>
      PROVE  BtInv'
  <2>1. /\ ui'.mount = ui.mount /\ ui'.open = ui.open /\ ui'.form = f /\ ui'.scope = s
        /\ ui'.cand = ui.cand /\ ui'.shown = ui.shown
    BY <1>3, BtFields
  <2>2. ui' \in UiType BY <1>3 DEF BtTyped, UiType
  <2>3. Creating \in BOOLEAN BY DEF Creating
  <2>4. BtTyped' BY <1>3, <2>2, <2>3 DEF BtTyped
  <2>5. ASSUME NEW c \in waiting PROVE FormKept(c, ui', crossed')
    <3> SUFFICES ASSUME Of(c, ui'), c.kind = "save" \/ (c.kind = "create" /\ ~ crossed')
                 PROVE FALSE
      BY DEF FormKept
    <3>1. Mine(c) BY <2>1 DEF Of, Mine
    <3>2. CASE c.kind = "save" BY <1>3, <3>1, <3>2 DEF Changes, Modal, At
    <3>3. CASE c.kind = "create" /\ ~ crossed' BY <1>3, <3>1, <3>3 DEF Creating, At
    <3> QED BY <3>2, <3>3
  <2>6. RunsInv' BY <1>3, <2>1, <2>5 DEF RunsInv, ChosenHolds
  <2>7. ShownInv' BY <1>3, <2>1, ShownStays
  <2> QED BY <2>4, <2>6, <2>7
<1>4. CASE Edit
  <2>1. PICK p \in Params \ {ui.form} :
          /\ Changes /\ ui' = [ui EXCEPT !.form = p, !.scope = 0]
          /\ crossed' = Creating /\ UNCHANGED <<scopes, cands, latest, waiting, outdated>>
    BY <1>4 DEF Edit
  <2> QED BY <1>3, <2>1 DEF Forms
<1>5. CASE SelectScope
  <2>1. PICK s \in Live \cup {0} :
          /\ Changes /\ s # ui.scope
          /\ ui' = [ui EXCEPT !.scope = s, !.form = IF s = 0 THEN @ ELSE scopes[s].params]
          /\ crossed' = Creating /\ UNCHANGED <<scopes, cands, latest, waiting, outdated>>
    BY <1>5 DEF SelectScope
  <2>2. PICK f : f = (IF s = 0 THEN ui.form ELSE scopes[s].params) OBVIOUS
  <2>3. s # 0 => s \in DOMAIN scopes BY <2>1 DEF Live
  <2>4. f \in Forms /\ s \in Nat BY <2>2, <2>3, BtFields
  <2>5. ui' = [ui EXCEPT !.form = f, !.scope = s] BY <2>1, <2>2, BtFields
  <2> QED BY <1>3, <2>1, <2>2, <2>3, <2>4, <2>5 DEF ScopeHolds
<1> QED BY <1>1, <1>2, <1>4, <1>5

\* A click that starts a run, saves a preset or deletes one.
LEMMA NewCall ==
  ASSUME BtInv, NEW q \in CallType, waiting' = waiting \cup {q},
         CallOK(q, scopes), FormKept(q, ui, crossed), q.mount = ui.mount,
         UNCHANGED <<scopes, cands, ui, latest, crossed, outdated>>
  PROVE  BtInv'
<1> USE DEF BtInv
<1>1. BtTyped' BY DEF BtTyped
<1>2. q.mount <= ui.mount BY BtFields
<1>3. RunsInv' BY <1>2 DEF RunsInv
<1>4. ShownInv' BY DEF ShownInv, ShownExists, At
<1> QED BY <1>1, <1>3, <1>4

LEMMA ClickSteps ==
  ASSUME BtInv, Run \/ SavePreset \/ DeletePreset
  PROVE  BtInv'
<1>0. BtTyped BY DEF BtInv
<1>1. CASE Run
  <2>1. PICK kind : kind = (IF ui.scope = 0 THEN "create" ELSE "submit") OBVIOUS
  <2>2. kind \in {"create", "submit"} BY <2>1
  <2>3. PICK clean : clean = (kind = "submit" => ~ crossed) OBVIOUS
  <2>4. PICK q : q = Call(kind, ui.scope) OBVIOUS
  <2>5. q = [kind |-> kind, mount |-> ui.mount, scope |-> ui.scope, form |-> ui.form, clean |-> clean]
    BY <2>2, <2>3, <2>4 DEF Call
  <2>6. ui.scope \in Nat BY <1>0 DEF BtTyped, UiType
  <2>7. q \in CallType BY <1>0, <2>2, <2>3, <2>5, <2>6, BtFields DEF CallType, Kinds
  <2>8. q.kind = "submit" /\ q.clean => ScopeHolds(scopes, q.scope, q.form)
    <3> SUFFICES ASSUME q.kind = "submit", q.clean PROVE ScopeHolds(scopes, q.scope, q.form)
      OBVIOUS
    <3>1. kind = "submit" /\ clean BY <2>5
    <3>2. ui.scope # 0 /\ ~ crossed BY <2>1, <2>3, <3>1
    <3>3. ui.open BY <1>1 DEF Run
    <3> QED BY <2>5, <3>2, <3>3 DEF BtInv, RunsInv, ChosenHolds
  <2>9. CallOK(q, scopes) BY <2>2, <2>3, <2>5, <2>8 DEF CallOK
  <2>10. FormKept(q, ui, crossed) BY <2>5 DEF FormKept
  <2> QED BY <1>1, <2>1, <2>4, <2>5, <2>7, <2>9, <2>10, NewCall DEF Run
<1>2. CASE SavePreset
  <2>1. PICK q : q = Call("save", 0) OBVIOUS
  <2>2. q = [kind |-> "save", mount |-> ui.mount, scope |-> 0, form |-> ui.form, clean |-> TRUE]
    BY <2>1 DEF Call
  <2>3. q \in CallType BY <1>0, <2>2, BtFields DEF CallType, Kinds
  <2>4. CallOK(q, scopes) /\ FormKept(q, ui, crossed) BY <2>2 DEF CallOK, FormKept
  <2> QED BY <1>2, <2>1, <2>2, <2>3, <2>4, NewCall DEF SavePreset
<1>3. CASE DeletePreset
  <2>1. PICK q : q = Call("delete", ui.scope) OBVIOUS
  <2>2. q = [kind |-> "delete", mount |-> ui.mount, scope |-> ui.scope, form |-> Default,
             clean |-> TRUE]
    BY <2>1 DEF Call
  <2>3. ui.scope \in Nat BY <1>0 DEF BtTyped, UiType
  <2>4. q \in CallType BY <1>0, <2>2, <2>3, BtFields DEF CallType, Kinds
  <2>5. CallOK(q, scopes) /\ FormKept(q, ui, crossed) BY <2>2 DEF CallOK, FormKept
  <2> QED BY <1>3, <2>1, <2>2, <2>4, <2>5, NewCall DEF DeletePreset
<1> QED BY <1>1, <1>2, <1>3

\* A scope is created for a run, or saved as a preset.
LEMMA CreateStep ==
  ASSUME BtInv, CreateScope
  PROVE  BtInv'
<1> USE DEF BtInv
<1>1. PICK c \in At("create") \cup At("save") :
        /\ scopes' = Append(scopes, [params |-> c.form, deleted |-> FALSE])
        /\ ui' = IF Mine(c) THEN [ui EXCEPT !.scope = Len(scopes) + 1] ELSE ui
        /\ waiting' = (waiting \ {c}) \cup
             (IF c.kind = "save" THEN {} ELSE {[c EXCEPT !.kind = "submit", !.scope = Len(scopes) + 1]})
        /\ UNCHANGED <<cands, latest, edits, crossed, outdated>>
  BY DEF CreateScope
<1>2. c \in waiting /\ c.kind \in {"create", "save"} BY DEF At
<1>3. c \in CallType /\ c.form \in Forms /\ c.mount \in Nat BY <1>2, BtFields
<1>4. PICK n \in Nat : n = Len(scopes) + 1 BY BtFields
<1>5. PICK t : t = [params |-> c.form, deleted |-> FALSE] OBVIOUS
<1>6. t \in ScopeType /\ t.params = c.form BY <1>3, <1>5 DEF ScopeType
<1>7. /\ scopes' \in Seq(ScopeType) /\ DOMAIN scopes' = 1 .. n
      /\ scopes'[n].params = c.form /\ n # 0
      /\ \A s \in DOMAIN scopes : s \in DOMAIN scopes' /\ scopes'[s] = scopes[s]
  <2>1. scopes \in Seq(ScopeType) /\ scopes' = Append(scopes, t) BY <1>1, <1>5 DEF BtTyped
  <2> QED BY <1>4, <1>6, <2>1
<1>8. ScopeHolds(scopes', n, c.form) BY <1>4, <1>7 DEF ScopeHolds
<1>9. PICK q : q = [c EXCEPT !.kind = "submit", !.scope = n] OBVIOUS
<1>10. /\ q \in CallType /\ q.kind = "submit" /\ q.scope = n /\ q.form = c.form
       /\ q.mount = c.mount
  BY <1>3, <1>9 DEF CallType, Kinds
<1>11. waiting' \subseteq waiting \cup {q} BY <1>1, <1>4, <1>9
<1>12. ui' = ui \/ (Of(c, ui) /\ ui' = [ui EXCEPT !.scope = n])
  BY <1>1, <1>4 DEF Mine, Of
<1>13. /\ ui' \in UiType /\ ui'.mount = ui.mount /\ ui'.open = ui.open /\ ui'.form = ui.form
       /\ ui'.cand = ui.cand /\ ui'.shown = ui.shown /\ (ui'.scope = ui.scope \/ (Of(c, ui) /\ ui'.scope = n))
  BY <1>12 DEF BtTyped, UiType
<1>14. BtTyped' BY <1>1, <1>7, <1>10, <1>11, <1>13 DEF BtTyped
<1>15. RunsInv'
  <2>1. \A s \in DOMAIN scopes : scopes'[s].params = scopes[s].params BY <1>7
  <2>2. \A k \in DOMAIN cands' : RunOK(cands'[k], scopes')
    BY <1>1, <1>7, <2>1, ScopesStay DEF RunsInv
  <2>3. ASSUME NEW d \in waiting PROVE CallOK(d, scopes') /\ FormKept(d, ui', crossed') /\ d.mount <= ui'.mount
    BY <1>1, <1>7, <1>13, <2>1, ScopesStay, ZenonT(40) DEF RunsInv, FormKept, Of
  <2>4. CallOK(q, scopes') /\ FormKept(q, ui', crossed') /\ q.mount <= ui'.mount
    BY <1>2, <1>8, <1>10, <1>13 DEF RunsInv, CallOK, FormKept
  <2>5. ChosenHolds(ui', scopes', crossed')
    <3> SUFFICES ASSUME ui'.open, ~ crossed', ui'.scope # 0
                 PROVE  ScopeHolds(scopes', ui'.scope, ui'.form)
      BY DEF ChosenHolds
    <3>1. CASE Of(c, ui) /\ ui'.scope = n
      <4>1. ui.form = c.form BY <1>1, <1>2, <3>1 DEF RunsInv, FormKept
      <4> QED BY <1>8, <1>13, <3>1, <4>1
    <3>2. CASE ui'.scope = ui.scope
      <4>1. ScopeHolds(scopes, ui.scope, ui.form) BY <1>1, <1>13, <3>2 DEF RunsInv, ChosenHolds
      <4> QED BY <1>7, <1>13, <2>1, <3>2, <4>1, ScopesStay
    <3> QED BY <1>13, <3>1, <3>2
  <2> QED BY <1>11, <2>2, <2>3, <2>4, <2>5 DEF RunsInv
<1>16. ShownInv'
  <2>1. \A d \in At("deleted") : d \in At("deleted")' BY <1>1, <1>2 DEF At
  <2> QED BY <1>1, <1>13, <2>1 DEF ShownInv, ShownExists
<1> QED BY <1>14, <1>15, <1>16

\* Calls that are answered take nothing with them.
LEMMA FewerRuns ==
  ASSUME RunsInv, waiting' \subseteq waiting, UNCHANGED <<scopes, crossed>>,
         ui'.mount = ui.mount, ui'.open = ui.open, ui'.form = ui.form, ui'.scope \in {ui.scope, 0},
         \A k \in DOMAIN cands' : RunOK(cands'[k], scopes)
  PROVE  RunsInv'
<1>1. \A c \in waiting' : FormKept(c, ui', crossed') BY DEF RunsInv, FormKept, Of
<1>2. ChosenHolds(ui', scopes', crossed') BY DEF RunsInv, ChosenHolds
<1>3. \A c \in waiting' : CallOK(c, scopes') /\ c.mount <= ui'.mount BY DEF RunsInv
<1>4. \A k \in DOMAIN cands' : RunOK(cands'[k], scopes') OBVIOUS
<1> QED BY <1>1, <1>2, <1>3, <1>4 DEF RunsInv

\* A run is submitted, a request fails, the graph is cleared.
LEMMA RunSteps ==
  ASSUME BtInv, Submit \/ Fails \/ ClearGraph
  PROVE  BtInv'
<1> USE DEF BtInv
<1>1. CASE Submit
  <2>1. PICK c \in At("submit") :
          /\ c.scope \in Live
          /\ cands' = Append(cands, [scope |-> c.scope, status |-> "queued", form |-> c.form,
                                     clean |-> c.clean])
          /\ ui' = IF Mine(c) THEN [ui EXCEPT !.cand = Len(cands) + 1, !.seen = "none"] ELSE ui
          /\ waiting' = waiting \ {c}
          /\ UNCHANGED <<scopes, latest, edits, crossed, outdated>>
    BY <1>1 DEF Submit
  <2>2. c \in waiting /\ c.kind = "submit" BY <2>1 DEF At
  <2>3. c \in CallType /\ c.scope \in DOMAIN scopes BY <2>1, <2>2, BtFields DEF Live
  <2>4. PICK n \in Nat : n = Len(cands) + 1 BY BtFields
  <2>5. PICK k : k = [scope |-> c.scope, status |-> "queued", form |-> c.form, clean |-> c.clean]
    OBVIOUS
  <2>6. k \in CandType BY <2>3, <2>5 DEF CallType, CandType, Moving
  <2>7. RunOK(k, scopes) BY <2>2, <2>3, <2>5 DEF RunsInv, CallOK, ScopeHolds, RunOK
  <2>8. /\ cands' \in Seq(CandType) /\ DOMAIN cands' = 1 .. n /\ cands'[n] = k /\ n # 0
        /\ \A j \in DOMAIN cands' : j = n \/ (j \in DOMAIN cands /\ cands'[j] = cands[j])
        /\ \A j \in DOMAIN cands : j \in DOMAIN cands' /\ cands'[j] = cands[j]
    <3>1. cands \in Seq(CandType) /\ cands' = Append(cands, k) BY <2>1, <2>5 DEF BtTyped
    <3> QED BY <2>4, <2>6, <3>1
  <2>9. /\ ui' \in UiType /\ ui'.mount = ui.mount /\ ui'.open = ui.open /\ ui'.form = ui.form
        /\ ui'.scope = ui.scope /\ ui'.cand \in {n, ui.cand} /\ ui'.shown = ui.shown
    <3>1. ui' = ui \/ ui' = [ui EXCEPT !.cand = n, !.seen = "none"] BY <2>1, <2>4
    <3> QED BY <3>1 DEF BtTyped, UiType
  <2>10. BtTyped' BY <2>1, <2>8, <2>9 DEF BtTyped
  <2>11. \A j \in DOMAIN cands' : RunOK(cands'[j], scopes) BY <2>7, <2>8 DEF RunsInv
  <2>12. RunsInv' BY <2>1, <2>9, <2>11, FewerRuns
  <2>13. ShownInv'
    <3>1. At("deleted")' = At("deleted") BY <2>1, <2>2 DEF At
    <3>2. {ui'.shown, ui'.cand, latest'} \subseteq {0} \cup DOMAIN cands'
      BY <2>1, <2>4, <2>8, <2>9 DEF ShownInv
    <3> QED BY <2>1, <2>8, <2>9, <3>1, <3>2 DEF ShownInv, ShownExists
  <2> QED BY <2>10, <2>12, <2>13
<1>2. CASE Fails
  <2>1. PICK c \in waiting :
          /\ waiting' = waiting \ {c} /\ outdated' = (outdated \/ c.kind = "deleted")
          /\ UNCHANGED <<scopes, cands, ui, latest, edits, crossed>>
    BY <1>2 DEF Fails
  <2>2. BtTyped' BY <2>1 DEF BtTyped
  <2>3. RunsInv' BY <2>1 DEF RunsInv
  <2>4. outdated' \/ (outdated' = outdated /\ At("deleted")' = At("deleted"))
    <3>1. CASE c.kind = "deleted" BY <2>1, <3>1
    <3>2. CASE c.kind # "deleted"
      <4>1. At("deleted")' = At("deleted") BY <2>1, <3>2 DEF At
      <4>2. outdated \in BOOLEAN BY DEF BtTyped
      <4> QED BY <2>1, <3>2, <4>1, <4>2
    <3> QED BY <3>1, <3>2
  <2>5. ShownInv' BY <2>1, <2>4 DEF ShownInv, ShownExists
  <2> QED BY <2>2, <2>3, <2>5
<1>3. CASE ClearGraph
  <2>1. ui' = [ui EXCEPT !.cand = 0, !.seen = "none", !.shown = 0]
        /\ latest' = 0 /\ UNCHANGED <<scopes, cands, waiting, edits, crossed, outdated>>
    BY <1>3 DEF ClearGraph, Cleared
  <2>2. /\ ui' \in UiType /\ ui'.mount = ui.mount /\ ui'.open = ui.open /\ ui'.form = ui.form
        /\ ui'.scope = ui.scope /\ ui'.cand = 0 /\ ui'.shown = 0
    BY <2>1 DEF BtTyped, UiType
  <2>3. BtTyped' BY <2>1, <2>2 DEF BtTyped
  <2>4. RunsInv' BY <2>1, <2>2, FewerRuns DEF RunsInv
  <2>5. ShownInv' BY <2>1, <2>2, ShownStays
  <2> QED BY <2>3, <2>4, <2>5
<1> QED BY <1>1, <1>2, <1>3

\* A preset is deleted in the backend, and the screen is told.
LEMMA DeleteSteps ==
  ASSUME BtInv, DeleteScope \/ FinishScopeDelete
  PROVE  BtInv'
<1> USE DEF BtInv
<1>1. CASE DeleteScope
  <2>1. PICK c \in At("delete") :
          /\ c.scope \in Live
          /\ scopes' = [scopes EXCEPT ![c.scope].deleted = TRUE]
          /\ cands' = [k \in DOMAIN cands |-> IF cands[k].scope = c.scope
                                              THEN [cands[k] EXCEPT !.status = "deleted"] ELSE cands[k]]
          /\ waiting' = (waiting \ {c}) \cup {[c EXCEPT !.kind = "deleted"]}
          /\ UNCHANGED <<ui, latest, edits, crossed, outdated>>
    BY <1>1 DEF DeleteScope
  <2>2. c \in waiting /\ c.kind = "delete" BY <2>1 DEF At
  <2>3. c \in CallType /\ c.scope \in DOMAIN scopes BY <2>1, <2>2, BtFields DEF Live
  <2>4. PICK q : q = [c EXCEPT !.kind = "deleted"] OBVIOUS
  <2>5. q \in CallType /\ q.kind = "deleted" /\ q.mount = c.mount
    BY <2>3, <2>4 DEF CallType, Kinds
  <2>6. /\ scopes' \in Seq(ScopeType) /\ DOMAIN scopes' = DOMAIN scopes
        /\ \A s \in DOMAIN scopes : scopes'[s].params = scopes[s].params
    <3>1. PICK t : t = [scopes[c.scope] EXCEPT !.deleted = TRUE] OBVIOUS
    <3>2. scopes[c.scope] \in ScopeType BY <2>3, BtFields
    <3>3. t \in ScopeType /\ t.params = scopes[c.scope].params BY <3>1, <3>2 DEF ScopeType
    <3>4. scopes \in Seq(ScopeType) /\ scopes' = [scopes EXCEPT ![c.scope] = t]
      BY <2>1, <3>1 DEF BtTyped
    <3> QED BY <2>3, <3>3, <3>4
  <2>7. /\ DOMAIN cands' = DOMAIN cands /\ cands' \in Seq(CandType)
        /\ \A k \in DOMAIN cands : /\ cands'[k].scope = cands[k].scope /\ cands'[k].form = cands[k].form
                                   /\ cands'[k].clean = cands[k].clean
    <3>1. DOMAIN cands' = DOMAIN cands BY <2>1
    <3>2. ASSUME NEW k \in DOMAIN cands
          PROVE  /\ cands'[k] \in CandType
                 /\ cands'[k].scope = cands[k].scope /\ cands'[k].form = cands[k].form
                 /\ cands'[k].clean = cands[k].clean
      <4>1. cands[k] \in CandType BY BtFields
      <4>2. cands'[k] = cands[k] \/ cands'[k] = [cands[k] EXCEPT !.status = "deleted"] BY <2>1
      <4> QED BY <4>1, <4>2 DEF CandType, Moving
    <3>3. DOMAIN cands = 1 .. Len(cands) /\ Len(cands) \in Nat BY BtFields
    <3>4. cands' \in [1 .. Len(cands) -> CandType] BY <2>1, <3>1, <3>2, <3>3
    <3> QED BY <3>1, <3>2, <3>3, <3>4
  <2>8. BtTyped' BY <2>1, <2>4, <2>5, <2>6, <2>7 DEF BtTyped
  <2>9. RunsInv'
    <3>1. \A k \in DOMAIN cands' : RunOK(cands'[k], scopes')
      BY <2>6, <2>7 DEF RunsInv, RunOK
    <3>2. ASSUME NEW d \in waiting' PROVE CallOK(d, scopes') /\ FormKept(d, ui', crossed') /\ d.mount <= ui'.mount
      <4>1. d = q \/ d \in waiting BY <2>1, <2>4
      <4>2. CASE d = q BY <2>1, <2>2, <2>5, <4>2 DEF CallOK, FormKept, RunsInv
      <4>3. CASE d \in waiting BY <2>1, <2>6, <4>3, ScopesStay DEF RunsInv
      <4> QED BY <4>1, <4>2, <4>3
    <3>3. ChosenHolds(ui', scopes', crossed') BY <2>1, <2>6, ScopesStay DEF RunsInv
    <3> QED BY <3>1, <3>2, <3>3 DEF RunsInv
  <2>10. At("deleted")' # {} BY <2>1, <2>4, <2>5 DEF At
  <2>11. ShownInv' BY <2>1, <2>7, <2>10 DEF ShownInv, ShownExists
  <2> QED BY <2>8, <2>9, <2>11
<1>2. CASE FinishScopeDelete
  <2>1. PICK c \in At("deleted") :
          /\ ui' = IF Mine(c) THEN [Cleared(ui) EXCEPT !.scope = 0] ELSE ui
          /\ latest' = 0 /\ waiting' = waiting \ {c} /\ outdated' = (outdated \/ ~ Mine(c))
          /\ UNCHANGED <<scopes, cands, edits, crossed>>
    BY <1>2 DEF FinishScopeDelete
  <2>2. ui' = ui \/ ui' = [ui EXCEPT !.cand = 0, !.seen = "none", !.shown = 0, !.scope = 0]
    BY <2>1 DEF Cleared
  <2>3. /\ ui' \in UiType /\ ui'.mount = ui.mount /\ ui'.open = ui.open /\ ui'.form = ui.form
        /\ ui'.scope \in {ui.scope, 0} /\ ui'.cand \in {ui.cand, 0} /\ ui'.shown \in {ui.shown, 0}
    <3>1. ui \in UiType BY DEF BtTyped
    <3>2. CASE ui' = ui BY <3>1, <3>2 DEF UiType
    <3>3. CASE ui' = [ui EXCEPT !.cand = 0, !.seen = "none", !.shown = 0, !.scope = 0]
      BY <3>1, <3>3 DEF UiType
    <3> QED BY <2>2, <3>2, <3>3
  <2>4. BtTyped'
    <3>1. outdated' \in BOOLEAN BY <2>1
    <3> QED BY <2>1, <2>3, <3>1 DEF BtTyped
  <2>5. RunsInv' BY <2>1, <2>3, FewerRuns DEF RunsInv
  <2>6. outdated' \/ (ui'.shown = 0 /\ latest' = 0)
    BY <2>1 DEF Cleared, BtTyped, UiType
  <2>7. ShownInv' BY <2>1, <2>3, <2>6 DEF ShownInv, ShownExists
  <2> QED BY <2>4, <2>5, <2>7
<1> QED BY <1>1, <1>2

\* The pipeline moves a Candidate on, the user cancels it, the polling sees it.
LEMMA CandidateSteps ==
  ASSUME BtInv, Advance \/ Cancel \/ Poll
  PROVE  BtInv'
<1> USE DEF BtInv
<1>1. ASSUME NEW k \in DOMAIN cands, NEW status \in Moving,
             cands[k].status \in {"queued", "processing"},
             cands' = [cands EXCEPT ![k].status = status],
             UNCHANGED <<scopes, ui, latest, waiting, crossed, outdated>>
      PROVE  BtInv'
  <2>1. PICK t : t = [cands[k] EXCEPT !.status = status] OBVIOUS
  <2>2. cands[k] \in CandType BY BtFields
  <2>3. /\ t \in CandType /\ t.scope = cands[k].scope /\ t.form = cands[k].form
        /\ t.clean = cands[k].clean
    BY <2>1, <2>2 DEF CandType
  <2>4. cands \in Seq(CandType) /\ cands' = [cands EXCEPT ![k] = t] BY <1>1, <2>1 DEF BtTyped
  <2>5. /\ cands' \in Seq(CandType) /\ DOMAIN cands' = DOMAIN cands /\ cands'[k] = t
        /\ \A j \in DOMAIN cands \ {k} : cands'[j] = cands[j]
    BY <2>3, <2>4
  <2>6. BtTyped' BY <1>1, <2>5 DEF BtTyped
  <2>7. \A j \in DOMAIN cands' : RunOK(cands'[j], scopes) BY <2>3, <2>5 DEF RunsInv, RunOK
  <2>8. RunsInv' BY <1>1, <2>7, FewerRuns
  <2>9. \A j \in DOMAIN cands : cands[j].status = "completed" => cands'[j].status = "completed"
    BY <1>1, <2>5
  <2>10. At("deleted")' = At("deleted") BY <1>1 DEF At
  <2>11. ShownInv' BY <1>1, <2>5, <2>9, <2>10 DEF ShownInv, ShownExists
  <2> QED BY <2>6, <2>8, <2>11
<1>2. CASE Advance
  <2>1. PICK k \in DOMAIN cands, status \in Moving :
          /\ cands[k].status \in {"queued", "processing"}
          /\ cands' = [cands EXCEPT ![k].status = status]
          /\ UNCHANGED <<scopes, ui, latest, waiting, crossed, outdated>>
    BY <1>2 DEF Advance, Moving, Ended
  <2> QED BY <1>1, <2>1
<1>3. CASE Cancel
  <2>1. ui.cand \in DOMAIN cands BY <1>3 DEF Cancel, ShownInv
  <2>2. "cancelled" \in Moving BY DEF Moving, Ended
  <2> QED BY <1>1, <1>3, <2>1, <2>2 DEF Cancel
<1>4. CASE Poll
  <2>1. ui.cand \in DOMAIN cands BY <1>4 DEF Poll, ShownInv
  <2>2. PICK status : status = cands[ui.cand].status OBVIOUS
  <2>3. status \in Moving BY <2>1, <2>2, BtFields DEF CandType
  <2>4. PICK s : s = (IF status = "completed" THEN ui.cand ELSE ui.shown) OBVIOUS
  <2>5. /\ ui' = [ui EXCEPT !.seen = status, !.shown = s]
        /\ latest' = (IF status = "completed" THEN ui.cand ELSE latest)
        /\ UNCHANGED <<scopes, cands, waiting, edits, crossed, outdated>>
    BY <1>4, <2>2, <2>4, BtFields DEF Poll
  <2>6. s \in Nat /\ latest' \in Nat BY <2>4, <2>5 DEF BtTyped, UiType
  <2>7. /\ ui' \in UiType /\ ui'.mount = ui.mount /\ ui'.open = ui.open /\ ui'.form = ui.form
        /\ ui'.scope = ui.scope /\ ui'.cand = ui.cand /\ ui'.shown = s
    BY <2>3, <2>5, <2>6 DEF BtTyped, UiType
  <2>8. BtTyped' BY <2>5, <2>6, <2>7 DEF BtTyped
  <2>9. RunsInv' BY <2>5, <2>7, FewerRuns DEF RunsInv
  <2>10. At("deleted")' = At("deleted") BY <2>5 DEF At
  <2>11. {ui'.shown, ui'.cand, latest'} \subseteq {0} \cup DOMAIN cands'
    BY <2>1, <2>4, <2>5, <2>7 DEF ShownInv
  <2>12. ShownExists'
    BY <2>2, <2>4, <2>5, <2>7, <2>10 DEF ShownInv, ShownExists
  <2> QED BY <2>8, <2>9, <2>11, <2>12 DEF ShownInv
<1> QED BY <1>2, <1>3, <1>4

\* Through presets that are created, chosen, edited and deleted while runs are
\* started, and answers that arrive on a later mount: a run tests what the
\* form showed at the click, and what is shown or remembered exists
\* (handleRunBacktest, handleConfirmDeleteScope, handleClearGraph, the polling).
THEOREM BacktestScreenStaysTrue == BacktestSpec => []ScreenIsTrue
<1>1. BacktestInit => BtInv BY BacktestStarts
<1>2. BtInv /\ [BacktestNext]_btVars => BtInv'
  <2> SUFFICES ASSUME BtInv, [BacktestNext]_btVars PROVE BtInv' OBVIOUS
  <2>1. CASE UNCHANGED btVars
    BY <2>1 DEF btVars, BtInv, BtTyped, RunsInv, ShownInv, ShownExists, At
  <2> QED BY <2>1, FormSteps, ClickSteps, CreateStep, RunSteps, DeleteSteps, CandidateSteps
          DEF BacktestNext
<1>3. BtInv => ScreenIsTrue
  BY DEF BtInv, RunsInv, RunOK, ShownInv, ScreenIsTrue, RunsWhatIsShown
<1> QED BY <1>1, <1>2, <1>3, PTL DEF BacktestSpec

-----------------------------------------------------------------------------
(* The table of strategies                                                 *)

TableSpec == TableInit /\ [][TableNext]_tableVars

TableFields == {"rows", "tab", "query", "size", "page", "ticked", "modal", "listed"}

\* A page that was asked for may be beyond the last one, never before the first.
TableTyped(t) ==
  /\ DOMAIN t = TableFields /\ t.rows \subseteq Rows
  /\ t.size \in Nat \ {0} /\ t.page \in Nat \ {0}

\* What is ticked, and what a modal asks about, was seen.
SeenInv(t, seen) == Displayed(t) \cup t.ticked \cup t.listed \subseteq seen

TableInv == TableTyped(table) /\ SeenInv(table, shown) /\ sent \subseteq shown

LEMMA ButtonsLemma == ButtonsAreSound
BY DEF ButtonsAreSound, Buttons

\* The buttons lead to the page that is shown and to the ones next to it.
LEMMA ButtonsOfPage ==
  ASSUME NEW last \in Nat \ {0}, NEW here \in 1 .. last
  PROVE  /\ {1, here, last} \cup ((here - 1) .. (here + 1) \cap 1 .. last) \subseteq Buttons(here, last)
         /\ Buttons(here, last) \subseteq 1 .. last
BY DEF Buttons

\* The numbers of a finite set, counted from the greatest: every place is taken.
PlaceIn(S, r) == Cardinality({s \in S : s >= r})
LEMMA EveryPlace ==
  ASSUME NEW S \in SUBSET Nat, IsFiniteSet(S), NEW k \in 1 .. Cardinality(S)
  PROVE  \E r \in S : PlaceIn(S, r) = k
<1> DEFINE G == {r \in S : PlaceIn(S, r) >= k}
<1>0. /\ Cardinality(S) \in Nat /\ S \in SUBSET Int /\ S # {} /\ k \in Nat /\ k >= 1
      /\ \A r \in S : r \in Int
  BY FS_CardinalityType, FS_EmptySet
<1>1. PICK u \in S : \A t \in S : u <= t BY <1>0, EndsOf
<1>2. u \in G
  <2>1. {s \in S : s >= u} = S BY <1>0, <1>1
  <2> QED BY <1>0, <2>1 DEF PlaceIn
<1>3. G \in SUBSET Int /\ IsFiniteSet(G) /\ G # {} BY <1>0, <1>2, FS_Subset
<1>4. PICK r \in G : \A t \in G : r >= t BY <1>3, EndsOf
<1>5. r \in S /\ PlaceIn(S, r) >= k BY <1>4
<1>6. ASSUME PlaceIn(S, r) # k PROVE FALSE
  <2> DEFINE Above == {s \in S : s >= r}
             H == Above \ {r}
  <2>1. IsFiniteSet(Above) /\ Cardinality(Above) \in Nat /\ r \in Above
    BY <1>0, <1>5, FS_Subset, FS_CardinalityType
  <2>2. IsFiniteSet(H) /\ Cardinality(H) = Cardinality(Above) - 1 BY <2>1, FS_RemoveElement
  <2>3. Cardinality(Above) = PlaceIn(S, r) BY DEF PlaceIn
  <2>4. Cardinality(H) >= k /\ Cardinality(H) # 0 BY <1>0, <1>5, <1>6, <2>1, <2>2, <2>3
  <2>5. H # {} /\ H \in SUBSET Int BY <1>0, <2>4, FS_EmptySet
  <2>6. PICK v \in H : \A t \in H : v <= t BY <2>2, <2>5, EndsOf
  <2>7. v \in S /\ v > r /\ v \in Int /\ r \in Int BY <1>0, <1>5, <2>6
  <2>8. {s \in S : s >= v} = H
    <3>1. ASSUME NEW s \in S, s >= v PROVE s \in H BY <1>0, <2>7, <3>1
    <3>2. ASSUME NEW s \in H PROVE s \in S /\ s >= v BY <1>0, <2>6, <2>7
    <3> QED BY <3>1, <3>2
  <2>9. PlaceIn(S, v) >= k BY <2>4, <2>8 DEF PlaceIn
  <2>10. v \in G BY <2>7, <2>9
  <2> QED BY <1>4, <2>7, <2>10
<1> QED BY <1>5, <1>6

\* The page that is shown is one of the table's.
LEMMA PageIsOne ==
  ASSUME NEW t, TableTyped(t)
  PROVE  /\ Filtered(t) \in SUBSET Nat /\ IsFiniteSet(Filtered(t)) /\ Cardinality(Filtered(t)) \in Nat
         /\ TotalPages(t) \in Nat \ {0} /\ CurrentPage(t) \in 1 .. TotalPages(t)
         /\ CurrentPage(t) <= t.page
         /\ Filtered(t) # {} => (TotalPages(t) - 1) * t.size < Cardinality(Filtered(t))
<1>1. Filtered(t) \in SUBSET Nat /\ IsFiniteSet(Filtered(t))
  BY TableAssumption, FS_Subset DEF TableTyped, Filtered
<1>2. PICK n \in Nat : n = Cardinality(Filtered(t)) BY <1>1, FS_CardinalityType
<1>3. PICK z \in Nat : z = t.size /\ z # 0 BY DEF TableTyped
<1>4. TotalPages(t) = (IF n = 0 THEN 1 ELSE (n + z - 1) \div z) BY <1>2, <1>3 DEF TotalPages
<1>5. CASE n = 0
  <2>1. TotalPages(t) = 1 BY <1>4, <1>5
  <2>2. Filtered(t) = {} BY <1>1, <1>2, <1>5, FS_EmptySet
  <2> QED BY <1>1, <1>2, <2>1, <2>2 DEF CurrentPage, TableTyped
<1>6. CASE n # 0
  <2>1. PICK q : q = (n + z - 1) \div z OBVIOUS
  <2>2. q \in Nat /\ q # 0 /\ (q - 1) * z < n BY <1>3, <1>6, <2>1, Ceiling
  <2>3. TotalPages(t) = q BY <1>4, <1>6, <2>1
  <2> QED BY <1>1, <1>2, <1>3, <2>2, <2>3 DEF CurrentPage, TableTyped
<1> QED BY <1>2, <1>5, <1>6

\* As long as rows pass the filters, the page shows one.
LEMMA PageIsFilled ==
  ASSUME NEW t, TableTyped(t), Filtered(t) # {}
  PROVE  Displayed(t) # {}
<1>1. PICK n \in Nat : n = Cardinality(Filtered(t)) BY PageIsOne
<1>2. PICK z \in Nat : z = t.size /\ z # 0 BY DEF TableTyped
<1>3. PICK c \in Nat : c = CurrentPage(t) /\ c # 0 BY PageIsOne
<1>4. PICK q \in Nat : q = TotalPages(t) /\ c <= q /\ (q - 1) * z < n
  BY <1>1, <1>2, <1>3, PageIsOne
<1>5. (c - 1) * z \in Nat /\ (c - 1) * z <= (q - 1) * z /\ c * z = (c - 1) * z + z
  BY <1>2, <1>3, <1>4
<1>6. PICK k \in Nat : k = (c - 1) * z + 1 BY <1>5
<1>7. k \in 1 .. n
  <2>1. PICK x \in Int : x = (q - 1) * z BY <1>2, <1>4
  <2>2. PICK y \in Nat : y = (c - 1) * z BY <1>5
  <2>3. y <= x /\ x < n /\ k = y + 1 BY <1>4, <1>5, <1>6, <2>1, <2>2
  <2> QED BY <1>1, <2>1, <2>2, <2>3
<1>8. PICK r \in Filtered(t) : PlaceIn(Filtered(t), r) = k BY <1>1, <1>7, PageIsOne, EveryPlace
<1>9. Place(t, r) = k BY <1>8 DEF PlaceIn, Place
<1>10. (c - 1) * z < k /\ k <= c * z BY <1>2, <1>5, <1>6
<1> QED BY <1>2, <1>3, <1>8, <1>9, <1>10 DEF Displayed

LEMMA TableStarts == TableInit => TableInv
<1> SUFFICES ASSUME TableInit PROVE TableInv OBVIOUS
<1>1. PICK z : z = (CHOOSE n \in PageSizes : \A m \in PageSizes : n <= m) OBVIOUS
<1>2. z \in Nat \ {0}
  <2>1. PageSizes \in SUBSET Nat /\ PageSizes # {} BY TableAssumption
  <2>2. z \in PageSizes BY <1>1, <2>1, LeastOf
  <2> QED BY <2>2, TableAssumption
<1>3. table = [rows |-> Rows, tab |-> "all", query |-> Rows, size |-> z, page |-> 1,
               ticked |-> {}, modal |-> "none", listed |-> {}]
  BY <1>1 DEF TableInit
<1>4. TableTyped(table) BY <1>2, <1>3 DEF TableTyped, TableFields
<1>5. table.ticked = {} /\ table.listed = {} BY <1>3
<1>6. SeenInv(table, shown) BY <1>5 DEF TableInit, SeenInv
<1> QED BY <1>4, <1>6 DEF TableInit, TableInv

\* A step that shows the table it makes: of the old one only rows that were
\* seen are ticked or asked about.
LEMMA ShowKeeps ==
  ASSUME TableInv, NEW t, Show(t), TableTyped(t),
         t.ticked \cup t.listed \subseteq shown \cup Displayed(t),
         sent' \subseteq shown
  PROVE  TableInv'
BY DEF TableInv, SeenInv, Show

LEMMA FilterSteps ==
  ASSUME TableInv, SetTab \/ SetQuery \/ SetSize \/ PreviousPage \/ NextPage \/ GoToPage
  PROVE  TableInv'
<1> USE DEF TableInv
<1>1. ASSUME NEW t, Show(t), UNCHANGED sent, DOMAIN t = TableFields, t.rows = table.rows,
             t.ticked = table.ticked, t.listed = table.listed,
             t.size \in Nat \ {0}, t.page \in Nat \ {0}
      PROVE  TableInv'
  <2>1. TableTyped(t) BY <1>1 DEF TableTyped
  <2> QED BY <1>1, <2>1, ShowKeeps DEF SeenInv
<1>2. CASE SetTab
  <2>1. PICK tab : Show([table EXCEPT !.tab = tab, !.page = 1]) /\ UNCHANGED sent
    BY <1>2 DEF SetTab
  <2>2. PICK t : t = [table EXCEPT !.tab = tab, !.page = 1] OBVIOUS
  <2>3. /\ DOMAIN t = TableFields /\ t.rows = table.rows /\ t.ticked = table.ticked
        /\ t.listed = table.listed /\ t.size = table.size /\ t.page = 1
    BY <2>2 DEF TableTyped, TableFields
  <2>4. t.size \in Nat \ {0} /\ t.page \in Nat \ {0} BY <2>3 DEF TableTyped
  <2> QED BY <1>1, <2>1, <2>2, <2>3, <2>4
<1>3. CASE SetQuery
  <2>1. PICK q : Show([table EXCEPT !.query = q, !.page = 1]) /\ UNCHANGED sent
    BY <1>3 DEF SetQuery
  <2>2. PICK t : t = [table EXCEPT !.query = q, !.page = 1] OBVIOUS
  <2>3. /\ DOMAIN t = TableFields /\ t.rows = table.rows /\ t.ticked = table.ticked
        /\ t.listed = table.listed /\ t.size = table.size /\ t.page = 1
    BY <2>2 DEF TableTyped, TableFields
  <2>4. t.size \in Nat \ {0} /\ t.page \in Nat \ {0} BY <2>3 DEF TableTyped
  <2> QED BY <1>1, <2>1, <2>2, <2>3, <2>4
<1>4. CASE SetSize
  <2>1. PICK n \in PageSizes : Show([table EXCEPT !.size = n, !.page = 1]) /\ UNCHANGED sent
    BY <1>4 DEF SetSize
  <2>2. PICK t : t = [table EXCEPT !.size = n, !.page = 1] OBVIOUS
  <2>3. /\ DOMAIN t = TableFields /\ t.rows = table.rows /\ t.ticked = table.ticked
        /\ t.listed = table.listed /\ t.size = n /\ t.page = 1
    BY <2>2 DEF TableTyped, TableFields
  <2>4. t.size \in Nat \ {0} /\ t.page \in Nat \ {0} BY <2>3, TableAssumption
  <2> QED BY <1>1, <2>1, <2>2, <2>3, <2>4
<1>5. ASSUME NEW n \in Nat \ {0}, Show([table EXCEPT !.page = n]), UNCHANGED sent
      PROVE  TableInv'
  <2>1. PICK t : t = [table EXCEPT !.page = n] OBVIOUS
  <2>2. /\ DOMAIN t = TableFields /\ t.rows = table.rows /\ t.ticked = table.ticked
        /\ t.listed = table.listed /\ t.size = table.size /\ t.page = n
    BY <2>1 DEF TableTyped, TableFields
  <2>3. t.size \in Nat \ {0} /\ t.page \in Nat \ {0} BY <2>2 DEF TableTyped
  <2> QED BY <1>1, <1>5, <2>1, <2>2, <2>3
<1>6. table.page \in Nat \ {0} /\ CurrentPage(table) \in Nat /\ CurrentPage(table) <= table.page
      /\ TotalPages(table) \in Nat \ {0} /\ CurrentPage(table) \in 1 .. TotalPages(table)
  BY PageIsOne DEF TableTyped
<1>7. CASE PreviousPage
  <2>1. PICK n \in Nat \ {0} : n = table.page - 1 BY <1>6, <1>7 DEF PreviousPage
  <2> QED BY <1>5, <1>7, <2>1 DEF PreviousPage
<1>8. CASE NextPage
  <2>1. PICK n \in Nat \ {0} : n = table.page + 1 BY <1>6
  <2> QED BY <1>5, <1>8, <2>1 DEF NextPage
<1>9. CASE GoToPage
  <2>1. PICK n \in Buttons(CurrentPage(table), TotalPages(table)) :
          Show([table EXCEPT !.page = n]) /\ UNCHANGED sent
    BY <1>9 DEF GoToPage
  <2>2. n \in Nat \ {0}
    <3>1. Buttons(CurrentPage(table), TotalPages(table)) \subseteq 1 .. TotalPages(table)
      BY <1>6, ButtonsOfPage
    <3>2. n \in 1 .. TotalPages(table) BY <2>1, <3>1
    <3> QED BY <1>6, <3>2
  <2> QED BY <1>5, <2>1, <2>2
<1> QED BY <1>2, <1>3, <1>4, <1>7, <1>8, <1>9

LEMMA TickSteps ==
  ASSUME TableInv, Tick \/ TickDisplayed \/ TickFiltered \/ ClearTicks
  PROVE  TableInv'
<1> USE DEF TableInv
<1>1. ASSUME NEW T, T \subseteq shown, Show([table EXCEPT !.ticked = T]), UNCHANGED sent
      PROVE  TableInv'
  <2>1. PICK t : t = [table EXCEPT !.ticked = T] OBVIOUS
  <2>2. /\ DOMAIN t = TableFields /\ t.rows = table.rows /\ t.ticked = T
        /\ t.listed = table.listed /\ t.size = table.size /\ t.page = table.page
    BY <2>1 DEF TableTyped, TableFields
  <2>3. TableTyped(t) BY <2>2 DEF TableTyped
  <2> QED BY <1>1, <2>1, <2>2, <2>3, ShowKeeps DEF SeenInv
<1>2. CASE Tick
  <2>1. PICK r \in Displayed(table) :
          /\ Show([table EXCEPT !.ticked = IF r \in @ THEN @ \ {r} ELSE @ \cup {r}])
          /\ UNCHANGED sent
    BY <1>2 DEF Tick
  <2>2. PICK T : T = (IF r \in table.ticked THEN table.ticked \ {r} ELSE table.ticked \cup {r})
    OBVIOUS
  <2>3. T \subseteq shown BY <2>1, <2>2 DEF SeenInv
  <2> QED BY <1>1, <2>1, <2>2, <2>3
<1>3. CASE TickDisplayed
  <2>1. PICK T : T = (IF Displayed(table) \subseteq table.ticked THEN table.ticked \ Displayed(table)
                      ELSE table.ticked \cup Displayed(table))
    OBVIOUS
  <2>2. T \subseteq shown BY <2>1 DEF SeenInv
  <2> QED BY <1>1, <1>3, <2>1, <2>2 DEF TickDisplayed
<1>4. CASE ClearTicks
  <2>1. PICK T : T = {} OBVIOUS
  <2>2. Show([table EXCEPT !.ticked = T]) /\ UNCHANGED sent BY <1>4, <2>1 DEF ClearTicks
  <2> QED BY <1>1, <2>1, <2>2
<1>5. CASE TickFiltered
  <2>1. PICK T : T = Filtered(table) OBVIOUS
  <2>2. /\ table' = [table EXCEPT !.ticked = T] /\ shown' = shown \cup T /\ UNCHANGED sent
    BY <1>5, <2>1 DEF TickFiltered, Swept
  <2>3. /\ DOMAIN table' = TableFields /\ table'.rows = table.rows /\ table'.ticked = T
        /\ table'.listed = table.listed /\ table'.size = table.size /\ table'.page = table.page
        /\ table'.query = table.query /\ table'.tab = table.tab
    BY <2>2 DEF TableTyped, TableFields
  <2>4. TableTyped(table') BY <2>3 DEF TableTyped
  <2>5. Filtered(table') = T BY <2>1, <2>3 DEF Filtered
  <2>6. Displayed(table') \subseteq T BY <2>5 DEF Displayed
  <2>7. SeenInv(table', shown') BY <2>2, <2>3, <2>6 DEF SeenInv
  <2> QED BY <2>2, <2>4, <2>7
<1> QED BY <1>2, <1>3, <1>4, <1>5

LEMMA DeletionSteps ==
  ASSUME TableInv, AskDelete \/ AskBatch \/ CloseModal \/ Confirm \/ FinishDeletes \/ Refresh
  PROVE  TableInv'
<1> USE DEF TableInv
<1>1. ASSUME NEW t, Show(t), sent' \subseteq shown, DOMAIN t = TableFields,
             t.rows = table.rows, t.size = table.size, t.page = table.page,
             t.ticked \subseteq shown, t.listed \subseteq shown
      PROVE  TableInv'
  <2>1. TableTyped(t) BY <1>1 DEF TableTyped
  <2> QED BY <1>1, <2>1, ShowKeeps
<1>2. table.ticked \subseteq shown /\ Displayed(table) \subseteq shown /\ sent \subseteq shown
  BY DEF SeenInv
<1>3. CASE AskDelete
  <2>1. PICK r \in Displayed(table) :
          Show([table EXCEPT !.modal = "one", !.listed = {r}]) /\ UNCHANGED sent
    BY <1>3 DEF AskDelete
  <2>2. PICK t : t = [table EXCEPT !.modal = "one", !.listed = {r}] OBVIOUS
  <2>3. /\ DOMAIN t = TableFields /\ t.rows = table.rows /\ t.size = table.size
        /\ t.page = table.page /\ t.ticked = table.ticked /\ t.listed = {r}
    BY <2>2 DEF TableTyped, TableFields
  <2> QED BY <1>1, <1>2, <2>1, <2>2, <2>3
<1>4. CASE AskBatch
  <2>1. PICK t : t = [table EXCEPT !.modal = "batch", !.listed = table.rows \cap table.ticked]
    OBVIOUS
  <2>2. /\ DOMAIN t = TableFields /\ t.rows = table.rows /\ t.size = table.size
        /\ t.page = table.page /\ t.ticked = table.ticked
        /\ t.listed = table.rows \cap table.ticked
    BY <2>1 DEF TableTyped, TableFields
  <2>3. Show(t) /\ UNCHANGED sent BY <1>4, <2>1 DEF AskBatch
  <2> QED BY <1>1, <1>2, <2>2, <2>3
<1>5. CASE CloseModal
  <2>1. PICK t : t = [table EXCEPT !.modal = "none", !.listed = {}] OBVIOUS
  <2>2. /\ DOMAIN t = TableFields /\ t.rows = table.rows /\ t.size = table.size
        /\ t.page = table.page /\ t.ticked = table.ticked /\ t.listed = {}
    BY <2>1 DEF TableTyped, TableFields
  <2>3. Show(t) /\ UNCHANGED sent BY <1>5, <2>1 DEF CloseModal
  <2> QED BY <1>1, <1>2, <2>2, <2>3
<1>6. CASE Confirm
  <2>1. PICK T : T = (IF table.modal = "batch" THEN {} ELSE table.ticked) OBVIOUS
  <2>2. PICK t : t = [table EXCEPT !.modal = "none", !.listed = {}, !.ticked = T] OBVIOUS
  <2>3. /\ DOMAIN t = TableFields /\ t.rows = table.rows /\ t.size = table.size
        /\ t.page = table.page /\ t.ticked = T /\ t.listed = {}
    BY <2>2 DEF TableTyped, TableFields
  <2>4. Show(t)
    <3>1. t = [table EXCEPT !.modal = "none", !.listed = {},
                            !.ticked = IF table.modal = "batch" THEN {} ELSE @]
      BY <2>1, <2>2
    <3> QED BY <1>6, <3>1 DEF Confirm
  <2>5. T \subseteq shown BY <1>2, <2>1
  <2>6. sent' \subseteq shown BY <1>6 DEF SeenInv, Confirm
  <2> QED BY <1>1, <2>3, <2>4, <2>5, <2>6
<1>7. ASSUME NEW R, R \subseteq Rows, Show([table EXCEPT !.rows = R]), sent' \subseteq shown
      PROVE  TableInv'
  <2>1. PICK t : t = [table EXCEPT !.rows = R] OBVIOUS
  <2>2. /\ DOMAIN t = TableFields /\ t.rows = R /\ t.ticked = table.ticked
        /\ t.listed = table.listed /\ t.size = table.size /\ t.page = table.page
    BY <2>1 DEF TableTyped, TableFields
  <2>3. TableTyped(t) BY <1>7, <2>2 DEF TableTyped
  <2> QED BY <1>7, <2>1, <2>2, <2>3, ShowKeeps DEF SeenInv
<1>8. CASE FinishDeletes
  <2>1. PICK R : R = table.rows \ sent OBVIOUS
  <2>2. R \subseteq Rows /\ sent' \subseteq shown BY <1>8, <2>1 DEF TableTyped, FinishDeletes
  <2>3. Show([table EXCEPT !.rows = R]) BY <1>8, <2>1 DEF FinishDeletes
  <2> QED BY <1>7, <2>2, <2>3
<1>9. CASE Refresh
  <2>1. PICK r \in Rows :
          /\ Show([table EXCEPT !.rows = IF r \in @ THEN @ \ {r} ELSE @ \cup {r}])
          /\ UNCHANGED sent
    BY <1>9 DEF Refresh
  <2>2. PICK R : R = (IF r \in table.rows THEN table.rows \ {r} ELSE table.rows \cup {r}) OBVIOUS
  <2>3. R \subseteq Rows BY <2>1, <2>2 DEF TableTyped
  <2> QED BY <1>7, <2>1, <2>2, <2>3
<1> QED BY <1>3, <1>4, <1>5, <1>6, <1>8, <1>9

\* However rows come and go under tabs, searches, pages and ticks: the page
\* shows a row while one passes the filters, the buttons lead on from it, and
\* no row is deleted that was not on display or counted by the button that
\* ticks all filtered rows (currentPage, getPaginationRange, the two modals).
THEOREM TableStaysTrue == TableSpec => []TableIsTrue
<1>1. TableInit => TableInv BY TableStarts
<1>2. TableInv /\ [TableNext]_tableVars => TableInv'
  <2> SUFFICES ASSUME TableInv, [TableNext]_tableVars PROVE TableInv' OBVIOUS
  <2>1. CASE UNCHANGED tableVars BY <2>1 DEF tableVars, TableInv
  <2> QED BY <2>1, FilterSteps, TickSteps, DeletionSteps DEF TableNext
<1>3. TableInv => TableIsTrue
  <2> SUFFICES ASSUME TableInv PROVE TableIsTrue OBVIOUS
  <2>1. TableTyped(table) BY DEF TableInv
  <2>2. /\ TotalPages(table) \in Nat \ {0} /\ CurrentPage(table) \in 1 .. TotalPages(table)
        /\ Filtered(table) # {} => Displayed(table) # {}
    BY <2>1, PageIsOne, PageIsFilled
  <2>3. PICK here : here = CurrentPage(table) OBVIOUS
  <2>4. PICK last : last = TotalPages(table) OBVIOUS
  <2>5. {1, here, last} \cup ((here - 1) .. (here + 1) \cap 1 .. last) \subseteq Buttons(here, last)
    BY <2>2, <2>3, <2>4, ButtonsOfPage
  <2>6. PageShowsRows BY <2>2, <2>3, <2>4, <2>5 DEF PageShowsRows
  <2>7. NoUnseenDeletion BY DEF TableInv, SeenInv, NoUnseenDeletion
  <2> QED BY <2>6, <2>7, ButtonsLemma DEF TableIsTrue
<1> QED BY <1>1, <1>2, <1>3, PTL DEF TableSpec

-----------------------------------------------------------------------------
(* The form of a search                                                    *)

FormSpec == FormInit /\ [][FormNext]_formVars

SetupFields == {"selected", "listed", "guided", "size", "required", "allowed", "forbidden",
                "scope", "malformed"}

Scopes == {"none", "plain", "sentiment", "deleted"}

\* Whatever is toggled, no category is both required and forbidden.
RulesOK(f) ==
  /\ f.required \cup f.allowed \cup f.forbidden \subseteq Categories
  /\ f.required \cap f.forbidden = {}
SetupOK(f) ==
  /\ f.selected \subseteq Definitions /\ f.listed \subseteq Definitions
  /\ f.guided \in BOOLEAN /\ f.size \in Sizes
  /\ f.scope \in Scopes /\ f.malformed \in BOOLEAN

FormInv == DOMAIN form = SetupFields /\ SetupOK(form) /\ RulesOK(form)

LEMMA FormStarts == FormInit => FormInv
BY FormAssumption DEF FormInit, FormInv, SetupFields, SetupOK, RulesOK, Scopes

\* The step that writes the three lists of rules and nothing else.
RulesSet(r, a, n) ==
  /\ DOMAIN form' = SetupFields
  /\ form'.required = r /\ form'.allowed = a /\ form'.forbidden = n
  /\ form'.selected = form.selected /\ form'.listed = form.listed
  /\ form'.guided = form.guided /\ form'.size = form.size
  /\ form'.scope = form.scope /\ form'.malformed = form.malformed

\* The toggles of the domain rules.
LEMMA RuleSteps ==
  ASSUME FormInv, NEW c \in Categories, form' \in {Require(form, c), Allow(form, c), Forbid(form, c)}
  PROVE  FormInv'
<1>1. ASSUME NEW r, NEW a, NEW n, r \cup a \cup n \subseteq Categories, r \cap n = {}, RulesSet(r, a, n)
      PROVE  FormInv'
  <2>1. SetupOK(form) BY DEF FormInv
  <2> QED BY <1>1, <2>1 DEF RulesSet, FormInv, SetupOK, RulesOK
<1>2. PICK r0, a0, n0 : r0 = form.required /\ a0 = form.allowed /\ n0 = form.forbidden OBVIOUS
<1>3. r0 \cup a0 \cup n0 \subseteq Categories /\ r0 \cap n0 = {} BY <1>2 DEF FormInv, RulesOK
<1>4. DOMAIN form = SetupFields BY DEF FormInv
<1>5. CASE form' = Require(form, c)
  <2>1. CASE c \in r0
    <3>1. PICK r : r = r0 \ {c} OBVIOUS
    <3>2. form' = [form EXCEPT !.required = r] BY <1>2, <1>5, <2>1, <3>1 DEF Require, Without
    <3>3. RulesSet(r, a0, n0) BY <1>2, <1>4, <3>2 DEF RulesSet, SetupFields
    <3>4. r \cup a0 \cup n0 \subseteq Categories /\ r \cap n0 = {} BY <1>3, <3>1
    <3> QED BY <1>1, <3>3, <3>4
  <2>2. CASE c \notin r0
    <3>1. PICK r, a, n : r = r0 \cup {c} /\ n = n0 \ {c} /\ a = (IF a0 = {} THEN {} ELSE a0 \cup {c})
      OBVIOUS
    <3>2. form' = [form EXCEPT !.required = r, !.forbidden = n, !.allowed = a]
      BY <1>2, <1>5, <2>2, <3>1 DEF Require, Without
    <3>3. RulesSet(r, a, n) BY <1>4, <3>2 DEF RulesSet, SetupFields
    <3>4. r \cup a \cup n \subseteq Categories /\ r \cap n = {} BY <1>3, <3>1
    <3> QED BY <1>1, <3>3, <3>4
  <2> QED BY <2>1, <2>2
<1>6. CASE form' = Allow(form, c)
  <2>1. CASE c \notin a0
    <3>1. PICK a : a = a0 \cup {c} OBVIOUS
    <3>2. form' = [form EXCEPT !.allowed = a] BY <1>2, <1>6, <2>1, <3>1 DEF Allow
    <3>3. RulesSet(r0, a, n0) BY <1>2, <1>4, <3>2 DEF RulesSet, SetupFields
    <3>4. r0 \cup a \cup n0 \subseteq Categories BY <1>3, <3>1
    <3> QED BY <1>1, <1>3, <3>3, <3>4
  <2>2. CASE c \in a0
    <3>1. PICK r, a : a = a0 \ {c} /\ r = (IF a = {} THEN r0 ELSE r0 \ {c}) OBVIOUS
    <3>2. form' = [form EXCEPT !.allowed = a, !.required = r]
      BY <1>2, <1>6, <2>2, <3>1 DEF Allow, Without
    <3>3. RulesSet(r, a, n0) BY <1>2, <1>4, <3>2 DEF RulesSet, SetupFields
    <3>4. r \cup a \cup n0 \subseteq Categories /\ r \cap n0 = {} BY <1>3, <3>1
    <3> QED BY <1>1, <3>3, <3>4
  <2> QED BY <2>1, <2>2
<1>7. CASE form' = Forbid(form, c)
  <2>1. CASE c \in n0
    <3>1. PICK n : n = n0 \ {c} OBVIOUS
    <3>2. form' = [form EXCEPT !.forbidden = n] BY <1>2, <1>7, <2>1, <3>1 DEF Forbid, Without
    <3>3. RulesSet(r0, a0, n) BY <1>2, <1>4, <3>2 DEF RulesSet, SetupFields
    <3>4. r0 \cup a0 \cup n \subseteq Categories /\ r0 \cap n = {} BY <1>3, <3>1
    <3> QED BY <1>1, <3>3, <3>4
  <2>2. CASE c \notin n0
    <3>1. PICK r, a, n : n = n0 \cup {c} /\ r = r0 \ {c} /\ a = a0 \ {c} OBVIOUS
    <3>2. form' = [form EXCEPT !.forbidden = n, !.required = r, !.allowed = a]
      BY <1>2, <1>7, <2>2, <3>1 DEF Forbid, Without
    <3>3. RulesSet(r, a, n) BY <1>4, <3>2 DEF RulesSet, SetupFields
    <3>4. r \cup a \cup n \subseteq Categories /\ r \cap n = {} BY <1>3, <3>1
    <3> QED BY <1>1, <3>3, <3>4
  <2> QED BY <2>1, <2>2
<1> QED BY <1>5, <1>6, <1>7

\* The other fields of the form.
LEMMA SetupSteps ==
  ASSUME FormInv,
         \/ ToggleDefinition \/ SelectAll \/ ChangeSize \/ EditLimits \/ ChangeGenerator
         \/ ChooseScope \/ Forget \/ LoseScope
  PROVE  FormInv'
<1> USE DEF FormInv
<1>0. PICK s, l, g, n, x, m :
        /\ s = form.selected /\ l = form.listed /\ g = form.guided
        /\ n = form.size /\ x = form.scope /\ m = form.malformed
  OBVIOUS
<1>1. s \subseteq Definitions /\ l \subseteq Definitions /\ g \in BOOLEAN /\ n \in Sizes
      /\ x \in Scopes /\ m \in BOOLEAN /\ RulesOK(form)
  BY <1>0 DEF SetupOK
<1>2. CASE ToggleDefinition \/ SelectAll
  <2>1. PICK t : t \subseteq Definitions /\ form' = [form EXCEPT !.selected = t]
    <3>1. CASE ToggleDefinition
      <4>1. PICK d \in l : form' = [form EXCEPT !.selected = IF d \in @ THEN @ \ {d} ELSE @ \cup {d}]
        BY <1>0, <3>1 DEF ToggleDefinition
      <4>2. PICK t : t = (IF d \in s THEN s \ {d} ELSE s \cup {d}) OBVIOUS
      <4>3. t \subseteq Definitions BY <1>1, <4>1, <4>2
      <4>4. form' = [form EXCEPT !.selected = t] BY <1>0, <4>1, <4>2
      <4> QED BY <4>3, <4>4
    <3>2. CASE SelectAll
      <4>1. PICK t : t \in {l, {}} /\ form' = [form EXCEPT !.selected = t] BY <1>0, <3>2 DEF SelectAll
      <4> QED BY <1>1, <4>1
    <3> QED BY <1>2, <3>1, <3>2
  <2>2. /\ DOMAIN form' = SetupFields /\ form'.selected = t /\ form'.listed = l /\ form'.guided = g
        /\ form'.size = n /\ form'.scope = x /\ form'.malformed = m
        /\ form'.required = form.required /\ form'.allowed = form.allowed
        /\ form'.forbidden = form.forbidden
    BY <1>0, <2>1 DEF SetupFields
  <2> QED BY <1>1, <2>1, <2>2 DEF SetupOK, RulesOK
<1>3. CASE Forget
  <2>1. PICK d \in l : form' = [form EXCEPT !.listed = @ \ {d}] BY <1>0, <1>3 DEF Forget
  <2>2. PICK t : t = l \ {d} OBVIOUS
  <2>3. t \subseteq Definitions BY <1>1, <2>2
  <2>4. /\ DOMAIN form' = SetupFields /\ form'.selected = s /\ form'.listed = t /\ form'.guided = g
        /\ form'.size = n /\ form'.scope = x /\ form'.malformed = m
        /\ form'.required = form.required /\ form'.allowed = form.allowed
        /\ form'.forbidden = form.forbidden
    BY <1>0, <2>1, <2>2 DEF SetupFields
  <2> QED BY <1>1, <2>3, <2>4 DEF SetupOK, RulesOK
<1>4. CASE ChangeGenerator
  <2>1. PICK t \in BOOLEAN : t = ~ g OBVIOUS
  <2>2. /\ DOMAIN form' = SetupFields /\ form'.selected = s /\ form'.listed = l /\ form'.guided = t
        /\ form'.size = n /\ form'.scope = x /\ form'.malformed = m
        /\ form'.required = form.required /\ form'.allowed = form.allowed
        /\ form'.forbidden = form.forbidden
    BY <1>0, <1>4, <2>1 DEF SetupFields, ChangeGenerator
  <2> QED BY <1>1, <2>2 DEF SetupOK, RulesOK
<1>5. CASE ChangeSize
  <2>1. PICK t \in Sizes : form' = [form EXCEPT !.size = t] BY <1>5 DEF ChangeSize
  <2>2. /\ DOMAIN form' = SetupFields /\ form'.selected = s /\ form'.listed = l /\ form'.guided = g
        /\ form'.size = t /\ form'.scope = x /\ form'.malformed = m
        /\ form'.required = form.required /\ form'.allowed = form.allowed
        /\ form'.forbidden = form.forbidden
    BY <1>0, <2>1 DEF SetupFields
  <2> QED BY <1>1, <2>2 DEF SetupOK, RulesOK
<1>6. CASE EditLimits
  <2>1. PICK t \in BOOLEAN : form' = [form EXCEPT !.malformed = t] BY <1>6 DEF EditLimits
  <2>2. /\ DOMAIN form' = SetupFields /\ form'.selected = s /\ form'.listed = l /\ form'.guided = g
        /\ form'.size = n /\ form'.scope = x /\ form'.malformed = t
        /\ form'.required = form.required /\ form'.allowed = form.allowed
        /\ form'.forbidden = form.forbidden
    BY <1>0, <2>1 DEF SetupFields
  <2> QED BY <1>1, <2>2 DEF SetupOK, RulesOK
<1>7. CASE ChooseScope \/ LoseScope
  <2>1. PICK t \in Scopes : form' = [form EXCEPT !.scope = t]
    BY <1>7 DEF ChooseScope, LoseScope, Scopes
  <2>2. /\ DOMAIN form' = SetupFields /\ form'.selected = s /\ form'.listed = l /\ form'.guided = g
        /\ form'.size = n /\ form'.scope = t /\ form'.malformed = m
        /\ form'.required = form.required /\ form'.allowed = form.allowed
        /\ form'.forbidden = form.forbidden
    BY <1>0, <2>1 DEF SetupFields
  <2> QED BY <1>1, <2>2 DEF SetupOK, RulesOK
<1> QED BY <1>2, <1>3, <1>4, <1>5, <1>6, <1>7

\* The two checks, written apart, agree on every form in what they both check.
LEMMA ChecksAgree ==
  ASSUME NEW f, SetupOK(f), RulesOK(f), f.size.parsed = f.size.number
  PROVE  /\ Enabled(f) /\ ~ f.malformed /\ (f.guided => f.allowed \cap f.forbidden = {}) => Accepted(f)
         /\ Accepted(f) /\ ~ Incompatible(f) => Enabled(f)
<1>1. f.selected \subseteq Definitions /\ IsFiniteSet(f.selected) /\ Cardinality(f.selected) \in Nat
  BY FormAssumption, FS_Subset, FS_CardinalityType DEF SetupOK
<1>2. f.selected # {} => Cardinality(f.selected) # 0 BY <1>1, FS_EmptySet
<1>3. PICK n \in Nat \ {0} : f.size.parsed = n /\ f.size.number = n BY FormAssumption DEF SetupOK
<1>4. CASE ~ f.guided
  <2>1. TooFew(f) <=> n >= 2 /\ Cardinality(f.selected) = 1 BY <1>3, <1>4 DEF TooFew
  <2>2. Enabled(f) <=> f.scope # "none" /\ f.selected # {} /\ ~ TooFew(f) /\ ~ Incompatible(f)
    BY <1>4 DEF Enabled
  <2>3. Accepted(f) <=> /\ f.scope # "none" /\ f.selected # {} /\ ~ f.malformed
                        /\ n >= 2 => Cardinality(f.selected) >= 2
    BY <1>3, <1>4 DEF Accepted
  <2>4. ~ TooFew(f) /\ f.selected # {} /\ n >= 2 => Cardinality(f.selected) >= 2 BY <1>1, <1>2, <2>1
  <2>5. (n >= 2 => Cardinality(f.selected) >= 2) => ~ TooFew(f) BY <1>1, <2>1
  <2> QED BY <2>2, <2>3, <2>4, <2>5
<1>5. CASE f.guided
  <2>1. EligibleSelected(f) = Pool(f) BY <1>5 DEF EligibleSelected, Eligible, Pool
  <2>2. /\ Pool(f) \subseteq f.selected /\ IsFiniteSet(Pool(f)) /\ Cardinality(Pool(f)) \in Nat
        /\ Cardinality(Pool(f)) <= Cardinality(f.selected)
    BY <1>1, FS_Subset, FS_CardinalityType DEF Pool
  <2>3. Missing(f) = {} <=> \A c \in f.required : \E d \in Pool(f) : Category[d] = c
    BY <2>1 DEF Missing
  <2>4. ASSUME Missing(f) = {}, f.allowed # {} PROVE f.required \subseteq f.allowed
    BY <2>3, <2>4 DEF Pool
  <2>5. TooFew(f) <=> n >= 2 /\ Cardinality(Pool(f)) < 2 /\ f.selected # {}
    BY <1>3, <1>5, <2>1 DEF TooFew
  <2>6. f.required \cap f.forbidden = {} BY DEF RulesOK
  <2>7. ASSUME Enabled(f), ~ f.malformed, f.allowed \cap f.forbidden = {} PROVE Accepted(f)
    <3>1. /\ f.scope # "none" /\ f.selected # {} /\ ~ TooFew(f) /\ Cardinality(f.required) <= n
          /\ Missing(f) = {} /\ Pool(f) # {}
      BY <1>3, <1>5, <2>1, <2>7 DEF Enabled
    <3>2. n >= 2 => Cardinality(Pool(f)) >= 2 BY <2>2, <2>5, <3>1
    <3>3. n >= 2 => Cardinality(f.selected) >= 2 BY <1>1, <2>2, <3>2
    <3>4. f.forbidden \cap f.allowed = {} BY <2>7
    <3> QED BY <1>3, <2>3, <2>4, <2>6, <2>7, <3>1, <3>2, <3>3, <3>4 DEF Accepted
  <2>8. ASSUME Accepted(f), ~ Incompatible(f) PROVE Enabled(f)
    <3>1. /\ f.scope # "none" /\ f.selected # {} /\ Pool(f) # {} /\ Cardinality(f.required) <= n
          /\ n >= 2 => Cardinality(Pool(f)) >= 2
          /\ \A c \in f.required : \E d \in Pool(f) : Category[d] = c
      BY <1>3, <1>5, <2>8 DEF Accepted
    <3>2. ~ TooFew(f) BY <2>2, <2>5, <3>1
    <3> QED BY <1>3, <2>1, <2>3, <2>8, <3>1, <3>2 DEF Enabled
  <2> QED BY <1>5, <2>7, <2>8
<1>6. f.guided \in BOOLEAN BY DEF SetupOK
<1> QED BY <1>4, <1>5, <1>6

\* Whatever is toggled, selected, typed and deleted elsewhere: no category is both
\* required and forbidden; for a size that reads the same in the two ways, what
\* the button offers is refused only for a malformed limit or a category that was
\* allowed after it was forbidden, and what would be accepted is withheld only
\* for a scope without the sentiment that the selection needs
\* (domainValidationErrors, validateSearchParameters).
THEOREM FormStaysCoherent == FormSpec => []FormIsCoherent
<1>1. FormInit => FormInv BY FormStarts
<1>2. FormInv /\ [FormNext]_formVars => FormInv'
  <2> SUFFICES ASSUME FormInv, [FormNext]_formVars PROVE FormInv' OBVIOUS
  <2>1. CASE UNCHANGED formVars BY <2>1 DEF formVars, FormInv
  <2>2. CASE Toggle BY <2>2, RuleSteps DEF Toggle
  <2> QED BY <2>1, <2>2, SetupSteps DEF FormNext
<1>3. FormInv => FormIsCoherent
  <2> SUFFICES ASSUME FormInv PROVE FormIsCoherent OBVIOUS
  <2>1. SetupOK(form) /\ RulesOK(form) BY DEF FormInv
  <2>2. FormTypeOK BY <2>1 DEF SetupOK, RulesOK, FormTypeOK, Scopes
  <2> QED BY <2>1, <2>2, ChecksAgree DEF FormIsCoherent, ButtonAgreesWithCheck
<1> QED BY <1>1, <1>2, <1>3, PTL DEF FormSpec

-----------------------------------------------------------------------------
(* The builders                                                            *)

BuilderSpec == BuilderInit /\ [][BuilderNext]_builderVars

CompositeFields == {"kind", "method", "name", "ids", "weights", "ordered"}
SingleFields == {"kind", "method", "name", "value"}
SavingFields == {"busy", "mounted", "edited", "kind", "name", "accepted", "last"}

\* A composite shows a weight for every member, and no other method's name.
BuilderOK(b) ==
  \/ /\ b.kind = "composite" /\ DOMAIN b = CompositeFields
     /\ DOMAIN b.weights = b.ids
     /\ b.name \in Methods => b.name = b.method
  \/ b.kind = "single" /\ DOMAIN b = SingleFields

\* Unless the form was edited since the click, it still holds the name that was
\* asked for, or held it when it was left.
SavingOK(s, b) ==
  s.busy =>
    /\ DOMAIN s = SavingFields /\ s.kind \in {"composite", "single"}
    /\ s.mounted \in BOOLEAN /\ s.edited \in BOOLEAN
    /\ ~ s.edited => s.name = IF s.mounted THEN GivenName(b) ELSE s.last

\* What is reported as saved has the name of the click and is listed.
OutcomeOK(o) ==
  o.kind # "none" =>
    /\ o.kind \in {"composite", "single"}
    /\ ~ o.edited => o.name = o.asked
    /\ ~ o.visible => o.row = "drafted" \/ (o.kind = "composite" /\ o.row = "refused")

BuilderInv == BuilderOK(builder) /\ SavingOK(saving, builder) /\ OutcomeOK(outcome)

LEMMA NothingIsOK == OutcomeOK(NothingMade) /\ (\A b : SavingOK(NoSave, b))
BY DEF OutcomeOK, NothingMade, SavingOK, NoSave

\* An equal share for every member, and for no one else.
LEMMA SharesOf == \A ids : DOMAIN EqualWeights(ids) = ids
BY DEF EqualWeights

LEMMA NewBuilders ==
  /\ BuilderOK(NewComposite)
  /\ \A i : BuilderOK(Chosen(i))
<1>1. PICK b : b = NewComposite OBVIOUS
<1>2. PICK w : w = EqualWeights({}) /\ DOMAIN w = {} BY SharesOf
<1>3. /\ b.kind = "composite" /\ DOMAIN b = CompositeFields /\ b.weights = w /\ b.ids = {}
      /\ b.name = "MAJORITY_VOTE" /\ b.method = "MAJORITY_VOTE"
  BY <1>1, <1>2 DEF NewComposite, CompositeFields
<1>4. BuilderOK(b) BY <1>2, <1>3 DEF BuilderOK
<1>5. ASSUME NEW i PROVE BuilderOK(Chosen(i))
  <2>1. PICK c : c = Chosen(i) OBVIOUS
  <2>2. c.kind = "single" /\ DOMAIN c = SingleFields BY <2>1 DEF Chosen, SingleFields
  <2> QED BY <2>1, <2>2 DEF BuilderOK
<1> QED BY <1>1, <1>4, <1>5

LEMMA BuilderStarts == BuilderInit => BuilderInv
BY NothingIsOK, NewBuilders DEF BuilderInit, BuilderInv

\* A form that is filled in: the name that is asked for may no longer be its.
LEMMA FillStep ==
  ASSUME BuilderInv, NEW b, Fill(b), BuilderOK(b)
  PROVE  BuilderInv'
<1>1. builder' = b /\ saving' = Late(saving) /\ outcome' = NothingMade BY DEF Fill
<1>2. SavingOK(saving', b)
  <2>1. CASE saving.busy /\ saving.mounted
    <3>1. saving' = [saving EXCEPT !.edited = TRUE] BY <1>1, <2>1 DEF Late
    <3>2. DOMAIN saving = SavingFields /\ saving.kind \in {"composite", "single"}
          /\ saving.mounted \in BOOLEAN
      BY <2>1 DEF BuilderInv, SavingOK
    <3>3. DOMAIN saving' = SavingFields /\ saving'.edited = TRUE /\ saving'.kind = saving.kind
          /\ saving'.mounted = saving.mounted
      BY <3>1, <3>2 DEF SavingFields
    <3>4. saving'.edited \in BOOLEAN /\ saving'.edited BY <3>3
    <3> QED BY <3>2, <3>3, <3>4 DEF SavingOK
  <2>2. CASE ~ (saving.busy /\ saving.mounted)
    <3>1. saving' = saving BY <1>1, <2>2 DEF Late
    <3> QED BY <2>2, <3>1 DEF BuilderInv, SavingOK
  <2> QED BY <2>1, <2>2
<1> QED BY <1>1, <1>2, NothingIsOK DEF BuilderInv

LEMMA CompositeFieldsOf ==
  ASSUME BuilderInv, Composite
  PROVE  /\ builder.kind = "composite" /\ DOMAIN builder = CompositeFields
         /\ DOMAIN builder.weights = builder.ids
         /\ builder.name \in Methods => builder.name = builder.method
BY DEF BuilderInv, BuilderOK, Composite

\* Members, weights and method of a composite.
LEMMA CompositeSteps ==
  ASSUME BuilderInv,
         \/ TickMember \/ SelectGroup \/ DeselectGroup \/ ClearMembers
         \/ EditWeight \/ EditThresholds \/ ChangeMethod
  PROVE  BuilderInv'
<1>1. ASSUME NEW ids, Composite, Fill(Tie(ids)) PROVE BuilderInv'
  <2>1. PICK w : w = EqualWeights(ids) /\ DOMAIN w = ids BY SharesOf
  <2>2. PICK b : b = [builder EXCEPT !.ids = ids, !.weights = w] OBVIOUS
  <2>3. Fill(b) BY <1>1, <2>1, <2>2 DEF Tie
  <2>4. /\ b.kind = "composite" /\ DOMAIN b = CompositeFields /\ b.ids = ids /\ b.weights = w
        /\ b.name = builder.name /\ b.method = builder.method
    BY <1>1, <2>2, CompositeFieldsOf DEF CompositeFields
  <2>5. BuilderOK(b) BY <1>1, <2>1, <2>4, CompositeFieldsOf DEF BuilderOK
  <2> QED BY <2>3, <2>5, FillStep
<1>2. CASE TickMember \/ SelectGroup \/ DeselectGroup \/ ClearMembers
  BY <1>1, <1>2 DEF TickMember, SelectGroup, DeselectGroup, ClearMembers
<1>3. CASE EditWeight
  <2>1. PICK d \in listed, x \in WeightEdits :
          /\ Composite /\ d \in builder.ids
          /\ Fill([builder EXCEPT !.weights = [e \in DOMAIN @ \cup {d} |-> IF e = d THEN x ELSE @[e]]])
    BY <1>3 DEF EditWeight
  <2>2. PICK w : w = [e \in DOMAIN builder.weights \cup {d} |-> IF e = d THEN x ELSE builder.weights[e]]
    OBVIOUS
  <2>3. DOMAIN w = builder.ids BY <2>1, <2>2, CompositeFieldsOf
  <2>4. PICK b : b = [builder EXCEPT !.weights = w] OBVIOUS
  <2>5. Fill(b) BY <2>1, <2>2, <2>4
  <2>6. /\ b.kind = "composite" /\ DOMAIN b = CompositeFields /\ b.ids = builder.ids
        /\ b.weights = w /\ b.name = builder.name /\ b.method = builder.method
    BY <2>1, <2>4, CompositeFieldsOf DEF CompositeFields
  <2>7. BuilderOK(b) BY <2>1, <2>3, <2>6, CompositeFieldsOf DEF BuilderOK
  <2> QED BY <2>5, <2>7, FillStep
<1>4. CASE EditThresholds
  <2>1. PICK ok \in BOOLEAN : Composite /\ Fill([builder EXCEPT !.ordered = ok])
    BY <1>4 DEF EditThresholds
  <2>2. PICK b : b = [builder EXCEPT !.ordered = ok] OBVIOUS
  <2>3. /\ b.kind = "composite" /\ DOMAIN b = CompositeFields /\ b.ids = builder.ids
        /\ b.weights = builder.weights /\ b.name = builder.name /\ b.method = builder.method
    BY <2>1, <2>2, CompositeFieldsOf DEF CompositeFields
  <2>4. BuilderOK(b) BY <2>1, <2>3, CompositeFieldsOf DEF BuilderOK
  <2> QED BY <2>1, <2>2, <2>4, FillStep
<1>5. CASE ChangeMethod
  <2>1. PICK m \in Methods :
          Composite /\ Fill([builder EXCEPT !.method = m,
                               !.name = IF @ \in {"", builder.method} THEN m ELSE @])
    BY <1>5 DEF ChangeMethod
  <2>2. PICK n : n = (IF builder.name \in {"", builder.method} THEN m ELSE builder.name) OBVIOUS
  <2>3. PICK b : b = [builder EXCEPT !.method = m, !.name = n] OBVIOUS
  <2>4. Fill(b) BY <2>1, <2>2, <2>3, CompositeFieldsOf DEF CompositeFields
  <2>5. /\ b.kind = "composite" /\ DOMAIN b = CompositeFields /\ b.ids = builder.ids
        /\ b.weights = builder.weights /\ b.name = n /\ b.method = m
    BY <2>1, <2>3, CompositeFieldsOf DEF CompositeFields
  <2>6. n \in Methods => n = m BY <2>1, <2>2, CompositeFieldsOf
  <2>7. BuilderOK(b) BY <2>1, <2>5, <2>6, CompositeFieldsOf DEF BuilderOK
  <2> QED BY <2>4, <2>7, FillStep
<1> QED BY <1>2, <1>3, <1>4, <1>5

\* Indicator and parameter, and the name of either form.
LEMMA SingleSteps ==
  ASSUME BuilderInv, ChooseIndicator \/ EditValue \/ EditName
  PROVE  BuilderInv'
<1>0. BuilderOK(builder) BY DEF BuilderInv
<1>1. CASE ChooseIndicator BY <1>1, NewBuilders, FillStep DEF ChooseIndicator
<1>2. CASE EditValue
  <2>1. PICK v \in ValueEdits : ~ Composite /\ Fill([builder EXCEPT !.value = v]) BY <1>2 DEF EditValue
  <2>2. PICK b : b = [builder EXCEPT !.value = v] OBVIOUS
  <2>3. builder.kind = "single" /\ DOMAIN builder = SingleFields BY <1>0, <2>1 DEF BuilderOK, Composite
  <2>4. b.kind = "single" /\ DOMAIN b = SingleFields BY <2>2, <2>3 DEF SingleFields
  <2> QED BY <2>1, <2>2, <2>4, FillStep DEF BuilderOK
<1>3. CASE EditName
  <2>1. PICK n \in {"", "mine"} : Fill([builder EXCEPT !.name = n]) BY <1>3 DEF EditName
  <2>2. PICK b : b = [builder EXCEPT !.name = n] OBVIOUS
  <2>3. n \notin Methods BY DEF Methods
  <2>4. CASE builder.kind = "single" /\ DOMAIN builder = SingleFields
    <3>1. b.kind = "single" /\ DOMAIN b = SingleFields BY <2>2, <2>4 DEF SingleFields
    <3> QED BY <2>1, <2>2, <3>1, FillStep DEF BuilderOK
  <2>5. CASE builder.kind = "composite"
    <3>1. DOMAIN builder = CompositeFields /\ DOMAIN builder.weights = builder.ids
      BY <2>5, CompositeFieldsOf DEF Composite
    <3>2. /\ b.kind = "composite" /\ DOMAIN b = CompositeFields /\ b.ids = builder.ids
          /\ b.weights = builder.weights /\ b.name = n
      BY <2>2, <2>5, <3>1 DEF CompositeFields
    <3>3. BuilderOK(b) BY <2>3, <3>1, <3>2 DEF BuilderOK
    <3> QED BY <2>1, <2>2, <3>3, FillStep
  <2> QED BY <1>0, <2>4, <2>5 DEF BuilderOK
<1> QED BY <1>1, <1>2, <1>3

\* A save that is asked for, answered, or refused; a builder that is left.
LEMMA SaveSteps ==
  ASSUME BuilderInv, SaveBuilder \/ ChangeMode \/ SaveAnswered \/ SaveFailed \/ LoseMember
  PROVE  BuilderInv'
<1>0. BuilderOK(builder) /\ SavingOK(saving, builder) /\ OutcomeOK(outcome) BY DEF BuilderInv
<1>1. CASE SaveBuilder
  <2>1. PICK a \in BOOLEAN : a = (Stored(builder) = TRUE) OBVIOUS
  <2>2. saving' = [busy |-> TRUE, mounted |-> TRUE, edited |-> FALSE, kind |-> builder.kind,
                   name |-> builder.name, accepted |-> Stored(builder), last |-> ""]
        /\ outcome' = NothingMade /\ builder' = builder
    BY <1>1 DEF SaveBuilder
  <2>3. builder.name # "" BY <1>1 DEF SaveBuilder, Savable, CanSave, Checked
  <2>4. GivenName(builder) = builder.name BY <2>3 DEF GivenName
  <2>5. builder.kind \in {"composite", "single"} BY <1>0 DEF BuilderOK
  <2>6. /\ DOMAIN saving' = SavingFields /\ saving'.kind = builder.kind
        /\ saving'.mounted = TRUE /\ saving'.edited = FALSE /\ saving'.name = builder.name
    BY <2>2 DEF SavingFields
  <2>7. saving'.mounted \in BOOLEAN /\ saving'.edited \in BOOLEAN /\ saving'.mounted BY <2>6
  <2>8. SavingOK(saving', builder) BY <2>4, <2>5, <2>6, <2>7 DEF SavingOK
  <2> QED BY <1>0, <2>2, <2>8, NothingIsOK DEF BuilderInv
<1>2. CASE ChangeMode
  <2>1. PICK b \in {NewComposite} \cup {Chosen(i) : i \in Indicators} :
          /\ builder' = b
          /\ saving' = IF saving.busy /\ saving.mounted
                       THEN [saving EXCEPT !.mounted = FALSE, !.last = GivenName(builder)] ELSE saving
          /\ outcome' = NothingMade
    BY <1>2 DEF ChangeMode
  <2>2. BuilderOK(b) BY NewBuilders
  <2>3. SavingOK(saving', b)
    <3>1. CASE saving.busy /\ saving.mounted
      <4>1. PICK g : g = GivenName(builder) OBVIOUS
      <4>2. saving' = [saving EXCEPT !.mounted = FALSE, !.last = g] BY <2>1, <3>1, <4>1
      <4>3. /\ DOMAIN saving = SavingFields /\ saving.kind \in {"composite", "single"}
            /\ saving.edited \in BOOLEAN /\ (~ saving.edited => saving.name = g)
        BY <1>0, <3>1, <4>1 DEF SavingOK
      <4>4. /\ DOMAIN saving' = SavingFields /\ saving'.kind = saving.kind
            /\ saving'.mounted = FALSE /\ saving'.edited = saving.edited
            /\ saving'.name = saving.name /\ saving'.last = g
        BY <4>2, <4>3 DEF SavingFields
      <4>5. saving'.mounted \in BOOLEAN /\ ~ saving'.mounted BY <4>4
      <4> QED BY <4>3, <4>4, <4>5 DEF SavingOK
    <3>2. CASE ~ (saving.busy /\ saving.mounted)
      <4>1. saving' = saving BY <2>1, <3>2
      <4> QED BY <1>0, <3>2, <4>1 DEF SavingOK
    <3> QED BY <3>1, <3>2
  <2> QED BY <2>1, <2>2, <2>3, NothingIsOK DEF BuilderInv
<1>3. CASE SaveAnswered
  <2>1. PICK row \in {"new", "listed", "refused", "drafted"} :
          /\ saving.busy
          /\ outcome' = [kind |-> saving.kind, name |-> RenderedName, asked |-> saving.name,
                         edited |-> saving.edited, row |-> row, visible |-> Unhides(saving.kind, row)]
          /\ saving' = NoSave
          /\ builder' = IF saving.mounted /\ Composite THEN Reset(builder) ELSE builder
    BY <1>3 DEF SaveAnswered
  <2>2. /\ saving.kind \in {"composite", "single"}
        /\ ~ saving.edited => saving.name = RenderedName
    BY <1>0, <2>1 DEF SavingOK, RenderedName
  <2>3. PICK name : name = RenderedName OBVIOUS
  <2>4. PICK visible \in BOOLEAN : visible = Unhides(saving.kind, row) BY DEF Unhides
  <2>5. /\ outcome'.kind = saving.kind /\ outcome'.name = name /\ outcome'.asked = saving.name
        /\ outcome'.edited = saving.edited /\ outcome'.row = row /\ outcome'.visible = visible
    BY <2>1, <2>3, <2>4
  <2>6. ~ visible => row = "drafted" \/ (saving.kind = "composite" /\ row = "refused")
    BY <2>2, <2>4 DEF Unhides
  <2>7. OutcomeOK(outcome') BY <2>2, <2>3, <2>5, <2>6 DEF OutcomeOK
  <2>8. BuilderOK(builder')
    <3>1. CASE saving.mounted /\ Composite
      <4>1. PICK b : b = Reset(builder) OBVIOUS
      <4>2. PICK w : w = EqualWeights({}) /\ DOMAIN w = {} BY SharesOf
      <4>3. /\ b.kind = "composite" /\ DOMAIN b = CompositeFields /\ b.weights = w /\ b.ids = {}
            /\ b.name = builder.method /\ b.method = builder.method
        BY <4>1, <4>2 DEF Reset, NewComposite, CompositeFields
      <4>4. BuilderOK(b) BY <4>2, <4>3 DEF BuilderOK
      <4> QED BY <2>1, <3>1, <4>1, <4>4
    <3>2. CASE ~ (saving.mounted /\ Composite) BY <1>0, <2>1, <3>2
    <3> QED BY <3>1, <3>2
  <2> QED BY <2>1, <2>7, <2>8, NothingIsOK DEF BuilderInv
<1>4. CASE SaveFailed BY <1>0, <1>4, NothingIsOK DEF SaveFailed, BuilderInv
<1>5. CASE LoseMember BY <1>0, <1>5, NothingIsOK DEF LoseMember, BuilderInv
<1> QED BY <1>1, <1>2, <1>3, <1>4, <1>5

\* Through edits while a save is under way, builders that are left and answers
\* that come late: every weight shown is the one that is sent, the forms accept
\* what the backend stores, what is saved has the name of the click, and what
\* is reported as saved is listed (PluginEditor, CompositeLibrary).
THEOREM BuilderStaysTrue == BuilderSpec => []BuilderIsTrue
<1>1. BuilderInit => BuilderInv BY BuilderStarts
<1>2. BuilderInv /\ [BuilderNext]_builderVars => BuilderInv'
  <2> SUFFICES ASSUME BuilderInv, [BuilderNext]_builderVars PROVE BuilderInv' OBVIOUS
  <2>1. CASE UNCHANGED builderVars BY <2>1 DEF builderVars, BuilderInv
  <2> QED BY <2>1, CompositeSteps, SingleSteps, SaveSteps DEF BuilderNext
<1>3. BuilderInv => BuilderIsTrue
  <2> SUFFICES ASSUME BuilderInv PROVE BuilderIsTrue OBVIOUS
  <2>1. ShownIsSent BY CompositeFieldsOf DEF ShownIsSent
  <2>2. FormFollowsBackend
    <3>1. ASSUME CanSave(builder) PROVE builder.ids # {}
      <4>1. Cardinality(builder.ids) >= 2 BY <3>1 DEF CanSave
      <4>2. SUFFICES ASSUME builder.ids = {} PROVE FALSE OBVIOUS
      <4>3. PICK size : size = Cardinality(builder.ids) OBVIOUS
      <4>4. Cardinality({}) = 0 BY FS_EmptySet
      <4>5. size = 0 BY <4>2, <4>3, <4>4
      <4> QED BY <4>1, <4>3, <4>5
    <3> QED BY <3>1 DEF FormFollowsBackend, CanSave, Prepared, Validated, Checked
  <2>3. NameIsOfContent BY CompositeFieldsOf DEF NameIsOfContent, BuilderInv, OutcomeOK
  <2>4. SavedIsListed BY DEF SavedIsListed, BuilderInv, OutcomeOK
  <2> QED BY <2>1, <2>2, <2>3, <2>4 DEF BuilderIsTrue
<1> QED BY <1>1, <1>2, <1>3, PTL DEF BuilderSpec

-----------------------------------------------------------------------------
(* All screens                                                             *)

\* A step is a step of one screen; the others keep what they have.
LEMMA OnePartMoves ==
  ASSUME [Next]_screensVars
  PROVE  /\ part' = part
         /\ [ScreenNext]_screenVars /\ [BacktestNext]_btVars /\ [FormNext]_formVars
         /\ [TableNext]_tableVars /\ [BuilderNext]_builderVars /\ [NewsNext]_newsVars
         /\ [PagesNext]_pagesVars /\ [ChartNext]_chartVars /\ [MarketNext]_marketVars
         /\ [SessionNext]_sessionVars
<1>1. CASE Next BY ONLY <1>1 DEF Next, researchVars, shellVars
<1>2. CASE UNCHANGED screensVars BY ONLY <1>2 DEF screensVars, researchVars, shellVars
<1> QED BY <1>1, <1>2

\* What is promised of the screen that is used.
PartsAreTrue ==
  /\ ScreenIsTrue /\ FormIsCoherent /\ TableIsTrue /\ BuilderIsTrue /\ NewsIsTrue
  /\ PagesAreTrue /\ ChartIsTrue /\ MarketIsTrue /\ SessionIsTrue
LEMMA PartsSuffice == part \in Names /\ PartsAreTrue => ScreensAreTrue
<1> SUFFICES ASSUME part \in Names, PartsAreTrue PROVE ScreensAreTrue OBVIOUS
<1>1. part \in Names OBVIOUS
<1>2. /\ ScreenIsTrue /\ FormIsCoherent /\ TableIsTrue /\ BuilderIsTrue /\ NewsIsTrue
      /\ PagesAreTrue /\ ChartIsTrue /\ MarketIsTrue /\ SessionIsTrue
  BY DEF PartsAreTrue
<1> QED BY ONLY <1>1, <1>2 DEF Names, ScreensAreTrue

\* Whatever screen is used, what it shows is what was asked for and what there
\* is: the promise of each screen, for the behaviours the runs check.
THEOREM ScreensStayTrue == Spec => []ScreensAreTrue
<1>1. Init => part \in Names BY DEF Init
<1>2. part \in Names /\ [Next]_screensVars => (part \in Names)' BY OnePartMoves
<1>3. Init => /\ ScreenInit /\ BacktestInit /\ FormInit /\ TableInit /\ BuilderInit /\ NewsInit
              /\ PagesInit /\ ChartInit /\ MarketInit /\ SessionInit
  BY DEF Init
<1>4. [Next]_screensVars =>
        /\ [BacktestNext]_btVars /\ [FormNext]_formVars
        /\ [TableNext]_tableVars /\ [BuilderNext]_builderVars /\ [NewsNext]_newsVars
        /\ [PagesNext]_pagesVars /\ [ChartNext]_chartVars /\ [MarketNext]_marketVars
        /\ [SessionNext]_sessionVars
  BY OnePartMoves
<1>5. Spec => Init /\ [][Next]_screensVars BY PTL DEF Spec
<1>6. Spec => /\ BacktestSpec /\ FormSpec /\ TableSpec /\ BuilderSpec /\ NewsScreenSpec
              /\ PagesSpec /\ ChartSpec /\ MarketSpec /\ SessionSpec
  BY <1>3, <1>4, <1>5, PTL
     DEF BacktestSpec, FormSpec, TableSpec, BuilderSpec, NewsScreenSpec, PagesSpec, ChartSpec,
         MarketSpec, SessionSpec
<1>7. Spec => [](part \in Names) BY <1>1, <1>2, <1>5, PTL
<1>8. ScreenIsTrue /\ FormIsCoherent /\ TableIsTrue /\ BuilderIsTrue /\ NewsIsTrue
        /\ PagesAreTrue /\ ChartIsTrue /\ MarketIsTrue /\ SessionIsTrue => PartsAreTrue
  BY DEF PartsAreTrue
<1> QED BY <1>6, <1>7, <1>8, PartsSuffice, BacktestScreenStaysTrue, FormStaysCoherent,
           TableStaysTrue, BuilderStaysTrue, NewsStaysTrue, PagesStayTrue, ChartStaysTrue,
           MarketStaysTrue, SessionStaysTrue, PTL
=============================================================================
