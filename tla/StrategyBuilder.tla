--------------------------- MODULE StrategyBuilder ---------------------------
(***************************************************************************)
(* The two builders of the strategy screen (strategy.tsx): PluginEditor,   *)
(* which saves an indicator with parameters, and CompositeLibrary, which   *)
(* combines definitions.  One is mounted at a time.  Its fields stay       *)
(* editable while a save is under way, the answer uses what they then      *)
(* hold, and it arrives also when the builder was left.  Weights are       *)
(* counted in parts of Whole.                                              *)
(***************************************************************************)
EXTENDS Integers, FiniteSets, FiniteSetsExt

CONSTANTS
  Members,       \* definitions that may be combined
  Groups,        \* sets of members a search or a category shows
  Whole,         \* what weights add up to, divisible by the numbers of members
  WeightEdits,   \* weights the user may enter
  ValueEdits,    \* values the user may enter for the parameter, in halves
  Limits         \* of each indicator's parameter: minimum, maximum and default
                 \* in halves, whether it is an integer

Indicators == DOMAIN Limits
Methods == {"MAJORITY_VOTE", "WEIGHTED_SCORE"}

ASSUME BuilderAssumption ==
  /\ IsFiniteSet(Members) /\ Groups \subseteq SUBSET Members
  /\ Whole \in Nat /\ WeightEdits \subseteq Int /\ ValueEdits \subseteq Int

VARIABLES
  listed,   \* definitions the list of members shows
  builder,  \* form of the builder that is mounted
  saving,   \* save that is under way, with what was asked for
  outcome      \* history: outcome of the save that was answered by the last step

builderVars == <<listed, builder, saving, outcome>>

-----------------------------------------------------------------------------
(* Forms                                                                   *)

EqualWeights(ids) == [d \in ids |-> Whole \div Cardinality(ids)]

NewComposite ==
  [ kind |-> "composite", method |-> "MAJORITY_VOTE", name |-> "MAJORITY_VOTE",
    ids |-> {}, weights |-> EqualWeights({}), ordered |-> TRUE ]
Chosen(i) == [ kind |-> "single", method |-> i, name |-> i, value |-> Limits[i].default ]

\* A name that equals the method is the default name of the method.
NoSave == [ busy |-> FALSE ]
NothingMade == [ kind |-> "none" ]

BuilderInit ==
  /\ listed = Members
  /\ builder \in {NewComposite} \cup {Chosen(i) : i \in Indicators}
  /\ saving = NoSave /\ outcome = NothingMade

\* Any edit of the form while its save is under way may end up in the name.
Late(s) == IF s.busy /\ s.mounted THEN [s EXCEPT !.edited = TRUE] ELSE s
Fill(b) == builder' = b /\ saving' = Late(saving) /\ outcome' = NothingMade /\ UNCHANGED listed

-----------------------------------------------------------------------------
(* Composite: members, weights, method                                     *)

Composite == builder.kind = "composite"
Tie(ids) == [builder EXCEPT !.ids = ids, !.weights = EqualWeights(ids)]

TickMember == \E d \in listed :
  Composite /\ Fill(Tie(IF d \in builder.ids THEN builder.ids \ {d} ELSE builder.ids \cup {d}))

BugSelectGroup == \E g \in Groups :
  /\ Composite /\ g \cap listed # {}
  /\ Fill([builder EXCEPT !.ids = @ \cup (g \cap listed)])
SelectGroup == \E g \in Groups :
  Composite /\ g \cap listed # {} /\ Fill(Tie(builder.ids \cup (g \cap listed)))
DeselectGroup == \E g \in Groups :
  Composite /\ g \cap listed \cap builder.ids # {} /\ Fill(Tie(builder.ids \ (g \cap listed)))
ClearMembers == Composite /\ builder.ids # {} /\ Fill(Tie({}))

\* The weight of a ticked member of the list is typed in.
EditWeight == \E d \in listed, w \in WeightEdits :
  /\ Composite /\ builder.method = "WEIGHTED_SCORE" /\ d \in builder.ids
  /\ Fill([builder EXCEPT !.weights = [e \in DOMAIN @ \cup {d} |-> IF e = d THEN w ELSE @[e]]])
EditThresholds == \E ok \in BOOLEAN :
  Composite /\ builder.method = "WEIGHTED_SCORE" /\ Fill([builder EXCEPT !.ordered = ok])
ChangeMethod == \E m \in Methods :
  /\ Composite
  /\ Fill([builder EXCEPT !.method = m,
                          !.name = IF @ \in {"", builder.method} THEN m ELSE @])

\* A weight that was never set counts as an equal share.
Sent(b) == [d \in b.ids |->
  IF b.method = "MAJORITY_VOTE" THEN Whole
  ELSE IF d \in DOMAIN b.weights THEN b.weights[d] ELSE Whole \div Cardinality(b.ids)]
Total(weights) == MapThenSumSet(LAMBDA d : weights[d], DOMAIN weights)

CanSave(b) ==
  /\ Cardinality(b.ids) >= 2 /\ b.name # ""
  /\ b.method = "WEIGHTED_SCORE" => Total(Sent(b)) = Whole /\ b.ordered

\* prepareComposite of the backend.
Prepared(b) ==
  /\ b.ids # {} /\ b.ids \subseteq listed
  /\ \A d \in b.ids : Sent(b)[d] >= 0
  /\ b.method = "WEIGHTED_SCORE" => Total(Sent(b)) = Whole /\ b.ordered

-----------------------------------------------------------------------------
(* Single: indicator and parameter                                         *)

ChooseIndicator == \E i \in Indicators : ~ Composite /\ Fill(Chosen(i))
EditValue == \E v \in ValueEdits : ~ Composite /\ Fill([builder EXCEPT !.value = v])

Checked(b) == b.name # "" /\ Limits[b.method].min <= b.value /\ b.value <= Limits[b.method].max

\* validateParameters of the backend, which also wants integers.
Validated(b) ==
  /\ Limits[b.method].min <= b.value /\ b.value <= Limits[b.method].max
  /\ Limits[b.method].integer => b.value % 2 = 0

-----------------------------------------------------------------------------
(* Saving                                                                  *)

EditName == \E n \in {"", "mine"} : Fill([builder EXCEPT !.name = n])

GivenName(b) == IF b.name = "" THEN b.method ELSE b.name
Savable(b) == IF b.kind = "composite" THEN CanSave(b) ELSE Checked(b)
Stored(b) == IF b.kind = "composite" THEN Prepared(b) ELSE Validated(b)

SaveBuilder ==
  /\ ~ saving.busy /\ Savable(builder)
  /\ saving' = [ busy |-> TRUE, mounted |-> TRUE, edited |-> FALSE, kind |-> builder.kind,
                 name |-> builder.name, accepted |-> Stored(builder), last |-> "" ]
  /\ outcome' = NothingMade
  /\ UNCHANGED <<listed, builder>>

\* The builder that is left keeps its last render for the answer; the next one
\* starts anew.  One save is under way at a time (bound).
ChangeMode == \E b \in {NewComposite} \cup {Chosen(i) : i \in Indicators} :
  /\ builder' = b
  /\ saving' = IF saving.busy /\ saving.mounted
               THEN [saving EXCEPT !.mounted = FALSE, !.last = GivenName(builder)] ELSE saving
  /\ outcome' = NothingMade /\ UNCHANGED listed

RenderedName == IF saving.mounted THEN GivenName(builder) ELSE saving.last

\* Outcome of a save: a new row, an equal one that is listed, one that the
\* screen hides because its deletion was refused, or the row of a draft.
Unhides(kind, row) == row # "drafted" /\ (kind = "single" \/ row # "refused")

Reset(b) == [NewComposite EXCEPT !.method = b.method, !.ordered = b.ordered, !.name = b.method]
SaveAnswered == \E row \in {"new", "listed", "refused", "drafted"} :
  /\ saving.busy /\ saving.accepted
  /\ outcome' = [ kind |-> saving.kind, name |-> RenderedName, asked |-> saving.name,
               edited |-> saving.edited, row |-> row, visible |-> Unhides(saving.kind, row) ]
  /\ saving' = NoSave
  /\ builder' = IF saving.mounted /\ Composite THEN Reset(builder) ELSE builder
  /\ UNCHANGED listed

\* Refused by the backend, or not answered: the form keeps what it holds.
SaveFailed ==
  saving.busy /\ saving' = NoSave /\ outcome' = NothingMade /\ UNCHANGED <<listed, builder>>

\* The row of a member is deleted; the ticks keep its id.
LoseMember == \E d \in listed :
  listed' = listed \ {d} /\ outcome' = NothingMade /\ UNCHANGED <<builder, saving>>

BuilderNext ==
  \/ TickMember \/ SelectGroup \/ DeselectGroup \/ ClearMembers
  \/ EditWeight \/ EditThresholds \/ ChangeMethod \/ ChooseIndicator \/ EditValue
  \/ EditName \/ SaveBuilder \/ ChangeMode \/ SaveAnswered \/ SaveFailed \/ LoseMember

-----------------------------------------------------------------------------
(* What the builders promise                                               *)

\* Every weight that is sent is the one the form shows next to the member.
ShownIsSent == Composite => DOMAIN builder.weights = builder.ids

\* The form of a composite lets through what the backend stores, as long as
\* its members exist and no weight is negative, which only the backend checks;
\* the form of an indicator never holds back what the backend would store.
FormFollowsBackend ==
  /\ (Composite /\ CanSave(builder) /\ builder.ids \subseteq listed
        /\ \A d \in builder.ids : Sent(builder)[d] >= 0) => Prepared(builder)
  /\ (Composite /\ Prepared(builder) /\ Cardinality(builder.ids) >= 2 /\ builder.name # "")
        => CanSave(builder)
  /\ (~ Composite /\ builder.name # "" /\ Validated(builder)) => Checked(builder)

\* A saved strategy carries the name that was on the form when it was saved,
\* unless the form was edited before the answer, and the form never keeps the
\* default name of the other method.
NameIsOfContent ==
  /\ outcome.kind # "none" /\ ~ outcome.edited => outcome.name = outcome.asked
  /\ Composite /\ builder.name \in Methods => builder.name = builder.method

\* What was reported as saved is in the table, but for the row of a draft and
\* a composite whose earlier deletion was refused, which stays hidden.
SavedIsListed ==
  outcome.kind # "none" /\ ~ outcome.visible =>
    outcome.row = "drafted" \/ (outcome.kind = "composite" /\ outcome.row = "refused")

BuilderIsTrue == ShownIsSent /\ FormFollowsBackend /\ NameIsOfContent /\ SavedIsListed
=============================================================================
