------------------------------ MODULE SearchForm ------------------------------
(***************************************************************************)
(* The setup form of SearchLive (features.tsx): the toggles of the domain  *)
(* rules that keep each other consistent, the other fields, the errors     *)
(* that disable the start button, and validateSearchParameters, which      *)
(* checks again when the button is pressed.                                *)
(***************************************************************************)
EXTENDS Integers, FiniteSets

CONSTANTS
  Categories,     \* categories of the strategies
  Definitions,    \* definitions of the user
  Category,       \* of each; none of the Categories for one without descriptor
  Sentimental,    \* the ones that need news sentiment
  Sizes           \* texts of the ensemble size, by the two ways of reading them

Dual == [parsed |-> 2, number |-> 2]

\* parseInt, at least 1, and Number, 0 for what is no positive integer: they
\* differ for an empty text, a fraction and an exponent.
ASSUME FormAssumption ==
  /\ IsFiniteSet(Categories) /\ IsFiniteSet(Definitions) /\ Sentimental \subseteq Definitions
  /\ Sizes \subseteq [parsed : Nat \ {0}, number : Nat] /\ Dual \in Sizes

VARIABLE form  \* selected definitions, those still listed, rules, and the other fields
formVars == form

\* The limits of concurrency and of the stop are malformed when one of them
\* holds no positive integer.
FormInit ==
  form = [ selected |-> Definitions, listed |-> Definitions, guided |-> FALSE, size |-> Dual,
           required |-> {}, allowed |-> {}, forbidden |-> {}, scope |-> "none", malformed |-> FALSE ]

-----------------------------------------------------------------------------
(* Toggles                                                                 *)

Without(set, c) == set \ {c}

Require(f, c) ==
  IF c \in f.required THEN [f EXCEPT !.required = Without(@, c)]
  ELSE [f EXCEPT !.required = @ \cup {c}, !.forbidden = Without(@, c),
                 !.allowed = IF @ = {} THEN {} ELSE @ \cup {c}]

\* The last allowed category taken away means that all are allowed again.
Allow(f, c) ==
  IF c \notin f.allowed THEN [f EXCEPT !.allowed = @ \cup {c}]
  ELSE LET left == Without(f.allowed, c)
       IN  [f EXCEPT !.allowed = left, !.required = IF left = {} THEN @ ELSE Without(@, c)]

Forbid(f, c) ==
  IF c \in f.forbidden THEN [f EXCEPT !.forbidden = Without(@, c)]
  ELSE [f EXCEPT !.forbidden = @ \cup {c}, !.required = Without(@, c), !.allowed = Without(@, c)]

Toggle == \E c \in Categories : form' \in {Require(form, c), Allow(form, c), Forbid(form, c)}
ToggleDefinition == \E d \in form.listed :
  form' = [form EXCEPT !.selected = IF d \in @ THEN @ \ {d} ELSE @ \cup {d}]
SelectAll == form' \in {[form EXCEPT !.selected = form.listed], [form EXCEPT !.selected = {}]}
ChangeSize == \E n \in Sizes : form' = [form EXCEPT !.size = n]
EditLimits == \E broken \in BOOLEAN : form' = [form EXCEPT !.malformed = broken]
ChangeGenerator == form' = [form EXCEPT !.guided = ~ @]

\* A definition is deleted elsewhere; the selection keeps its id.
Forget == \E d \in form.listed : form' = [form EXCEPT !.listed = @ \ {d}]

\* A scope without or with a sentiment snapshot, or none while none is listed;
\* the form keeps the id of a scope that is deleted elsewhere.
ChooseScope == \E x \in {"none", "plain", "sentiment"} : form' = [form EXCEPT !.scope = x]
LoseScope == form.scope # "none" /\ form' = [form EXCEPT !.scope = "deleted"]

FormNext ==
  \/ Toggle \/ ToggleDefinition \/ SelectAll \/ ChangeSize \/ EditLimits \/ ChangeGenerator
  \/ ChooseScope \/ Forget \/ LoseScope

-----------------------------------------------------------------------------
(* domainValidationErrors, which disables the button                       *)

Eligible(f, d) ==
  /\ d \in f.listed
  /\ f.guided => /\ f.allowed # {} => Category[d] \in f.allowed
                 /\ Category[d] \notin f.forbidden
EligibleSelected(f) == {d \in f.selected : Eligible(f, d)}

TooFew(f) ==
  f.size.parsed >= 2 /\ IF f.guided THEN Cardinality(EligibleSelected(f)) < 2 /\ f.selected # {}
                        ELSE Cardinality(f.selected) = 1

\* A listed one of the selected definitions would fail in this scope.
Incompatible(f) == f.scope = "plain" /\ f.selected \cap f.listed \cap Sentimental # {}
BugMissing(f) == {c \in f.required : \A d \in f.selected : Category[d] # c}
Missing(f) == {c \in f.required : \A d \in EligibleSelected(f) : Category[d] # c}

\* While no request is under way.
Enabled(f) ==
  /\ f.scope # "none" /\ f.selected # {} /\ ~ TooFew(f) /\ ~ Incompatible(f)
  /\ f.guided => /\ Cardinality(f.required) <= f.size.parsed
                 /\ Missing(f) = {}
                 /\ EligibleSelected(f) # {}

-----------------------------------------------------------------------------
(* validateSearchParameters, which throws or makes the request             *)

Pool(f) == {d \in f.listed \cap f.selected :
  (f.allowed = {} \/ Category[d] \in f.allowed) /\ Category[d] \notin f.forbidden}

Accepted(f) ==
  /\ f.scope # "none" /\ f.selected # {} /\ ~ f.malformed /\ f.size.number > 0
  /\ f.size.number >= 2 => Cardinality(f.selected) >= 2
  /\ f.guided =>
       /\ f.required \cap f.forbidden = {}
       /\ f.allowed # {} => f.required \subseteq f.allowed /\ f.forbidden \cap f.allowed = {}
       /\ Pool(f) # {}
       /\ f.size.number >= 2 => Cardinality(Pool(f)) >= 2
       /\ Cardinality(f.required) <= f.size.number
       /\ \A c \in f.required : \E d \in Pool(f) : Category[d] = c

-----------------------------------------------------------------------------
(* What the form promises                                                  *)

\* The lists stay in their domains, and no sequence of toggles makes a category
\* both required and forbidden.
FormTypeOK ==
  /\ form.selected \subseteq Definitions /\ form.listed \subseteq Definitions
  /\ form.guided \in BOOLEAN /\ form.size \in Sizes
  /\ form.scope \in {"none", "plain", "sentiment", "deleted"}
  /\ form.malformed \in BOOLEAN
  /\ form.required \cup form.allowed \cup form.forbidden \subseteq Categories
  /\ form.required \cap form.forbidden = {}

\* The two checks agree on the rules, the pool, the size and the scope.  What
\* the enabled button offers is accepted when it is pressed, unless a limit is
\* malformed or a category was allowed after it was forbidden, which only the
\* second check sees; what would be accepted is offered, unless the scope has no
\* sentiment for the selection, which only the first one sees.  Both hold for
\* an ensemble size that reads the same in the two ways.
ButtonAgreesWithCheck ==
  form.size.parsed = form.size.number =>
    /\ Enabled(form) /\ ~ form.malformed /\ (form.guided => form.allowed \cap form.forbidden = {})
         => Accepted(form)
    /\ Accepted(form) /\ ~ Incompatible(form) => Enabled(form)

\* Whatever is toggled, the form offers what its check accepts.
FormIsCoherent == FormTypeOK /\ ButtonAgreesWithCheck
=============================================================================
