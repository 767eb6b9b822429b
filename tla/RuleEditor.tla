----------------------------- MODULE RuleEditor ------------------------------
(***************************************************************************)
(* The rule editor in the edit dialog: rule-editor.js on the elements of    *)
(* rule-editor.html, and what the load of a rule puts into them.  The       *)
(* handlers run one at a time on one page, so each is an operator on the    *)
(* state of the editor:                                                     *)
(*   e.box      whether #ruleStepsBox is in the dialog                      *)
(*   e.form     the rule whose code the form has                            *)
(*   e.rows     the rules whose parameters, segments and variables it has   *)
(*   e.steps    the .ruleStep elements in the order of the document         *)
(*   e.stepCount, e.nextStepIndex   the global variables of the script      *)
(* A step is its index, the rule it was loaded from (NoRule: the user added *)
(* it), whether the buttons that initSteps looks after have their handlers, *)
(* whether its remove button is disabled, and its conditions: none, or some *)
(* whose own remove buttons are live or dead.  These get their handler only *)
(* when a condition is added to the step.                                   *)
(***************************************************************************)
EXTENDS Integers, Sequences, SequencesExt

CONSTANTS
  Rules,   \* codes of rules
  NoRule

ASSUME EditorAssumption == NoRule \notin Rules

Conditions == {"none", "dead", "live"}

Step ==
  [id : Nat, of : Rules \cup {NoRule}, live : BOOLEAN, disabled : BOOLEAN,
   conds : Conditions]

Editors ==
  [box : BOOLEAN, form : Rules \cup {NoRule}, rows : SUBSET Rules, steps : Seq(Step),
   stepCount : Int, nextStepIndex : Nat]

NoEditor ==
  [box |-> FALSE, form |-> NoRule, rows |-> {}, steps |-> <<>>,
   stepCount |-> 0, nextStepIndex |-> 1]

\* A slip: the box is hidden, not removed.
BoxHidden(e) == [e EXCEPT !.box = FALSE]

\* $("#ruleStepsBox").remove(): the counters stay.
WithoutBox(e) ==
  [e EXCEPT !.box = FALSE, !.form = NoRule, !.rows = {}, !.steps = <<>>]

\* rule-editor.html in the place of what the dialog had: an empty box, and
\* its script starts the counters again.
WithBox(e) ==
  [WithoutBox(e) EXCEPT !.box = TRUE, !.stepCount = 0, !.nextStepIndex = 1]

\* The form of a rule, when there is a box.
FormFilled(e, r) == IF e.box THEN [e EXCEPT !.form = r] ELSE e

\* The form and the tables of a rule, when there is a box.
Filled(e, r) ==
  IF e.box THEN [e EXCEPT !.form = r, !.rows = @ \cup {r}] ELSE e

\* Every step gets the handlers of its own buttons - add condition, remove,
\* move, comment; not those of its conditions - and a remove button that
\* works only when there is another step.
InitSteps(e) ==
  [e EXCEPT !.steps = [i \in DOMAIN @ |->
                         [@[i] EXCEPT !.live = TRUE, !.disabled = e.stepCount <= 1]]]

\* A step from rule-step-template.html with the conditions of a rule.
NewStep(i, r, c) ==
  [id |-> i, of |-> r, live |-> FALSE, disabled |-> FALSE, conds |-> c]

\* The steps of r, one for each element of conds, behind the others.
Appended(e, r, conds) ==
  e.steps \o [i \in 1 .. Len(conds) |-> NewStep(e.nextStepIndex + i - 1, r, conds[i])]

\* A slip: the steps are appended and counted as one.
WithStepsOnce(e, r, conds) ==
  [e EXCEPT !.steps = IF e.box THEN Appended(e, r, conds) ELSE @,
            !.stepCount = @ + 1,
            !.nextStepIndex = @ + Len(conds)]

\* The steps of r are appended: counted even when there is no box.
WithSteps(e, r, conds) ==
  [e EXCEPT !.steps = IF e.box THEN Appended(e, r, conds) ELSE @,
            !.stepCount = @ + Len(conds),
            !.nextStepIndex = @ + Len(conds)]

\* The remove button of the i-th step, confirmed by the user.
StepRemoved(e, i) ==
  IF e.stepCount > 1
  THEN InitSteps([e EXCEPT !.steps = RemoveAt(@, i), !.stepCount = @ - 1])
  ELSE e

\* A condition is added to the i-th step, which rebinds the remove buttons
\* of all its conditions; one of them is used, and some or none are left.
ConditionAdded(e, i) == [e EXCEPT !.steps[i].conds = "live"]
ConditionRemoved(e, i, left) == [e EXCEPT !.steps[i].conds = left]

\* clone() copies no handlers, those of the conditions included.
Clone(step) ==
  [step EXCEPT !.live = FALSE, !.conds = IF @ = "live" THEN "dead" ELSE @]

\* A slip: the clone is left as it is.
SwappedBare(e, i) ==
  [e EXCEPT !.steps = ReplaceAt(ReplaceAt(@, i, e.steps[i + 1]), i + 1, Clone(e.steps[i]))]

\* moveStepUp of step i + 1, moveStepDown of step i: step i is cloned behind
\* its neighbour and the original removed.  initSteps does not bring the
\* buttons of the clone's conditions back.
Swapped(e, i) ==
  InitSteps(
    [e EXCEPT !.steps = ReplaceAt(ReplaceAt(@, i, e.steps[i + 1]), i + 1, Clone(e.steps[i]))])
==============================================================================
