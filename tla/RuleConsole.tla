----------------------------- MODULE RuleConsole -----------------------------
(***************************************************************************)
(* The rule page of the console: one user clicks, the answers of the        *)
(* requests arrive in any order.  An edit loads four things one after the   *)
(* other - the bizTypes, the editor, the rule, the template of a step - and *)
(* nothing keeps two edits apart: a button of the list is reached by the    *)
(* keyboard even under a dialog.  The remove buttons share one confirm      *)
(* dialog.  The list itself, the create dialog, the match type and what the *)
(* user types are not modelled.  Nor is the click on the dimmer that closes *)
(* all dialogs: an element with class am-modal covers the whole window, and *)
(* while the dimmer is shown a visible one lies over it (DimmerFreed).      *)
(***************************************************************************)
EXTENDS RuleEditor

CONSTANTS
  Loads,        \* edits that may be loading at the same time
  StepCounts,   \* how many steps a rule may have
  NoOptions,    \* see Modal
  Width,        \* the options of the edit dialog
  MaxClicks,    \* bound: clicks of the user
  MaxRequests   \* bound: steps being added, rules being saved

VARIABLES
  widgets,       \* the dialogs and the dimmer
  editor,
  loads,         \* where each edit is
  crossed,       \* history: an edit overlapped the one that emptied the box last
  adding,        \* steps whose template is being loaded
  saveEnabled,   \* #updateRuleBtn
  saving,        \* PUT requests without an answer
  message,       \* the rule the confirm dialog names
  removing,      \* rules whose DELETE has no answer
  clicks

vars == <<widgets, editor, loads, crossed, adding, saveEnabled, saving, message, removing, clicks>>

Dialogs == {"edit", "confirm"}

INSTANCE Modal WITH Options <- Rules \cup {Width}

ASSUME ConsoleAssumption ==
  /\ Width \notin Rules
  /\ NoOptions \notin Rules \cup {Width}
  /\ StepCounts \subseteq Nat
  /\ MaxClicks \in Nat /\ MaxRequests \in Nat

\* at: the answer that is awaited.
NotLoading == [code |-> NoRule, at |-> "idle"]
Awaited == {"bizTypes", "editor", "rule", "template"}

Init ==
  /\ widgets = NoWidgets
  /\ editor = NoEditor
  /\ loads = [l \in Loads |-> NotLoading]
  /\ crossed = FALSE
  /\ adding = 0 /\ saveEnabled = TRUE /\ saving = 0
  /\ message = NoRule /\ removing = {}
  /\ clicks = 0

Click == clicks < MaxClicks /\ clicks' = clicks + 1

\* The dialog that gets the clicks: one that fades out (am-modal-out) has
\* the lower z-index, of two with the same the later in the document lies
\* above.
Layer(d) ==
  (IF widgets.dialogs[d].fading THEN 0 ELSE 2) + (IF d = "confirm" THEN 1 ELSE 0)

OnTop(d) ==
  /\ widgets.dialogs[d].visible
  /\ \A e \in Dialogs : widgets.dialogs[e].visible => Layer(e) <= Layer(d)

------------------------------------------------------------------------------
(* Removing a rule.                                                         *)

RemoveClick(r) ==
  /\ Click
  /\ message' = r
  /\ widgets' = Called(widgets, "confirm", r)
  /\ UNCHANGED <<editor, loads, crossed, adding, saveEnabled, saving, removing>>

\* onConfirm of the instance, then the dialog closes.
ConfirmClick ==
  /\ OnTop("confirm")
  /\ Click
  /\ removing' = removing \cup {widgets.dialogs["confirm"].options}
  /\ widgets' = Closed(widgets, "confirm")
  /\ UNCHANGED <<editor, loads, crossed, adding, saveEnabled, saving, message>>

RemoveAnswer(r) ==
  /\ r \in removing
  /\ removing' = removing \ {r}
  /\ UNCHANGED <<widgets, editor, loads, crossed, adding, saveEnabled, saving, message, clicks>>

\* The cancel button and the cross.
CancelClick(d) ==
  /\ OnTop(d)
  /\ Click
  /\ widgets' = Closed(widgets, d)
  /\ UNCHANGED <<editor, loads, crossed, adding, saveEnabled, saving, message, removing>>

\* The escape key goes to the dialog that has the focus, and that need not be
\* the one on top.
EscapeKey(d) ==
  /\ widgets.dialogs[d].active
  /\ Click
  /\ widgets' = Closed(widgets, d)
  /\ UNCHANGED <<editor, loads, crossed, adding, saveEnabled, saving, message, removing>>

TransitionEnd(d) ==
  /\ widgets.dialogs[d].ending # "none"
  /\ widgets' = Ended(widgets, d)
  /\ UNCHANGED <<editor, loads, crossed, adding, saveEnabled, saving, message, removing, clicks>>

------------------------------------------------------------------------------
(* Loading a rule into the edit dialog.                                     *)

Quiet == \A l \in Loads : loads[l].at = "idle"

EditClick(l, r) ==
  /\ loads[l].at = "idle"
  /\ Click
  /\ loads' = [loads EXCEPT ![l] = [code |-> r, at |-> "bizTypes"]]
  /\ crossed' = (crossed \/ ~ Quiet)
  /\ UNCHANGED <<widgets, editor, adding, saveEnabled, saving, message, removing>>

Awaits(l, at) ==
  /\ loads[l].at = at
  /\ UNCHANGED <<adding, saving, message, removing, clicks>>

BizTypesAnswer(l) ==
  /\ Awaits(l, "bizTypes")
  /\ editor' = WithoutBox(editor)
  /\ crossed' = \E k \in Loads \ {l} : loads[k].at # "idle"
  /\ loads' = [loads EXCEPT ![l].at = "editor"]
  /\ UNCHANGED <<widgets, saveEnabled>>

EditorAnswer(l) ==
  /\ Awaits(l, "editor")
  /\ editor' = WithBox(editor)
  /\ loads' = [loads EXCEPT ![l].at = "rule"]
  /\ UNCHANGED <<widgets, crossed, saveEnabled>>

RuleAnswer(l) ==
  /\ Awaits(l, "rule")
  /\ editor' = Filled(editor, loads[l].code)
  /\ loads' = [loads EXCEPT ![l].at = "template"]
  /\ UNCHANGED <<widgets, crossed, saveEnabled>>

\* A rule without a design throws when its form has been filled; nothing of
\* what would follow happens.
RuleThrows(l) ==
  /\ Awaits(l, "rule")
  /\ editor' = FormFilled(editor, loads[l].code)
  /\ loads' = [loads EXCEPT ![l] = NotLoading]
  /\ UNCHANGED <<widgets, crossed, saveEnabled>>

\* The steps are there: the dialog opens - or, when it is open, closes.
TemplateAnswer(l) ==
  /\ Awaits(l, "template")
  /\ \E n \in StepCounts : \E conds \in [1 .. n -> {"none", "dead"}] :
       editor' = InitSteps(WithSteps(editor, loads[l].code, conds))
  /\ saveEnabled' = TRUE
  /\ widgets' = Called(widgets, "edit", Width)
  /\ loads' = [loads EXCEPT ![l] = NotLoading]
  /\ UNCHANGED crossed

\* The request for the bizTypes or for the rule fails.
LoadFails(l) ==
  /\ \E at \in {"bizTypes", "rule"} : Awaits(l, at)
  /\ loads' = [loads EXCEPT ![l] = NotLoading]
  /\ UNCHANGED <<widgets, editor, crossed, saveEnabled>>

------------------------------------------------------------------------------
(* Editing and saving.                                                      *)

AddStepClick ==
  /\ OnTop("edit")
  /\ adding < MaxRequests
  /\ Click
  /\ adding' = adding + 1
  /\ UNCHANGED <<widgets, editor, loads, crossed, saveEnabled, saving, message, removing>>

AddStepAnswer ==
  /\ adding > 0
  /\ adding' = adding - 1
  /\ editor' = InitSteps(WithSteps(editor, NoRule, <<"none">>))
  /\ UNCHANGED <<widgets, loads, crossed, saveEnabled, saving, message, removing, clicks>>

\* A button of the i-th step, when it has its handler.
StepClick(i) ==
  /\ OnTop("edit")
  /\ i \in DOMAIN editor.steps
  /\ editor.steps[i].live
  /\ Click
  /\ UNCHANGED <<widgets, loads, crossed, adding, saveEnabled, saving, message, removing>>

RemoveStep(i) == StepClick(i) /\ editor' = StepRemoved(editor, i)
MoveStepUp(i) == StepClick(i) /\ i > 1 /\ editor' = Swapped(editor, i - 1)
MoveStepDown(i) == StepClick(i) /\ i < Len(editor.steps) /\ editor' = Swapped(editor, i)
AddCondition(i) == StepClick(i) /\ editor' = ConditionAdded(editor, i)

\* The remove button of a condition, when it has its handler.
RemoveCondition(i) ==
  /\ OnTop("edit")
  /\ i \in DOMAIN editor.steps
  /\ editor.steps[i].conds = "live"
  /\ Click
  /\ \E left \in {"none", "live"} : editor' = ConditionRemoved(editor, i, left)
  /\ UNCHANGED <<widgets, loads, crossed, adding, saveEnabled, saving, message, removing>>

\* #updateRuleBtn: the form needs a code.
Save ==
  /\ OnTop("edit")
  /\ saveEnabled
  /\ editor.form # NoRule
  /\ saving < MaxRequests
  /\ Click
  /\ saveEnabled' = FALSE
  /\ saving' = saving + 1
  /\ UNCHANGED <<widgets, editor, loads, crossed, adding, message, removing>>

\* Success closes the dialog; after a failure the button stays disabled.
SaveAnswer(ok) ==
  /\ saving > 0
  /\ saving' = saving - 1
  /\ widgets' = IF ok THEN Closed(widgets, "edit") ELSE widgets
  /\ UNCHANGED <<editor, loads, crossed, adding, saveEnabled, message, removing, clicks>>

Next ==
  \/ \E r \in Rules : RemoveClick(r) \/ RemoveAnswer(r)
  \/ ConfirmClick
  \/ \E d \in Dialogs : CancelClick(d) \/ EscapeKey(d) \/ TransitionEnd(d)
  \/ \E l \in Loads, r \in Rules : EditClick(l, r)
  \/ \E l \in Loads :
       \/ BizTypesAnswer(l) \/ EditorAnswer(l) \/ RuleAnswer(l) \/ TemplateAnswer(l)
       \/ RuleThrows(l) \/ LoadFails(l)
  \/ AddStepClick \/ AddStepAnswer
  \/ \E i \in DOMAIN editor.steps :
       \/ RemoveStep(i) \/ MoveStepUp(i) \/ MoveStepDown(i)
       \/ AddCondition(i) \/ RemoveCondition(i)
  \/ Save
  \/ \E ok \in BOOLEAN : SaveAnswer(ok)

Spec == Init /\ [][Next]_vars

------------------------------------------------------------------------------
(* Properties.                                                              *)

\* Types: a DELETE names a rule, the counters are numbers.
TypeOK ==
  /\ widgets \in Widgets
  /\ editor \in Editors
  /\ loads \in [Loads -> {NotLoading} \cup [code : Rules, at : Awaited]]
  /\ crossed \in BOOLEAN /\ saveEnabled \in BOOLEAN
  /\ adding \in 0 .. MaxRequests /\ saving \in 0 .. MaxRequests
  /\ message \in Rules \cup {NoRule}
  /\ removing \subseteq Rules
  /\ clicks \in 0 .. MaxClicks

\* The counters follow the elements: however loads, late templates and
\* clicks interleave, stepCount is the number of the steps in the box and
\* their indexes are distinct and below nextStepIndex - initSteps finds each.
StepsCounted ==
  editor.box =>
    /\ editor.stepCount = Len(editor.steps)
    /\ \A i \in DOMAIN editor.steps : editor.steps[i].id \in 1 .. editor.nextStepIndex - 1
    /\ \A i, j \in DOMAIN editor.steps : editor.steps[i].id = editor.steps[j].id => i = j

\* The buttons that initSteps looks after - add condition, remove, move up
\* and down, comment - work in every step, whether loaded, added by the user
\* or cloned by a move, and a step can be removed exactly when there is
\* another.  The remove buttons of conditions are not among them: those of a
\* loaded or moved step stay dead until a condition is added to it.
StepsLive ==
  \A i \in DOMAIN editor.steps :
    editor.steps[i].live /\ (editor.steps[i].disabled <=> Len(editor.steps) = 1)

\* After edits that did not overlap the editor has one rule: the rows, if
\* there are any (a rule without a design has none), are those of its form,
\* and so are the steps but for those the user added - also when an edit
\* before failed half way or a template comes late.
OneRuleShown ==
  ~ crossed /\ Quiet /\ editor.form # NoRule =>
    /\ editor.rows \subseteq {editor.form}
    /\ \A i \in DOMAIN editor.steps : editor.steps[i].of \in editor.rows \cup {NoRule}

\* The page is never left under the dimmer: while it is shown a dialog is
\* open or closing, whichever of two dialogs closes first and however often.
DimmerFreed ==
  /\ widgets.shown => widgets.used # {}
  /\ \A d \in widgets.used : widgets.dialogs[d].active

\* However often and however early a dialog is opened and closed again, an
\* open one is visible, the end of an earlier transition never hides it, and
\* one that fades out does become closed.
OpenVisible ==
  \A d \in Dialogs :
    LET w == widgets.dialogs[d] IN
    /\ w.active <=> w.visible
    /\ w.active => (w.fading <=> w.ending = "closed")

\* As long as the confirm dialog is open its button removes the rule that
\* the dialog names.
ConfirmsNamed ==
  LET d == widgets.dialogs["confirm"] IN
  d.active /\ ~ d.fading => d.options = message
==============================================================================
