-------------------------- MODULE RuleConsoleProofs --------------------------
(***************************************************************************)
(* Proofs about RuleConsole for any rules, edits and bounds.  The handlers  *)
(* are operators on the dialogs and on the editor, so the lemmas are about  *)
(* those values: which states of them (WidgetsOk, EditorOk) every operator  *)
(* keeps.  What an edit has put into the editor (Shown) depends on how far  *)
(* it has got and is kept as long as no other edit overlaps it.             *)
(***************************************************************************)
EXTENDS RuleConsole, TLAPS

\* An instance: open ones are visible, have options, and fade out exactly
\* when the end that is awaited will close them.
InstanceOk(i) ==
  /\ i.active <=> i.visible
  /\ i.active => (i.fading <=> i.ending = "closed")
  /\ i.active => i.options # NoOptions

WidgetsOk(w) ==
  /\ w \in Widgets
  /\ w.shown => w.used # {}
  /\ \A d \in w.used : w.dialogs[d].active
  /\ \A d \in Dialogs : InstanceOk(w.dialogs[d])
  /\ w.dialogs["confirm"].options \in Rules \cup {NoOptions}

------------------------------------------------------------------------------
(* The dialogs.                                                             *)

\* An instance, and a change of one of its fields.
Inst(o, a, v, f, n) ==
  [options |-> o, active |-> a, visible |-> v, fading |-> f, ending |-> n]

SetOptions(w, d, x) == [w EXCEPT !.dialogs[d].options = x]
SetActive(w, d, x) == [w EXCEPT !.dialogs[d].active = x]
SetVisible(w, d, x) == [w EXCEPT !.dialogs[d].visible = x]
SetFading(w, d, x) == [w EXCEPT !.dialogs[d].fading = x]
SetEnding(w, d, x) == [w EXCEPT !.dialogs[d].ending = x]

\* All that an operator may do: it changes the instance of d, whether the
\* dimmer counts d, and whether it is shown.
Changed(w, d, i, used, shown) ==
  [dialogs |-> [w.dialogs EXCEPT ![d] = i], used |-> used, shown |-> shown]

LEMMA ChangedOk ==
  ASSUME NEW w, WidgetsOk(w), NEW d \in Dialogs, NEW i \in Instances, InstanceOk(i),
         d = "confirm" => i.options \in Rules \cup {NoOptions},
         NEW used \in SUBSET Dialogs, NEW shown \in BOOLEAN,
         shown => used # {},
         used \ {d} \subseteq w.used, d \in used => i.active
  PROVE  WidgetsOk(Changed(w, d, i, used, shown))
  BY DEF WidgetsOk, Changed, Widgets, Dialogs

LEMMA InstIs ==
  ASSUME NEW i \in Instances
  PROVE  i = Inst(i.options, i.active, i.visible, i.fading, i.ending)
  BY DEF Inst, Instances

LEMMA SelfChanged ==
  ASSUME NEW w \in Widgets, NEW d \in Dialogs
  PROVE  w = Changed(w, d, w.dialogs[d], w.used, w.shown)
  BY DEF Changed, Widgets

\* c is w with those fields of the instance of d, and that dimmer.
Is(c, w, d, o, a, v, f, n, used, shown) ==
  c = Changed(w, d, Inst(o, a, v, f, n), used, shown)

LEMMA SelfIs ==
  ASSUME NEW w \in Widgets, NEW d \in Dialogs
  PROVE  LET i == w.dialogs[d] IN
         Is(w, w, d, i.options, i.active, i.visible, i.fading, i.ending, w.used, w.shown)
<1>1. w.dialogs[d] \in Instances
  BY DEF Widgets
<1> QED
  BY <1>1, SelfChanged, InstIs DEF Is

LEMMA FieldSet ==
  ASSUME NEW w \in Widgets, NEW d \in Dialogs, NEW c,
         NEW o, NEW a, NEW v, NEW f, NEW n, NEW used, NEW shown, NEW x,
         Is(c, w, d, o, a, v, f, n, used, shown)
  PROVE  /\ Is(SetOptions(c, d, x), w, d, x, a, v, f, n, used, shown)
         /\ Is(SetActive(c, d, x), w, d, o, x, v, f, n, used, shown)
         /\ Is(SetVisible(c, d, x), w, d, o, a, x, f, n, used, shown)
         /\ Is(SetFading(c, d, x), w, d, o, a, v, x, n, used, shown)
         /\ Is(SetEnding(c, d, x), w, d, o, a, v, f, x, used, shown)
<1> DEFINE i == Inst(o, a, v, f, n)
           ch == Changed(w, d, i, used, shown)
<1>1. /\ c.dialogs[d] = i /\ c.dialogs = [w.dialogs EXCEPT ![d] = i]
      /\ c = ch
  BY DEF Is, Changed, Widgets
<1>2. \A j : [c.dialogs EXCEPT ![d] = j] = [w.dialogs EXCEPT ![d] = j]
  BY <1>1
<1>3. \A j : [ch EXCEPT !.dialogs = [w.dialogs EXCEPT ![d] = j]] = Changed(w, d, j, used, shown)
  BY DEF Changed
<1>4. /\ [i EXCEPT !.options = x] = Inst(x, a, v, f, n)
      /\ [i EXCEPT !.active = x] = Inst(o, x, v, f, n)
      /\ [i EXCEPT !.visible = x] = Inst(o, a, x, f, n)
      /\ [i EXCEPT !.fading = x] = Inst(o, a, v, x, n)
      /\ [i EXCEPT !.ending = x] = Inst(o, a, v, f, x)
  BY DEF Inst
<1> HIDE DEF ch, i
<1>5. /\ SetOptions(c, d, x)
           = [c EXCEPT !.dialogs = [c.dialogs EXCEPT ![d] = [c.dialogs[d] EXCEPT !.options = x]]]
      /\ SetActive(c, d, x)
           = [c EXCEPT !.dialogs = [c.dialogs EXCEPT ![d] = [c.dialogs[d] EXCEPT !.active = x]]]
      /\ SetVisible(c, d, x)
           = [c EXCEPT !.dialogs = [c.dialogs EXCEPT ![d] = [c.dialogs[d] EXCEPT !.visible = x]]]
      /\ SetFading(c, d, x)
           = [c EXCEPT !.dialogs = [c.dialogs EXCEPT ![d] = [c.dialogs[d] EXCEPT !.fading = x]]]
      /\ SetEnding(c, d, x)
           = [c EXCEPT !.dialogs = [c.dialogs EXCEPT ![d] = [c.dialogs[d] EXCEPT !.ending = x]]]
  BY DEF SetOptions, SetActive, SetVisible, SetFading, SetEnding
<1>6. SetOptions(c, d, x) = Changed(w, d, Inst(x, a, v, f, n), used, shown)
  BY <1>1, <1>2, <1>3, <1>4, <1>5
<1>7. SetActive(c, d, x) = Changed(w, d, Inst(o, x, v, f, n), used, shown)
  BY <1>1, <1>2, <1>3, <1>4, <1>5
<1>8. SetVisible(c, d, x) = Changed(w, d, Inst(o, a, x, f, n), used, shown)
  BY <1>1, <1>2, <1>3, <1>4, <1>5
<1>9. SetFading(c, d, x) = Changed(w, d, Inst(o, a, v, x, n), used, shown)
  BY <1>1, <1>2, <1>3, <1>4, <1>5
<1>10. SetEnding(c, d, x) = Changed(w, d, Inst(o, a, v, f, x), used, shown)
  BY <1>1, <1>2, <1>3, <1>4, <1>5
<1> QED
  BY <1>6, <1>7, <1>8, <1>9, <1>10 DEF Is

\* The dimmer stays for the dialogs that are left.
Stays(shown, used) == shown /\ used # {}

LEMMA DimmerClosedIs ==
  ASSUME NEW c, NEW w, NEW d, NEW o, NEW a, NEW v, NEW f, NEW n, NEW used, NEW shown,
         Is(c, w, d, o, a, v, f, n, used, shown), shown \in BOOLEAN
  PROVE  Is(DimmerClosed(c, d, FALSE), w, d, o, a, v, f, n, used \ {d}, Stays(shown, used \ {d}))
<1> DEFINE i == Inst(o, a, v, f, n)
           left == used \ {d}
           still == Stays(shown, left)
<1>1. c = Changed(w, d, i, used, shown)
  BY DEF Is
<1> HIDE DEF i
<1>2. c.used = used /\ c.shown = shown
  BY <1>1 DEF Changed
<1>3. (c.shown /\ ~ FALSE /\ c.used \ {d} # {}) = still
  BY <1>2 DEF Stays
<1>4. DimmerClosed(c, d, FALSE) = [[c EXCEPT !.used = left] EXCEPT !.shown = still]
  BY <1>2, <1>3 DEF DimmerClosed
<1> HIDE DEF left, still
<1>5. [c EXCEPT !.used = left] = Changed(w, d, i, left, shown)
  BY <1>1 DEF Changed
<1>6. [Changed(w, d, i, left, shown) EXCEPT !.shown = still] = Changed(w, d, i, left, still)
  BY DEF Changed
<1>7. DimmerClosed(c, d, FALSE) = Changed(w, d, i, left, still)
  BY <1>4, <1>5, <1>6
<1> QED
  BY <1>7 DEF Is, i, left, still

LEMMA EndedIs ==
  ASSUME NEW w \in Widgets, NEW d \in Dialogs
  PROVE  LET i == w.dialogs[d] IN
         Ended(w, d) =
           IF i.ending = "closed"
           THEN Changed(w, d, Inst(i.options, FALSE, FALSE, i.fading, "none"),
                        w.used \ {d}, w.shown /\ w.used \ {d} # {})
           ELSE Changed(w, d, Inst(i.options, i.active, i.visible, i.fading, "none"),
                        w.used, w.shown)
<1> DEFINE i == w.dialogs[d]
           no == FALSE
           ended == SetEnding(w, d, "none")
           hidden == SetVisible(ended, d, no)
           closed == SetActive(hidden, d, no)
<1>1. w.dialogs \in [Dialogs -> Instances] /\ i \in Instances /\ w.shown \in BOOLEAN
  BY DEF Widgets
<1>2. Ended(w, d) = IF i.ending = "closed" THEN DimmerClosed(closed, d, FALSE) ELSE ended
  BY DEF Ended, SetEnding, SetVisible, SetActive
<1> HIDE DEF no
<1>3. Is(w, w, d, i.options, i.active, i.visible, i.fading, i.ending, w.used, w.shown)
  BY SelfIs
<1>4. Is(ended, w, d, i.options, i.active, i.visible, i.fading, "none", w.used, w.shown)
  BY <1>3, FieldSet
<1>5. Is(hidden, w, d, i.options, i.active, no, i.fading, "none", w.used, w.shown)
  BY <1>4, FieldSet
<1>6. Is(closed, w, d, i.options, no, no, i.fading, "none", w.used, w.shown)
  BY <1>5, FieldSet
<1> HIDE DEF ended, closed
<1>8. DimmerClosed(closed, d, FALSE)
        = Changed(w, d, Inst(i.options, FALSE, FALSE, i.fading, "none"),
                  w.used \ {d}, w.shown /\ w.used \ {d} # {})
  <2>1. Is(DimmerClosed(closed, d, FALSE), w, d, i.options, no, no, i.fading, "none",
           w.used \ {d}, Stays(w.shown, w.used \ {d}))
    BY <1>1, <1>6, DimmerClosedIs
  <2> QED
    BY <2>1 DEF Is, Stays, no
<1>9. ended = Changed(w, d, Inst(i.options, i.active, i.visible, i.fading, "none"),
                      w.used, w.shown)
  BY <1>4 DEF Is
<1> QED
  BY <1>2, <1>8, <1>9

LEMMA EndedOk ==
  ASSUME NEW w, WidgetsOk(w), NEW d \in Dialogs
  PROVE  /\ WidgetsOk(Ended(w, d))
         /\ Ended(w, d).dialogs[d].ending = "none"
         /\ Ended(w, d).dialogs[d].options = w.dialogs[d].options
<1> DEFINE i == w.dialogs[d]
           ended == Inst(i.options, i.active, i.visible, i.fading, "none")
           closed == Inst(i.options, FALSE, FALSE, i.fading, "none")
<1>1. w \in Widgets /\ i \in Instances /\ InstanceOk(i)
  BY DEF WidgetsOk, Widgets
<1>2. d = "confirm" => i.options \in Rules \cup {NoOptions}
  BY DEF WidgetsOk
<1>3. CASE i.ending = "closed"
  <2>1. Ended(w, d) = Changed(w, d, closed, w.used \ {d}, w.shown /\ w.used \ {d} # {})
    BY <1>1, <1>3, EndedIs
  <2>2. closed \in Instances /\ InstanceOk(closed) /\ closed.ending = "none"
        /\ closed.options = i.options
    BY <1>1 DEF Inst, Instances, InstanceOk, Endings
  <2>3. w.used \ {d} \in SUBSET Dialogs /\ (w.shown /\ w.used \ {d} # {}) \in BOOLEAN
    BY <1>1 DEF Widgets
  <2> HIDE DEF closed
  <2>4. WidgetsOk(Changed(w, d, closed, w.used \ {d}, w.shown /\ w.used \ {d} # {}))
    BY <1>2, <2>2, <2>3, ChangedOk
  <2>5. d \in DOMAIN w.dialogs
    BY <1>1 DEF Widgets
  <2> QED
    BY <2>1, <2>2, <2>4, <2>5 DEF Changed
<1>4. CASE i.ending # "closed"
  <2>1. Ended(w, d) = Changed(w, d, ended, w.used, w.shown)
    BY <1>1, <1>4, EndedIs
  <2>2. ended \in Instances /\ InstanceOk(ended) /\ ended.ending = "none"
        /\ ended.options = i.options /\ ended.active = i.active
    BY <1>1, <1>4 DEF Inst, Instances, InstanceOk, Endings
  <2>3. w.used \in SUBSET Dialogs /\ w.shown \in BOOLEAN /\ (w.shown => w.used # {})
        /\ (d \in w.used => i.active)
    BY <1>1 DEF Widgets, WidgetsOk
  <2> HIDE DEF ended
  <2>4. WidgetsOk(Changed(w, d, ended, w.used, w.shown))
    BY <1>2, <2>2, <2>3, ChangedOk
  <2>5. d \in DOMAIN w.dialogs
    BY <1>1 DEF Widgets
  <2> QED
    BY <2>1, <2>2, <2>4, <2>5 DEF Changed
<1> QED
  BY <1>3, <1>4

LEMMA ClosedOk ==
  ASSUME NEW w, WidgetsOk(w), NEW d \in Dialogs
  PROVE  WidgetsOk(Closed(w, d))
<1>1. CASE ~ w.dialogs[d].active
  BY <1>1 DEF Closed
<1>2. CASE w.dialogs[d].active
  <2> DEFINE ended == Ended(w, d)
             before == IF w.dialogs[d].ending = "none" THEN w
                       ELSE DimmerClosed(ended, d, TRUE)
             j == before.dialogs[d]
             yes == TRUE
             faded == SetFading(before, d, yes)
             i == Inst(j.options, j.active, j.visible, yes, "closed")
  <2>1. WidgetsOk(before)
    <3>1. WidgetsOk(ended)
      BY EndedOk
    <3> HIDE DEF ended
    <3>2. WidgetsOk(DimmerClosed(ended, d, TRUE))
      BY <3>1 DEF WidgetsOk, DimmerClosed, Widgets
    <3> QED
      BY <3>2
  <2>2. Closed(w, d) = SetEnding(faded, d, "closed")
    BY <1>2 DEF Closed, SetEnding, SetFading
  <2> HIDE DEF before
  <2>3. /\ before \in Widgets /\ before.dialogs \in [Dialogs -> Instances]
        /\ j \in Instances /\ InstanceOk(j)
    BY <2>1 DEF WidgetsOk, Widgets
  <2>4. i \in Instances /\ InstanceOk(i) /\ i.options = before.dialogs[d].options
        /\ i.active = before.dialogs[d].active
    BY <2>3 DEF Inst, Instances, InstanceOk, Endings
  <2>5. SetEnding(faded, d, "closed") = Changed(before, d, i, before.used, before.shown)
    <3> HIDE DEF yes
    <3>1. Is(before, before, d, j.options, j.active, j.visible, j.fading, j.ending,
             before.used, before.shown)
      BY <2>3, SelfIs
    <3>2. Is(faded, before, d, j.options, j.active, j.visible, yes, j.ending,
             before.used, before.shown)
      BY <2>3, <3>1, FieldSet
    <3>3. Is(SetEnding(faded, d, "closed"), before, d, j.options, j.active, j.visible, yes,
             "closed", before.used, before.shown)
      BY <2>3, <3>2, FieldSet
    <3> QED
      BY <3>3 DEF Is
  <2> HIDE DEF i, faded
  <2>6. WidgetsOk(Changed(before, d, i, before.used, before.shown))
    <3>1. before.used \in SUBSET Dialogs /\ before.shown \in BOOLEAN
          /\ (before.shown => before.used # {}) /\ (d \in before.used => i.active)
          /\ (d = "confirm" => i.options \in Rules \cup {NoOptions})
      BY <2>1, <2>4 DEF WidgetsOk, Widgets
    <3> QED
      BY <2>1, <2>4, <3>1, ChangedOk
  <2> QED
    BY <2>2, <2>5, <2>6
<1> QED
  BY <1>1, <1>2

LEMMA OpenedOk ==
  ASSUME NEW w, WidgetsOk(w), NEW d \in Dialogs, w.dialogs[d].options # NoOptions
  PROVE  WidgetsOk(Opened(w, d))
<1>1. CASE w.dialogs[d].active
  BY <1>1 DEF Opened
<1>2. CASE ~ w.dialogs[d].active
  <2> DEFINE before == IF w.dialogs[d].ending = "none" THEN w ELSE Ended(w, d)
             o == DimmerOpened(before, d)
             yes == TRUE
             no == FALSE
             o1 == SetActive(o, d, yes)
             o2 == SetVisible(o1, d, yes)
             o3 == SetFading(o2, d, no)
             j == before.dialogs[d]
             i == Inst(w.dialogs[d].options, yes, yes, no, "opened")
             more == before.used \cup {d}
  <2>1. WidgetsOk(before) /\ before.dialogs[d].options = w.dialogs[d].options
    BY EndedOk
  <2>2. Opened(w, d) = SetEnding(o3, d, "opened")
    BY <1>2 DEF Opened, SetActive, SetVisible, SetFading, SetEnding
  <2> HIDE DEF before
  <2>3. before \in Widgets /\ before.dialogs \in [Dialogs -> Instances] /\ j \in Instances
    BY <2>1 DEF WidgetsOk, Widgets
  <2>4. o = Changed(before, d, j, more, yes)
    <3> DEFINE c == Changed(before, d, j, before.used, before.shown)
    <3>1. before = c
      BY <2>3, SelfChanged
    <3>2. DimmerOpened(c, d) = [[c EXCEPT !.used = c.used \cup {d}] EXCEPT !.shown = yes]
      BY DEF DimmerOpened
    <3>3. c.used \cup {d} = more
      BY DEF Changed
    <3> HIDE DEF more, yes
    <3>4. [c EXCEPT !.used = more] = Changed(before, d, j, more, before.shown)
      BY DEF Changed
    <3>5. [Changed(before, d, j, more, before.shown) EXCEPT !.shown = yes]
            = Changed(before, d, j, more, yes)
      BY DEF Changed
    <3> HIDE DEF c
    <3> QED
      BY <3>1, <3>2, <3>3, <3>4, <3>5
  <2> HIDE DEF o, more, yes, no
  <2>5. Is(o, before, d, j.options, j.active, j.visible, j.fading, j.ending, more, yes)
    BY <2>3, <2>4, InstIs DEF Is
  <2>6. SetEnding(o3, d, "opened") = Changed(before, d, i, more, yes)
    <3>1. Is(o1, before, d, j.options, yes, j.visible, j.fading, j.ending, more, yes)
      BY <2>3, <2>5, FieldSet
    <3>2. Is(o2, before, d, j.options, yes, yes, j.fading, j.ending, more, yes)
      BY <2>3, <3>1, FieldSet
    <3>3. Is(o3, before, d, j.options, yes, yes, no, j.ending, more, yes)
      BY <2>3, <3>2, FieldSet
    <3>4. Is(SetEnding(o3, d, "opened"), before, d, j.options, yes, yes, no, "opened", more, yes)
      BY <2>3, <3>3, FieldSet
    <3> QED
      BY <2>1, <3>4 DEF Is
  <2>7. i \in Instances /\ InstanceOk(i) /\ i.active
        /\ (d = "confirm" => i.options \in Rules \cup {NoOptions})
    BY <2>1, <2>3 DEF Inst, Instances, InstanceOk, Endings, WidgetsOk, yes, no
  <2>8. more \in SUBSET Dialogs /\ more # {} /\ more \ {d} \subseteq before.used
        /\ yes \in BOOLEAN
    BY <2>3 DEF Widgets, more, yes
  <2> HIDE DEF i, o3
  <2>9. WidgetsOk(Changed(before, d, i, more, yes))
    BY <2>1, <2>7, <2>8, ChangedOk
  <2> QED
    BY <2>2, <2>6, <2>9
<1> QED
  BY <1>1, <1>2

LEMMA CalledOk ==
  ASSUME NEW w, WidgetsOk(w), NEW d \in Dialogs,
         NEW options \in Rules \cup {Width}, d = "confirm" => options \in Rules
  PROVE  WidgetsOk(Called(w, d, options))
<1> DEFINE i == w.dialogs[d]
           chosen == IF i.options = NoOptions THEN options ELSE i.options
           made == SetOptions(w, d, chosen)
           j == Inst(chosen, i.active, i.visible, i.fading, i.ending)
<1>1. w \in Widgets /\ w.dialogs \in [Dialogs -> Instances] /\ i \in Instances /\ InstanceOk(i)
  BY DEF WidgetsOk, Widgets
<1>2. Called(w, d, options) = IF i.active THEN Closed(made, d) ELSE Opened(made, d)
  BY DEF Called, SetOptions
<1>3. chosen \in Rules \cup {Width} /\ chosen # NoOptions
      /\ (d = "confirm" => chosen \in Rules)
  BY <1>1, ConsoleAssumption DEF Instances, WidgetsOk
<1> HIDE DEF chosen
<1>4. Is(w, w, d, i.options, i.active, i.visible, i.fading, i.ending, w.used, w.shown)
  BY <1>1, SelfIs
<1>5. made = Changed(w, d, j, w.used, w.shown)
  <2>1. Is(made, w, d, chosen, i.active, i.visible, i.fading, i.ending, w.used, w.shown)
    BY <1>1, <1>4, FieldSet
  <2> QED
    BY <2>1 DEF Is
<1>6. j \in Instances /\ InstanceOk(j) /\ j.options = chosen /\ j.active = i.active
  BY <1>1, <1>3 DEF Inst, Instances, InstanceOk
<1> HIDE DEF j, made
<1>7. w.used \in SUBSET Dialogs /\ w.shown \in BOOLEAN /\ (w.shown => w.used # {})
      /\ (d \in w.used => j.active)
      /\ (d = "confirm" => j.options \in Rules \cup {NoOptions})
  BY <1>1, <1>3, <1>6 DEF WidgetsOk, Widgets
<1>8. WidgetsOk(made)
  BY <1>5, <1>6, <1>7, ChangedOk
<1>9. made.dialogs[d].options # NoOptions
  BY <1>1, <1>3, <1>5, <1>6 DEF Changed
<1> QED
  BY <1>2, <1>8, <1>9, OpenedOk, ClosedOk

------------------------------------------------------------------------------
(* The editor.                                                              *)

\* A box that is not there has nothing in it, and the counters fit the
\* steps (StepsCounted): what holds before initSteps, too.
Loose(e) ==
  /\ e \in Editors
  /\ e.nextStepIndex >= 1
  /\ ~ e.box => e.form = NoRule /\ e.rows = {} /\ e.steps = <<>>
  /\ e.box =>
       /\ e.stepCount = Len(e.steps)
       /\ \A i \in DOMAIN e.steps : e.steps[i].id \in 1 .. e.nextStepIndex - 1
       /\ \A i, j \in DOMAIN e.steps : e.steps[i].id = e.steps[j].id => i = j

Live(e) ==
  \A i \in DOMAIN e.steps :
    e.steps[i].live /\ (e.steps[i].disabled <=> Len(e.steps) = 1)

EditorOk(e) == Loose(e) /\ Live(e)

\* The rules which the steps were loaded from.
Owners(e) == {e.steps[i].of : i \in DOMAIN e.steps}

\* Everything but the steps and their counters.
SameRule(e, f) == f.box = e.box /\ f.form = e.form /\ f.rows = e.rows

LEMMA EditorIs ==
  ASSUME NEW e \in Editors
  PROVE  e = [box |-> e.box, form |-> e.form, rows |-> e.rows, steps |-> e.steps,
              stepCount |-> e.stepCount, nextStepIndex |-> e.nextStepIndex]
  BY DEF Editors

\* A sequence of the same length.
LEMMA SameLength ==
  ASSUME NEW S, NEW f, NEW n \in Nat, f \in [1 .. n -> S]
  PROVE  f \in Seq(S) /\ Len(f) = n /\ DOMAIN f = 1 .. n
  OBVIOUS

LEMMA InitStepsOk ==
  ASSUME NEW e, Loose(e)
  PROVE  EditorOk(InitSteps(e)) /\ Owners(InitSteps(e)) = Owners(e) /\ SameRule(e, InitSteps(e))
<1> DEFINE f == InitSteps(e)
           only == e.stepCount <= 1
           steps == [i \in DOMAIN e.steps |->
                       [e.steps[i] EXCEPT !.live = TRUE, !.disabled = only]]
<1>1. e \in Editors /\ e.steps \in Seq(Step) /\ e.stepCount \in Int /\ e.nextStepIndex \in Nat
      /\ Len(e.steps) \in Nat /\ DOMAIN e.steps = 1 .. Len(e.steps) /\ only \in BOOLEAN
  BY DEF Loose, Editors
<1>2. f = [e EXCEPT !.steps = steps]
  BY DEF InitSteps
<1> HIDE DEF f, only
<1>3. \A i \in DOMAIN e.steps :
        /\ steps[i] \in Step /\ steps[i].id = e.steps[i].id /\ steps[i].of = e.steps[i].of
        /\ steps[i].live /\ steps[i].disabled = only
  <2> SUFFICES ASSUME NEW i \in DOMAIN e.steps
               PROVE  /\ steps[i] \in Step /\ steps[i].id = e.steps[i].id
                      /\ steps[i].of = e.steps[i].of
                      /\ steps[i].live /\ steps[i].disabled = only
    OBVIOUS
  <2>1. e.steps[i] \in Step
    BY <1>1
  <2>2. steps[i] = [e.steps[i] EXCEPT !.live = TRUE, !.disabled = only]
    OBVIOUS
  <2> HIDE DEF steps
  <2> QED
    BY <1>1, <2>1, <2>2 DEF Step
<1>4. steps \in Seq(Step) /\ Len(steps) = Len(e.steps) /\ DOMAIN steps = DOMAIN e.steps
  <2>1. steps \in [1 .. Len(e.steps) -> Step]
    BY <1>1, <1>3
  <2> HIDE DEF steps
  <2> QED
    BY <1>1, <2>1, SameLength
<1> HIDE DEF steps
<1>5. /\ f.steps = steps /\ f.box = e.box /\ f.form = e.form /\ f.rows = e.rows
      /\ f.stepCount = e.stepCount /\ f.nextStepIndex = e.nextStepIndex
      /\ f = [box |-> e.box, form |-> e.form, rows |-> e.rows, steps |-> steps,
              stepCount |-> e.stepCount, nextStepIndex |-> e.nextStepIndex]
  BY <1>1, <1>2, EditorIs DEF Editors
<1>6. f \in Editors
  BY <1>1, <1>4, <1>5 DEF Editors
<1>7. Loose(f)
  <2>1. ~ f.box => f.steps = <<>>
    BY <1>1, <1>4, <1>5 DEF Loose
  <2> QED
    BY <1>1, <1>3, <1>4, <1>5, <1>6, <2>1 DEF Loose
<1>8. Live(f)
  <2> SUFFICES ASSUME NEW i \in DOMAIN f.steps
               PROVE  f.steps[i].live /\ (f.steps[i].disabled <=> Len(f.steps) = 1)
    BY DEF Live
  <2>1. e.box /\ e.stepCount = Len(e.steps) /\ Len(e.steps) >= 1
    BY <1>1, <1>4, <1>5 DEF Loose
  <2>2. f.steps[i].live /\ f.steps[i].disabled = only
    BY <1>3, <1>4, <1>5
  <2>3. only <=> Len(f.steps) = 1
    BY <1>1, <1>4, <1>5, <2>1 DEF only
  <2> HIDE DEF f
  <2> QED
    BY <2>2, <2>3
<1>9. Owners(f) = Owners(e)
  BY <1>3, <1>4, <1>5 DEF Owners
<1> QED
  BY <1>5, <1>7, <1>8, <1>9 DEF EditorOk, SameRule, f

LEMMA WithStepsOk ==
  ASSUME NEW e, Loose(e), NEW r \in Rules \cup {NoRule}, NEW conds \in Seq(Conditions)
  PROVE  /\ Loose(WithSteps(e, r, conds)) /\ SameRule(e, WithSteps(e, r, conds))
         /\ Owners(WithSteps(e, r, conds)) \subseteq Owners(e) \cup {r}
<1> DEFINE f == WithSteps(e, r, conds)
           n == Len(conds)
           new == [i \in 1 .. n |-> NewStep(e.nextStepIndex + i - 1, r, conds[i])]
           both == e.steps \o new
           steps == IF e.box THEN both ELSE e.steps
<1>1. e \in Editors /\ e.steps \in Seq(Step) /\ e.stepCount \in Int /\ e.nextStepIndex \in Nat
      /\ e.nextStepIndex >= 1 /\ n \in Nat
  BY DEF Loose, Editors
<1>2. \A i \in 1 .. n :
        new[i] \in Step /\ new[i].id = e.nextStepIndex + i - 1 /\ new[i].of = r
  <2>1. \A i \in 1 .. n : conds[i] \in Conditions
    OBVIOUS
  <2> HIDE DEF n
  <2> QED
    BY <1>1, <2>1 DEF NewStep, Step
<1> HIDE DEF n
<1>3. new \in Seq(Step) /\ Len(new) = n
  BY <1>1, <1>2
<1> HIDE DEF new
<1>4. both \in Seq(Step) /\ Len(both) = Len(e.steps) + n /\ DOMAIN both = 1 .. Len(e.steps) + n
  BY <1>1, <1>3
<1>5. \A i \in 1 .. Len(e.steps) + n :
        both[i] = IF i <= Len(e.steps) THEN e.steps[i] ELSE new[i - Len(e.steps)]
  BY <1>1, <1>3
<1> DEFINE count == e.stepCount + n
           next == e.nextStepIndex + n
<1>6. f = [[[e EXCEPT !.steps = steps] EXCEPT !.stepCount = count] EXCEPT !.nextStepIndex = next]
  BY DEF WithSteps, Appended, new, n
<1> HIDE DEF f, both, steps, count, next
<1>7. /\ f.steps = steps /\ f.box = e.box /\ f.form = e.form /\ f.rows = e.rows
      /\ f.stepCount = count /\ f.nextStepIndex = next
      /\ f = [box |-> e.box, form |-> e.form, rows |-> e.rows, steps |-> steps,
              stepCount |-> count, nextStepIndex |-> next]
  <2> DEFINE g == [e EXCEPT !.steps = steps]
             h == [g EXCEPT !.stepCount = count]
  <2>1. g = [box |-> e.box, form |-> e.form, rows |-> e.rows, steps |-> steps,
             stepCount |-> e.stepCount, nextStepIndex |-> e.nextStepIndex]
    BY <1>1, EditorIs
  <2>2. f = [h EXCEPT !.nextStepIndex = next]
    BY <1>6
  <2> HIDE DEF g
  <2>3. h = [box |-> e.box, form |-> e.form, rows |-> e.rows, steps |-> steps,
             stepCount |-> count, nextStepIndex |-> e.nextStepIndex]
    BY <2>1
  <2> HIDE DEF h
  <2>4. f = [box |-> e.box, form |-> e.form, rows |-> e.rows, steps |-> steps,
             stepCount |-> count, nextStepIndex |-> next]
    BY <2>2, <2>3
  <2> QED
    BY <2>4
<1> USE DEF steps, count, next
<1>8. f \in Editors
  BY <1>1, <1>4, <1>7 DEF Editors
<1>9. CASE ~ e.box
  BY <1>1, <1>7, <1>8, <1>9 DEF Loose, SameRule, Owners, f
<1>10. CASE e.box
  <2>1. \A i \in 1 .. Len(e.steps) : e.steps[i].id \in 1 .. e.nextStepIndex - 1
    BY <1>1, <1>10 DEF Loose
  <2>2. \A i \in DOMAIN both :
          /\ i <= Len(e.steps) => both[i] = e.steps[i] /\ both[i].id <= e.nextStepIndex - 1
          /\ i > Len(e.steps) => both[i].id = e.nextStepIndex + (i - Len(e.steps)) - 1
                                 /\ both[i].of = r
          /\ both[i].id \in 1 .. e.nextStepIndex + n - 1
    <3> SUFFICES ASSUME NEW i \in 1 .. Len(e.steps) + n
                 PROVE  /\ i <= Len(e.steps) => both[i] = e.steps[i]
                                                /\ both[i].id <= e.nextStepIndex - 1
                        /\ i > Len(e.steps) => both[i].id = e.nextStepIndex + (i - Len(e.steps)) - 1
                                               /\ both[i].of = r
                        /\ both[i].id \in 1 .. e.nextStepIndex + n - 1
      BY <1>4
    <3>1. CASE i <= Len(e.steps)
      <4>1. both[i] = e.steps[i] /\ i \in 1 .. Len(e.steps)
        BY <1>1, <1>5, <3>1
      <4> QED
        BY <1>1, <2>1, <3>1, <4>1
    <3>2. CASE i > Len(e.steps)
      <4>1. i - Len(e.steps) \in 1 .. n
        BY <1>1, <3>2
      <4>2. both[i] = new[i - Len(e.steps)]
        BY <1>1, <1>5, <3>2
      <4> DEFINE k == i - Len(e.steps)
      <4>3. both[i].id = e.nextStepIndex + k - 1 /\ both[i].of = r
        BY <1>2, <4>1, <4>2
      <4>4. i \in Nat /\ ~ i <= Len(e.steps) /\ k \in 1 .. n
        BY <1>1, <3>2, <4>1
      <4> HIDE DEF k
      <4>5. both[i].id \in 1 .. e.nextStepIndex + n - 1
        BY <1>1, <4>3, <4>4
      <4> QED
        BY <4>3, <4>4, <4>5 DEF k
    <3> QED
      BY <1>1, <3>1, <3>2
  <2>3. \A i, j \in DOMAIN both : both[i].id = both[j].id => i = j
    <3> SUFFICES ASSUME NEW i \in DOMAIN both, NEW j \in DOMAIN both, both[i].id = both[j].id
                 PROVE  i = j
      OBVIOUS
    <3>1. i \in Nat /\ j \in Nat /\ i >= 1 /\ j >= 1 /\ Len(e.steps) \in Nat
      BY <1>1, <1>4
    <3>2. CASE i <= Len(e.steps) /\ j <= Len(e.steps)
      <4>1. i \in DOMAIN e.steps /\ j \in DOMAIN e.steps
        BY <1>1, <3>1, <3>2
      <4> QED
        BY <1>10, <2>2, <3>2, <4>1 DEF Loose
    <3>3. CASE ~ (i <= Len(e.steps) /\ j <= Len(e.steps))
      <4>1. both[i].id \in Int /\ both[j].id \in Int
        BY <2>2
      <4>2. CASE i <= Len(e.steps) /\ j > Len(e.steps)
        BY <1>1, <2>2, <3>1, <4>1, <4>2
      <4>3. CASE i > Len(e.steps) /\ j <= Len(e.steps)
        BY <1>1, <2>2, <3>1, <4>1, <4>3
      <4>4. CASE i > Len(e.steps) /\ j > Len(e.steps)
        <5>1. /\ both[i].id = e.nextStepIndex + (i - Len(e.steps)) - 1
              /\ both[j].id = e.nextStepIndex + (j - Len(e.steps)) - 1
          BY <2>2, <4>4
        <5>2. e.nextStepIndex + (i - Len(e.steps)) - 1 = e.nextStepIndex + (j - Len(e.steps)) - 1
          BY <5>1
        <5>3. e.nextStepIndex \in Nat
          BY <1>1
        <5> QED
          BY <3>1, <5>2, <5>3
      <4> QED
        BY <3>1, <3>3, <4>2, <4>3, <4>4
    <3> QED
      BY <3>2, <3>3
  <2>4. Owners(f) \subseteq Owners(e) \cup {r}
    <3>1. \A i \in DOMAIN both : both[i].of \in Owners(e) \cup {r}
      <4> SUFFICES ASSUME NEW i \in DOMAIN both
                   PROVE  both[i].of \in Owners(e) \cup {r}
        OBVIOUS
      <4>1. i \in Nat /\ i >= 1 /\ Len(e.steps) \in Nat /\ DOMAIN e.steps = 1 .. Len(e.steps)
        BY <1>1, <1>4
      <4> QED
        BY <2>2, <4>1 DEF Owners
    <3> QED
      BY <1>7, <1>10, <3>1 DEF Owners
  <2>5. Loose(f)
    BY <1>1, <1>4, <1>7, <1>8, <1>10, <2>2, <2>3 DEF Loose
  <2> QED
    BY <1>7, <2>4, <2>5 DEF SameRule, f
<1> QED
  BY <1>9, <1>10

\* The editor with other steps in its box.
Holding(e, steps) ==
  [box |-> e.box, form |-> e.form, rows |-> e.rows, steps |-> steps,
   stepCount |-> Len(steps), nextStepIndex |-> e.nextStepIndex]

\* Some of the steps, in any order: p says where each was.
LEMMA Rearranged ==
  ASSUME NEW e, Loose(e), e.box, NEW steps \in Seq(Step),
         NEW p \in [DOMAIN steps -> DOMAIN e.steps],
         \A k, l \in DOMAIN steps : p[k] = p[l] => k = l,
         \A k \in DOMAIN steps : /\ steps[k].id = e.steps[p[k]].id
                                 /\ steps[k].of = e.steps[p[k]].of
  PROVE  /\ Loose(Holding(e, steps)) /\ SameRule(e, Holding(e, steps))
         /\ Owners(Holding(e, steps)) \subseteq Owners(e)
<1> DEFINE f == Holding(e, steps)
<1>1. e \in Editors /\ Len(steps) \in Nat
  BY DEF Loose
<1>2. /\ f.steps = steps /\ f.box = e.box /\ f.form = e.form /\ f.rows = e.rows
      /\ f.stepCount = Len(steps) /\ f.nextStepIndex = e.nextStepIndex
  BY DEF Holding
<1>3. f \in Editors
  BY <1>1 DEF Holding, Editors
<1> HIDE DEF f
<1>4. \A k \in DOMAIN steps : steps[k].id \in 1 .. e.nextStepIndex - 1
  BY DEF Loose
<1>5. \A k, l \in DOMAIN steps : steps[k].id = steps[l].id => k = l
  BY DEF Loose
<1>6. Loose(f)
  BY <1>2, <1>3, <1>4, <1>5 DEF Loose
<1>7. Owners(f) \subseteq Owners(e)
  BY <1>2 DEF Owners
<1> QED
  BY <1>2, <1>6, <1>7 DEF SameRule, f

LEMMA RemoveAtIs ==
  ASSUME NEW S, NEW s \in Seq(S), NEW i \in DOMAIN s
  PROVE  /\ RemoveAt(s, i) \in Seq(S) /\ Len(RemoveAt(s, i)) = Len(s) - 1
         /\ \A k \in 1 .. Len(s) - 1 : RemoveAt(s, i)[k] = s[IF k < i THEN k ELSE k + 1]
<1> DEFINE a == SubSeq(s, 1, i - 1)
           b == SubSeq(s, i + 1, Len(s))
<1>1. i \in 1 .. Len(s) /\ Len(s) \in Nat
  OBVIOUS
<1>2. a \in Seq(S) /\ Len(a) = i - 1 /\ \A k \in 1 .. i - 1 : a[k] = s[k]
  BY <1>1
<1>3. b \in Seq(S) /\ Len(b) = Len(s) - i /\ \A k \in 1 .. Len(s) - i : b[k] = s[k + i]
  BY <1>1
<1>4. RemoveAt(s, i) = a \o b
  BY DEF RemoveAt
<1> HIDE DEF a, b
<1>5. a \o b \in Seq(S) /\ Len(a \o b) = Len(s) - 1
  BY <1>1, <1>2, <1>3
<1>6. ASSUME NEW k \in 1 .. Len(s) - 1
      PROVE  (a \o b)[k] = s[IF k < i THEN k ELSE k + 1]
  <2>1. (a \o b)[k] = IF k <= i - 1 THEN a[k] ELSE b[k - (i - 1)]
    BY <1>1, <1>2, <1>3
  <2>2. CASE k < i
    BY <1>1, <1>2, <2>1, <2>2
  <2>3. CASE ~ k < i
    <3>1. k - (i - 1) \in 1 .. Len(s) - i /\ (k - (i - 1)) + i = k + 1
      BY <1>1, <2>3
    <3> QED
      BY <1>1, <1>3, <2>1, <2>3, <3>1
  <2> QED
    BY <2>2, <2>3
<1> QED
  BY <1>4, <1>5, <1>6

LEMMA StepRemovedOk ==
  ASSUME NEW e, EditorOk(e), NEW i \in DOMAIN e.steps
  PROVE  /\ EditorOk(StepRemoved(e, i)) /\ SameRule(e, StepRemoved(e, i))
         /\ Owners(StepRemoved(e, i)) \subseteq Owners(e)
<1>1. e \in Editors /\ Loose(e) /\ e.steps \in Seq(Step) /\ Len(e.steps) \in Nat
      /\ DOMAIN e.steps = 1 .. Len(e.steps)
  BY DEF EditorOk, Loose, Editors
<1>2. e.box /\ e.stepCount = Len(e.steps)
  BY <1>1 DEF Loose
<1>3. CASE ~ e.stepCount > 1
  BY <1>3 DEF StepRemoved, SameRule
<1>4. CASE e.stepCount > 1
  <2> DEFINE steps == RemoveAt(e.steps, i)
             count == e.stepCount - 1
             p == [k \in DOMAIN steps |-> IF k < i THEN k ELSE k + 1]
             f == Holding(e, steps)
  <2>1. steps \in Seq(Step) /\ Len(steps) = Len(e.steps) - 1
        /\ \A k \in 1 .. Len(e.steps) - 1 : steps[k] = e.steps[IF k < i THEN k ELSE k + 1]
    BY <1>1, RemoveAtIs
  <2>2. StepRemoved(e, i) = InitSteps([[e EXCEPT !.steps = steps] EXCEPT !.stepCount = count])
    BY <1>4 DEF StepRemoved
  <2>3. count = Len(steps)
    BY <1>2, <2>1
  <2> HIDE DEF steps, count
  <2>4. DOMAIN steps = 1 .. Len(e.steps) - 1
    BY <1>1, <2>1
  <2>5. p \in [DOMAIN steps -> DOMAIN e.steps]
    BY <1>1, <2>4
  <2>6. \A k, l \in DOMAIN steps : p[k] = p[l] => k = l
    BY <1>1, <2>4
  <2>7. \A k \in DOMAIN steps : /\ steps[k].id = e.steps[p[k]].id
                                 /\ steps[k].of = e.steps[p[k]].of
    BY <2>1, <2>4
  <2> HIDE DEF p
  <2>8. /\ Loose(f) /\ SameRule(e, f) /\ Owners(f) \subseteq Owners(e)
    BY <1>1, <1>2, <2>1, <2>5, <2>6, <2>7, Rearranged
  <2>9. [[e EXCEPT !.steps = steps] EXCEPT !.stepCount = count] = f
    <3> DEFINE g == [e EXCEPT !.steps = steps]
    <3>1. g = [box |-> e.box, form |-> e.form, rows |-> e.rows, steps |-> steps,
               stepCount |-> e.stepCount, nextStepIndex |-> e.nextStepIndex]
      BY <1>1, EditorIs
    <3> HIDE DEF g
    <3>2. [g EXCEPT !.stepCount = count]
            = [box |-> e.box, form |-> e.form, rows |-> e.rows, steps |-> steps,
               stepCount |-> count, nextStepIndex |-> e.nextStepIndex]
      BY <3>1
    <3> QED
      BY <2>3, <3>2 DEF Holding, g
  <2> HIDE DEF f
  <2> QED
    BY <2>2, <2>8, <2>9, InitStepsOk DEF SameRule
<1> QED
  BY <1>3, <1>4

LEMMA CloneIs ==
  ASSUME NEW s \in Step
  PROVE  Clone(s) \in Step /\ Clone(s).id = s.id /\ Clone(s).of = s.of
<1> DEFINE no == FALSE
           c == IF s.conds = "live" THEN "dead" ELSE s.conds
           bare == [s EXCEPT !.live = no]
<1>1. Clone(s) = [bare EXCEPT !.conds = c]
  BY DEF Clone, Step
<1>2. c \in Conditions /\ no \in BOOLEAN
  BY DEF Step, Conditions
<1> HIDE DEF no, c
<1>3. bare \in Step /\ bare.id = s.id /\ bare.of = s.of
  BY <1>2 DEF Step
<1> HIDE DEF bare
<1> QED
  BY <1>1, <1>2, <1>3 DEF Step

LEMMA SwappedOk ==
  ASSUME NEW e, EditorOk(e), NEW i \in DOMAIN e.steps, i + 1 \in DOMAIN e.steps
  PROVE  /\ EditorOk(Swapped(e, i)) /\ SameRule(e, Swapped(e, i))
         /\ Owners(Swapped(e, i)) \subseteq Owners(e)
<1>1. e \in Editors /\ Loose(e) /\ e.steps \in Seq(Step) /\ Len(e.steps) \in Nat
      /\ DOMAIN e.steps = 1 .. Len(e.steps) /\ i \in Nat
  BY DEF EditorOk, Loose, Editors
<1>2. e.box /\ e.stepCount = Len(e.steps)
  BY <1>1 DEF Loose
<1> DEFINE clone == Clone(e.steps[i])
           steps == [[e.steps EXCEPT ![i] = e.steps[i + 1]] EXCEPT ![i + 1] = clone]
           p == [k \in DOMAIN e.steps |-> IF k = i THEN i + 1 ELSE IF k = i + 1 THEN i ELSE k]
           f == Holding(e, steps)
<1>3. clone \in Step /\ clone.id = e.steps[i].id /\ clone.of = e.steps[i].of
  <2>1. e.steps[i] \in Step
    BY <1>1
  <2> QED
    BY <2>1, CloneIs
<1>4. Swapped(e, i) = InitSteps([e EXCEPT !.steps = steps])
  BY DEF Swapped, ReplaceAt
<1> HIDE DEF clone
<1>5. /\ steps \in [1 .. Len(e.steps) -> Step]
      /\ \A k \in DOMAIN e.steps :
           steps[k] = IF k = i + 1 THEN clone ELSE IF k = i THEN e.steps[i + 1] ELSE e.steps[k]
  BY <1>1, <1>3
<1> HIDE DEF steps
<1>6. steps \in Seq(Step) /\ Len(steps) = Len(e.steps) /\ DOMAIN steps = DOMAIN e.steps
  BY <1>1, <1>5, SameLength
<1>7. p \in [DOMAIN steps -> DOMAIN e.steps]
  BY <1>1, <1>6
<1>8. \A k, l \in DOMAIN steps : p[k] = p[l] => k = l
  BY <1>1, <1>6
<1>9. \A k \in DOMAIN steps : steps[k].id = e.steps[p[k]].id /\ steps[k].of = e.steps[p[k]].of
  BY <1>1, <1>3, <1>5, <1>6
<1> HIDE DEF p
<1>10. /\ Loose(f) /\ SameRule(e, f) /\ Owners(f) \subseteq Owners(e)
  BY <1>1, <1>2, <1>6, <1>7, <1>8, <1>9, Rearranged
<1>11. [e EXCEPT !.steps = steps] = f
  <2>1. [e EXCEPT !.steps = steps]
          = [box |-> e.box, form |-> e.form, rows |-> e.rows, steps |-> steps,
             stepCount |-> e.stepCount, nextStepIndex |-> e.nextStepIndex]
    BY <1>1, EditorIs
  <2> QED
    BY <1>2, <1>6, <2>1 DEF Holding
<1> HIDE DEF f
<1> QED
  BY <1>4, <1>10, <1>11, InitStepsOk DEF SameRule

\* A condition of a step comes or goes.
LEMMA ConditionsOk ==
  ASSUME NEW e, EditorOk(e), NEW i \in DOMAIN e.steps, NEW c \in Conditions
  PROVE  LET f == [e EXCEPT !.steps[i].conds = c] IN
         EditorOk(f) /\ SameRule(e, f) /\ Owners(f) \subseteq Owners(e)
<1> DEFINE step == [e.steps[i] EXCEPT !.conds = c]
           steps == [e.steps EXCEPT ![i] = step]
           f == Holding(e, steps)
<1>1. e \in Editors /\ Loose(e) /\ Live(e) /\ e.steps \in Seq(Step) /\ Len(e.steps) \in Nat
      /\ DOMAIN e.steps = 1 .. Len(e.steps)
  BY DEF EditorOk, Loose, Editors
<1>2. e.box /\ e.stepCount = Len(e.steps)
  BY <1>1 DEF Loose
<1>3. step \in Step /\ step.id = e.steps[i].id /\ step.of = e.steps[i].of
      /\ step.live = e.steps[i].live /\ step.disabled = e.steps[i].disabled
  <2>1. e.steps[i] \in Step
    BY <1>1
  <2> QED
    BY <2>1 DEF Step
<1>4. [e EXCEPT !.steps[i].conds = c] = [e EXCEPT !.steps = steps]
  OBVIOUS
<1> HIDE DEF step
<1>5. /\ steps \in [1 .. Len(e.steps) -> Step]
      /\ \A k \in DOMAIN e.steps : steps[k] = IF k = i THEN step ELSE e.steps[k]
  BY <1>1, <1>3
<1> HIDE DEF steps
<1>6. steps \in Seq(Step) /\ Len(steps) = Len(e.steps) /\ DOMAIN steps = DOMAIN e.steps
  BY <1>1, <1>5, SameLength
<1>7. \A k \in DOMAIN steps :
        /\ steps[k].id = e.steps[k].id /\ steps[k].of = e.steps[k].of
        /\ steps[k].live = e.steps[k].live /\ steps[k].disabled = e.steps[k].disabled
  BY <1>3, <1>5, <1>6
<1>8. /\ Loose(f) /\ SameRule(e, f) /\ Owners(f) \subseteq Owners(e)
  <2> DEFINE p == [k \in DOMAIN steps |-> k]
  <2>1. p \in [DOMAIN steps -> DOMAIN e.steps] /\ \A k \in DOMAIN steps : p[k] = k
    BY <1>6
  <2> HIDE DEF p
  <2>2. \A k, l \in DOMAIN steps : p[k] = p[l] => k = l
    BY <2>1
  <2>3. \A k \in DOMAIN steps : steps[k].id = e.steps[p[k]].id /\ steps[k].of = e.steps[p[k]].of
    BY <1>7, <2>1
  <2> QED
    BY <1>1, <1>2, <1>6, <2>1, <2>2, <2>3, Rearranged
<1>9. Live(f)
  BY <1>1, <1>6, <1>7 DEF Live, Holding
<1>10. [e EXCEPT !.steps = steps] = f
  <2>1. [e EXCEPT !.steps = steps]
          = [box |-> e.box, form |-> e.form, rows |-> e.rows, steps |-> steps,
             stepCount |-> e.stepCount, nextStepIndex |-> e.nextStepIndex]
    BY <1>1, EditorIs
  <2> QED
    BY <1>2, <1>6, <2>1 DEF Holding
<1> HIDE DEF f
<1> QED
  BY <1>4, <1>8, <1>9, <1>10 DEF EditorOk

\* An editor by its fields.
Ed(b, r, rows, steps, c, n) ==
  [box |-> b, form |-> r, rows |-> rows, steps |-> steps, stepCount |-> c, nextStepIndex |-> n]

LEMMA WithoutBoxIs ==
  ASSUME NEW e \in Editors
  PROVE  WithoutBox(e) = Ed(FALSE, NoRule, {}, <<>>, e.stepCount, e.nextStepIndex)
<1> DEFINE no == FALSE
           none == {}
           empty == <<>>
           e1 == [e EXCEPT !.box = no]
           e2 == [e1 EXCEPT !.form = NoRule]
           e3 == [e2 EXCEPT !.rows = none]
<1>1. WithoutBox(e) = [e3 EXCEPT !.steps = empty]
  BY DEF WithoutBox
<1> HIDE DEF no, none, empty
<1>2. e1 = Ed(no, e.form, e.rows, e.steps, e.stepCount, e.nextStepIndex)
  BY EditorIs DEF Ed
<1> HIDE DEF e1
<1>3. e2 = Ed(no, NoRule, e.rows, e.steps, e.stepCount, e.nextStepIndex)
  BY <1>2 DEF Ed
<1> HIDE DEF e2
<1>4. e3 = Ed(no, NoRule, none, e.steps, e.stepCount, e.nextStepIndex)
  BY <1>3 DEF Ed
<1> HIDE DEF e3
<1>5. [e3 EXCEPT !.steps = empty] = Ed(no, NoRule, none, empty, e.stepCount, e.nextStepIndex)
  BY <1>4 DEF Ed
<1> QED
  BY <1>1, <1>5 DEF no, none, empty

LEMMA WithoutBoxOk ==
  ASSUME NEW e, Loose(e)
  PROVE  EditorOk(WithoutBox(e)) /\ ~ WithoutBox(e).box
<1>1. e \in Editors
  BY DEF Loose
<1>2. WithoutBox(e) = [box |-> FALSE, form |-> NoRule, rows |-> {}, steps |-> <<>>,
                       stepCount |-> e.stepCount, nextStepIndex |-> e.nextStepIndex]
  BY <1>1, WithoutBoxIs DEF Ed
<1>3. WithoutBox(e) \in Editors
  BY <1>1, <1>2 DEF Editors
<1> QED
  BY <1>2, <1>3 DEF EditorOk, Loose, Live

LEMMA WithBoxOk ==
  ASSUME NEW e, Loose(e)
  PROVE  /\ EditorOk(WithBox(e))
         /\ WithBox(e).form = NoRule /\ WithBox(e).rows = {} /\ Owners(WithBox(e)) = {}
<1>1. e \in Editors
  BY DEF Loose
<1>2. WithBox(e) = [box |-> TRUE, form |-> NoRule, rows |-> {}, steps |-> <<>>,
                    stepCount |-> 0, nextStepIndex |-> 1]
  <2> DEFINE yes == TRUE
             none == {}
             empty == <<>>
             e0 == WithoutBox(e)
             e1 == [e0 EXCEPT !.box = yes]
             e2 == [e1 EXCEPT !.stepCount = 0]
  <2>1. WithBox(e) = [e2 EXCEPT !.nextStepIndex = 1]
    BY DEF WithBox
  <2>2. e0 = Ed(FALSE, NoRule, none, empty, e.stepCount, e.nextStepIndex)
    BY <1>1, WithoutBoxIs
  <2> HIDE DEF e0, yes, none, empty
  <2>3. e1 = Ed(yes, NoRule, none, empty, e.stepCount, e.nextStepIndex)
    BY <2>2 DEF Ed
  <2> HIDE DEF e1
  <2>4. e2 = Ed(yes, NoRule, none, empty, 0, e.nextStepIndex)
    BY <2>3 DEF Ed
  <2> HIDE DEF e2
  <2>5. [e2 EXCEPT !.nextStepIndex = 1] = Ed(yes, NoRule, none, empty, 0, 1)
    BY <2>4 DEF Ed
  <2> QED
    BY <2>1, <2>5 DEF Ed, yes, none, empty
<1>3. WithBox(e) \in Editors
  BY <1>1, <1>2 DEF Editors
<1> QED
  BY <1>2, <1>3 DEF EditorOk, Loose, Live, Owners

LEMMA FormFilledOk ==
  ASSUME NEW e, EditorOk(e), NEW r \in Rules
  PROVE  /\ EditorOk(FormFilled(e, r)) /\ Owners(FormFilled(e, r)) = Owners(e)
         /\ FormFilled(e, r).box = e.box /\ FormFilled(e, r).rows = e.rows
         /\ FormFilled(e, r).form = IF e.box THEN r ELSE e.form
<1>1. e \in Editors /\ Loose(e)
  BY DEF EditorOk, Loose
<1>2. CASE ~ e.box
  BY <1>2 DEF FormFilled
<1>3. CASE e.box
  <2> DEFINE f == FormFilled(e, r)
  <2>1. f = [box |-> e.box, form |-> r, rows |-> e.rows, steps |-> e.steps,
             stepCount |-> e.stepCount, nextStepIndex |-> e.nextStepIndex]
    <3> DEFINE g == [e EXCEPT !.form = r]
    <3>1. g = [box |-> e.box, form |-> r, rows |-> e.rows, steps |-> e.steps,
               stepCount |-> e.stepCount, nextStepIndex |-> e.nextStepIndex]
      BY <1>1, EditorIs
    <3>2. f = g
      BY <1>3 DEF FormFilled
    <3> HIDE DEF f, g
    <3> QED
      BY <3>1, <3>2
  <2> HIDE DEF f
  <2>2. f \in Editors
    BY <1>1, <2>1 DEF Editors
  <2>3. Loose(f) /\ Live(f) /\ Owners(f) = Owners(e)
    BY <1>1, <1>3, <2>1, <2>2 DEF EditorOk, Loose, Live, Owners
  <2> QED
    BY <1>3, <2>1, <2>3 DEF EditorOk, f
<1> QED
  BY <1>2, <1>3

LEMMA FilledOk ==
  ASSUME NEW e, EditorOk(e), NEW r \in Rules
  PROVE  /\ EditorOk(Filled(e, r)) /\ Owners(Filled(e, r)) = Owners(e)
         /\ Filled(e, r).box = e.box
         /\ e.box => Filled(e, r).form = r /\ Filled(e, r).rows = e.rows \cup {r}
<1>1. e \in Editors /\ Loose(e)
  BY DEF EditorOk, Loose
<1>2. CASE ~ e.box
  BY <1>2 DEF Filled
<1>3. CASE e.box
  <2> DEFINE f == Filled(e, r)
  <2>1. f = [box |-> e.box, form |-> r, rows |-> e.rows \cup {r}, steps |-> e.steps,
             stepCount |-> e.stepCount, nextStepIndex |-> e.nextStepIndex]
    <3> DEFINE g == [e EXCEPT !.form = r]
               more == e.rows \cup {r}
    <3>1. g = [box |-> e.box, form |-> r, rows |-> e.rows, steps |-> e.steps,
               stepCount |-> e.stepCount, nextStepIndex |-> e.nextStepIndex]
      BY <1>1, EditorIs
    <3>2. f = [g EXCEPT !.rows = more]
      BY <1>3 DEF Filled
    <3> HIDE DEF g, f, more
    <3>3. f = [box |-> e.box, form |-> r, rows |-> more, steps |-> e.steps,
               stepCount |-> e.stepCount, nextStepIndex |-> e.nextStepIndex]
      BY <3>1, <3>2
    <3> QED
      BY <3>3 DEF more
  <2> HIDE DEF f
  <2>2. f \in Editors
    BY <1>1, <2>1 DEF Editors
  <2>3. Loose(f) /\ Live(f) /\ Owners(f) = Owners(e)
    BY <1>1, <1>3, <2>1, <2>2 DEF EditorOk, Loose, Live, Owners
  <2> QED
    BY <1>3, <2>1, <2>3 DEF EditorOk, f
<1> QED
  BY <1>2, <1>3

------------------------------------------------------------------------------
(* What the edits have put into the editor.                                 *)

\* The editor shows one rule, or none; the rows of a rule may be missing.
Whole(e) ==
  /\ e.form = NoRule => e.rows = {} /\ Owners(e) \subseteq {NoRule}
  /\ e.form # NoRule => e.rows \subseteq {e.form} /\ Owners(e) \subseteq e.rows \cup {NoRule}

\* What there is while an edit, the only one, awaits the answer at.
Shown(code, at, e) ==
  /\ at = "bizTypes" => Whole(e)
  /\ at = "editor" => ~ e.box
  /\ at = "rule" => e.form = NoRule /\ e.rows = {} /\ Owners(e) \subseteq {NoRule}
  /\ at = "template" /\ e.box =>
       e.form = code /\ e.rows = {code} /\ Owners(e) \subseteq {NoRule}

\* Edits that do not overlap leave one rule in the editor (OneRuleShown).
Apart ==
  ~ crossed =>
    /\ \A k, l \in Loads : loads[k].at # "idle" /\ loads[l].at # "idle" => k = l
    /\ \A l \in Loads : loads[l].at # "idle" => Shown(loads[l].code, loads[l].at, editor)
    /\ Quiet => Whole(editor)

LoadStates == {NotLoading} \cup [code : Rules, at : Awaited]

RestOk ==
  /\ loads \in [Loads -> LoadStates]
  /\ crossed \in BOOLEAN /\ saveEnabled \in BOOLEAN
  /\ adding \in 0 .. MaxRequests /\ saving \in 0 .. MaxRequests
  /\ message \in Rules \cup {NoRule}
  /\ removing \subseteq Rules
  /\ clicks \in 0 .. MaxClicks

ConsoleInv == RestOk /\ WidgetsOk(widgets) /\ EditorOk(editor) /\ Apart

\* Steps the user adds, moves or removes change nothing of this.
LEMMA ShownKept ==
  ASSUME NEW e, NEW f, SameRule(e, f), Owners(f) \subseteq Owners(e) \cup {NoRule}
  PROVE  /\ Whole(e) => Whole(f)
         /\ \A code, at : Shown(code, at, e) => Shown(code, at, f)
<1>1. Whole(e) => Whole(f)
  BY DEF SameRule, Whole
<1>2. ASSUME NEW code, NEW at, Shown(code, at, e)
      PROVE  Shown(code, at, f)
  BY <1>1, <1>2 DEF SameRule, Shown
<1> QED
  BY <1>1, <1>2

LEMMA ApartKept ==
  ASSUME Apart, SameRule(editor, editor'), Owners(editor') \subseteq Owners(editor) \cup {NoRule},
         loads' = loads, crossed' = crossed
  PROVE  Apart'
  BY ShownKept DEF Apart, Quiet

LEMMA ConsoleInit == Init => ConsoleInv
<1> SUFFICES ASSUME Init PROVE ConsoleInv
  OBVIOUS
<1>1. RestOk
  <2>1. loads \in [Loads -> LoadStates]
    BY DEF Init, LoadStates
  <2>2. /\ adding \in 0 .. MaxRequests /\ saving \in 0 .. MaxRequests
        /\ clicks \in 0 .. MaxClicks
    BY ConsoleAssumption DEF Init
  <2>3. /\ crossed \in BOOLEAN /\ saveEnabled \in BOOLEAN
        /\ message \in Rules \cup {NoRule} /\ removing \subseteq Rules
    BY DEF Init
  <2> QED
    BY <2>1, <2>2, <2>3 DEF RestOk
<1>2. WidgetsOk(widgets)
  BY DEF Init, NoWidgets, WidgetsOk, InstanceOk, Widgets, Instances, Endings, Dialogs
<1>3. EditorOk(editor)
  BY DEF Init, NoEditor, EditorOk, Loose, Live, Editors
<1>4. Apart
  BY DEF Init, NoEditor, NotLoading, Apart, Whole, Owners
<1> QED
  BY <1>1, <1>2, <1>3, <1>4 DEF ConsoleInv

LEMMA ConsoleStep == ConsoleInv /\ [Next]_vars => ConsoleInv'
<1> SUFFICES ASSUME ConsoleInv, [Next]_vars PROVE ConsoleInv'
  OBVIOUS
<1> USE DEF ConsoleInv
<1>0. MaxClicks \in Nat /\ MaxRequests \in Nat /\ StepCounts \subseteq Nat
  BY ConsoleAssumption
<1>a. ASSUME UNCHANGED <<editor, loads, crossed>>
      PROVE  EditorOk(editor') /\ Apart'
  BY <1>a DEF Apart, Quiet
<1>b. ASSUME UNCHANGED <<loads, crossed>>, NEW f, editor' = f, EditorOk(f),
             SameRule(editor, f), Owners(f) \subseteq Owners(editor) \cup {NoRule}
      PROVE  EditorOk(editor') /\ Apart'
  BY <1>b, ApartKept
<1>c. "edit" \in Dialogs /\ "confirm" \in Dialogs
  BY DEF Dialogs
<1>1. ASSUME NEW r \in Rules, RemoveClick(r) PROVE ConsoleInv'
  <2>1. WidgetsOk(widgets')
    BY <1>1, <1>c, CalledOk DEF RemoveClick
  <2>2. RestOk'
    BY <1>0, <1>1 DEF RemoveClick, Click, RestOk
  <2> QED
    BY <1>1, <1>a, <2>1, <2>2 DEF RemoveClick
<1>2. ASSUME NEW r \in Rules, RemoveAnswer(r) PROVE ConsoleInv'
  <2>1. RestOk'
    BY <1>2 DEF RemoveAnswer, RestOk
  <2> QED
    BY <1>2, <1>a, <2>1 DEF RemoveAnswer
<1>3. CASE ConfirmClick
  <2>1. WidgetsOk(widgets')
    BY <1>3, <1>c, ClosedOk DEF ConfirmClick
  <2>2. widgets.dialogs["confirm"].options \in Rules
    BY <1>3, <1>c DEF ConfirmClick, OnTop, WidgetsOk, InstanceOk
  <2>3. RestOk'
    BY <1>0, <1>3, <2>2 DEF ConfirmClick, Click, RestOk
  <2> QED
    BY <1>3, <1>a, <2>1, <2>3 DEF ConfirmClick
<1>4. ASSUME NEW d \in Dialogs, CancelClick(d) PROVE ConsoleInv'
  <2>1. WidgetsOk(widgets')
    BY <1>4, ClosedOk DEF CancelClick
  <2>2. RestOk'
    BY <1>0, <1>4 DEF CancelClick, Click, RestOk
  <2> QED
    BY <1>4, <1>a, <2>1, <2>2 DEF CancelClick
<1>4a. ASSUME NEW d \in Dialogs, EscapeKey(d) PROVE ConsoleInv'
  <2>1. WidgetsOk(widgets')
    BY <1>4a, ClosedOk DEF EscapeKey
  <2>2. RestOk'
    BY <1>0, <1>4a DEF EscapeKey, Click, RestOk
  <2> QED
    BY <1>4a, <1>a, <2>1, <2>2 DEF EscapeKey
<1>5. ASSUME NEW d \in Dialogs, TransitionEnd(d) PROVE ConsoleInv'
  <2>1. WidgetsOk(widgets')
    BY <1>5, EndedOk DEF TransitionEnd
  <2>2. RestOk'
    BY <1>5 DEF TransitionEnd, RestOk
  <2> QED
    BY <1>5, <1>a, <2>1, <2>2 DEF TransitionEnd
<1>6. ASSUME NEW l \in Loads, NEW r \in Rules, EditClick(l, r) PROVE ConsoleInv'
  <2>1. RestOk'
    BY <1>0, <1>6 DEF EditClick, Click, RestOk, LoadStates, Awaited
  <2>2. Apart'
    <3> SUFFICES ASSUME ~ crossed'
                 PROVE  /\ \A k, m \in Loads : loads'[k].at # "idle" /\ loads'[m].at # "idle" => k = m
                        /\ \A k \in Loads : loads'[k].at # "idle"
                                              => Shown(loads'[k].code, loads'[k].at, editor)
                        /\ Quiet' => Whole(editor)
      BY <1>6 DEF Apart, EditClick
    <3>1. ~ crossed /\ Quiet /\ loads' = [loads EXCEPT ![l] = [code |-> r, at |-> "bizTypes"]]
      BY <1>6 DEF EditClick, RestOk
    <3>2. \A k \in Loads : loads'[k] = IF k = l THEN [code |-> r, at |-> "bizTypes"] ELSE loads[k]
      BY <3>1 DEF RestOk
    <3>3. \A k \in Loads : k # l => loads'[k].at = "idle"
      BY <3>1, <3>2 DEF Quiet
    <3>4. Whole(editor) /\ Shown(r, "bizTypes", editor)
      BY <3>1 DEF Apart, Shown
    <3> QED
      BY <3>2, <3>3, <3>4
  <2> QED
    BY <1>6, <2>1, <2>2 DEF EditClick
<1>7. ASSUME NEW l \in Loads, BizTypesAnswer(l) PROVE ConsoleInv'
  <2>1. RestOk'
    BY <1>7 DEF BizTypesAnswer, Awaits, RestOk, LoadStates, NotLoading, Awaited
  <2>2. EditorOk(editor') /\ ~ editor'.box
    BY <1>7, WithoutBoxOk DEF BizTypesAnswer, EditorOk
  <2>3. Apart'
    <3> SUFFICES ASSUME ~ crossed'
                 PROVE  /\ \A k, m \in Loads : loads'[k].at # "idle" /\ loads'[m].at # "idle" => k = m
                        /\ \A k \in Loads : loads'[k].at # "idle"
                                              => Shown(loads'[k].code, loads'[k].at, editor')
                        /\ Quiet' => Whole(editor')
      BY DEF Apart
    <3>1. \A k \in Loads : k # l => loads'[k].at = "idle"
      BY <1>7 DEF BizTypesAnswer, RestOk
    <3>2. loads'[l].at = "editor" /\ ~ Quiet'
      BY <1>7 DEF BizTypesAnswer, RestOk, LoadStates, NotLoading, Quiet
    <3>3. Shown(loads'[l].code, loads'[l].at, editor')
      BY <2>2, <3>2 DEF Shown
    <3> QED
      BY <3>1, <3>2, <3>3
  <2> QED
    BY <1>7, <2>1, <2>2, <2>3 DEF BizTypesAnswer
<1>8. ASSUME NEW l \in Loads, EditorAnswer(l) PROVE ConsoleInv'
  <2> DEFINE r == loads[l].code
  <2>1. loads[l].at = "editor" /\ r \in Rules
    BY <1>8 DEF EditorAnswer, Awaits, RestOk, LoadStates, NotLoading
  <2>2. RestOk'
    BY <1>8, <2>1 DEF EditorAnswer, Awaits, RestOk, LoadStates, NotLoading, Awaited
  <2>3. EditorOk(editor')
    BY <1>8, WithBoxOk DEF EditorAnswer, EditorOk
  <2>4. editor'.form = NoRule /\ editor'.rows = {} /\ Owners(editor') = {}
    BY <1>8, WithBoxOk DEF EditorAnswer, EditorOk
  <2>5. Apart'
    <3> SUFFICES ASSUME ~ crossed'
                 PROVE  /\ \A k, m \in Loads : loads'[k].at # "idle" /\ loads'[m].at # "idle" => k = m
                        /\ \A k \in Loads : loads'[k].at # "idle"
                                              => Shown(loads'[k].code, loads'[k].at, editor')
                        /\ Quiet' => Whole(editor')
      BY DEF Apart
    <3>1. /\ ~ crossed /\ Shown(r, "editor", editor)
          /\ \A k \in Loads : k # l => loads[k].at = "idle"
      BY <1>8, <2>1 DEF EditorAnswer, Apart
    <3>2. \A k \in Loads : k # l => loads'[k].at = "idle"
      BY <1>8, <3>1 DEF EditorAnswer, RestOk
    <3>3. loads'[l].at = "rule" /\ loads'[l].code = r /\ ~ Quiet'
      BY <1>8, <2>1 DEF EditorAnswer, RestOk, LoadStates, NotLoading, Quiet
    <3>4. Shown(r, "rule", editor')
      BY <2>4, <3>1 DEF Shown
    <3> QED
      BY <3>2, <3>3, <3>4
  <2> QED
    BY <1>8, <2>2, <2>3, <2>5 DEF EditorAnswer
<1>9. ASSUME NEW l \in Loads, RuleAnswer(l) PROVE ConsoleInv'
  <2> DEFINE r == loads[l].code
  <2>1. loads[l].at = "rule" /\ r \in Rules
    BY <1>9 DEF RuleAnswer, Awaits, RestOk, LoadStates, NotLoading
  <2>2. RestOk'
    BY <1>9, <2>1 DEF RuleAnswer, Awaits, RestOk, LoadStates, NotLoading, Awaited
  <2>3. EditorOk(editor')
    BY <1>9, <2>1, FilledOk DEF RuleAnswer
  <2>4. /\ editor'.box = editor.box /\ Owners(editor') = Owners(editor)
        /\ editor.box => editor'.form = r /\ editor'.rows = editor.rows \cup {r}
    BY <1>9, <2>1, FilledOk DEF RuleAnswer
  <2>5. Apart'
    <3> SUFFICES ASSUME ~ crossed'
                 PROVE  /\ \A k, m \in Loads : loads'[k].at # "idle" /\ loads'[m].at # "idle" => k = m
                        /\ \A k \in Loads : loads'[k].at # "idle"
                                              => Shown(loads'[k].code, loads'[k].at, editor')
                        /\ Quiet' => Whole(editor')
      BY DEF Apart
    <3>1. /\ ~ crossed /\ Shown(r, "rule", editor)
          /\ \A k \in Loads : k # l => loads[k].at = "idle"
      BY <1>9, <2>1 DEF RuleAnswer, Apart
    <3>2. \A k \in Loads : k # l => loads'[k].at = "idle"
      BY <1>9, <3>1 DEF RuleAnswer, RestOk
    <3>3. loads'[l].at = "template" /\ loads'[l].code = r /\ ~ Quiet'
      BY <1>9, <2>1 DEF RuleAnswer, RestOk, LoadStates, NotLoading, Quiet
    <3>4. Shown(r, "template", editor')
      BY <2>4, <3>1 DEF Shown
    <3> QED
      BY <3>2, <3>3, <3>4
  <2> QED
    BY <1>9, <2>2, <2>3, <2>5 DEF RuleAnswer
<1>9a. ASSUME NEW l \in Loads, RuleThrows(l) PROVE ConsoleInv'
  <2> DEFINE r == loads[l].code
  <2>1. loads[l].at = "rule" /\ r \in Rules
    BY <1>9a DEF RuleThrows, Awaits, RestOk, LoadStates, NotLoading
  <2>2. RestOk'
    BY <1>9a, <2>1 DEF RuleThrows, Awaits, RestOk, LoadStates
  <2>3. EditorOk(editor')
    BY <1>9a, <2>1, FormFilledOk DEF RuleThrows
  <2>4. /\ editor'.rows = editor.rows /\ Owners(editor') = Owners(editor)
        /\ editor'.form = IF editor.box THEN r ELSE editor.form
    BY <1>9a, <2>1, FormFilledOk DEF RuleThrows
  <2>5. Apart'
    <3> SUFFICES ASSUME ~ crossed'
                 PROVE  /\ \A k, m \in Loads : loads'[k].at # "idle" /\ loads'[m].at # "idle" => k = m
                        /\ \A k \in Loads : loads'[k].at # "idle"
                                              => Shown(loads'[k].code, loads'[k].at, editor')
                        /\ Quiet' => Whole(editor')
      BY DEF Apart
    <3>1. /\ ~ crossed /\ Shown(r, "rule", editor)
          /\ \A k \in Loads : k # l => loads[k].at = "idle"
      BY <1>9a, <2>1 DEF RuleThrows, Apart
    <3>2. \A k \in Loads : loads'[k].at = "idle"
      BY <1>9a, <3>1 DEF RuleThrows, RestOk, NotLoading
    <3>3. Whole(editor')
      BY <2>4, <3>1 DEF Shown, Whole
    <3> QED
      BY <3>2, <3>3
  <2> QED
    BY <1>9a, <2>2, <2>3, <2>5 DEF RuleThrows
<1>10. ASSUME NEW l \in Loads, TemplateAnswer(l) PROVE ConsoleInv'
  <2> DEFINE r == loads[l].code
  <2>1. loads[l].at = "template" /\ r \in Rules
    BY <1>10 DEF TemplateAnswer, Awaits, RestOk, LoadStates, NotLoading
  <2>2. RestOk'
    BY <1>10, <2>1 DEF TemplateAnswer, Awaits, RestOk, LoadStates
  <2>3. WidgetsOk(widgets')
    BY <1>10, <1>c, CalledOk DEF TemplateAnswer
  <2>4. /\ EditorOk(editor') /\ SameRule(editor, editor')
        /\ Owners(editor') \subseteq Owners(editor) \cup {r}
    <3>1. PICK n \in StepCounts : \E conds \in [1 .. n -> {"none", "dead"}] :
            editor' = InitSteps(WithSteps(editor, r, conds))
      BY <1>10 DEF TemplateAnswer
    <3>2. PICK conds \in [1 .. n -> {"none", "dead"}] :
            editor' = InitSteps(WithSteps(editor, r, conds))
      BY <3>1
    <3>3. conds \in Seq(Conditions)
      <4>1. n \in Nat /\ conds \in [1 .. n -> Conditions]
        BY <1>0 DEF Conditions
      <4> QED
        BY <4>1, SameLength
    <3> DEFINE e == WithSteps(editor, r, conds)
    <3>4. Loose(e) /\ SameRule(editor, e) /\ Owners(e) \subseteq Owners(editor) \cup {r}
      BY <2>1, <3>3, WithStepsOk DEF EditorOk
    <3>5. EditorOk(InitSteps(e)) /\ Owners(InitSteps(e)) = Owners(e) /\ SameRule(e, InitSteps(e))
      BY <3>4, InitStepsOk
    <3> HIDE DEF e
    <3> QED
      BY <3>2, <3>4, <3>5 DEF SameRule, e
  <2>5. Apart'
    <3> SUFFICES ASSUME ~ crossed'
                 PROVE  /\ \A k, m \in Loads : loads'[k].at # "idle" /\ loads'[m].at # "idle" => k = m
                        /\ \A k \in Loads : loads'[k].at # "idle"
                                              => Shown(loads'[k].code, loads'[k].at, editor')
                        /\ Quiet' => Whole(editor')
      BY DEF Apart
    <3>1. /\ ~ crossed /\ Shown(r, "template", editor)
          /\ \A k \in Loads : k # l => loads[k].at = "idle"
      BY <1>10, <2>1 DEF TemplateAnswer, Apart
    <3>2. \A k \in Loads : loads'[k].at = "idle"
      BY <1>10, <3>1 DEF TemplateAnswer, RestOk, NotLoading
    <3>3. Whole(editor')
      <4>1. CASE editor.box
        BY <2>1, <2>4, <3>1, <4>1, EditorAssumption DEF Shown, Whole, SameRule
      <4>2. CASE ~ editor.box
        BY <2>4, <4>2 DEF EditorOk, Loose, Whole, SameRule, Owners
      <4> QED
        BY <4>1, <4>2
    <3> QED
      BY <3>2, <3>3
  <2> QED
    BY <2>2, <2>3, <2>4, <2>5
<1>11. ASSUME NEW l \in Loads, LoadFails(l) PROVE ConsoleInv'
  <2> DEFINE r == loads[l].code
  <2>1. loads[l].at \in {"bizTypes", "rule"}
    BY <1>11 DEF LoadFails, Awaits
  <2>2. RestOk'
    BY <1>11, <2>1 DEF LoadFails, Awaits, RestOk, LoadStates
  <2>3. Apart'
    <3> SUFFICES ASSUME ~ crossed'
                 PROVE  /\ \A k, m \in Loads : loads'[k].at # "idle" /\ loads'[m].at # "idle" => k = m
                        /\ \A k \in Loads : loads'[k].at # "idle"
                                              => Shown(loads'[k].code, loads'[k].at, editor')
                        /\ Quiet' => Whole(editor')
      BY DEF Apart
    <3>1. /\ ~ crossed /\ Shown(r, loads[l].at, editor)
          /\ \A k \in Loads : k # l => loads[k].at = "idle"
      BY <1>11, <2>1 DEF LoadFails, Apart
    <3>2. \A k \in Loads : loads'[k].at = "idle"
      BY <1>11, <3>1 DEF LoadFails, RestOk, NotLoading
    <3>3. Whole(editor')
      BY <1>11, <2>1, <3>1 DEF LoadFails, Shown, Whole
    <3> QED
      BY <3>2, <3>3
  <2> QED
    BY <1>11, <2>2, <2>3 DEF LoadFails
<1>12. CASE AddStepClick
  <2>1. RestOk'
    BY <1>0, <1>12 DEF AddStepClick, Click, RestOk
  <2> QED
    BY <1>12, <1>a, <2>1 DEF AddStepClick
<1>13. CASE AddStepAnswer
  <2>1. RestOk'
    BY <1>0, <1>13 DEF AddStepAnswer, RestOk
  <2> DEFINE e == WithSteps(editor, NoRule, <<"none">>)
             f == InitSteps(e)
  <2>2. Loose(e) /\ SameRule(editor, e) /\ Owners(e) \subseteq Owners(editor) \cup {NoRule}
    <3>1. <<"none">> \in Seq(Conditions)
      BY DEF Conditions
    <3> QED
      BY <3>1, WithStepsOk DEF EditorOk
  <2>3. EditorOk(f) /\ Owners(f) = Owners(e) /\ SameRule(e, f)
    BY <2>2, InitStepsOk
  <2>4. editor' = f /\ UNCHANGED <<loads, crossed, widgets>>
    BY <1>13 DEF AddStepAnswer
  <2> HIDE DEF e, f
  <2>5. SameRule(editor, f) /\ Owners(f) \subseteq Owners(editor) \cup {NoRule}
    BY <2>2, <2>3 DEF SameRule
  <2> QED
    BY <1>b, <2>1, <2>3, <2>4, <2>5
<1>14. ASSUME NEW i \in DOMAIN editor.steps, StepClick(i)
       PROVE  RestOk' /\ UNCHANGED <<widgets, loads, crossed>>
  BY <1>0, <1>14 DEF StepClick, Click, RestOk
<1>15. DOMAIN editor.steps = 1 .. Len(editor.steps) /\ Len(editor.steps) \in Nat
  BY DEF EditorOk, Loose, Editors
<1>16. ASSUME NEW i \in DOMAIN editor.steps, RemoveStep(i) PROVE ConsoleInv'
  BY <1>b, <1>14, <1>16, StepRemovedOk DEF RemoveStep
<1>17. ASSUME NEW i \in DOMAIN editor.steps, MoveStepUp(i) PROVE ConsoleInv'
  <2>1. i - 1 \in DOMAIN editor.steps /\ (i - 1) + 1 \in DOMAIN editor.steps
    BY <1>15, <1>17 DEF MoveStepUp
  <2> QED
    BY <1>b, <1>14, <1>17, <2>1, SwappedOk DEF MoveStepUp
<1>18. ASSUME NEW i \in DOMAIN editor.steps, MoveStepDown(i) PROVE ConsoleInv'
  <2>1. i + 1 \in DOMAIN editor.steps
    BY <1>15, <1>18 DEF MoveStepDown
  <2> QED
    BY <1>b, <1>14, <1>18, <2>1, SwappedOk DEF MoveStepDown
<1>18a. ASSUME NEW i \in DOMAIN editor.steps, AddCondition(i) PROVE ConsoleInv'
  <2>1. editor' = [editor EXCEPT !.steps[i].conds = "live"] /\ "live" \in Conditions
    BY <1>18a DEF AddCondition, ConditionAdded, Conditions
  <2> QED
    BY <1>b, <1>14, <1>18a, <2>1, ConditionsOk DEF AddCondition
<1>18b. ASSUME NEW i \in DOMAIN editor.steps, RemoveCondition(i) PROVE ConsoleInv'
  <2>1. PICK left \in Conditions : editor' = [editor EXCEPT !.steps[i].conds = left]
    BY <1>18b DEF RemoveCondition, ConditionRemoved, Conditions
  <2>2. RestOk' /\ UNCHANGED <<widgets, loads, crossed>>
    BY <1>0, <1>18b DEF RemoveCondition, Click, RestOk
  <2> QED
    BY <1>b, <2>1, <2>2, ConditionsOk
<1>19. CASE Save
  <2>1. RestOk'
    <3>1. clicks' \in 0 .. MaxClicks /\ saving' \in 0 .. MaxRequests
      BY <1>0, <1>19 DEF Save, Click, RestOk
    <3>2. saveEnabled' \in BOOLEAN /\ UNCHANGED <<loads, crossed, adding, message, removing>>
      BY <1>19 DEF Save
    <3> QED
      BY <3>1, <3>2 DEF RestOk
  <2> QED
    BY <1>19, <1>a, <2>1 DEF Save
<1>20. ASSUME NEW ok \in BOOLEAN, SaveAnswer(ok) PROVE ConsoleInv'
  <2>1. RestOk'
    BY <1>0, <1>20 DEF SaveAnswer, RestOk
  <2>2. WidgetsOk(widgets')
    BY <1>20, <1>c, ClosedOk DEF SaveAnswer
  <2> QED
    BY <1>20, <1>a, <2>1, <2>2 DEF SaveAnswer
<1>21. CASE UNCHANGED vars
  <2>1. RestOk'
    BY <1>21 DEF vars, RestOk
  <2> QED
    BY <1>21, <1>a, <2>1 DEF vars
<1> QED
  BY <1>1, <1>2, <1>3, <1>4, <1>4a, <1>5, <1>6, <1>7, <1>8, <1>9, <1>9a, <1>10, <1>11, <1>12,
     <1>13, <1>16, <1>17, <1>18, <1>18a, <1>18b, <1>19, <1>20, <1>21 DEF Next

LEMMA ConsoleInvariant == Spec => []ConsoleInv
<1> QED
  BY ConsoleInit, ConsoleStep, PTL DEF Spec

------------------------------------------------------------------------------
(* The theorems.                                                            *)

\* Every variable keeps its type; above all, what the confirm dialog
\* deletes is a rule.
THEOREM TypeCorrect == Spec => []TypeOK
<1>1. ConsoleInv => TypeOK
  BY DEF ConsoleInv, RestOk, LoadStates, WidgetsOk, EditorOk, Loose, TypeOK
<1> QED
  BY <1>1, ConsoleInvariant, PTL

\* stepCount is the number of the steps, whose indexes are distinct, for any
\* number of edits and templates on the way.
THEOREM CountersFollow == Spec => []StepsCounted
<1>1. ConsoleInv => StepsCounted
  BY DEF ConsoleInv, EditorOk, Loose, StepsCounted
<1> QED
  BY <1>1, ConsoleInvariant, PTL

\* In every step, cloned or not, the buttons that initSteps looks after work
\* (those of its conditions are not among them), and it can be removed
\* exactly when there is another.
THEOREM ButtonsWork == Spec => []StepsLive
<1>1. ConsoleInv => StepsLive
  BY DEF ConsoleInv, EditorOk, Live, StepsLive
<1> QED
  BY <1>1, ConsoleInvariant, PTL

\* Edits that do not overlap leave the rows of one rule or none, and steps of
\* that rule or the user's.
THEOREM OneRule == Spec => []OneRuleShown
<1>1. ConsoleInv => OneRuleShown
  BY DEF ConsoleInv, Apart, Whole, Owners, OneRuleShown
<1> QED
  BY <1>1, ConsoleInvariant, PTL

\* The dimmer is only shown while a dialog is open or closing.
THEOREM PageFreed == Spec => []DimmerFreed
<1>1. ConsoleInv => DimmerFreed
  BY DEF ConsoleInv, WidgetsOk, DimmerFreed
<1> QED
  BY <1>1, ConsoleInvariant, PTL

\* An open dialog is visible, and fades out exactly when its close is due.
THEOREM DialogsVisible == Spec => []OpenVisible
<1>1. ConsoleInv => OpenVisible
  BY DEF ConsoleInv, WidgetsOk, InstanceOk, OpenVisible
<1> QED
  BY <1>1, ConsoleInvariant, PTL
==============================================================================
