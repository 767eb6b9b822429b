-------------------------------- MODULE Modal --------------------------------
(***************************************************************************)
(* The modal dialogs of Amaze UI as the pages of the console use them: one  *)
(* instance per dialog, made by the first call of modal() and kept with the *)
(* options of that call; opening and closing end with a transition; all     *)
(* instances share one dimmer.  The pages call the plugin from their own    *)
(* handlers, so each call is an operator on the state of the widgets:       *)
(*   w.dialogs[d]  the instance of d                                        *)
(*   w.used        the dialogs which the dimmer counts ($used)              *)
(*   w.shown       whether the dimmer covers the page                       *)
(***************************************************************************)
EXTENDS Naturals, FiniteSets

CONSTANTS
  Dialogs,   \* the dialogs of the page
  Options,   \* what the calls of modal() pass
  NoOptions  \* an instance that has not been made

\* fading: class am-modal-out in the place of am-modal-active; ending: the
\* handler that waits for the end of the transition.
Endings == {"none", "opened", "closed"}

Instances ==
  [options : Options \cup {NoOptions}, active : BOOLEAN, visible : BOOLEAN,
   fading : BOOLEAN, ending : Endings]

Widgets ==
  [dialogs : [Dialogs -> Instances], used : SUBSET Dialogs, shown : BOOLEAN]

NoWidgets ==
  [dialogs |-> [d \in Dialogs |-> [options |-> NoOptions, active |-> FALSE,
                                   visible |-> FALSE, fading |-> FALSE,
                                   ending |-> "none"]],
   used |-> {}, shown |-> FALSE]

------------------------------------------------------------------------------
(* The dimmer.                                                              *)

DimmerOpened(w, d) == [w EXCEPT !.used = @ \cup {d}, !.shown = TRUE]

\* A slip: the dialog is not taken out of $used.
DimmerKept(w, d, force) ==
  [w EXCEPT !.shown = @ /\ ~ force /\ w.used # {}]

\* Unless forced it stays for the dialogs that still use it.
DimmerClosed(w, d, force) ==
  [w EXCEPT !.used = @ \ {d},
            !.shown = @ /\ ~ force /\ w.used \ {d} # {}]

------------------------------------------------------------------------------
(* Opening and closing.                                                     *)

\* What waits for the end of the transition is done: opened, or closed.
Ended(w, d) ==
  LET ended == [w EXCEPT !.dialogs[d].ending = "none"] IN
  IF w.dialogs[d].ending = "closed"
  THEN DimmerClosed([ended EXCEPT !.dialogs[d].visible = FALSE,
                                  !.dialogs[d].active = FALSE], d, FALSE)
  ELSE ended

\* A slip: an end that is still to come is not triggered before.
OpenedEarly(w, d) ==
  IF w.dialogs[d].active THEN w
  ELSE LET opened == DimmerOpened(w, d) IN
       [opened EXCEPT !.dialogs[d].active = TRUE, !.dialogs[d].visible = TRUE,
                      !.dialogs[d].fading = FALSE,
                      !.dialogs[d].ending = IF @ = "none" THEN "opened" ELSE @]

\* An end that is still to come is triggered first.
Opened(w, d) ==
  IF w.dialogs[d].active THEN w
  ELSE LET opened == DimmerOpened(IF w.dialogs[d].ending = "none" THEN w ELSE Ended(w, d), d) IN
       [opened EXCEPT !.dialogs[d].active = TRUE, !.dialogs[d].visible = TRUE,
                      !.dialogs[d].fading = FALSE,
                      !.dialogs[d].ending = "opened"]

\* close() while a transition runs triggers its end and forces the dimmer.
Closed(w, d) ==
  IF ~ w.dialogs[d].active THEN w
  ELSE LET before == IF w.dialogs[d].ending = "none" THEN w
                     ELSE DimmerClosed(Ended(w, d), d, TRUE) IN
       [before EXCEPT !.dialogs[d].fading = TRUE, !.dialogs[d].ending = "closed"]

\* A slip: the options of the first call are lost.
CalledBare(w, d, options) ==
  IF w.dialogs[d].active THEN Closed(w, d) ELSE Opened(w, d)

\* modal(options): the first call makes the instance, and only that call's
\* options count; every call toggles the dialog.
Called(w, d, options) ==
  LET made == [w EXCEPT !.dialogs[d].options = IF @ = NoOptions THEN options ELSE @] IN
  IF w.dialogs[d].active THEN Closed(made, d) ELSE Opened(made, d)
==============================================================================
