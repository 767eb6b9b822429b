--------------------------- MODULE MCRuleConsole ----------------------------
(***************************************************************************)
(* Instances of RuleConsole: two rules, two edits at a time.                *)
(***************************************************************************)
EXTENDS RuleConsole, TLC

CONSTANTS r1, r2, l1, l2

ConsoleSymmetry == Permutations(Rules) \cup Permutations(Loads)
==============================================================================
