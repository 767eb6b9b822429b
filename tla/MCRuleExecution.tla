--------------------------- MODULE MCRuleExecution ---------------------------
(***************************************************************************)
(* Instances of RuleExecution: threads of a pool that run rules calling     *)
(* each other, one after another and at the same time.                      *)
(***************************************************************************)
EXTENDS RuleExecution, TLC

CONSTANTS t1, t2, limit, score, income, overdue, noRule, noStatus, noProblem

MCMaxStages == <<3, 1>>

ExecutionSymmetry == Permutations(Threads) \cup Permutations(Rules)
==============================================================================
