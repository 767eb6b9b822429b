------------------------- MODULE MCResultPersistence -------------------------
(***************************************************************************)
(* ResultPersistence for TLC: one ordered rule set of two rules, whose two  *)
(* entities each carry the results of both, and two single rules.           *)
(***************************************************************************)
EXTENDS ResultPersistence, TLC

CONSTANTS o1, w1, w2, t1, t2, t3, mo, m1, m2, ra, rb, rc, rd

MCServes == [w \in Workers |-> IF w = o1 THEN "ruleSet" ELSE "rules"]
MCChannelOf == [m \in Messages |-> IF m = mo THEN "ruleSet" ELSE "rules"]

\* Rules a and b are of one match type: one batch of two results.
OrderedEntity == <<{ra, rb}>>

MCPayload ==
  [m \in Messages |-> CASE m = mo -> <<OrderedEntity, OrderedEntity>>
                        [] m = m1 -> << <<{rc}>> >>
                        [] m = m2 -> << <<{rd}>> >>]

Symmetry == Permutations(Timers)
==============================================================================
