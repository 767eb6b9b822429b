---------------------------- MODULE MCRuleCatalog ----------------------------
(***************************************************************************)
(* RuleCatalog for TLC: one rule that moves between two bizTypes,          *)
(* one rule set, two sessions.                                              *)
(***************************************************************************)
EXTENDS RuleCatalog, TLC

CONSTANTS s1, s2, ra, ka, loan, card, x, tree, table, noRow, noDesign

MCRuleDrafts == {[biz |-> loan, design |-> tree, sqls |-> {x}],
                 [biz |-> card, design |-> table, sqls |-> {}]}

Ask(r, version) == [rule |-> r, version |-> version]
MCSetDrafts == {[biz |-> loan, asked |-> <<Ask(ra, 0)>>],
                [biz |-> card, asked |-> <<Ask(ra, 2), Ask(ra, 1)>>],
                [biz |-> loan, asked |-> <<>>]}

SessionSymmetry == Permutations(Sessions)
==============================================================================
