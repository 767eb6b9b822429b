--------------------------- MODULE MCMatchPipeline ---------------------------
(***************************************************************************)
(* Instances of MatchPipeline: one bizType with an unordered rule set of    *)
(* two acceptance rules as its default, an ordered one with rules of two    *)
(* match types, and requests that name one, take the default or are wrong.  *)
(***************************************************************************)
EXTENDS MatchPipeline, TLC

CONSTANTS n1, n2, first, second, sorted, chained, named, loan, card, plain, chain, empty,
          accept1, accept2, score1, ACCEPTANCE, SCORE, noSet, noRequest

MCBizTypes == {loan, card}
MCRuleSets == {plain, chain, empty}
MCRules == {accept1, accept2, score1}
MCTypes == {ACCEPTANCE, SCORE}
MCDefault == (loan :> plain) @@ (card :> noSet)
MCBizTypeOfSet == [s \in MCRuleSets |-> loan]
MCRulesOf == (plain :> <<accept1, accept2>>) @@ (chain :> <<accept2, score1>>)
               @@ (empty :> <<>>)
MCTypeOf == (accept1 :> ACCEPTANCE) @@ (accept2 :> ACCEPTANCE) @@ (score1 :> SCORE)

\* first and second run the default rule set, sorted and chained the ordered
\* one, named names a rule set in the call with four arguments.
Of(f) == Restrict(f, Requests)
MCMethod == Of((first :> "BIZTYPE") @@ (second :> "REQUEST") @@ (sorted :> "REQUEST")
                 @@ (chained :> "REQUEST") @@ (named :> "NAMED"))
MCBizTypeOf == [q \in Requests |-> loan]
MCNamedSet == Of((first :> noSet) @@ (second :> noSet) @@ (sorted :> chain)
                   @@ (chained :> chain) @@ (named :> chain))

NodeSymmetry == Permutations(Nodes)
==============================================================================
