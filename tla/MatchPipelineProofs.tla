------------------------- MODULE MatchPipelineProofs -------------------------
(***************************************************************************)
(* Proofs about MatchPipeline, for any nodes, requests and rule sets and    *)
(* any number of threads, calls of evaluate, failures and restarts.         *)
(***************************************************************************)
EXTENDS MatchPipeline, FiniteSetTheorems, TLAPS

USE DEF Methods, Fates, Loops, lists, intake, order, threads, channels, Drop

\* The message that would run the rule of x has not been sent yet.
Unsent(x) ==
  \/ fate[x[1]] \in {"new", "queued"}
  \/ \E n \in Nodes : /\ matching[n] = x[1]
                      /\ InOrder(x[1]) \/ next[n] =< x[2]

\* A request is in one hand: a list's, or one node's.
RequestInv ==
  /\ \A q \in Requests : q \in requestQ => fate[q] = "queued"
  /\ \A n \in Nodes : matching[n] # NoRequest =>
       /\ fate[matching[n]] = "matching"
       /\ \A m \in Nodes : matching[m] = matching[n] => m = n
       /\ Matchable(matching[n]) => next[n] =< Len(RulesFor(matching[n]))

\* Ordered and unordered rule sets never share a list or a channel.
KindInv ==
  /\ \A q \in setQ : InOrder(q)
  /\ \A x \in ruleQ : ~InOrder(x[1])
  /\ \A n \in Nodes : /\ running[n] # NoRequest => InOrder(running[n])
                      /\ \A q \in setOut[n] : InOrder(q)
                      /\ \A x \in ruleOut[n] : ~InOrder(x[1])

\* How far a result has come, and what that says about the others. On a node
\* that runs its rule set the rules before the next place have run, and no other.
Progress(x) ==
  /\ executed[x] =< 1
  /\ Unsent(x) => executed[x] = 0 /\ ~InList(x) /\ \A n \in Nodes : ~InRun(n, x)
  /\ InList(x) => executed[x] = 0
  /\ \A n \in Nodes : InRun(n, x) =>
       /\ executed[x] = IF place[n] =< x[2] THEN 0 ELSE 1
       /\ stages[x] = 0 /\ ~InList(x)
       /\ \A m \in Nodes : ~InChannel(m, x) /\ (InRun(m, x) => m = n)
  /\ \A n \in Nodes : InChannel(n, x) =>
       executed[x] = 1 /\ stages[x] = 0 /\ \A m \in Nodes : InChannel(m, x) => m = n
  /\ stages[x] > 0 => executed[x] = 1

\* While nothing has failed no result is lost.
Kept(x) ==
  failures = 0 /\ crashes = 0 =>
    \/ Unsent(x)
    \/ fate[x[1]] = "refused"
    \/ InList(x)
    \/ \E n \in Nodes : InRun(n, x) \/ InChannel(n, x)
    \/ stages[x] > 0

PInv == TypeOK /\ RequestInv /\ KindInv /\ \A x \in Results : Progress(x) /\ Kept(x)

LEMMA ResultPair ==
  /\ \A x \in Results : x[1] \in Requests /\ x[2] \in Places(x[1]) /\ x = <<x[1], x[2]>>
  /\ \A q \in Requests : \A i \in Places(q) : <<q, i>> \in Results
  BY DEF Results

LEMMA PlaceRange ==
  ASSUME NEW q \in Requests
  PROVE  /\ RulesFor(q) \in Seq(Rules)
         /\ Places(q) = 1..Len(RulesFor(q))
         /\ Len(RulesFor(q)) \in Nat
  <1>1. MatchedSet(q) = NoSet \/ MatchedSet(q) \in RuleSets
    BY PipelineAssumption DEF MatchedSet
  <1>2. RulesFor(q) \in Seq(Rules)
    BY <1>1, PipelineAssumption DEF RulesFor
  <1>3. QED
    BY <1>2 DEF Places

LEMMA RowTyped ==
  ASSUME NEW q \in Requests, NEW i \in Places(q), NEW e \in Places(q), NEW t \in 0..MaxTime
  PROVE  Row(q, i, e, t) \in RowSpace
  <1> DEFINE x == <<q, i, e, t>>
             Own(p) == {p} \X Places(p) \X Places(p) \X (0..MaxTime)
  <1>1. x \in Own(q)
    OBVIOUS
  <1>2. x \in UNION {Own(p) : p \in Requests}
    BY <1>1
  <1>3. Row(x[1], x[2], x[3], x[4]) \in RowSpace
    BY <1>2 DEF RowSpace
  <1>4. QED
    BY <1>3

\* What a node's next rule is a place of.
LEMMA NextPlace ==
  ASSUME TypeOK, RequestInv, NEW n \in Nodes, SendsRule(n)
  PROVE  /\ matching[n] \in Requests /\ next[n] \in Places(matching[n])
         /\ <<matching[n], next[n]>> \in Results
         /\ fate[matching[n]] = "matching"
  <1>1. matching[n] \in Requests /\ Matchable(matching[n]) /\ next[n] \in Nat \ {0}
    BY DEF SendsRule, TypeOK
  <1>2. next[n] \in Places(matching[n]) /\ fate[matching[n]] = "matching"
    BY <1>1, PlaceRange DEF SendsRule, RequestInv
  <1>3. QED
    BY <1>1, <1>2, ResultPair

\* The same of a node that runs a rule set.
LEMMA RunPlace ==
  ASSUME TypeOK, NEW n \in Nodes, running[n] # NoRequest, place[n] =< Len(RulesFor(running[n]))
  PROVE  /\ running[n] \in Requests /\ place[n] \in Places(running[n])
         /\ <<running[n], place[n]>> \in Results
  <1>1. running[n] \in Requests /\ place[n] \in Nat \ {0}
    BY DEF TypeOK
  <1>2. place[n] \in Places(running[n])
    BY <1>1, PlaceRange
  <1>3. QED
    BY <1>1, <1>2, ResultPair

LEMMA TypeInit == Init => TypeOK
  BY PipelineAssumption DEF Init, TypeOK

LEMMA TypeStep == TypeOK /\ RequestInv /\ [Next]_vars => TypeOK'
  <1> SUFFICES ASSUME TypeOK, RequestInv, [Next]_vars PROVE TypeOK'
    OBVIOUS
  <1> USE PipelineAssumption
  <1>1. ASSUME NEW q \in Requests, Submit(q) PROVE TypeOK'
    BY <1>1 DEF Submit, TypeOK
  <1>2. ASSUME NEW n \in Nodes, NEW q \in Requests, TakeRequest(n, q) PROVE TypeOK'
    BY <1>2 DEF TakeRequest, TypeOK
  <1>3. ASSUME NEW n \in Nodes, Refuse(n) PROVE TypeOK'
    BY <1>3 DEF Refuse, TypeOK
  <1>4. ASSUME NEW n \in Nodes, MatchFails(n) PROVE TypeOK'
    BY <1>4 DEF MatchFails, TypeOK
  <1>5. ASSUME NEW n \in Nodes, DispatchRuleSet(n) PROVE TypeOK'
    BY <1>5 DEF DispatchRuleSet, SendsSet, Dispatched, TypeOK
  <1>6. ASSUME NEW n \in Nodes, RuleSetUnsent(n) PROVE TypeOK'
    BY <1>6 DEF RuleSetUnsent, SendsSet, Dispatched, TypeOK
  \* The loop over the rules, whether a rule's message was sent or not.
  <1>loop. ASSUME NEW n \in Nodes, SendsRule(n), ToNextRule(n)
           PROVE  /\ next' \in [Nodes -> Nat \ {0}]
                  /\ fate' \in [Requests -> Fates]
                  /\ matching' \in [Nodes -> Requests \cup {NoRequest}]
    <2>1. matching[n] \in Requests /\ fate[matching[n]] = "matching"
      BY <1>loop, NextPlace
    <2>0. next[n] + 1 \in Nat \ {0}
      <3>1. next[n] \in Nat \ {0}
        BY DEF TypeOK
      <3>2. QED
        BY <3>1
    <2> DEFINE last == next[n] = Len(RulesFor(matching[n]))
    <2>2. /\ next' = [next EXCEPT ![n] = IF last THEN 1 ELSE next[n] + 1]
          /\ fate' = [fate EXCEPT ![matching[n]] =
                         IF last THEN "dispatched" ELSE fate[matching[n]]]
          /\ matching' = [matching EXCEPT ![n] = IF last THEN NoRequest ELSE matching[n]]
      BY <1>loop DEF ToNextRule
    <2> HIDE DEF last
    <2>3. next' \in [Nodes -> Nat \ {0}]
      BY <2>0, <2>2 DEF TypeOK
    <2>4. fate' \in [Requests -> Fates]
      BY <2>1, <2>2 DEF TypeOK
    <2>5. matching' \in [Nodes -> Requests \cup {NoRequest}]
      BY <2>1, <2>2 DEF TypeOK
    <2>6. QED
      BY <2>3, <2>4, <2>5
  <1>7. ASSUME NEW n \in Nodes, DispatchRule(n) PROVE TypeOK'
    <2>1. <<matching[n], next[n]>> \in Results
      BY <1>7, NextPlace DEF DispatchRule
    <2>2. ruleQ' \subseteq Results
      BY <1>7, <2>1 DEF DispatchRule, TypeOK
    <2>3. QED
      BY <1>7, <1>loop, <2>2 DEF DispatchRule, TypeOK
  <1>8. ASSUME NEW n \in Nodes, RuleUnsent(n) PROVE TypeOK'
    BY <1>8, <1>loop DEF RuleUnsent, TypeOK
  <1>9. ASSUME NEW n \in Nodes, StartListener(n) PROVE TypeOK'
    BY <1>9 DEF StartListener, TypeOK
  <1>10. ASSUME NEW n \in Nodes, Evaluate(n) PROVE TypeOK'
    BY <1>10 DEF Evaluate, TypeOK
  <1>11. ASSUME NEW n \in Nodes, NEW loop \in Loops, StartLoop(n, loop) PROVE TypeOK'
    BY <1>11 DEF StartLoop, TypeOK
  <1>12. ASSUME NEW n \in Nodes, NEW q \in Requests, TakeRuleSet(n, q) PROVE TypeOK'
    BY <1>12 DEF TakeRuleSet, TypeOK
  <1>13. ASSUME NEW n \in Nodes, ExecuteNextRule(n) PROVE TypeOK'
    <2>1. <<running[n], place[n]>> \in Results
      BY <1>13, RunPlace DEF ExecuteNextRule
    <2>2. executed' \in [Results -> Nat]
      BY <1>13, <2>1 DEF ExecuteNextRule, TypeOK
    <2>3. place' \in [Nodes -> Nat \ {0}]
      BY <1>13 DEF ExecuteNextRule, TypeOK
    <2>4. QED
      BY <1>13, <2>2, <2>3 DEF ExecuteNextRule, TypeOK
  <1>14. ASSUME NEW n \in Nodes, HandOn(n) PROVE TypeOK'
    BY <1>14 DEF HandOn, TypeOK
  <1>15. ASSUME NEW n \in Nodes, RuleSetFails(n) PROVE TypeOK'
    <2>1. lane' = [lane EXCEPT ![n] = "poll"] \/ lane' = lane
      BY <1>15 DEF RuleSetFails
    <2>2. lane' \in [Nodes -> {"poll", "listen"}]
      BY <2>1 DEF TypeOK
    <2>3. running' \in [Nodes -> Requests \cup {NoRequest}] /\ place' \in [Nodes -> Nat \ {0}]
      BY <1>15 DEF RuleSetFails, TypeOK
    <2>4. failures' \in 0..MaxFailures
      BY <1>15 DEF RuleSetFails, TypeOK
    <2>5. QED
      BY <1>15, <2>2, <2>3, <2>4 DEF RuleSetFails, TypeOK
  <1>16. ASSUME NEW n \in Nodes, NEW x \in Results, ExecuteRule(n, x) PROVE TypeOK'
    BY <1>16 DEF ExecuteRule, TypeOK
  <1>17. ASSUME NEW n \in Nodes, NEW x \in Results, RuleFails(n, x) PROVE TypeOK'
    <2>1. executed' \in [Results -> Nat]
      <3>1. executed' = executed \/ executed' = [executed EXCEPT ![x] = executed[x] + 1]
        BY <1>17 DEF RuleFails
      <3>2. QED
        BY <3>1 DEF TypeOK
    <2>2. loops' \in [Nodes -> SUBSET Loops]
      <3>1. loops' = loops \/ loops' = [loops EXCEPT ![n] = loops[n] \ {"rules"}]
        BY <1>17 DEF RuleFails
      <3>2. loops \in [Nodes -> SUBSET Loops] /\ loops[n] \ {"rules"} \in SUBSET Loops
        BY DEF TypeOK
      <3>3. QED
        BY ONLY <3>1, <3>2
    <2>3. QED
      BY <1>17, <2>1, <2>2 DEF RuleFails, TypeOK
  <1>18. ASSUME NEW n \in Nodes, NEW q \in Requests, ConvertRuleSet(n, q) PROVE TypeOK'
    <2> DEFINE New == {Row(q, x[1], x[2], now) : x \in Places(q) \X Places(q)}
    <2>1. New \subseteq RowSpace
      BY RowTyped DEF TypeOK
    <2>2. listed' = [listed EXCEPT ![n] = @ \cup New]
      BY <1>18 DEF ConvertRuleSet
    <2> HIDE DEF New
    <2>3. listed' \in [Nodes -> SUBSET RowSpace]
      BY <2>1, <2>2 DEF TypeOK
    <2>4. stages' \in [Results -> Nat]
      BY <1>18, PlaceRange DEF ConvertRuleSet, TypeOK
    <2>5. QED
      BY <1>18, <2>3, <2>4 DEF ConvertRuleSet, TypeOK
  <1>19. ASSUME NEW n \in Nodes, NEW q \in Requests,
                NEW whole \in 0..Len(RulesFor(q)), NEW types \in SUBSET MatchTypes,
                ConvertRuleSetFails(n, q, whole, types)
         PROVE  TypeOK'
    <2> DEFINE part == {i \in Places(q) : TypeOf[RulesFor(q)[i]] \in types}
               seen == {x \in Places(q) \X Places(q) :
                          x[2] =< whole \/ (x[2] = whole + 1 /\ x[1] \in part)}
               New == {Row(q, x[1], x[2], now) : x \in seen}
    <2>1. New \subseteq RowSpace
      BY RowTyped DEF TypeOK
    <2>2. listed' = [listed EXCEPT ![n] = @ \cup New]
      BY <1>19 DEF ConvertRuleSetFails
    <2>3. whole \in Nat
      BY PlaceRange
    <2>4. stages' \in [Results -> Nat]
      BY <1>19, <2>3 DEF ConvertRuleSetFails, TypeOK
    <2> HIDE DEF New
    <2>5. listed' \in [Nodes -> SUBSET RowSpace]
      BY <2>1, <2>2 DEF TypeOK
    <2>6. QED
      BY <1>19, <2>4, <2>5 DEF ConvertRuleSetFails, TypeOK
  <1>20. ASSUME NEW n \in Nodes, NEW x \in Results, ConvertRule(n, x) PROVE TypeOK'
    <2>1. Row(x[1], x[2], 1, now) \in RowSpace
      <3>1. x[1] \in Requests /\ x[2] \in Places(x[1])
        BY ResultPair
      <3>2. 1 \in Places(x[1])
        BY <3>1, PlaceRange
      <3>3. QED
        BY <3>1, <3>2, RowTyped DEF TypeOK
    <2>2. listed' \in [Nodes -> SUBSET RowSpace]
      BY <1>20, <2>1 DEF ConvertRule, Convert, TypeOK
    <2>3. QED
      BY <1>20, <2>2 DEF ConvertRule, Convert, TypeOK
  <1>21. ASSUME NEW n \in Nodes, NEW x \in Results, ConvertRuleFails(n, x) PROVE TypeOK'
    BY <1>21 DEF ConvertRuleFails, TypeOK
  <1>22. ASSUME NEW n \in Nodes, NEW saved \in SUBSET listed[n], Flush(n, saved)
         PROVE  TypeOK'
    BY <1>22 DEF Flush, TypeOK
  <1>23. ASSUME NEW n \in Nodes, Crash(n) PROVE TypeOK'
    BY <1>23 DEF Crash, TypeOK
  <1>24. CASE Tick
    BY <1>24 DEF Tick, TypeOK
  <1>25. CASE UNCHANGED vars
    BY <1>25 DEF vars, TypeOK
  <1>26. QED
    BY <1>1, <1>2, <1>3, <1>4, <1>5, <1>6, <1>7, <1>8, <1>9, <1>10, <1>11, <1>12, <1>13,
       <1>14, <1>15, <1>16, <1>17, <1>18, <1>19, <1>20, <1>21, <1>22, <1>23, <1>24, <1>25
       DEF Next, Match, RunRules

LEMMA RequestStep == TypeOK /\ RequestInv /\ [Next]_vars => RequestInv'
  <1> SUFFICES ASSUME TypeOK, RequestInv, [Next]_vars PROVE RequestInv'
    OBVIOUS
  <1> USE PipelineAssumption
  <1>quiet. UNCHANGED <<requestQ, intake>> => RequestInv'
    BY DEF RequestInv, Matchable, RulesFor
  <1>1. ASSUME NEW q \in Requests, Submit(q) PROVE RequestInv'
    BY <1>1 DEF Submit, TypeOK, RequestInv
  <1>2. ASSUME NEW n \in Nodes, NEW q \in Requests, TakeRequest(n, q) PROVE RequestInv'
    BY <1>2, PlaceRange DEF TakeRequest, TypeOK, RequestInv, Matchable, RulesFor
  <1>3. ASSUME NEW n \in Nodes, Refuse(n) PROVE RequestInv'
    BY <1>3 DEF Refuse, TypeOK, RequestInv
  <1>4. ASSUME NEW n \in Nodes, MatchFails(n) PROVE RequestInv'
    BY <1>4 DEF MatchFails, TypeOK, RequestInv
  <1>5. ASSUME NEW n \in Nodes, DispatchRuleSet(n) \/ RuleSetUnsent(n) PROVE RequestInv'
    <2>1. SendsSet(n) /\ Dispatched(n) /\ UNCHANGED <<requestQ, next>>
      BY <1>5 DEF DispatchRuleSet, RuleSetUnsent
    <2>2. matching[n] \in Requests /\ fate[matching[n]] = "matching"
      BY <2>1 DEF SendsSet, TypeOK, RequestInv
    <2>3. QED
      BY <2>1, <2>2 DEF Dispatched, TypeOK, RequestInv, Matchable, RulesFor
  <1>6. ASSUME NEW n \in Nodes, DispatchRule(n) \/ RuleUnsent(n) PROVE RequestInv'
    <2>1. SendsRule(n) /\ ToNextRule(n) /\ requestQ' = requestQ
      BY <1>6 DEF DispatchRule, RuleUnsent
    <2>2. QED
      BY <2>1, NextPlace, PlaceRange
         DEF SendsRule, ToNextRule, TypeOK, RequestInv, Matchable, RulesFor
  <1>7. ASSUME NEW n \in Nodes, Crash(n) PROVE RequestInv'
    BY <1>7 DEF Crash, TypeOK, RequestInv
  <1>8. ASSUME NEW n \in Nodes, StartListener(n) \/ Evaluate(n) \/ RunRules(n) \/ RuleSetFails(n)
        PROVE  RequestInv'
    BY <1>8, <1>quiet
       DEF StartListener, Evaluate, RunRules, ExecuteNextRule, HandOn, RuleSetFails
  <1>9. ASSUME NEW n \in Nodes, NEW loop, StartLoop(n, loop) PROVE RequestInv'
    BY <1>9, <1>quiet DEF StartLoop
  <1>10. ASSUME NEW n \in Nodes, NEW q, TakeRuleSet(n, q) \/ ConvertRuleSet(n, q)
         PROVE  RequestInv'
    BY <1>10, <1>quiet DEF TakeRuleSet, ConvertRuleSet
  <1>11. ASSUME NEW n \in Nodes, NEW q, NEW whole, NEW types,
                ConvertRuleSetFails(n, q, whole, types)
         PROVE  RequestInv'
    BY <1>11, <1>quiet DEF ConvertRuleSetFails
  <1>12. ASSUME NEW n \in Nodes, NEW x,
                \/ ExecuteRule(n, x) \/ RuleFails(n, x)
                \/ ConvertRule(n, x) \/ ConvertRuleFails(n, x)
         PROVE  RequestInv'
    BY <1>12, <1>quiet DEF ExecuteRule, RuleFails, ConvertRule, Convert, ConvertRuleFails
  <1>13. ASSUME NEW n \in Nodes, NEW saved, Flush(n, saved) PROVE RequestInv'
    BY <1>13, <1>quiet DEF Flush
  <1>14. CASE Tick \/ UNCHANGED vars
    BY <1>14, <1>quiet DEF Tick, vars
  <1>15. QED
    BY <1>1, <1>2, <1>3, <1>4, <1>5, <1>6, <1>7, <1>8, <1>9, <1>10, <1>11, <1>12, <1>13, <1>14
       DEF Next, Match

LEMMA KindStep == TypeOK /\ KindInv /\ [Next]_vars => KindInv'
  <1> SUFFICES ASSUME TypeOK, KindInv, [Next]_vars PROVE KindInv'
    OBVIOUS
  <1> USE PipelineAssumption
  <1>quiet. UNCHANGED <<setQ, ruleQ, running, channels>> => KindInv'
    BY DEF KindInv, InOrder
  <1>1. ASSUME NEW n \in Nodes, DispatchRuleSet(n) PROVE KindInv'
    BY <1>1 DEF DispatchRuleSet, SendsSet, TypeOK, KindInv, InOrder
  <1>2. ASSUME NEW n \in Nodes, DispatchRule(n) PROVE KindInv'
    BY <1>2 DEF DispatchRule, SendsRule, TypeOK, KindInv, InOrder
  <1>3. ASSUME NEW n \in Nodes, NEW q \in Requests, TakeRuleSet(n, q) PROVE KindInv'
    BY <1>3 DEF TakeRuleSet, TypeOK, KindInv, InOrder
  <1>4. ASSUME NEW n \in Nodes, HandOn(n) PROVE KindInv'
    BY <1>4 DEF HandOn, TypeOK, KindInv, InOrder
  <1>5. ASSUME NEW n \in Nodes, RuleSetFails(n) PROVE KindInv'
    BY <1>5 DEF RuleSetFails, TypeOK, KindInv, InOrder
  <1>6. ASSUME NEW n \in Nodes, NEW x \in Results, ExecuteRule(n, x) PROVE KindInv'
    BY <1>6 DEF ExecuteRule, TypeOK, KindInv, InOrder
  <1>7. ASSUME NEW n \in Nodes, NEW x \in Results, RuleFails(n, x) PROVE KindInv'
    BY <1>7 DEF RuleFails, TypeOK, KindInv, InOrder
  <1>8. ASSUME NEW n \in Nodes, NEW q \in Requests, ConvertRuleSet(n, q) PROVE KindInv'
    BY <1>8 DEF ConvertRuleSet, TypeOK, KindInv, InOrder
  <1>9. ASSUME NEW n \in Nodes, NEW q \in Requests, NEW whole, NEW types,
               ConvertRuleSetFails(n, q, whole, types)
        PROVE  KindInv'
    BY <1>9 DEF ConvertRuleSetFails, TypeOK, KindInv, InOrder
  <1>10. ASSUME NEW n \in Nodes, NEW x \in Results, ConvertRule(n, x) PROVE KindInv'
    BY <1>10 DEF ConvertRule, Convert, TypeOK, KindInv, InOrder
  <1>11. ASSUME NEW n \in Nodes, NEW x \in Results, ConvertRuleFails(n, x) PROVE KindInv'
    BY <1>11 DEF ConvertRuleFails, TypeOK, KindInv, InOrder
  <1>12. ASSUME NEW n \in Nodes, Crash(n) PROVE KindInv'
    BY <1>12 DEF Crash, TypeOK, KindInv, InOrder
  <1>13. QED
    BY <1>quiet, <1>1, <1>2, <1>3, <1>4, <1>5, <1>6, <1>7, <1>8, <1>9, <1>10, <1>11, <1>12
       DEF Next, Match, RunRules, Submit, TakeRequest, Refuse, MatchFails, RuleSetUnsent,
           RuleUnsent, StartListener, Evaluate, StartLoop, ExecuteNextRule, Flush, Tick, vars

\* A node that has taken a request is the only one, and says so.
LEMMA OneHand ==
  ASSUME TypeOK, RequestInv, NEW x \in Results, NEW n \in Nodes, matching[n] = x[1]
  PROVE  /\ fate[x[1]] = "matching"
         /\ \A m \in Nodes : matching[m] = x[1] => m = n
  <1>1. x[1] \in Requests /\ x[1] # NoRequest
    BY ResultPair, PipelineAssumption
  <1>2. QED
    BY <1>1 DEF RequestInv

\* The loop over the rules goes on: the result at the next place is not unsent any
\* more, and no other becomes so.
LEMMA LoopStep ==
  ASSUME TypeOK, RequestInv, NEW x \in Results, NEW n \in Nodes, SendsRule(n), ToNextRule(n)
  PROVE  /\ Unsent(x)' => Unsent(x) /\ x # <<matching[n], next[n]>>
         /\ Unsent(<<matching[n], next[n]>>)
         /\ x[1] = matching[n] /\ next[n] < x[2] => Unsent(x)'
         /\ x[1] # matching[n] => (Unsent(x)' <=> Unsent(x))
         /\ x[1] = matching[n] => ~InOrder(x[1]) /\ (Unsent(x) => next[n] =< x[2])
  <1> DEFINE q == matching[n]
             last == next[n] = Len(RulesFor(q))
  <1>1. q \in Requests /\ <<q, next[n]>> \in Results /\ fate[q] = "matching" /\ next[n] \in Nat
    BY NextPlace DEF TypeOK
  <1>2. x[1] \in Requests /\ x[1] # NoRequest /\ x[2] \in 1..Len(RulesFor(x[1]))
          /\ Len(RulesFor(x[1])) \in Nat
    BY ResultPair, PlaceRange, PipelineAssumption
  <1>3. /\ ~InOrder(q)
        /\ InOrder(x[1])' = InOrder(x[1])
    BY DEF SendsRule, InOrder, MatchedSet
  <1>4. /\ fate' = [fate EXCEPT ![q] = IF last THEN "dispatched" ELSE fate[q]]
        /\ matching' = [matching EXCEPT ![n] = IF last THEN NoRequest ELSE q]
        /\ next' = [next EXCEPT ![n] = IF last THEN 1 ELSE next[n] + 1]
    BY DEF ToNextRule
  <1>5. Unsent(<<q, next[n]>>)
    BY <1>1 DEF Unsent
  <1>6. CASE x[1] # q
    <2>1. fate'[x[1]] = fate[x[1]]
      BY <1>2, <1>4, <1>6 DEF TypeOK
    <2>2. \A m \in Nodes : /\ matching'[m] = x[1] <=> matching[m] = x[1]
                           /\ matching[m] = x[1] => next'[m] = next[m]
      BY <1>2, <1>4, <1>6 DEF TypeOK
    <2>3. Unsent(x)' <=> Unsent(x)
      BY <1>3, <2>1, <2>2 DEF Unsent
    <2>4. QED
      BY <1>5, <1>6, <2>3
  <1>7. CASE x[1] = q
    <2>1. \A m \in Nodes : matching[m] = x[1] => m = n
      BY <1>7, OneHand
    <2>2. Unsent(x) <=> next[n] =< x[2]
      BY <1>1, <1>3, <1>7, <2>1 DEF Unsent
    <2>3. CASE last
      <3>1. fate'[x[1]] = "dispatched" /\ \A m \in Nodes : matching'[m] # x[1]
        BY <1>2, <1>4, <1>7, <2>1, <2>3 DEF TypeOK
      <3>2. ~Unsent(x)'
        BY <3>1 DEF Unsent
      <3>3. ~(next[n] < x[2])
        BY <1>1, <1>2, <1>7, <2>3
      <3>4. QED
        BY <1>3, <1>5, <1>7, <2>2, <3>2, <3>3
    <2>4. CASE ~last
      <3> HIDE DEF last
      <3>1. fate'[x[1]] = "matching" /\ matching' = matching /\ next'[n] = next[n] + 1
        BY <1>1, <1>4, <1>7, <2>4 DEF TypeOK
      <3>2. Unsent(x)' <=> next[n] + 1 =< x[2]
        BY <1>3, <1>7, <2>1, <3>1 DEF Unsent
      <3>3. x[2] \in Nat /\ (x = <<q, next[n]>> => x[2] = next[n])
        BY <1>2
      <3>4. QED
        BY <1>1, <1>3, <1>5, <1>7, <2>2, <3>2, <3>3
    <2>5. QED
      BY <2>3, <2>4
  <1>8. QED
    BY <1>6, <1>7

\* What has been sent stays sent.
LEMMA UnsentStep ==
  ASSUME TypeOK, RequestInv, NEW x \in Results, [Next]_vars
  PROVE  Unsent(x)' => Unsent(x)
  <1> USE PipelineAssumption
  <1>nat. x[1] \in Requests
    BY ResultPair
  <1>same. InOrder(x[1])' = InOrder(x[1])
    BY DEF InOrder, MatchedSet
  <1>quiet. UNCHANGED intake => (Unsent(x)' => Unsent(x))
    BY <1>same DEF Unsent
  <1>1. ASSUME NEW q \in Requests, Submit(q) PROVE Unsent(x)' => Unsent(x)
    BY <1>1, <1>nat, <1>same DEF Submit, TypeOK, Unsent
  <1>2. ASSUME NEW n \in Nodes, NEW q \in Requests, TakeRequest(n, q)
        PROVE  Unsent(x)' => Unsent(x)
    <2>1. fate[q] = "queued"
      BY <1>2 DEF TakeRequest, RequestInv
    <2>2. QED
      BY <1>2, <1>nat, <1>same, <2>1 DEF TakeRequest, TypeOK, Unsent
  <1>3. ASSUME NEW n \in Nodes, Refuse(n) PROVE Unsent(x)' => Unsent(x)
    BY <1>3, <1>nat, <1>same DEF Refuse, TypeOK, Unsent
  <1>4. ASSUME NEW n \in Nodes, MatchFails(n) PROVE Unsent(x)' => Unsent(x)
    BY <1>4, <1>nat, <1>same DEF MatchFails, TypeOK, Unsent
  <1>5. ASSUME NEW n \in Nodes, DispatchRuleSet(n) \/ RuleSetUnsent(n)
        PROVE  Unsent(x)' => Unsent(x)
    <2>1. SendsSet(n) /\ Dispatched(n) /\ next' = next
      BY <1>5 DEF DispatchRuleSet, RuleSetUnsent
    <2>2. QED
      BY <1>nat, <1>same, <2>1 DEF SendsSet, Dispatched, TypeOK, Unsent
  <1>6. ASSUME NEW n \in Nodes, DispatchRule(n) \/ RuleUnsent(n)
        PROVE  Unsent(x)' => Unsent(x)
    BY <1>6, LoopStep DEF DispatchRule, RuleUnsent
  <1>7. ASSUME NEW n \in Nodes, Crash(n) PROVE Unsent(x)' => Unsent(x)
    BY <1>7, <1>nat, <1>same DEF Crash, TypeOK, Unsent
  <1>8. ASSUME NEW n \in Nodes, StartListener(n) \/ Evaluate(n) \/ RunRules(n) \/ RuleSetFails(n)
        PROVE  Unsent(x)' => Unsent(x)
    BY <1>8, <1>quiet
       DEF StartListener, Evaluate, RunRules, ExecuteNextRule, HandOn, RuleSetFails
  <1>9. ASSUME NEW n \in Nodes, NEW loop, StartLoop(n, loop) PROVE Unsent(x)' => Unsent(x)
    BY <1>9, <1>quiet DEF StartLoop
  <1>10. ASSUME NEW n \in Nodes, NEW q, TakeRuleSet(n, q) \/ ConvertRuleSet(n, q)
         PROVE  Unsent(x)' => Unsent(x)
    BY <1>10, <1>quiet DEF TakeRuleSet, ConvertRuleSet
  <1>11. ASSUME NEW n \in Nodes, NEW q, NEW whole, NEW types,
                ConvertRuleSetFails(n, q, whole, types)
         PROVE  Unsent(x)' => Unsent(x)
    BY <1>11, <1>quiet DEF ConvertRuleSetFails
  <1>12. ASSUME NEW n \in Nodes, NEW y,
                \/ ExecuteRule(n, y) \/ RuleFails(n, y)
                \/ ConvertRule(n, y) \/ ConvertRuleFails(n, y)
         PROVE  Unsent(x)' => Unsent(x)
    BY <1>12, <1>quiet DEF ExecuteRule, RuleFails, ConvertRule, Convert, ConvertRuleFails
  <1>13. ASSUME NEW n \in Nodes, NEW saved, Flush(n, saved) PROVE Unsent(x)' => Unsent(x)
    BY <1>13, <1>quiet DEF Flush
  <1>14. CASE Tick \/ UNCHANGED vars
    BY <1>14, <1>quiet DEF Tick, vars
  <1>15. QED
    BY <1>1, <1>2, <1>3, <1>4, <1>5, <1>6, <1>7, <1>8, <1>9, <1>10, <1>11, <1>12, <1>13, <1>14
       DEF Next, Match

LEMMA ProgressStep ==
  ASSUME TypeOK, RequestInv, KindInv, NEW x \in Results, Progress(x), [Next]_vars
  PROVE  Progress(x)'
  <1>nat. /\ stages[x] \in Nat /\ executed[x] \in Nat
          /\ x[1] \in Requests /\ x[1] # NoRequest /\ x = <<x[1], x[2]>>
          /\ x[2] \in 1..Len(RulesFor(x[1])) /\ Len(RulesFor(x[1])) \in Nat
    BY ResultPair, PlaceRange, PipelineAssumption DEF TypeOK
  <1>sent. Unsent(x)' => Unsent(x)
    BY UnsentStep
  \* Nothing happens to x but that its message may get lost.
  <1>still. ASSUME executed'[x] = executed[x], stages'[x] = stages[x],
                   InList(x)' => InList(x),
                   \A m \in Nodes : InRun(m, x)' => InRun(m, x) /\ place'[m] = place[m],
                   \A m \in Nodes : InChannel(m, x)' => InChannel(m, x)
            PROVE  Progress(x)'
    BY <1>sent, <1>still DEF Progress
  <1>quiet. UNCHANGED <<setQ, ruleQ, order, channels, executed, stages>> => Progress(x)'
    BY <1>still DEF InList, InRun, InChannel
  <1>1. ASSUME NEW n \in Nodes, DispatchRuleSet(n) PROVE Progress(x)'
    <2>1. /\ UNCHANGED <<ruleQ, order, channels, executed, stages>>
          /\ setQ' = setQ \cup {matching[n]}
      BY <1>1 DEF DispatchRuleSet
    <2>2. CASE x[1] = matching[n]
      <3>1. fate[x[1]] = "matching" /\ \A m \in Nodes : matching[m] = x[1] => m = n
        BY <2>2, OneHand
      <3>2. Unsent(x)
        BY <1>1, <2>2 DEF DispatchRuleSet, SendsSet, Unsent
      <3>3. fate'[x[1]] = "dispatched" /\ \A m \in Nodes : matching'[m] # x[1]
        BY <1>1, <1>nat, <2>2, <3>1 DEF DispatchRuleSet, Dispatched, TypeOK
      <3>4. ~Unsent(x)'
        BY <3>3 DEF Unsent
      <3>5. /\ executed[x] = 0
            /\ \A m \in Nodes : ~InRun(m, x) /\ ~InChannel(m, x)
            /\ ~(stages[x] > 0)
        BY <3>2 DEF Progress
      <3>6. \A m \in Nodes : ~InRun(m, x)' /\ ~InChannel(m, x)'
        BY <2>1, <3>5 DEF InRun, InChannel
      <3>7. QED
        BY <2>1, <3>4, <3>5, <3>6 DEF Progress
    <2>3. CASE x[1] # matching[n]
      BY <1>still, <2>1, <2>3 DEF InList, InRun, InChannel
    <2>4. QED
      BY <2>2, <2>3
  <1>2. ASSUME NEW n \in Nodes, DispatchRule(n) PROVE Progress(x)'
    <2> DEFINE y == <<matching[n], next[n]>>
    <2>1. /\ UNCHANGED <<setQ, order, channels, executed, stages>>
          /\ ruleQ' = ruleQ \cup {y}
          /\ SendsRule(n) /\ ToNextRule(n)
      BY <1>2 DEF DispatchRule
    <2>2. CASE x = y
      <3>1. Unsent(x) /\ ~Unsent(x)'
        BY <2>1, <2>2, LoopStep
      <3>2. /\ executed[x] = 0
            /\ \A m \in Nodes : ~InRun(m, x) /\ ~InChannel(m, x)
            /\ ~(stages[x] > 0)
        BY <3>1 DEF Progress
      <3>3. \A m \in Nodes : ~InRun(m, x)' /\ ~InChannel(m, x)'
        BY <2>1, <3>2 DEF InRun, InChannel
      <3>4. QED
        BY <2>1, <3>1, <3>2, <3>3 DEF Progress
    <2>3. CASE x # y
      BY <1>still, <2>1, <2>3 DEF InList, InRun, InChannel
    <2>4. QED
      BY <2>2, <2>3
  <1>3. ASSUME NEW n \in Nodes, NEW q \in Requests, TakeRuleSet(n, q) PROVE Progress(x)'
    <2>1. /\ UNCHANGED <<ruleQ, channels, executed, stages>>
          /\ q \in setQ /\ setQ' = setQ \ {q}
          /\ running[n] = NoRequest
          /\ running' = [running EXCEPT ![n] = q] /\ place' = [place EXCEPT ![n] = 1]
      BY <1>3 DEF TakeRuleSet
    <2>2. CASE x[1] = q
      <3>1. InList(x)
        BY <2>1, <2>2 DEF InList
      <3>2. /\ executed[x] = 0 /\ ~Unsent(x) /\ ~(stages[x] > 0)
            /\ \A m \in Nodes : ~InRun(m, x) /\ ~InChannel(m, x)
        BY <3>1 DEF Progress
      <3>3. \A m \in Nodes : (InRun(m, x)' => m = n) /\ ~InChannel(m, x)'
        BY <2>1, <2>2, <3>2 DEF InRun, InChannel, TypeOK
      <3>4. ~InList(x)'
        BY <2>1, <2>2 DEF InList, KindInv
      <3>5. place'[n] =< x[2]
        BY <1>nat, <2>1 DEF TypeOK
      <3>6. QED
        BY <1>nat, <1>sent, <2>1, <3>2, <3>3, <3>4, <3>5 DEF Progress
    <2>3. CASE x[1] # q
      <3>1. \A m \in Nodes : InRun(m, x)' => InRun(m, x) /\ place'[m] = place[m]
        BY <2>1, <2>3 DEF InRun, TypeOK
      <3>2. QED
        BY <1>still, <2>1, <3>1 DEF InList, InChannel
    <2>4. QED
      BY <2>2, <2>3
  <1>4. ASSUME NEW n \in Nodes, ExecuteNextRule(n) PROVE Progress(x)'
    <2> DEFINE y == <<running[n], place[n]>>
    <2>1. /\ UNCHANGED <<setQ, ruleQ, running, channels, stages>>
          /\ executed' = [executed EXCEPT ![y] = executed[y] + 1]
          /\ place' = [place EXCEPT ![n] = place[n] + 1]
      BY <1>4 DEF ExecuteNextRule
    <2>2. y \in Results /\ place[n] \in Nat
      BY <1>4, RunPlace DEF ExecuteNextRule, TypeOK
    <2>3. CASE InRun(n, x)
      <3>1. /\ executed[x] = IF place[n] =< x[2] THEN 0 ELSE 1
            /\ stages[x] = 0 /\ ~InList(x) /\ ~Unsent(x)
            /\ \A m \in Nodes : ~InChannel(m, x) /\ (InRun(m, x) => m = n)
        BY <2>3 DEF Progress
      <3>2. /\ ~InList(x)'
            /\ \A m \in Nodes : ~InChannel(m, x)' /\ (InRun(m, x)' => m = n)
        BY <2>1, <3>1 DEF InList, InRun, InChannel
      <3>3. x = y <=> place[n] = x[2]
        BY <1>nat, <2>3 DEF InRun
      <3>4. executed'[x] = IF place[n] = x[2] THEN executed[x] + 1 ELSE executed[x]
        BY <2>1, <2>2, <3>3 DEF TypeOK
      <3>5. place'[n] = place[n] + 1
        BY <2>1 DEF TypeOK
      <3>6. executed'[x] = IF place'[n] =< x[2] THEN 0 ELSE 1
        BY <1>nat, <2>2, <3>1, <3>4, <3>5
      <3>7. QED
        BY <1>sent, <2>1, <3>1, <3>2, <3>6 DEF Progress
    <2>4. CASE ~InRun(n, x)
      <3>1. x # y /\ \A m \in Nodes : InRun(m, x) => place'[m] = place[m]
        BY <1>nat, <2>1, <2>4 DEF InRun, TypeOK
      <3>2. QED
        BY <1>still, <2>1, <2>2, <3>1 DEF InList, InRun, InChannel, TypeOK
    <2>5. QED
      BY <2>3, <2>4
  <1>5. ASSUME NEW n \in Nodes, HandOn(n) PROVE Progress(x)'
    <2> DEFINE q == running[n]
    <2>1. /\ UNCHANGED <<setQ, ruleQ, ruleOut, executed, stages>>
          /\ place[n] > Len(RulesFor(q))
          /\ setOut' = [setOut EXCEPT ![n] = setOut[n] \cup {q}]
          /\ running' = [running EXCEPT ![n] = NoRequest]
          /\ place' = [place EXCEPT ![n] = 1]
      BY <1>5 DEF HandOn
    <2>2. CASE x[1] = q
      <3>0. InRun(n, x) /\ place[n] \in Nat
        BY <2>2 DEF InRun, TypeOK
      <3>1. /\ executed[x] = 1
            /\ stages[x] = 0 /\ ~InList(x) /\ ~Unsent(x)
            /\ \A m \in Nodes : ~InChannel(m, x) /\ (InRun(m, x) => m = n)
        BY <1>nat, <2>1, <2>2, <3>0 DEF Progress
      <3>2. ~InList(x)' /\ \A m \in Nodes : InChannel(m, x)' => m = n
        BY <2>1, <3>1 DEF InList, InChannel, TypeOK
      <3>3. \A m \in Nodes : ~InRun(m, x)'
        BY <1>nat, <2>1, <3>1 DEF InRun, TypeOK
      <3>4. QED
        BY <1>sent, <2>1, <3>1, <3>2, <3>3 DEF Progress
    <2>3. CASE x[1] # q
      <3>1. \A m \in Nodes : InRun(m, x)' => InRun(m, x) /\ place'[m] = place[m]
        BY <1>nat, <2>1, <2>3 DEF InRun, TypeOK
      <3>2. \A m \in Nodes : InChannel(m, x)' => InChannel(m, x)
        BY <2>1, <2>3 DEF InChannel, TypeOK
      <3>3. QED
        BY <1>still, <2>1, <3>1, <3>2 DEF InList
    <2>4. QED
      BY <2>2, <2>3
  <1>6. ASSUME NEW n \in Nodes, RuleSetFails(n) PROVE Progress(x)'
    <2>1. \A m \in Nodes : InRun(m, x)' => InRun(m, x) /\ place'[m] = place[m]
      BY <1>6, <1>nat DEF RuleSetFails, InRun, TypeOK
    <2>2. QED
      BY <1>6, <1>still, <2>1 DEF RuleSetFails, InList, InChannel
  <1>7. ASSUME NEW n \in Nodes, NEW y \in Results, ExecuteRule(n, y) PROVE Progress(x)'
    <2>1. CASE x = y
      <3>1. InList(x) /\ ~InOrder(x[1])
        BY <1>7, <2>1 DEF ExecuteRule, InList, KindInv
      <3>2. /\ executed[x] = 0 /\ stages[x] = 0 /\ ~Unsent(x)
            /\ \A m \in Nodes : ~InRun(m, x) /\ ~InChannel(m, x)
        BY <1>nat, <3>1 DEF Progress
      <3>3. executed'[x] = 1 /\ stages'[x] = 0
        BY <1>7, <2>1, <3>2 DEF ExecuteRule, TypeOK
      <3>4. ~InList(x)'
        BY <1>7, <2>1, <3>1 DEF ExecuteRule, KindInv, InList
      <3>5. \A m \in Nodes : ~InRun(m, x)' /\ (InChannel(m, x)' => m = n)
        BY <1>7, <3>2 DEF ExecuteRule, InRun, InChannel, TypeOK
      <3>6. QED
        BY <1>sent, <3>2, <3>3, <3>4, <3>5 DEF Progress
    <2>2. CASE x # y
      BY <1>7, <1>still, <2>2 DEF ExecuteRule, InList, InRun, InChannel, TypeOK
    <2>3. QED
      BY <2>1, <2>2
  <1>8. ASSUME NEW n \in Nodes, NEW y \in Results, RuleFails(n, y) PROVE Progress(x)'
    <2>1. /\ UNCHANGED <<setQ, order, channels, stages>>
          /\ y \in ruleQ /\ ruleQ' = ruleQ \ {y}
          /\ executed' = executed \/ executed' = [executed EXCEPT ![y] = executed[y] + 1]
      BY <1>8 DEF RuleFails
    <2>2. CASE x = y
      <3>1. InList(x) /\ ~InOrder(x[1])
        BY <2>1, <2>2 DEF InList, KindInv
      <3>2. /\ executed[x] = 0 /\ stages[x] = 0 /\ ~Unsent(x)
            /\ \A m \in Nodes : ~InRun(m, x) /\ ~InChannel(m, x)
        BY <1>nat, <3>1 DEF Progress
      <3>3. executed'[x] \in {0, 1} /\ stages'[x] = 0
        BY <2>1, <2>2, <3>2 DEF TypeOK
      <3>4. ~InList(x)' /\ \A m \in Nodes : ~InRun(m, x)' /\ ~InChannel(m, x)'
        BY <2>1, <2>2, <3>1, <3>2 DEF KindInv, InList, InRun, InChannel
      <3>5. QED
        BY <1>sent, <3>2, <3>3, <3>4 DEF Progress
    <2>3. CASE x # y
      <3>1. executed'[x] = executed[x]
        BY <2>1, <2>3 DEF TypeOK
      <3>2. QED
        BY <1>still, <2>1, <3>1 DEF InList, InRun, InChannel
    <2>4. QED
      BY <2>2, <2>3
  \* A conversion takes the result out of its channel, and only then counts.
  <1>convert. ASSUME NEW n \in Nodes,
                     InChannel(n, x) => ~InChannel(n, x)',
                     \A m \in Nodes : InChannel(m, x)' => InChannel(m, x),
                     stages'[x] \in Nat,
                     InChannel(n, x) \/ stages'[x] = stages[x],
                     UNCHANGED <<setQ, ruleQ, order, executed>>
              PROVE  Progress(x)'
    <2>1. CASE InChannel(n, x)
      <3>1. executed[x] = 1 /\ \A m \in Nodes : (InChannel(m, x) => m = n) /\ ~InRun(m, x)
        BY <2>1 DEF Progress
      <3>2. \A m \in Nodes : ~InChannel(m, x)' /\ ~InRun(m, x)'
        BY <1>convert, <2>1, <3>1 DEF InRun
      <3>3. InList(x)' => InList(x)
        BY <1>convert DEF InList
      <3>4. QED
        BY <1>convert, <1>sent, <3>1, <3>2, <3>3 DEF Progress
    <2>2. CASE ~InChannel(n, x)
      BY <1>convert, <1>still, <2>2 DEF InList, InRun
    <2>3. QED
      BY <2>1, <2>2
  <1>9. ASSUME NEW n \in Nodes, NEW q \in Requests, ConvertRuleSet(n, q) PROVE Progress(x)'
    <2>1. /\ \A m \in Nodes : InChannel(m, x)' => InChannel(m, x)
          /\ UNCHANGED <<setQ, ruleQ, order, executed>>
      BY <1>9 DEF ConvertRuleSet, InChannel, TypeOK
    <2>2. CASE x[1] = q
      <3>1. InChannel(n, x) /\ ~InChannel(n, x)'
        BY <1>9, <2>2 DEF ConvertRuleSet, InChannel, TypeOK, KindInv
      <3>2. stages'[x] \in Nat
        BY <1>9, <1>nat, PlaceRange DEF ConvertRuleSet
      <3>3. QED
        BY <1>convert, <2>1, <3>1, <3>2
    <2>3. CASE x[1] # q
      <3>1. stages'[x] = stages[x]
        BY <1>9, <2>3 DEF ConvertRuleSet
      <3>2. QED
        BY <1>still, <2>1, <3>1 DEF InList, InRun
    <2>4. QED
      BY <2>2, <2>3
  <1>10. ASSUME NEW n \in Nodes, NEW q \in Requests,
                NEW whole \in 0..Len(RulesFor(q)), NEW types \in SUBSET MatchTypes,
                ConvertRuleSetFails(n, q, whole, types)
         PROVE  Progress(x)'
    <2>1. /\ \A m \in Nodes : InChannel(m, x)' => InChannel(m, x)
          /\ UNCHANGED <<setQ, ruleQ, order, executed>>
      BY <1>10 DEF ConvertRuleSetFails, InChannel, TypeOK
    <2>2. CASE x[1] = q
      <3>1. InChannel(n, x) /\ ~InChannel(n, x)'
        BY <1>10, <2>2 DEF ConvertRuleSetFails, InChannel, TypeOK, KindInv
      <3>2. stages'[x] \in Nat
        BY <1>10, <1>nat, PlaceRange DEF ConvertRuleSetFails
      <3>3. QED
        BY <1>convert, <2>1, <3>1, <3>2
    <2>3. CASE x[1] # q
      <3>1. stages'[x] = stages[x]
        BY <1>10, <2>3 DEF ConvertRuleSetFails
      <3>2. QED
        BY <1>still, <2>1, <3>1 DEF InList, InRun
    <2>4. QED
      BY <2>2, <2>3
  <1>11. ASSUME NEW n \in Nodes, NEW y \in Results, ConvertRule(n, y) PROVE Progress(x)'
    <2>1. /\ \A m \in Nodes : InChannel(m, x)' => InChannel(m, x)
          /\ UNCHANGED <<setQ, ruleQ, order, executed>>
      BY <1>11 DEF ConvertRule, Convert, InChannel, TypeOK
    <2>2. CASE x = y
      <3>1. InChannel(n, x) /\ ~InChannel(n, x)'
        BY <1>11, <2>2 DEF ConvertRule, Convert, InChannel, TypeOK, KindInv
      <3>2. stages'[x] \in Nat
        BY <1>11, <1>nat, <2>2 DEF ConvertRule, Convert, TypeOK
      <3>3. QED
        BY <1>convert, <2>1, <3>1, <3>2
    <2>3. CASE x # y
      <3>1. stages'[x] = stages[x]
        BY <1>11, <2>3 DEF ConvertRule, Convert, TypeOK
      <3>2. QED
        BY <1>still, <2>1, <3>1 DEF InList, InRun
    <2>4. QED
      BY <2>2, <2>3
  <1>12. ASSUME NEW n \in Nodes, NEW y \in Results, ConvertRuleFails(n, y) PROVE Progress(x)'
    <2>1. \A m \in Nodes : InChannel(m, x)' => InChannel(m, x)
      BY <1>12 DEF ConvertRuleFails, InChannel, TypeOK
    <2>2. QED
      BY <1>12, <1>still, <2>1 DEF ConvertRuleFails, InList, InRun
  <1>13. ASSUME NEW n \in Nodes, Crash(n) PROVE Progress(x)'
    <2>1. \A m \in Nodes : /\ InRun(m, x)' => InRun(m, x) /\ place'[m] = place[m]
                           /\ InChannel(m, x)' => InChannel(m, x)
      BY <1>13, <1>nat DEF Crash, InRun, InChannel, TypeOK
    <2>2. QED
      BY <1>13, <1>still, <2>1 DEF Crash, InList
  <1>14. QED
    BY <1>quiet, <1>1, <1>2, <1>3, <1>4, <1>5, <1>6, <1>7, <1>8, <1>9, <1>10, <1>11, <1>12, <1>13
       DEF Next, Match, RunRules, Submit, TakeRequest, Refuse, MatchFails, RuleSetUnsent,
           RuleUnsent, StartListener, Evaluate, StartLoop, Flush, Tick, vars

LEMMA KeptStep ==
  ASSUME TypeOK, RequestInv, NEW x \in Results, Kept(x), [Next]_vars
  PROVE  Kept(x)'
  <1> SUFFICES ASSUME failures' = 0, crashes' = 0 PROVE Kept(x)'
    BY DEF Kept
  <1>nat. /\ stages[x] \in Nat /\ x[1] \in Requests /\ x[1] # NoRequest /\ x = <<x[1], x[2]>>
          /\ x[2] \in 1..Len(RulesFor(x[1])) /\ Len(RulesFor(x[1])) \in Nat
          /\ failures \in Nat /\ crashes \in Nat
    BY ResultPair, PlaceRange, PipelineAssumption DEF TypeOK
  <1>same. InOrder(x[1])' = InOrder(x[1])
    BY DEF InOrder, MatchedSet
  \* Wherever a result is, it stays or goes on.
  <1>moves. ASSUME UNCHANGED <<failures, crashes>>,
                   stages'[x] = stages[x] \/ stages'[x] > 0,
                   Unsent(x) => Unsent(x)' \/ InList(x)' \/ fate'[x[1]] = "refused",
                   fate[x[1]] = "refused" => fate'[x[1]] = "refused",
                   InList(x) => InList(x)' \/ \E m \in Nodes : InRun(m, x)' \/ InChannel(m, x)',
                   \A m \in Nodes : InRun(m, x) => InRun(m, x)' \/ InChannel(m, x)',
                   \A m \in Nodes : InChannel(m, x) => InChannel(m, x)' \/ stages'[x] > 0
            PROVE  Kept(x)'
    <2>1. \/ Unsent(x) \/ fate[x[1]] = "refused" \/ InList(x)
          \/ \E n \in Nodes : InRun(n, x) \/ InChannel(n, x)
          \/ stages[x] > 0
      BY <1>moves DEF Kept
    <2>2. CASE \E n \in Nodes : InRun(n, x) \/ InChannel(n, x)
      BY <1>moves, <2>2 DEF Kept
    <2>3. QED
      BY <1>moves, <2>1, <2>2 DEF Kept
  <1>quiet. ASSUME UNCHANGED <<setQ, ruleQ, running, channels, stages, failures, crashes>>,
                   Unsent(x) => Unsent(x)' \/ fate'[x[1]] = "refused",
                   fate[x[1]] = "refused" => fate'[x[1]] = "refused"
            PROVE  Kept(x)'
    BY <1>moves, <1>quiet DEF InList, InRun, InChannel
  <1>later. ASSUME UNCHANGED <<intake, failures, crashes>>,
                   stages'[x] = stages[x] \/ stages'[x] > 0,
                   InList(x) => InList(x)' \/ \E m \in Nodes : InRun(m, x)' \/ InChannel(m, x)',
                   \A m \in Nodes : InRun(m, x) => InRun(m, x)' \/ InChannel(m, x)',
                   \A m \in Nodes : InChannel(m, x) => InChannel(m, x)' \/ stages'[x] > 0
            PROVE  Kept(x)'
    <2>1. Unsent(x) => Unsent(x)'
      BY <1>later, <1>same DEF Unsent
    <2>2. QED
      BY <1>later, <1>moves, <2>1
  <1>1. ASSUME NEW q \in Requests, Submit(q) PROVE Kept(x)'
    <2>1. Unsent(x) => Unsent(x)'
      BY <1>1, <1>nat, <1>same DEF Submit, TypeOK, Unsent
    <2>2. QED
      BY <1>1, <1>quiet, <1>nat, <2>1 DEF Submit, TypeOK
  <1>2. ASSUME NEW n \in Nodes, NEW q \in Requests, TakeRequest(n, q) PROVE Kept(x)'
    <2>1. CASE x[1] = q
      <3>1. matching'[n] = x[1] /\ next'[n] = 1
        BY <1>2, <2>1 DEF TakeRequest, TypeOK
      <3>2. Unsent(x)'
        BY <1>nat, <3>1 DEF Unsent
      <3>3. QED
        BY <3>2 DEF Kept
    <2>2. CASE x[1] # q
      <3>1. fate'[x[1]] = fate[x[1]]
        BY <1>2, <1>nat, <2>2 DEF TakeRequest, TypeOK
      <3>2. \A m \in Nodes : matching[m] = x[1] => matching'[m] = x[1] /\ next'[m] = next[m]
        BY <1>2, <1>nat DEF TakeRequest, TypeOK
      <3>3. Unsent(x) => Unsent(x)'
        BY <1>same, <3>1, <3>2 DEF Unsent
      <3>4. QED
        BY <1>2, <1>quiet, <3>1, <3>3 DEF TakeRequest
    <2>3. QED
      BY <2>1, <2>2
  <1>3. ASSUME NEW n \in Nodes, Refuse(n) PROVE Kept(x)'
    <2>1. CASE x[1] = matching[n]
      <3>1. fate'[x[1]] = "refused"
        BY <1>3, <1>nat, <2>1 DEF Refuse, TypeOK
      <3>2. QED
        BY <3>1 DEF Kept
    <2>2. CASE x[1] # matching[n]
      <3>1. fate'[x[1]] = fate[x[1]]
        BY <1>3, <1>nat, <2>2 DEF Refuse, TypeOK
      <3>2. \A m \in Nodes : matching[m] = x[1] => matching'[m] = x[1] /\ next'[m] = next[m]
        BY <1>3, <1>nat, <2>2 DEF Refuse, TypeOK
      <3>3. Unsent(x) => Unsent(x)'
        BY <1>same, <3>1, <3>2 DEF Unsent
      <3>4. QED
        BY <1>3, <1>quiet, <3>1, <3>3 DEF Refuse
    <2>3. QED
      BY <2>1, <2>2
  <1>4. ASSUME NEW n \in Nodes, DispatchRuleSet(n) PROVE Kept(x)'
    <2>1. CASE x[1] = matching[n]
      <3>1. InList(x)'
        BY <1>4, <2>1 DEF DispatchRuleSet, InList
      <3>2. QED
        BY <3>1 DEF Kept
    <2>2. CASE x[1] # matching[n]
      <3>1. fate'[x[1]] = fate[x[1]]
        BY <1>4, <1>nat, <2>2 DEF DispatchRuleSet, Dispatched, TypeOK
      <3>2. \A m \in Nodes : matching[m] = x[1] => matching'[m] = x[1] /\ next'[m] = next[m]
        BY <1>4, <1>nat, <2>2 DEF DispatchRuleSet, Dispatched, TypeOK
      <3>3. Unsent(x) => Unsent(x)'
        BY <1>same, <3>1, <3>2 DEF Unsent
      <3>4. QED
        BY <1>4, <1>moves, <3>1, <3>3 DEF DispatchRuleSet, InList, InRun, InChannel
    <2>3. QED
      BY <2>1, <2>2
  <1>5. ASSUME NEW n \in Nodes, DispatchRule(n) PROVE Kept(x)'
    <2> DEFINE q == matching[n]
    <2>1. /\ UNCHANGED <<setQ, order, channels, stages, failures, crashes>>
          /\ ruleQ' = ruleQ \cup {<<q, next[n]>>}
          /\ SendsRule(n) /\ ToNextRule(n)
      BY <1>5 DEF DispatchRule
    <2>2. q \in Requests /\ fate[q] = "matching"
      BY <2>1, NextPlace
    <2>3. Unsent(x) => Unsent(x)' \/ InList(x)'
      <3>0. next[n] \in Nat /\ x[2] \in Nat
        BY <1>nat DEF TypeOK
      <3>1. /\ x[1] = q /\ next[n] < x[2] => Unsent(x)'
            /\ x[1] # q => (Unsent(x)' <=> Unsent(x))
            /\ x[1] = q => (Unsent(x) => next[n] =< x[2])
        BY <2>1, LoopStep
      <3>2. x[1] = q /\ next[n] = x[2] => InList(x)'
        BY <1>nat, <2>1 DEF InList
      <3>3. QED
        BY <3>0, <3>1, <3>2
    <2>4. fate[x[1]] = "refused" => fate'[x[1]] = "refused"
      BY <1>nat, <2>1, <2>2 DEF ToNextRule, TypeOK
    <2>5. QED
      BY <1>moves, <2>1, <2>3, <2>4 DEF InList, InRun, InChannel
  <1>6. ASSUME NEW n \in Nodes, StartListener(n) \/ Evaluate(n) PROVE Kept(x)'
    BY <1>6, <1>later DEF StartListener, Evaluate, InList, InRun, InChannel
  <1>7. ASSUME NEW n \in Nodes, NEW loop, StartLoop(n, loop) PROVE Kept(x)'
    BY <1>7, <1>later DEF StartLoop, InList, InRun, InChannel
  <1>8. ASSUME NEW n \in Nodes, NEW q \in Requests, TakeRuleSet(n, q) PROVE Kept(x)'
    <2>1. InList(x) => InList(x)' \/ InRun(n, x)'
      BY <1>8 DEF TakeRuleSet, TypeOK, InList, InRun
    <2>2. \A m \in Nodes : InRun(m, x) => InRun(m, x)'
      BY <1>8, <1>nat DEF TakeRuleSet, TypeOK, InRun
    <2>3. QED
      BY <1>8, <1>later, <2>1, <2>2 DEF TakeRuleSet, InChannel
  <1>9. ASSUME NEW n \in Nodes, ExecuteNextRule(n) PROVE Kept(x)'
    BY <1>9, <1>later DEF ExecuteNextRule, InList, InRun, InChannel
  <1>10. ASSUME NEW n \in Nodes, HandOn(n) PROVE Kept(x)'
    <2>1. \A m \in Nodes : InRun(m, x) => InRun(m, x)' \/ InChannel(m, x)'
      BY <1>10 DEF HandOn, TypeOK, InRun, InChannel
    <2>2. \A m \in Nodes : InChannel(m, x) => InChannel(m, x)'
      BY <1>10 DEF HandOn, TypeOK, InChannel
    <2>3. QED
      BY <1>10, <1>later, <2>1, <2>2 DEF HandOn, InList
  <1>11. ASSUME NEW n \in Nodes, NEW y \in Results, ExecuteRule(n, y) PROVE Kept(x)'
    <2>1. InList(x) => InList(x)' \/ InChannel(n, x)'
      BY <1>11 DEF ExecuteRule, TypeOK, InList, InChannel
    <2>2. \A m \in Nodes : InChannel(m, x) => InChannel(m, x)'
      BY <1>11 DEF ExecuteRule, TypeOK, InChannel
    <2>3. QED
      BY <1>11, <1>later, <2>1, <2>2 DEF ExecuteRule, InRun
  <1>12. ASSUME NEW n \in Nodes, NEW q \in Requests, ConvertRuleSet(n, q) PROVE Kept(x)'
    <2>1. CASE x[1] = q
      <3>1. stages'[x] = stages[x] + Len(RulesFor(q))
        BY <1>12, <2>1 DEF ConvertRuleSet
      <3>2. stages'[x] > 0
        BY <1>nat, <2>1, <3>1
      <3>3. QED
        BY <3>2 DEF Kept
    <2>2. CASE x[1] # q
      <3>1. stages'[x] = stages[x]
        BY <1>12, <2>2 DEF ConvertRuleSet
      <3>2. \A m \in Nodes : InChannel(m, x) => InChannel(m, x)'
        BY <1>12, <2>2 DEF ConvertRuleSet, TypeOK, InChannel
      <3>3. QED
        BY <1>12, <1>later, <3>1, <3>2 DEF ConvertRuleSet, InList, InRun
    <2>3. QED
      BY <2>1, <2>2
  <1>13. ASSUME NEW n \in Nodes, NEW y \in Results, ConvertRule(n, y) PROVE Kept(x)'
    <2>1. CASE x = y
      <3>1. stages'[x] = stages[x] + 1
        BY <1>13, <2>1 DEF ConvertRule, Convert, TypeOK
      <3>2. QED
        BY <1>nat, <3>1 DEF Kept
    <2>2. CASE x # y
      <3>1. stages'[x] = stages[x]
        BY <1>13, <2>2 DEF ConvertRule, Convert, TypeOK
      <3>2. \A m \in Nodes : InChannel(m, x) => InChannel(m, x)'
        BY <1>13, <2>2 DEF ConvertRule, Convert, TypeOK, InChannel
      <3>3. QED
        BY <1>13, <1>later, <3>1, <3>2 DEF ConvertRule, Convert, InList, InRun
    <2>3. QED
      BY <2>1, <2>2
  \* A failure or a restart is counted.
  <1>14. ASSUME NEW n \in Nodes,
                MatchFails(n) \/ RuleSetUnsent(n) \/ RuleUnsent(n) \/ RuleSetFails(n) \/ Crash(n)
         PROVE  Kept(x)'
    BY <1>14, <1>nat DEF MatchFails, RuleSetUnsent, RuleUnsent, RuleSetFails, Crash
  <1>15. ASSUME NEW n \in Nodes, NEW y, RuleFails(n, y) \/ ConvertRuleFails(n, y)
         PROVE  Kept(x)'
    BY <1>15, <1>nat DEF RuleFails, ConvertRuleFails
  <1>16. ASSUME NEW n \in Nodes, NEW q, NEW whole, NEW types,
                ConvertRuleSetFails(n, q, whole, types)
         PROVE  Kept(x)'
    BY <1>16, <1>nat DEF ConvertRuleSetFails
  <1>17. ASSUME NEW n \in Nodes, NEW saved, Flush(n, saved) PROVE Kept(x)'
    BY <1>17, <1>later DEF Flush, InList, InRun, InChannel
  <1>18. CASE Tick \/ UNCHANGED vars
    BY <1>18, <1>later DEF Tick, vars, InList, InRun, InChannel
  <1>19. QED
    BY <1>1, <1>2, <1>3, <1>4, <1>5, <1>6, <1>7, <1>8, <1>9, <1>10, <1>11, <1>12, <1>13,
       <1>14, <1>15, <1>16, <1>17, <1>18 DEF Next, Match, RunRules

LEMMA PInvInit == Init => PInv
  <1> SUFFICES ASSUME Init PROVE PInv
    OBVIOUS
  <1>1. RequestInv /\ KindInv
    BY DEF Init, RequestInv, KindInv
  <1>2. ASSUME NEW x \in Results PROVE Progress(x) /\ Kept(x)
    <2>1. fate[x[1]] = "new" /\ x[1] # NoRequest
      BY ResultPair, PipelineAssumption DEF Init
    <2>2. QED
      BY <2>1 DEF Init, Progress, Kept, Unsent, InList, InRun, InChannel
  <1>3. QED
    BY <1>1, <1>2, TypeInit DEF PInv

\* The invariant of the way from the request to the table.
THEOREM PipelineInvariant == Spec => []PInv
  <1>1. PInv /\ [Next]_vars => PInv'
    BY TypeStep, RequestStep, KindStep, ProgressStep, KeptStep DEF PInv
  <1>2. QED
    BY <1>1, PInvInit, PTL DEF Spec

\* Requests, lists, channels and tables hold what they are declared to hold.
THEOREM PipelineTypeCorrect == Spec => []TypeOK
  BY PipelineInvariant, PTL DEF PInv

\* No rule of a request is executed twice, with any number of nodes, failures
\* and restarts, wherever a restart meets a rule set that runs.
THEOREM RulesRunOnce == Spec => []ExecutedOnce
  <1>1. PInv => ExecutedOnce
    <2> SUFFICES ASSUME PInv, NEW x \in Results
                 PROVE  executed[x] + (IF ToRun(x) THEN 1 ELSE 0) =< 1
      BY DEF ExecutedOnce
    <2>1. executed[x] \in Nat /\ executed[x] =< 1
      BY DEF PInv, TypeOK, Progress
    <2>2. ToRun(x) => executed[x] = 0
      BY DEF PInv, Progress, ToRun
    <2>3. QED
      BY <2>1, <2>2
  <1>2. QED
    BY <1>1, PipelineInvariant, PTL

\* A result is in one place at a time, and in some place as long as nothing
\* has failed.
THEOREM ResultsInOnePlace == Spec => []OnePlace
  <1>1. PInv => OnePlace
    <2> SUFFICES ASSUME PInv, NEW x \in Results
                 PROVE  /\ \A a, b \in Where(x) : a = b
                        /\ failures = 0 /\ crashes = 0 /\ fate[x[1]] = "dispatched"
                             => Where(x) # {}
      BY DEF OnePlace
    <2>1. /\ executed[x] \in Nat /\ stages[x] \in Nat
          /\ Progress(x) /\ Kept(x) /\ RequestInv
      BY DEF PInv, TypeOK
    <2>2. \A a, b \in Where(x) : a = b
      <3>1. InList(x) => stages[x] = 0 /\ \A n \in Nodes : ~InChannel(n, x) /\ ~InRun(n, x)
        BY <2>1 DEF Progress
      <3>2. \A n \in Nodes : InRun(n, x) =>
              stages[x] = 0 /\ \A m \in Nodes : ~InChannel(m, x) /\ (InRun(m, x) => m = n)
        BY <2>1 DEF Progress
      <3>3. \A n \in Nodes : InChannel(n, x) =>
              stages[x] = 0 /\ \A m \in Nodes : InChannel(m, x) => m = n
        BY <2>1 DEF Progress
      <3>4. QED
        BY <3>1, <3>2, <3>3 DEF Where
    <2>3. ASSUME failures = 0, crashes = 0, fate[x[1]] = "dispatched"
          PROVE  Where(x) # {}
      <3>1. x[1] # NoRequest
        BY ResultPair, PipelineAssumption
      <3>2. ~Unsent(x)
        BY <2>1, <2>3, <3>1 DEF RequestInv, Unsent
      <3>3. InList(x) \/ (\E n \in Nodes : InRun(n, x) \/ InChannel(n, x)) \/ stages[x] > 0
        BY <2>1, <2>3, <3>2 DEF Kept
      <3>4. QED
        BY <3>3 DEF Where
    <2>4. QED
      BY <2>2, <2>3
  <1>2. QED
    BY <1>1, PipelineInvariant, PTL

------------------------------------------------------------------------------
(* Answers: orders of finite sets of rows.                                  *)

\* Among finite sets there is one that none of the others is a part of. It stands
\* in for induction.
LEMMA SmallestFinite ==
  ASSUME NEW U, NEW F, F # {}, F \subseteq FiniteSubsetsOf(U)
  PROVE  \E S \in F : \A T \in F : T \subseteq S => T = S
  <1>1. PICK S \in F : \A T \in F : <<T, S>> \notin StrictSubsetOrdering(U)
    BY FS_StrictSubsetOrderingWellFounded, WFMin
  <1>2. QED
    BY <1>1 DEF StrictSubsetOrdering, FiniteSubsetsOf

\* A set of numbers has a least one.
LEMMA LeastNatural ==
  ASSUME NEW T, T \subseteq Nat, T # {}
  PROVE  \E m \in T : \A k \in T : m =< k
  <1> DEFINE Upto == {1..k : k \in T}
  <1>1. Upto \subseteq FiniteSubsetsOf(Nat) /\ Upto # {}
    <2>1. ASSUME NEW k \in T PROVE 1..k \in FiniteSubsetsOf(Nat)
      <3>1. IsFiniteSet(1..k)
        BY FS_Interval
      <3>2. 1..k \subseteq Nat
        OBVIOUS
      <3>3. QED
        BY <3>1, <3>2 DEF FiniteSubsetsOf
    <2>2. QED
      BY <2>1
  <1>2. PICK m \in T : \A k \in T : 1..k \subseteq 1..m => 1..k = 1..m
    <2> HIDE DEF Upto
    <2>1. PICK S \in Upto : \A R \in Upto : R \subseteq S => R = S
      BY <1>1, SmallestFinite
    <2>2. PICK m \in T : S = 1..m
      BY DEF Upto
    <2>3. \A k \in T : 1..k \in Upto
      BY DEF Upto
    <2>4. QED
      BY <2>1, <2>2, <2>3
  <1>3. ASSUME NEW k \in T, k < m PROVE FALSE
    <2>1. 1..k \subseteq 1..m /\ m \in 1..m /\ m \notin 1..k
      BY <1>3
    <2>2. QED
      BY <1>2, <2>1
  <1>4. QED
    BY <1>3

\* A bounded set of numbers has a greatest one.
LEMMA GreatestPlace ==
  ASSUME NEW n \in Nat, NEW T, T \subseteq 0..n, T # {}
  PROVE  \E m \in T : \A k \in T : k =< m
  <1> DEFINE Rest == {n - k : k \in T}
  <1>1. Rest \subseteq Nat /\ Rest # {}
    <2>1. \A k \in T : n - k \in Nat
      OBVIOUS
    <2>2. QED
      BY <2>1
  <1>2. PICK d \in Rest : \A e \in Rest : d =< e
    BY ONLY <1>1, LeastNatural
  <1>3. PICK m \in T : d = n - m
    OBVIOUS
  <1>4. \A k \in T : n - m =< n - k
    BY <1>2, <1>3
  <1>5. QED
    BY <1>4

\* Tables and lists that can be counted.
FiniteRows == IsFiniteSet(rows) /\ \A n \in Nodes : IsFiniteSet(listed[n])

\* The rows that one conversion adds are finitely many.
LEMMA PlacesFinite ==
  ASSUME NEW q \in Requests, NEW part, part \subseteq Places(q) \X Places(q), NEW t
  PROVE  IsFiniteSet({Row(q, x[1], x[2], t) : x \in part})
  <1> DEFINE R == {Row(q, x[1], x[2], t) : x \in part}
             f == [x \in part |-> Row(q, x[1], x[2], t)]
  <1>1. IsFiniteSet(part)
    <2>1. IsFiniteSet(Places(q))
      BY PlaceRange, FS_Interval
    <2>2. IsFiniteSet(Places(q) \X Places(q))
      BY <2>1, FS_Product
    <2>3. QED
      BY <2>2, FS_Subset
  <1>2. f \in Surjection(part, R)
    BY DEF Surjection
  <1> HIDE DEF R, f
  <1>3. IsFiniteSet(R)
    BY ONLY <1>1, <1>2, FS_Surjection
  <1>4. QED
    BY <1>3 DEF R

\* No step makes a list or the table infinite.
LEMMA FiniteStep == TypeOK /\ FiniteRows /\ [Next]_vars => FiniteRows'
  <1> SUFFICES ASSUME TypeOK, FiniteRows, [Next]_vars PROVE FiniteRows'
    OBVIOUS
  <1> USE DEF FiniteRows
  <1>more. ASSUME NEW n \in Nodes, NEW R, IsFiniteSet(R), rows' = rows,
                  listed' = [listed EXCEPT ![n] = @ \cup R]
           PROVE  FiniteRows'
    <2>1. IsFiniteSet(listed[n] \cup R)
      BY <1>more, FS_Union
    <2>2. \A m \in Nodes : listed'[m] = IF m = n THEN listed[n] \cup R ELSE listed[m]
      BY <1>more DEF TypeOK
    <2>3. QED
      BY <1>more, <2>1, <2>2
  <1>same. rows' = rows /\ listed' = listed => FiniteRows'
    OBVIOUS
  <1>empty. ASSUME NEW n \in Nodes, NEW saved \in SUBSET listed[n],
                   rows' \in {rows, rows \cup saved}, listed' = [listed EXCEPT ![n] = {}]
            PROVE  FiniteRows'
    <2>1. IsFiniteSet(rows \cup saved)
      BY FS_Union, FS_Subset
    <2>2. \A m \in Nodes : listed'[m] = IF m = n THEN {} ELSE listed[m]
      BY <1>empty DEF TypeOK
    <2>3. QED
      BY <1>empty, <2>1, <2>2, FS_EmptySet
  <1>1. ASSUME NEW n \in Nodes, NEW q \in Requests, ConvertRuleSet(n, q)
        PROVE  FiniteRows'
    <2>1. IsFiniteSet({Row(q, x[1], x[2], now) : x \in Places(q) \X Places(q)})
      BY PlacesFinite
    <2>2. QED
      BY <1>1, <1>more, <2>1 DEF ConvertRuleSet
  <1>2. ASSUME NEW n \in Nodes, NEW q \in Requests, NEW whole, NEW types,
               ConvertRuleSetFails(n, q, whole, types)
        PROVE  FiniteRows'
    <2> DEFINE part == {i \in Places(q) : TypeOf[RulesFor(q)[i]] \in types}
               seen == {x \in Places(q) \X Places(q) :
                          x[2] =< whole \/ (x[2] = whole + 1 /\ x[1] \in part)}
    <2>1. seen \subseteq Places(q) \X Places(q)
      OBVIOUS
    <2>2. /\ rows' = rows
          /\ listed' = [listed EXCEPT ![n] = @ \cup {Row(q, x[1], x[2], now) : x \in seen}]
      BY <1>2 DEF ConvertRuleSetFails
    <2> HIDE DEF seen
    <2>3. IsFiniteSet({Row(q, x[1], x[2], now) : x \in seen})
      BY <2>1, PlacesFinite
    <2>4. QED
      BY <1>more, <2>2, <2>3
  <1>3. ASSUME NEW n \in Nodes, NEW x \in Results, ConvertRule(n, x)
        PROVE  FiniteRows'
    BY <1>3, <1>more, FS_Singleton DEF ConvertRule, Convert
  <1>4. ASSUME NEW n \in Nodes, NEW saved \in SUBSET listed[n], Flush(n, saved)
        PROVE  FiniteRows'
    BY <1>4, <1>empty DEF Flush
  <1>5. ASSUME NEW n \in Nodes, Crash(n) PROVE FiniteRows'
    BY <1>5, <1>empty DEF Crash
  <1>6. ASSUME NEW n \in Nodes,
               \/ Match(n) \/ MatchFails(n) \/ RuleSetUnsent(n) \/ RuleUnsent(n)
               \/ StartListener(n) \/ Evaluate(n) \/ RunRules(n) \/ RuleSetFails(n)
        PROVE  FiniteRows'
    BY <1>6, <1>same
       DEF Match, Refuse, DispatchRuleSet, DispatchRule, MatchFails, RuleSetUnsent, RuleUnsent,
           StartListener, Evaluate, RunRules, ExecuteNextRule, HandOn, RuleSetFails
  <1>7. ASSUME NEW n \in Nodes, NEW x,
               \/ StartLoop(n, x) \/ TakeRequest(n, x) \/ TakeRuleSet(n, x)
               \/ ExecuteRule(n, x) \/ RuleFails(n, x) \/ ConvertRuleFails(n, x)
        PROVE  FiniteRows'
    BY <1>7, <1>same
       DEF StartLoop, TakeRequest, TakeRuleSet, ExecuteRule, RuleFails, ConvertRuleFails
  <1>8. ASSUME NEW q, Submit(q) PROVE FiniteRows'
    BY <1>8, <1>same DEF Submit
  <1>9. CASE Tick \/ UNCHANGED vars
    BY <1>9, <1>same DEF Tick, vars
  <1> HIDE DEF FiniteRows
  <1>10. QED
    BY <1>1, <1>2, <1>3, <1>4, <1>5, <1>6, <1>7, <1>8, <1>9 DEF Next

\* What a row is made of.
LEMMA RowOfResult ==
  ASSUME NEW r \in RowSpace
  PROVE  \E q \in Requests : \E i \in Places(q), e \in Places(q), t \in 0..MaxTime :
           r = Row(q, i, e, t)
  <1> DEFINE Own(p) == {p} \X Places(p) \X Places(p) \X (0..MaxTime)
  <1>1. PICK x \in UNION {Own(p) : p \in Requests} : r = Row(x[1], x[2], x[3], x[4])
    BY DEF RowSpace
  <1>2. PICK q \in Requests : x \in Own(q)
    BY <1>1
  <1>3. /\ x[1] = q /\ x[2] \in Places(q) /\ x[3] \in Places(q) /\ x[4] \in 0..MaxTime
    BY <1>2
  <1>4. QED
    BY <1>1, <1>3

\* A row's sortId is its rule's place in its rule set, on both ways there.
LEMMA RowOfSet ==
  ASSUME TypeOK, NEW s \in RuleSets, NEW type, NEW r \in RowsOf(s, type)
  PROVE  /\ r.sortId \in DOMAIN RulesOf[s]
         /\ r.rule = RulesOf[s][r.sortId]
         /\ r.sortId \in Nat /\ r.time \in Nat /\ r.time =< MaxTime
  <1>1. r \in RowSpace /\ r.set = s
    BY DEF RowsOf, TypeOK
  <1>2. PICK q \in Requests : \E i \in Places(q), e \in Places(q), t \in 0..MaxTime :
          r = Row(q, i, e, t)
    BY <1>1, RowOfResult
  <1>3. PICK i \in Places(q), e \in Places(q), t \in 0..MaxTime : r = Row(q, i, e, t)
    BY <1>2
  <1>4. MatchedSet(q) = s /\ r.sortId = i /\ r.time = t /\ r.rule = RulesFor(q)[i]
    BY <1>1, <1>3 DEF Row
  <1>5. RulesFor(q) = RulesOf[s]
    BY <1>4, PipelineAssumption DEF RulesFor
  <1>6. i \in Nat
    BY PlaceRange
  <1>7. QED
    BY <1>4, <1>5, <1>6, PipelineAssumption DEF Places

\* What order by says of the rows of a listing: it has every row of the set, by
\* sortId and then the newest first.
LEMMA ListingSorted ==
  ASSUME TypeOK, FiniteRows, NEW s \in RuleSets, NEW type,
         NEW list \in Listings(RowsOf(s, type))
  PROVE  /\ DOMAIN list = 1..Cardinality(RowsOf(s, type))
         /\ Cardinality(RowsOf(s, type)) \in Nat
         /\ \A i \in DOMAIN list : list[i] \in RowsOf(s, type)
         /\ \A r \in RowsOf(s, type) : \E i \in DOMAIN list : list[i] = r
         /\ \A i, j \in DOMAIN list : i < j =>
              /\ list[i].sortId =< list[j].sortId
              /\ list[i].sortId = list[j].sortId => list[i].time >= list[j].time
  <1> DEFINE S == RowsOf(s, type)
             N == Cardinality(S)
  <1>1. N \in Nat
    <2>1. IsFiniteSet(S)
      BY FS_Subset DEF FiniteRows, RowsOf
    <2>2. QED
      BY <2>1, FS_CardinalityType
  <1>2. \A r \in S : r.sortId \in Nat /\ r.time \in Nat
    BY RowOfSet
  <1> HIDE DEF S, N
  <1>3. list \in [1..N -> S] /\ \A r \in S : \E i \in 1..N : list[i] = r
    BY DEF Listings, Bijection, Injection, Surjection, S, N
  <1>4. \A i, j \in 1..N : i < j => ~Before(list[j], list[i])
    BY <1>3 DEF Listings, S, N
  <1>5. ASSUME NEW i \in 1..N, NEW j \in 1..N, i < j
        PROVE  /\ list[i].sortId =< list[j].sortId
               /\ list[i].sortId = list[j].sortId => list[i].time >= list[j].time
    <2>1. list[i].sortId \in Nat /\ list[j].sortId \in Nat
            /\ list[i].time \in Nat /\ list[j].time \in Nat
      BY <1>2, <1>3
    <2>2. ~Before(list[j], list[i])
      BY <1>4, <1>5
    <2>3. QED
      BY <2>1, <2>2 DEF Before
  <1>6. QED
    BY <1>1, <1>3, <1>5 DEF S, N

\* distinctResults compares rules, order by places: of one rule set's rows they
\* tell the same ones apart.
LEMMA OneRuleOnePlace ==
  ASSUME TypeOK, NEW s \in RuleSets, NEW type,
         NEW r \in RowsOf(s, type), NEW p \in RowsOf(s, type)
  PROVE  r.rule = p.rule <=> r.sortId = p.sortId
  BY RowOfSet, PipelineAssumption

\* Of each run of rows with one rule the answer has the first, which is the
\* newest, and the runs are in the order of the rule set.
LEMMA AnswerSorted ==
  ASSUME TypeOK, FiniteRows, NEW s \in RuleSets, NEW type,
         NEW answer \in Answers(s, type)
  PROVE  /\ \A i, j \in DOMAIN answer :
              i < j => \E k, l \in DOMAIN RulesOf[s] :
                         k < l /\ answer[i].rule = RulesOf[s][k]
                               /\ answer[j].rule = RulesOf[s][l]
         /\ \A r \in RowsOf(s, type) : \E i \in DOMAIN answer :
              answer[i].rule = r.rule /\ answer[i].time >= r.time
  <1> DEFINE N == Cardinality(RowsOf(s, type))
  <1>1. PICK list \in Listings(RowsOf(s, type)) : answer = Distinct(list)
    BY DEF Answers
  <1>2. /\ DOMAIN list = 1..N
        /\ N \in Nat
        /\ \A i \in 1..N : list[i] \in RowsOf(s, type)
        /\ \A r \in RowsOf(s, type) : \E i \in 1..N : list[i] = r
        /\ \A i, j \in 1..N : i < j =>
             /\ list[i].sortId =< list[j].sortId
             /\ list[i].sortId = list[j].sortId => list[i].time >= list[j].time
    BY ListingSorted
  <1> HIDE DEF N
  <1>3. /\ DOMAIN answer = {i \in 1..N : i = 1 \/ list[i].rule # list[i - 1].rule}
        /\ \A i \in DOMAIN answer : answer[i] = list[i]
    BY <1>1, <1>2 DEF Distinct, Restrict
  <1>4. \A i \in 1..N : /\ list[i].sortId \in DOMAIN RulesOf[s]
                        /\ list[i].rule = RulesOf[s][list[i].sortId]
                        /\ list[i].sortId \in Nat /\ list[i].time \in Nat
    BY <1>2, RowOfSet
  <1>5. \A i, j \in 1..N : list[i].rule = list[j].rule <=> list[i].sortId = list[j].sortId
    BY <1>2, OneRuleOnePlace
  <1>6. ASSUME NEW i \in DOMAIN answer, NEW j \in DOMAIN answer, i < j
        PROVE  \E k, l \in DOMAIN RulesOf[s] :
                 k < l /\ answer[i].rule = RulesOf[s][k] /\ answer[j].rule = RulesOf[s][l]
    <2>1. i \in 1..N /\ j \in 1..N /\ j - 1 \in 1..N /\ list[j].rule # list[j - 1].rule
      BY <1>2, <1>3, <1>6
    <2>2. list[j - 1].sortId < list[j].sortId
      <3>1. list[j - 1].sortId # list[j].sortId
        BY <1>5, <2>1
      <3>2. list[j - 1].sortId =< list[j].sortId
        BY <1>2, <2>1
      <3>3. QED
        BY <1>4, <2>1, <3>1, <3>2
    <2>3. list[i].sortId =< list[j - 1].sortId
      <3>1. CASE i = j - 1
        BY <1>4, <2>1, <3>1
      <3>2. CASE i < j - 1
        BY <1>2, <2>1, <3>2
      <3>3. QED
        BY <1>6, <2>1, <3>1, <3>2
    <2>4. list[i].sortId < list[j].sortId
      BY <1>4, <2>1, <2>2, <2>3
    <2>5. QED
      BY <1>3, <1>4, <2>1, <2>4
  <1>7. ASSUME NEW r \in RowsOf(s, type)
        PROVE  \E i \in DOMAIN answer : answer[i].rule = r.rule /\ answer[i].time >= r.time
    <2> DEFINE T == {i \in 1..N : list[i].sortId = r.sortId}
    <2>1. PICK a \in 1..N : list[a] = r
      BY <1>2
    <2>2. T \subseteq Nat /\ T # {} /\ a \in T
      BY <2>1
    <2>3. PICK m \in T : \A k \in T : m =< k
      <3> HIDE DEF T
      <3>1. QED
        BY <2>2, LeastNatural
    <2>4. m \in 1..N /\ list[m].sortId = list[a].sortId /\ m =< a
      BY <2>1, <2>2, <2>3
    <2>5. m \in DOMAIN answer
      <3>1. CASE m = 1
        BY <1>3, <2>4, <3>1
      <3>2. CASE m # 1
        <4>1. m - 1 \in 1..N /\ m - 1 \notin T
          BY <1>2, <2>3, <2>4, <3>2
        <4>2. list[m - 1].sortId # list[m].sortId
          BY <2>1, <2>4, <4>1
        <4>3. QED
          BY <1>3, <1>5, <2>4, <4>1, <4>2
      <3>3. QED
        BY <3>1, <3>2
    <2>6. list[m].time >= list[a].time
      <3>1. CASE m = a
        BY <1>4, <2>1, <3>1
      <3>2. CASE m < a
        BY <1>2, <2>4, <3>2
      <3>3. QED
        BY <1>2, <2>1, <2>4, <3>1, <3>2
    <2>7. QED
      BY <1>3, <1>5, <2>1, <2>4, <2>5, <2>6
  <1>8. QED
    BY <1>6, <1>7

\* Some row may come last: of the highest place, an oldest.
LEMMA LastRow ==
  ASSUME TypeOK, NEW s \in RuleSets, NEW type,
         NEW S, S \subseteq RowsOf(s, type), S # {}
  PROVE  \E x \in S : \A r \in S : ~Before(x, r)
  <1> DEFINE Ids == {r.sortId : r \in S}
  <1>1. \A r \in S : r.sortId \in 0..Len(RulesOf[s]) /\ r.sortId \in Nat /\ r.time \in Nat
    BY RowOfSet, PipelineAssumption
  <1>2. PICK m \in Ids : \A k \in Ids : k =< m
    <2>1. Ids \subseteq 0..Len(RulesOf[s]) /\ Ids # {}
      BY <1>1
    <2>2. Len(RulesOf[s]) \in Nat
      BY PipelineAssumption
    <2> HIDE DEF Ids
    <2>3. QED
      BY <2>1, <2>2, GreatestPlace
  <1> DEFINE Times == {r.time : r \in {p \in S : p.sortId = m}}
  <1>3. PICK t \in Times : \A k \in Times : t =< k
    <2>1. Times \subseteq Nat /\ Times # {}
      BY <1>1
    <2> HIDE DEF Times
    <2>2. QED
      BY <2>1, LeastNatural
  <1>4. PICK x \in S : x.sortId = m /\ x.time = t
    OBVIOUS
  <1>5. ASSUME NEW r \in S PROVE ~Before(x, r)
    <2>1. r.sortId =< x.sortId
      BY <1>2, <1>4
    <2>2. r.sortId = x.sortId => x.time =< r.time
      BY <1>3, <1>4
    <2>3. QED
      BY <1>1, <2>1, <2>2 DEF Before
  <1>6. QED
    BY <1>5

\* A listing of the other rows, with a row that may come last at its end.
LEMMA LongerListing ==
  ASSUME NEW S, IsFiniteSet(S), NEW x \in S, \A r \in S : ~Before(x, r),
         NEW list \in Listings(S \ {x})
  PROVE  Listings(S) # {}
  <1> DEFINE n == Cardinality(S \ {x})
             longer == [i \in 1..(n + 1) |-> IF i = n + 1 THEN x ELSE list[i]]
  <1>1. n \in Nat /\ Cardinality(S) = n + 1
    <2>1. IsFiniteSet(S \ {x}) /\ Cardinality(S \ {x}) = Cardinality(S) - 1
      BY FS_RemoveElement
    <2>2. Cardinality(S) \in Nat /\ n \in Nat
      BY <2>1, FS_CardinalityType
    <2>3. QED
      BY <2>1, <2>2
  <1>2. /\ list \in [1..n -> S \ {x}]
        /\ \A i, j \in 1..n : list[i] = list[j] => i = j
        /\ \A r \in S \ {x} : \E i \in 1..n : list[i] = r
        /\ \A i, j \in 1..n : i < j => ~Before(list[j], list[i])
    <2> HIDE DEF n
    <2>1. list \in Injection(1..n, S \ {x}) /\ list \in Surjection(1..n, S \ {x})
      BY DEF Listings, Bijection, n
    <2>2. list \in [1..n -> S \ {x}] /\ \A i, j \in 1..n : list[i] = list[j] => i = j
      BY <2>1 DEF Injection, IsInjective
    <2>3. \A r \in S \ {x} : \E i \in 1..n : list[i] = r
      BY <2>1 DEF Surjection
    <2>4. \A i, j \in 1..n : i < j => ~Before(list[j], list[i])
      BY <2>2 DEF Listings
    <2>5. QED
      BY <2>2, <2>3, <2>4
  <1> HIDE DEF n
  <1>3. /\ \A i \in 1..(n + 1) : i = n + 1 \/ i \in 1..n
        /\ n + 1 \in 1..(n + 1) /\ n + 1 \notin 1..n
        /\ \A i \in 1..n : i \in 1..(n + 1)
    BY <1>1
  <1>4. longer[n + 1] = x /\ \A i \in 1..n : longer[i] = list[i]
    BY <1>3
  <1>5. longer \in [1..(n + 1) -> S]
    <2>1. \A i \in 1..(n + 1) : (IF i = n + 1 THEN x ELSE list[i]) \in S
      BY <1>2, <1>3
    <2>2. QED
      BY <2>1
  <1>6. DOMAIN longer = 1..(n + 1)
    OBVIOUS
  <1> HIDE DEF longer
  <1>7. \A i, j \in 1..(n + 1) : longer[i] = longer[j] => i = j
    BY <1>2, <1>3, <1>4
  <1>8. \A r \in S : \E i \in 1..(n + 1) : longer[i] = r
    BY <1>2, <1>3, <1>4
  <1>9. ASSUME NEW i \in 1..(n + 1), NEW j \in 1..(n + 1), i < j
        PROVE  ~Before(longer[j], longer[i])
    <2>1. i \in 1..n
      BY <1>1, <1>9
    <2>2. CASE j = n + 1
      BY <1>2, <1>4, <2>1, <2>2
    <2>3. CASE j \in 1..n
      BY <1>2, <1>4, <1>9, <2>1, <2>3
    <2>4. QED
      BY <1>3, <2>2, <2>3
  <1>10. longer \in Bijection(1..(n + 1), S)
    BY <1>5, <1>7, <1>8 DEF Bijection, Injection, IsInjective, Surjection
  <1>11. longer \in Listings(S)
    BY <1>1, <1>6, <1>9, <1>10 DEF Listings
  <1>12. QED
    BY <1>11

\* Nothing is listed as nothing.
LEMMA EmptyListing == Listings({}) # {}
  <1> DEFINE none == [i \in 1..0 |-> i]
  <1>1. Cardinality({}) = 0 /\ 1..0 = {}
    BY FS_EmptySet
  <1>2. none \in Bijection(1..0, {})
    BY <1>1 DEF Bijection, Injection, IsInjective, Surjection
  <1>3. none \in Listings({})
    BY <1>1, <1>2 DEF Listings
  <1>4. QED
    BY <1>3

\* The order exists, whatever is in the table: a smallest set of rows without a
\* listing would have a last row, and the listing of the others would give one.
LEMMA ListingExists ==
  ASSUME TypeOK, FiniteRows, NEW s \in RuleSets, NEW type
  PROVE  Listings(RowsOf(s, type)) # {}
  <1> DEFINE R == RowsOf(s, type)
             Unlisted == {S \in FiniteSubsetsOf(R) : Listings(S) = {}}
  <1>1. R \in FiniteSubsetsOf(R)
    BY FS_Subset DEF FiniteRows, RowsOf, FiniteSubsetsOf
  <1>2. ASSUME Unlisted # {} PROVE FALSE
    <2>1. Unlisted \subseteq FiniteSubsetsOf(R)
      OBVIOUS
    <2>2. PICK S \in Unlisted : \A T \in Unlisted : T \subseteq S => T = S
      <3> HIDE DEF Unlisted
      <3>1. QED
        BY <1>2, <2>1, SmallestFinite
    <2>3. S \subseteq R /\ IsFiniteSet(S) /\ Listings(S) = {}
      BY DEF FiniteSubsetsOf
    <2>4. S # {}
      BY <2>3, EmptyListing
    <2>5. PICK x \in S : \A r \in S : ~Before(x, r)
      BY <2>3, <2>4, LastRow
    <2>6. S \ {x} \in FiniteSubsetsOf(R)
      BY <2>3, FS_RemoveElement DEF FiniteSubsetsOf
    <2>7. S \ {x} \notin Unlisted
      <3> HIDE DEF Unlisted
      <3>1. QED
        BY <2>2
    <2>8. Listings(S \ {x}) # {}
      BY <2>6, <2>7
    <2>9. QED
      BY <2>3, <2>5, <2>8, LongerListing
  <1>3. QED
    BY <1>1, <1>2

\* Lists and table start empty.
LEMMA FiniteInit == Init => FiniteRows
  BY FS_EmptySet DEF Init, FiniteRows

\* The table and the lists in memory stay finite, so that they can be counted
\* and put in order, for infinitely many requests too.
THEOREM RowsStayFinite == Spec => []FiniteRows
  <1>1. TypeOK /\ FiniteRows /\ [Next]_vars => FiniteRows'
    BY FiniteStep
  <1>2. QED
    BY <1>1, FiniteInit, PipelineTypeCorrect, PTL DEF Spec

\* Every answer about a rule set has its rules in order, each once, with its
\* newest row, and there always is an answer: of any number of requests, nodes,
\* restarts and flushes that drop rows.
THEOREM AnswersInOrder == Spec => []AnswerInOrder
  <1>1. TypeOK /\ FiniteRows => AnswerInOrder
    <2> SUFFICES ASSUME TypeOK, FiniteRows, NEW s \in RuleSets, NEW type \in MatchTypes
                 PROVE  /\ Answers(s, type) # {}
                        /\ \A answer \in Answers(s, type) :
                             /\ \A i, j \in DOMAIN answer :
                                  i < j => \E k, l \in DOMAIN RulesOf[s] :
                                             k < l /\ answer[i].rule = RulesOf[s][k]
                                                   /\ answer[j].rule = RulesOf[s][l]
                             /\ \A r \in RowsOf(s, type) : \E i \in DOMAIN answer :
                                  answer[i].rule = r.rule /\ answer[i].time >= r.time
      BY DEF AnswerInOrder
    <2>1. Answers(s, type) # {}
      BY ListingExists DEF Answers
    <2>2. QED
      BY <2>1, AnswerSorted
  <1>2. QED
    BY <1>1, RowsStayFinite, PipelineTypeCorrect, PTL

------------------------------------------------------------------------------
(* The pipeline implements ResultFlow.                                       *)

\* The stages of the result that row r is of have been saved.
Saved(r) == <<r.req, r.sortId>> \in Converted

\* Only requests without rules are refused, and rows are of converted results,
\* in the lists in memory as in the table.
FlowInv ==
  /\ \A q \in Requests : fate[q] = "refused" => ~Matchable(q)
  /\ \A r \in rows : Saved(r)
  /\ \A n \in Nodes : \A r \in listed[n] : Saved(r)

\* Only three steps save stages.
LEMMA StagesStep ==
  ASSUME TypeOK, [Next]_vars
  PROVE  \/ UNCHANGED stages
         \/ \E n \in Nodes, q \in Requests : ConvertRuleSet(n, q)
         \/ \E n \in Nodes, q \in Requests : \E whole \in 0..Len(RulesFor(q)), types \in SUBSET MatchTypes :
              ConvertRuleSetFails(n, q, whole, types)
         \/ \E n \in Nodes, x \in Results : ConvertRule(n, x)
  <1>1. ASSUME NEW n \in Nodes,
               \/ Match(n) \/ MatchFails(n) \/ RuleSetUnsent(n) \/ RuleUnsent(n)
               \/ StartListener(n) \/ Evaluate(n) \/ RunRules(n) \/ RuleSetFails(n) \/ Crash(n)
        PROVE  UNCHANGED stages
    BY <1>1
       DEF Match, Refuse, DispatchRuleSet, DispatchRule, MatchFails, RuleSetUnsent, RuleUnsent,
           StartListener, Evaluate, RunRules, ExecuteNextRule, HandOn, RuleSetFails, Crash
  <1>2. ASSUME NEW n \in Nodes, NEW x,
               \/ StartLoop(n, x) \/ TakeRequest(n, x) \/ TakeRuleSet(n, x)
               \/ ExecuteRule(n, x) \/ RuleFails(n, x) \/ ConvertRuleFails(n, x) \/ Flush(n, x)
        PROVE  UNCHANGED stages
    BY <1>2
       DEF StartLoop, TakeRequest, TakeRuleSet, ExecuteRule, RuleFails, ConvertRuleFails, Flush
  <1>3. ASSUME NEW q, Submit(q) PROVE UNCHANGED stages
    BY <1>3 DEF Submit
  <1>4. CASE Tick \/ UNCHANGED vars
    BY <1>4 DEF Tick, vars
  <1>5. QED
    BY <1>1, <1>2, <1>3, <1>4 DEF Next

\* Stages that have been saved stay.
LEMMA ConvertedGrows == TypeOK /\ [Next]_vars => Converted \subseteq Converted'
  <1> SUFFICES ASSUME TypeOK, [Next]_vars, NEW x \in Results, stages[x] > 0
               PROVE  stages'[x] > 0
    BY DEF Converted
  <1>0. stages \in [Results -> Nat] /\ stages[x] \in Nat
    BY DEF TypeOK
  <1>1. ASSUME NEW n \in Nodes, NEW q \in Requests, ConvertRuleSet(n, q)
        PROVE  stages'[x] > 0
    BY <1>0, <1>1, PlaceRange DEF ConvertRuleSet
  <1>2. ASSUME NEW n \in Nodes, NEW q \in Requests, NEW whole \in 0..Len(RulesFor(q)),
               NEW types, ConvertRuleSetFails(n, q, whole, types)
        PROVE  stages'[x] > 0
    <2> DEFINE part == {i \in Places(q) : TypeOf[RulesFor(q)[i]] \in types}
    <2>1. stages'[x] = IF x[1] # q THEN stages[x]
                       ELSE stages[x] + whole + (IF x[2] \in part THEN 1 ELSE 0)
      BY <1>2 DEF ConvertRuleSetFails
    <2> HIDE DEF part
    <2>2. whole \in Nat
      BY PlaceRange
    <2>3. QED
      BY <1>0, <2>1, <2>2
  <1>3. ASSUME NEW n \in Nodes, NEW y \in Results, ConvertRule(n, y)
        PROVE  stages'[x] > 0
    BY <1>0, <1>3 DEF ConvertRule, Convert
  <1>4. QED
    BY <1>1, <1>2, <1>3, StagesStep

\* A request is refused because no rule would have run.
LEMMA RefusedStep == TypeOK /\ RequestInv /\ FlowInv /\ [Next]_vars
    => \A q \in Requests : fate'[q] = "refused" => ~Matchable(q)
  <1> SUFFICES ASSUME TypeOK, RequestInv, FlowInv, [Next]_vars,
                      NEW q \in Requests, fate'[q] = "refused"
               PROVE  ~Matchable(q)
    OBVIOUS
  <1>0. fate \in [Requests -> Fates] /\ (fate[q] = "refused" => ~Matchable(q))
    BY DEF TypeOK, FlowInv
  <1>1. ASSUME NEW p \in Requests, Submit(p) PROVE ~Matchable(q)
    BY <1>0, <1>1 DEF Submit
  <1>2. ASSUME NEW n \in Nodes, Refuse(n) PROVE ~Matchable(q)
    BY <1>0, <1>2 DEF Refuse
  <1>3. ASSUME NEW n \in Nodes, DispatchRuleSet(n) \/ RuleSetUnsent(n) PROVE ~Matchable(q)
    <2>1. Dispatched(n)
      BY <1>3 DEF DispatchRuleSet, RuleSetUnsent
    <2>2. QED
      BY <1>0, <2>1 DEF Dispatched
  <1>4. ASSUME NEW n \in Nodes, DispatchRule(n) \/ RuleUnsent(n) PROVE ~Matchable(q)
    <2>1. ToNextRule(n)
      BY <1>4 DEF DispatchRule, RuleUnsent
    <2>2. QED
      BY <1>0, <2>1 DEF ToNextRule
  <1>5. ASSUME NEW n \in Nodes, NEW p \in Requests, TakeRequest(n, p) PROVE ~Matchable(q)
    BY <1>0, <1>5 DEF TakeRequest
  <1>6. ASSUME NEW n \in Nodes,
               \/ MatchFails(n) \/ StartListener(n) \/ Evaluate(n)
               \/ RunRules(n) \/ RuleSetFails(n) \/ Crash(n)
        PROVE  ~Matchable(q)
    BY <1>0, <1>6
       DEF MatchFails, StartListener, Evaluate, RunRules, ExecuteNextRule, HandOn, RuleSetFails,
           Crash
  <1>7. ASSUME NEW n \in Nodes, NEW x,
               \/ StartLoop(n, x) \/ TakeRuleSet(n, x)
               \/ ExecuteRule(n, x) \/ RuleFails(n, x) \/ ConvertRuleSet(n, x)
               \/ ConvertRule(n, x) \/ ConvertRuleFails(n, x) \/ Flush(n, x)
        PROVE  ~Matchable(q)
    BY <1>0, <1>7
       DEF StartLoop, TakeRuleSet, ExecuteRule, RuleFails, ConvertRuleSet, ConvertRule, Convert,
           ConvertRuleFails, Flush
  <1>8. ASSUME NEW n \in Nodes, NEW p, NEW whole, NEW types, ConvertRuleSetFails(n, p, whole, types)
        PROVE  ~Matchable(q)
    BY <1>0, <1>8 DEF ConvertRuleSetFails
  <1>9. CASE Tick \/ UNCHANGED vars
    BY <1>0, <1>9 DEF Tick, vars
  <1>10. QED
    BY <1>1, <1>2, <1>3, <1>4, <1>5, <1>6, <1>7, <1>8, <1>9 DEF Next, Match

\* Rows are made where the stages are saved, of the same results, also when a
\* conversion stops halfway.
LEMMA SavedStep == TypeOK /\ FlowInv /\ [Next]_vars
    => /\ \A r \in rows' : <<r.req, r.sortId>> \in Converted'
       /\ \A n \in Nodes : \A r \in listed'[n] : <<r.req, r.sortId>> \in Converted'
  <1> SUFFICES ASSUME TypeOK, FlowInv, [Next]_vars
               PROVE  /\ \A r \in rows' : <<r.req, r.sortId>> \in Converted'
                      /\ \A n \in Nodes : \A r \in listed'[n] :
                           <<r.req, r.sortId>> \in Converted'
    OBVIOUS
  <1> DEFINE New(r) == <<r.req, r.sortId>> \in Converted'
             Goal == (\A r \in rows' : New(r)) /\ (\A n \in Nodes : \A r \in listed'[n] : New(r))
  <1>old. (\A r \in rows : New(r)) /\ (\A n \in Nodes : \A r \in listed[n] : New(r))
    BY ConvertedGrows DEF FlowInv, Saved
  <1>type. listed \in [Nodes -> SUBSET RowSpace] /\ stages \in [Results -> Nat]
    BY DEF TypeOK
  <1>row. ASSUME NEW q \in Requests, NEW i \in Places(q), NEW e, stages'[<<q, i>>] > 0
          PROVE  New(Row(q, i, e, now))
    BY <1>row, ResultPair DEF Row, Converted
  <1> HIDE DEF New
  <1> SUFFICES Goal
    BY DEF New
  <1>more. ASSUME NEW n \in Nodes, NEW R, \A r \in R : New(r), rows' = rows,
                  listed' = [listed EXCEPT ![n] = @ \cup R]
           PROVE  Goal
    BY <1>more, <1>old, <1>type
  <1>1. ASSUME NEW n \in Nodes, NEW q \in Requests, ConvertRuleSet(n, q)
        PROVE  Goal
    <2> DEFINE R == {Row(q, x[1], x[2], now) : x \in Places(q) \X Places(q)}
    <2>1. ASSUME NEW i \in Places(q), NEW e PROVE New(Row(q, i, e, now))
      <3>1. <<q, i>> \in Results /\ Len(RulesFor(q)) \in Nat /\ Len(RulesFor(q)) > 0
        BY PlaceRange, ResultPair
      <3>2. stages'[<<q, i>>] = stages[<<q, i>>] + Len(RulesFor(q))
        BY <1>1, <3>1 DEF ConvertRuleSet
      <3>3. stages'[<<q, i>>] > 0
        BY <1>type, <3>1, <3>2
      <3>4. QED
        BY <1>row, <3>3
    <2>2. rows' = rows /\ listed' = [listed EXCEPT ![n] = @ \cup R]
      BY <1>1 DEF ConvertRuleSet
    <2>3. \A r \in R : New(r)
      BY <2>1
    <2> HIDE DEF R, Goal
    <2>4. QED
      BY <1>more, <2>2, <2>3
  <1>2. ASSUME NEW n \in Nodes, NEW q \in Requests, NEW whole \in 0..Len(RulesFor(q)),
               NEW types, ConvertRuleSetFails(n, q, whole, types)
        PROVE  Goal
    <2> DEFINE part == {i \in Places(q) : TypeOf[RulesFor(q)[i]] \in types}
               seen == {x \in Places(q) \X Places(q) :
                          x[2] =< whole \/ (x[2] = whole + 1 /\ x[1] \in part)}
               R == {Row(q, x[1], x[2], now) : x \in seen}
    <2>1. ASSUME NEW x \in seen PROVE New(Row(q, x[1], x[2], now))
      <3>1. /\ <<q, x[1]>> \in Results /\ x[1] \in Places(q) /\ whole \in Nat
            /\ x[2] \in Nat /\ x[2] >= 1
            /\ x[2] =< whole \/ x[1] \in part
        BY PlaceRange, ResultPair
      <3>2. stages'[<<q, x[1]>>]
              = stages[<<q, x[1]>>] + whole + (IF x[1] \in part THEN 1 ELSE 0)
        BY <1>2, <3>1 DEF ConvertRuleSetFails
      <3> HIDE DEF part, seen
      <3>3. stages[<<q, x[1]>>] \in Nat
        BY <1>type, <3>1
      <3>4. stages'[<<q, x[1]>>] > 0
        BY <3>1, <3>2, <3>3
      <3>5. QED
        BY <1>row, <3>1, <3>4
    <2>2. rows' = rows /\ listed' = [listed EXCEPT ![n] = @ \cup R]
      BY <1>2 DEF ConvertRuleSetFails
    <2> HIDE DEF seen
    <2>3. \A r \in R : New(r)
      BY <2>1
    <2> HIDE DEF R, Goal
    <2>4. QED
      BY <1>more, <2>2, <2>3
  <1>3. ASSUME NEW n \in Nodes, NEW x \in Results, ConvertRule(n, x)
        PROVE  Goal
    <2>1. stages'[x] > 0 /\ x = <<x[1], x[2]>> /\ x[1] \in Requests /\ x[2] \in Places(x[1])
      BY <1>3, <1>type, ResultPair DEF ConvertRule, Convert
    <2>2. New(Row(x[1], x[2], 1, now))
      BY <1>row, <2>1
    <2>3. /\ rows' = rows
          /\ listed' = [listed EXCEPT ![n] = @ \cup {Row(x[1], x[2], 1, now)}]
      BY <1>3 DEF ConvertRule, Convert
    <2> HIDE DEF Goal
    <2>4. QED
      BY <1>more, <2>2, <2>3
  <1>4. ASSUME NEW n \in Nodes, NEW saved \in SUBSET listed[n], Flush(n, saved)
        PROVE  Goal
    BY <1>4, <1>old, <1>type DEF Flush
  <1>5. ASSUME NEW n \in Nodes, Crash(n)
        PROVE  Goal
    BY <1>5, <1>old, <1>type DEF Crash
  <1>same. rows' = rows /\ listed' = listed => Goal
    BY <1>old
  <1> HIDE DEF Goal
  <1>6. ASSUME NEW n \in Nodes,
               \/ Match(n) \/ MatchFails(n) \/ RuleSetUnsent(n) \/ RuleUnsent(n)
               \/ StartListener(n) \/ Evaluate(n) \/ RunRules(n) \/ RuleSetFails(n)
        PROVE  Goal
    BY <1>6, <1>same
       DEF Match, Refuse, DispatchRuleSet, DispatchRule, MatchFails, RuleSetUnsent, RuleUnsent,
           StartListener, Evaluate, RunRules, ExecuteNextRule, HandOn, RuleSetFails
  <1>7. ASSUME NEW n \in Nodes, NEW x,
               \/ StartLoop(n, x) \/ TakeRequest(n, x) \/ TakeRuleSet(n, x)
               \/ ExecuteRule(n, x) \/ RuleFails(n, x) \/ ConvertRuleFails(n, x)
        PROVE  Goal
    BY <1>7, <1>same
       DEF StartLoop, TakeRequest, TakeRuleSet, ExecuteRule, RuleFails, ConvertRuleFails
  <1>8. ASSUME NEW q, Submit(q) PROVE Goal
    BY <1>8, <1>same DEF Submit
  <1>9. CASE Tick \/ UNCHANGED vars
    BY <1>9, <1>same DEF Tick, vars
  <1>10. QED
    BY <1>1, <1>2, <1>3, <1>4, <1>5, <1>6, <1>7, <1>8, <1>9 DEF Next

\* FlowInv is inductive, given the types and who has a request.
LEMMA FlowInvStep == TypeOK /\ RequestInv /\ FlowInv /\ [Next]_vars => FlowInv'
  <1> SUFFICES ASSUME TypeOK, RequestInv, FlowInv, [Next]_vars PROVE FlowInv'
    OBVIOUS
  <1>1. \A q \in Requests : Matchable(q)' = Matchable(q)
    BY DEF Matchable, MatchedSet
  <1>2. QED
    BY <1>1, RefusedStep, SavedStep DEF FlowInv, Saved

\* A request can be matched if and only if it is to have results.
LEMMA HasRules ==
  ASSUME NEW q \in Requests
  PROVE  Matchable(q) <=> Places(q) # {}
  <1>1. MatchedSet(q) = NoSet \/ MatchedSet(q) \in RuleSets
    BY PipelineAssumption DEF MatchedSet
  <1>2. RulesFor(q) \in Seq(Rules) /\ Places(q) = 1..Len(RulesFor(q))
    BY PlaceRange
  <1>3. RulesFor(q) # <<>> <=> Places(q) # {}
    BY <1>2
  <1>4. Matchable(q) <=> RulesFor(q) # <<>>
    BY DEF Matchable, RulesFor
  <1>5. QED
    BY <1>3, <1>4

\* The results of a request, in the order of its rules.
LEMMA ResultsInOrder ==
  ASSUME NEW q \in Requests
  PROVE  /\ DOMAIN ResultsOf[q] = Places(q)
         /\ \A i \in Places(q) : ResultsOf[q][i] = <<q, i>> /\ <<q, i>> \in Results
  BY ResultPair DEF ResultsOf

\* What has left the request's own loop is of an accepted request.
LEMMA AcceptedWhenSent ==
  ASSUME PInv, FlowInv, NEW x \in Results, ~Unsent(x)
  PROVE  Status[x[1]] = "accepted"
  <1>1. x[1] \in Requests /\ x[2] \in Places(x[1])
    BY ResultPair
  <1>2. fate[x[1]] # "new"
    BY DEF Unsent
  <1>3. fate[x[1]] # "refused"
    BY <1>1, HasRules DEF FlowInv
  <1>4. QED
    BY <1>1, <1>2, <1>3 DEF Status

\* On a node that runs a rule set the rule at the next place has not run, and
\* those before it have.
LEMMA SetRuns ==
  ASSUME PInv, FlowInv, NEW n \in Nodes, running[n] # NoRequest,
         place[n] =< Len(RulesFor(running[n]))
  PROVE  /\ running[n] \in Requests /\ place[n] \in Places(running[n])
         /\ Status[running[n]] = "accepted"
         /\ executed[<<running[n], place[n]>>] = 0
         /\ \A j \in Places(running[n]) : j < place[n] => executed[<<running[n], j>>] = 1
  <1> DEFINE q == running[n]
  <1>1. q \in Requests /\ place[n] \in Places(q) /\ <<q, place[n]>> \in Results
    BY RunPlace DEF PInv
  <1>2. /\ \A j \in Places(q) : <<q, j>> \in Results
        /\ Places(q) \subseteq Nat
    BY <1>1, ResultPair, PlaceRange
  <1>3. ASSUME NEW j \in Places(q)
        PROVE  ~Unsent(<<q, j>>) /\ executed[<<q, j>>] = IF place[n] =< j THEN 0 ELSE 1
    <2>1. Progress(<<q, j>>) /\ InRun(n, <<q, j>>)
      BY <1>2 DEF PInv, InRun
    <2>2. QED
      BY <2>1 DEF Progress
  <1>4. Status[q] = "accepted"
    <2>1. <<q, place[n]>>[1] = q
      OBVIOUS
    <2>2. QED
      BY <1>1, <1>3, <2>1, AcceptedWhenSent
  <1>5. executed[<<q, place[n]>>] = 0
    BY <1>1, <1>2, <1>3
  <1>6. \A j \in Places(q) : j < place[n] => executed[<<q, j>>] = 1
    BY <1>1, <1>2, <1>3
  <1>7. QED
    BY <1>1, <1>4, <1>5, <1>6

\* What waits in list rules has not run either.
LEMMA RuleRuns ==
  ASSUME PInv, FlowInv, NEW x \in ruleQ
  PROVE  /\ x \in Results /\ x[1] \in Requests /\ ~InOrder(x[1])
         /\ executed[x] = 0 /\ Status[x[1]] = "accepted"
  <1>1. x \in Results /\ ~InOrder(x[1]) /\ x[1] \in Requests
    BY ResultPair DEF PInv, TypeOK, KindInv
  <1>2. Progress(x) /\ InList(x)
    BY <1>1 DEF PInv, InList
  <1>3. executed[x] = 0 /\ ~Unsent(x)
    BY <1>2 DEF Progress
  <1>4. QED
    BY <1>1, <1>3, AcceptedWhenSent

\* What is in an output channel has run, and so has the rest of an ordered set.
LEMMA ChannelRan ==
  ASSUME PInv, NEW n \in Nodes, NEW x \in Results, InChannel(n, x)
  PROVE  /\ executed[x] = 1
         /\ InOrder(x[1]) => \A i \in Places(x[1]) : executed[<<x[1], i>>] = 1
  <1>1. executed[x] = 1
    BY DEF PInv, Progress
  <1>2. ASSUME InOrder(x[1]), NEW i \in Places(x[1])
        PROVE  executed[<<x[1], i>>] = 1
    <2>1. x[1] \in Requests /\ <<x[1], i>> \in Results
      BY ResultPair
    <2>2. x[1] \in setOut[n]
      BY <1>2 DEF InChannel, PInv, KindInv
    <2>3. InChannel(n, <<x[1], i>>)
      BY <2>2 DEF InChannel
    <2>4. QED
      BY <2>1, <2>3 DEF PInv, Progress
  <1>3. QED
    BY <1>1, <1>2

\* The pipeline starts as the flow does.
LEMMA InitFlow == Init => Flow!FlowInit
  <1> SUFFICES ASSUME Init PROVE Flow!FlowInit
    OBVIOUS
  <1>1. Status = [q \in Requests |-> "new"]
    BY DEF Init, Status
  <1>2. Converted = {} /\ Stored = {}
    BY DEF Init, Converted, Stored
  <1>3. executed = [x \in Results |-> 0]
    BY DEF Init
  <1>4. QED
    BY <1>1, <1>2, <1>3 DEF Flow!FlowInit

\* A step that saves stages of results that were in an output channel converts
\* them, of an ordered rule set some or all once all have run.
LEMMA ConvertFlow ==
  ASSUME PInv, [Next]_vars, UNCHANGED <<fate, executed, rows>>, NEW n \in Nodes,
         \A x \in Results : stages'[x] # stages[x] => InChannel(n, x)
  PROVE  Flow!Convert
  <1>1. UNCHANGED <<Status, executed, Stored>>
    BY DEF Status, Stored
  <1>2. Converted \subseteq Converted'
    BY ConvertedGrows DEF PInv
  <1>3. Converted' \subseteq Results
    BY DEF Converted
  <1>4. \A x \in Converted' \ Converted : x \in Results /\ InChannel(n, x)
    BY DEF Converted
  <1>5. \A x \in Converted' \ Converted : executed[x] = 1
    BY <1>4, ChannelRan
  <1>6. ASSUME NEW q \in Sequential, NEW i \in DOMAIN ResultsOf[q],
               ResultsOf[q][i] \in Converted' \ Converted
        PROVE  Flow!Complete(q)
    <2>1. q \in Requests /\ InOrder(q)
      BY DEF Sequential
    <2>2. i \in Places(q) /\ <<q, i>> \in Results /\ ResultsOf[q][i] = <<q, i>>
      BY <2>1, ResultsInOrder
    <2>3. InChannel(n, <<q, i>>)
      BY <1>4, <1>6, <2>2
    <2>4. <<q, i>>[1] = q
      OBVIOUS
    <2>5. \A j \in Places(q) : executed[<<q, j>>] = 1
      BY <2>1, <2>2, <2>3, <2>4, ChannelRan
    <2>6. ASSUME NEW j \in DOMAIN ResultsOf[q] PROVE executed[ResultsOf[q][j]] = 1
      <3>1. j \in Places(q)
        BY <2>1, ResultsInOrder
      <3>2. ResultsOf[q][j] = <<q, j>>
        BY <2>1, <3>1, ResultsInOrder
      <3>3. QED
        BY <2>5, <3>1, <3>2
    <2>7. QED
      BY <2>6 DEF Flow!Complete
  <1>7. QED
    BY <1>1, <1>2, <1>3, <1>5, <1>6 DEF Flow!Convert

\* Every step of the pipeline is one of the flow or nothing to it: what moves a
\* message, loses it or restarts a node is nothing.
LEMMA StepFlow == PInv /\ FlowInv /\ [Next]_vars => [Flow!FlowNext]_(Flow!flowVars)
  <1> SUFFICES ASSUME PInv, FlowInv, [Next]_vars PROVE [Flow!FlowNext]_(Flow!flowVars)
    OBVIOUS
  <1> DEFINE Goal == [Flow!FlowNext]_(Flow!flowVars)
  <1> SUFFICES Goal
    OBVIOUS
  <1>type. TypeOK /\ RequestInv
    BY DEF PInv
  <1>fate. fate \in [Requests -> Fates]
    BY <1>type DEF TypeOK
  <1>still. ASSUME Status' = Status, UNCHANGED <<executed, stages, rows>> PROVE Goal
    BY <1>still DEF Flow!flowVars, Converted, Stored
  <1>same. ASSUME \A p \in Requests : \/ fate'[p] = fate[p]
                                      \/ /\ fate[p] \notin {"new", "refused"}
                                         /\ fate'[p] \notin {"new", "refused"}
           PROVE  Status' = Status
    BY <1>same DEF Status
  <1>quiet. UNCHANGED <<fate, executed, stages, rows>> => Goal
    BY <1>still DEF Status
  \* A rule that runs.
  <1>run. ASSUME NEW q \in Requests, NEW i \in Places(q), Status[q] = "accepted",
                 executed[<<q, i>>] = 0,
                 InOrder(q) => \A j \in Places(q) : j < i => executed[<<q, j>>] = 1,
                 executed' = [executed EXCEPT ![<<q, i>>] = executed[<<q, i>>] + 1],
                 UNCHANGED <<fate, stages, rows>>
          PROVE  Goal
    <2>1. executed' = [executed EXCEPT ![ResultsOf[q][i]] = 1]
      <3>1. ResultsOf[q][i] = <<q, i>>
        BY ResultsInOrder
      <3>2. executed' = [executed EXCEPT ![<<q, i>>] = 1]
        BY <1>run
      <3>3. QED
        BY <3>1, <3>2
    <2>2. UNCHANGED <<Status, Converted, Stored>>
      BY <1>run DEF Status, Converted, Stored
    <2>3. q \in Sequential => \A j \in DOMAIN ResultsOf[q] : j < i => executed[ResultsOf[q][j]] = 1
      BY <1>run, ResultsInOrder DEF Sequential
    <2>4. executed[ResultsOf[q][i]] = 0 /\ i \in DOMAIN ResultsOf[q]
      BY <1>run, ResultsInOrder
    <2>5. Flow!Run(q, i)
      BY <1>run, <2>1, <2>2, <2>3, <2>4 DEF Flow!Run
    <2>6. QED
      BY <2>4, <2>5 DEF Flow!FlowNext
  <1>1. ASSUME NEW q \in Requests, Submit(q) PROVE Goal
    <2>1. Status[q] = "new" /\ Status' = [Status EXCEPT ![q] = "accepted"]
      BY <1>1, <1>fate DEF Submit, Status
    <2>2. UNCHANGED <<executed, Converted, Stored>>
      BY <1>1 DEF Submit, Converted, Stored
    <2>3. Flow!Accept(q)
      BY <2>1, <2>2 DEF Flow!Accept
    <2>4. QED
      BY <2>3 DEF Flow!FlowNext
  <1>2. ASSUME NEW n \in Nodes, Refuse(n) PROVE Goal
    <2>1. PICK q \in Requests : q = matching[n] /\ matching[n] # NoRequest
      BY <1>2, <1>type DEF Refuse, TypeOK
    <2>2. fate[q] = "matching" /\ ~Matchable(q)
      BY <1>2, <1>type, <2>1 DEF Refuse, RequestInv
    <2>3. Status[q] = "accepted" /\ Status' = [Status EXCEPT ![q] = "refused"]
      BY <1>2, <1>fate, <2>1, <2>2 DEF Refuse, Status
    <2>4. DOMAIN ResultsOf[q] = {}
      BY <2>2, HasRules, ResultsInOrder
    <2>5. UNCHANGED <<executed, Converted, Stored>>
      BY <1>2 DEF Refuse, Converted, Stored
    <2>6. Flow!Refuse(q)
      BY <2>3, <2>4, <2>5 DEF Flow!Refuse
    <2>7. QED
      BY <2>6 DEF Flow!FlowNext
  <1>3. ASSUME NEW n \in Nodes, DispatchRuleSet(n) \/ RuleSetUnsent(n) PROVE Goal
    <2>1. SendsSet(n) /\ Dispatched(n) /\ UNCHANGED <<executed, stages, rows>>
      BY <1>3 DEF DispatchRuleSet, RuleSetUnsent
    <2>2. PICK q \in Requests : q = matching[n] /\ matching[n] # NoRequest
      BY <1>type, <2>1 DEF SendsSet, TypeOK
    <2>3. fate[q] = "matching" /\ fate' = [fate EXCEPT ![q] = "dispatched"]
      BY <1>type, <2>1, <2>2 DEF Dispatched, RequestInv
    <2>4. Status' = Status
      BY <1>same, <1>fate, <2>3
    <2>5. QED
      BY <1>still, <2>1, <2>4
  <1>4. ASSUME NEW n \in Nodes, DispatchRule(n) \/ RuleUnsent(n) PROVE Goal
    <2>1. SendsRule(n) /\ ToNextRule(n) /\ UNCHANGED <<executed, stages, rows>>
      BY <1>4 DEF DispatchRule, RuleUnsent
    <2>2. PICK q \in Requests : q = matching[n] /\ fate[q] = "matching"
      BY <1>type, <2>1, NextPlace
    <2>3. fate' = [fate EXCEPT ![q] = "dispatched"] \/ fate' = [fate EXCEPT ![q] = "matching"]
      BY <2>1, <2>2 DEF ToNextRule
    <2>4. Status' = Status
      BY <1>same, <1>fate, <2>2, <2>3
    <2>5. QED
      BY <1>still, <2>1, <2>4
  <1>5. ASSUME NEW n \in Nodes, NEW q \in Requests, TakeRequest(n, q) PROVE Goal
    <2>1. fate[q] = "queued" /\ fate' = [fate EXCEPT ![q] = "matching"]
      BY <1>5, <1>type DEF TakeRequest, RequestInv
    <2>2. Status' = Status
      BY <1>same, <1>fate, <2>1
    <2>3. QED
      BY <1>5, <1>still, <2>2 DEF TakeRequest
  <1>6. ASSUME NEW n \in Nodes, ExecuteNextRule(n) PROVE Goal
    <2> DEFINE q == running[n]
    <2>1. /\ q # NoRequest /\ place[n] =< Len(RulesFor(q))
          /\ executed' = [executed EXCEPT ![<<q, place[n]>>] = executed[<<q, place[n]>>] + 1]
          /\ UNCHANGED <<fate, stages, rows>>
      BY <1>6 DEF ExecuteNextRule
    <2>2. /\ q \in Requests /\ place[n] \in Places(q) /\ Status[q] = "accepted"
          /\ executed[<<q, place[n]>>] = 0
          /\ \A j \in Places(q) : j < place[n] => executed[<<q, j>>] = 1
      BY <2>1, SetRuns
    <2> HIDE DEF q, Goal
    <2>3. QED
      BY <1>run, <2>1, <2>2
  <1>7. ASSUME NEW n \in Nodes, NEW x \in Results,
               ExecuteRule(n, x) \/ (RuleFails(n, x) /\ executed' # executed)
        PROVE  Goal
    <2>1. /\ x \in ruleQ
          /\ executed' = [executed EXCEPT ![x] = executed[x] + 1]
          /\ UNCHANGED <<fate, stages, rows>>
      BY <1>7 DEF ExecuteRule, RuleFails
    <2>2. x[1] \in Requests /\ ~InOrder(x[1]) /\ executed[x] = 0 /\ Status[x[1]] = "accepted"
      BY <2>1, RuleRuns
    <2>3. x = <<x[1], x[2]>> /\ x[2] \in Places(x[1])
      BY ResultPair
    <2> HIDE DEF Goal
    <2>4. QED
      BY <1>run, <2>1, <2>2, <2>3
  <1>8. ASSUME NEW n \in Nodes, NEW q \in Requests, ConvertRuleSet(n, q) PROVE Goal
    <2>1. \A x \in Results : stages'[x] # stages[x] => InChannel(n, x)
      BY <1>8 DEF ConvertRuleSet, InChannel
    <2>2. Flow!Convert
      BY <1>8, <2>1, ConvertFlow DEF ConvertRuleSet
    <2>3. QED
      BY <2>2 DEF Flow!FlowNext
  <1>9. ASSUME NEW n \in Nodes, NEW q \in Requests, NEW whole \in 0..Len(RulesFor(q)),
               NEW types, ConvertRuleSetFails(n, q, whole, types)
        PROVE  Goal
    <2>1. \A x \in Results : stages'[x] # stages[x] => InChannel(n, x)
      BY <1>9 DEF ConvertRuleSetFails, InChannel
    <2>2. Flow!Convert
      BY <1>9, <2>1, ConvertFlow DEF ConvertRuleSetFails
    <2>3. QED
      BY <2>2 DEF Flow!FlowNext
  <1>10. ASSUME NEW n \in Nodes, NEW y \in Results, ConvertRule(n, y) PROVE Goal
    <2>1. \A x \in Results : stages'[x] # stages[x] => InChannel(n, x)
      BY <1>10, <1>type DEF ConvertRule, Convert, InChannel, TypeOK
    <2>2. Flow!Convert
      BY <1>10, <2>1, ConvertFlow DEF ConvertRule, Convert
    <2>3. QED
      BY <2>2 DEF Flow!FlowNext
  <1>11. ASSUME NEW n \in Nodes, NEW saved \in SUBSET listed[n], Flush(n, saved) PROVE Goal
    <2>1. UNCHANGED <<Status, executed, Converted>>
      BY <1>11 DEF Flush, Status, Converted
    <2>2. rows' = rows \cup saved
      BY <1>11 DEF Flush
    <2>3. Stored \subseteq Stored'
      BY <2>2 DEF Stored
    <2>4. Stored' \subseteq Converted
      BY <2>2 DEF Stored, FlowInv, Saved
    <2>5. Flow!Store
      BY <2>1, <2>3, <2>4 DEF Flow!Store
    <2>6. QED
      BY <2>5 DEF Flow!FlowNext
  <1> HIDE DEF Goal
  <1>12. ASSUME NEW n \in Nodes,
                \/ MatchFails(n) \/ StartListener(n) \/ Evaluate(n) \/ HandOn(n)
                \/ RuleSetFails(n) \/ Crash(n)
         PROVE  Goal
    BY <1>12, <1>quiet DEF MatchFails, StartListener, Evaluate, HandOn, RuleSetFails, Crash
  <1>13. ASSUME NEW n \in Nodes, NEW x,
                \/ StartLoop(n, x) \/ TakeRuleSet(n, x) \/ ConvertRuleFails(n, x)
                \/ RuleFails(n, x) /\ executed' = executed
         PROVE  Goal
    BY <1>13, <1>quiet DEF StartLoop, TakeRuleSet, ConvertRuleFails, RuleFails
  <1>14. CASE Tick \/ UNCHANGED vars
    BY <1>14, <1>quiet DEF Tick, vars
  <1>15. QED
    BY <1>1, <1>2, <1>3, <1>4, <1>5, <1>6, <1>7, <1>8, <1>9, <1>10, <1>11, <1>12, <1>13, <1>14
       DEF Next, Match, RunRules

\* A row is never written of a result whose stages were not saved, and what is
\* refused had nothing to run.
THEOREM FlowKept == Spec => []FlowInv
  <1>1. Init => FlowInv
    BY DEF Init, FlowInv
  <1>2. PInv /\ FlowInv /\ [Next]_vars => FlowInv'
    BY FlowInvStep DEF PInv
  <1>3. QED
    BY <1>1, <1>2, PipelineInvariant, PTL DEF Spec

\* The nodes, lists and channels together implement ResultFlow: rules run at most
\* once, those of an ordered set one by one in their order (a failure or a restart
\* may stop them anywhere), a result is converted after its rule has run, one of an
\* ordered set only after all its rules have, and stored after that, whatever is
\* lost.
THEOREM PipelineFlows == Spec => ImplementsFlow
  BY InitFlow, StepFlow, PipelineInvariant, FlowKept, PTL
     DEF Spec, ImplementsFlow, Flow!FlowSpec
==============================================================================
