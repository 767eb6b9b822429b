---------------------------- MODULE MatchPipeline ----------------------------
(***************************************************************************)
(* The path of a match request through the nodes and their Redis lists:     *)
(*   MatchResourceImpl.match   -> list matchRequestData                     *)
(*   MatchServiceImpl.match    -> list ruleSet (ordered rule set, whole)    *)
(*                             or list rules   (else, one message per rule) *)
(*   RuleExeServiceActivator   -> the node's two output channels            *)
(*   PersistenceServiceActivator -> resultsList -> table re_result          *)
(*   ResultServiceImpl.get...Result reads the table.                        *)
(* A popped message is only in the memory of its node, so a restart loses   *)
(* it.  Several nodes pop the lists, so these are sets: no order of         *)
(* execution follows from the order of arrival.  What a rule computes is    *)
(* left out; a result is known by its request and its place in the rule     *)
(* set.  All requests are about one bizCode.  How resultsList is flushed is *)
(* in ResultPersistence; here a flush may drop rows.                        *)
(* Two pools run all this on a node: singleTaskExecutor, whose one thread   *)
(* the way of the ordered rule sets shares, and taskExecutor, whose threads *)
(* the two other listeners, the poller of rulesOutputChannel and the calls  *)
(* of evaluate share.                                                       *)
(***************************************************************************)
EXTENDS Naturals, Sequences, FiniteSets, Functions

CONSTANTS
  Nodes,         \* processes that run the engine
  Requests,      \* match requests
  Method,        \* Method[q]: MatchRequestMethod of q
  BizTypeOf,     \* BizTypeOf[q]: the bizType q is about
  NamedSet,      \* NamedSet[q]: the rule set and version q names, or NoSet
  BizTypes, RuleSets, Rules, MatchTypes,
  DefaultSet,    \* DefaultSet[b]: the rule set assigned to bizType b, or NoSet
  BizTypeOfSet,  \* BizTypeOfSet[s]: the bizType of rule set s
  Ordered,       \* the rule sets whose rules run in order
  RulesOf,       \* RulesOf[s]: the rules of rule set s, in order
  TypeOf,        \* TypeOf[r]: what rule r yields
  NoSet, NoRequest,
  CoreThreads,   \* si.taskExecutor.corePoolSize; the queue behind is unbounded
  MaxEvaluates,  \* bound: calls of evaluate on a node
  MaxFailures,   \* bound: exceptions that lose a message
  MaxCrashes,    \* bound: restarts of a node
  MaxTime        \* bound: seconds that pass

Methods == {"REQUEST", "BIZTYPE", "NAMED"}
Loops == {"requests", "rules"}  \* the endless listeners on taskExecutor

ASSUME PipelineAssumption ==
  /\ Method \in [Requests -> Methods]
  /\ BizTypeOf \in [Requests -> BizTypes]
  /\ NamedSet \in [Requests -> RuleSets \cup {NoSet}]
  /\ DefaultSet \in [BizTypes -> RuleSets \cup {NoSet}]
  /\ BizTypeOfSet \in [RuleSets -> BizTypes]
  /\ Ordered \subseteq RuleSets
  /\ RulesOf \in [RuleSets -> Seq(Rules)]
  /\ \A s \in RuleSets : \A i, j \in DOMAIN RulesOf[s] :
       RulesOf[s][i] = RulesOf[s][j] => i = j
  /\ TypeOf \in [Rules -> MatchTypes]
  /\ NoSet \notin RuleSets
  /\ NoRequest \notin Requests
  /\ CoreThreads \in Nat /\ CoreThreads >= 2
  /\ MaxEvaluates \in Nat /\ MaxFailures \in Nat /\ MaxCrashes \in Nat /\ MaxTime \in Nat

VARIABLES
  fate,       \* what has become of each request
  requestQ,   \* Redis list matchRequestData
  setQ,       \* Redis list ruleSet: requests whose rule set waits to run
  ruleQ,      \* Redis list rules: <<request, sortId>>
  matching,   \* the request each node is matching, NoRequest when none
  next,       \* sortId of the next rule it sends to list rules, else 1
  running,    \* the ordered request whose rules each node runs, or NoRequest
  place,      \* sortId of the rule that is to run next, else 1
  lane,       \* what the one thread of singleTaskExecutor does on each node
  loops,      \* the listeners that have a thread of taskExecutor on each node
  evals,      \* how many of its threads the calls of evaluate have taken
  setOut,     \* ruleSetOutputChannel of each node
  ruleOut,    \* rulesOutputChannel of each node
  listed,     \* rows in resultsList of each node
  rows,       \* table re_result
  executed,   \* how often each rule of each request has been executed
  stages,     \* how often the stages of each result are in re_match_stage
  now,        \* the clock, in the seconds that column time has
  failures, crashes

lists == <<requestQ, setQ, ruleQ>>
intake == <<fate, matching, next>>
order == <<running, place>>
threads == <<lane, loops, evals>>
channels == <<setOut, ruleOut>>
vars == <<lists, intake, order, threads, channels, listed, rows,
          executed, stages, now, failures, crashes>>

------------------------------------------------------------------------------
(* Which rule set a request gets.                                           *)

\* match(request) takes the named rule set if it is of the bizType, else the
\* assigned one. match with four arguments checks the named rule set, but
\* then takes the rules of getSimpleBizType's answer, which has no rule set.
MatchedSet(q) ==
  IF NamedSet[q] = NoSet \/ Method[q] = "BIZTYPE" THEN DefaultSet[BizTypeOf[q]]
  ELSE IF Method[q] = "REQUEST" /\ BizTypeOfSet[NamedSet[q]] = BizTypeOf[q]
         THEN NamedSet[q]
         ELSE NoSet

InOrder(q) == MatchedSet(q) \in Ordered
Matchable(q) == MatchedSet(q) # NoSet /\ RulesOf[MatchedSet(q)] # <<>>
RulesFor(q) == IF MatchedSet(q) = NoSet THEN <<>> ELSE RulesOf[MatchedSet(q)]
Places(q) == DOMAIN RulesFor(q)
Results == UNION {{q} \X Places(q) : q \in Requests}

\* A result of an ordered rule set is written once for every entity of its
\* message; entity tells these rows apart, as the table's id does.
Row(q, i, entity, time) ==
  [req |-> q, set |-> MatchedSet(q), rule |-> RulesFor(q)[i], sortId |-> i,
   entity |-> entity, time |-> time]
RowSpace == {Row(x[1], x[2], x[3], x[4]) :
               x \in UNION {{q} \X Places(q) \X Places(q) \X (0..MaxTime) : q \in Requests}}
Fates == {"new", "queued", "matching", "dispatched", "refused"}

TypeOK ==
  /\ fate \in [Requests -> Fates]
  /\ requestQ \subseteq Requests
  /\ setQ \subseteq Requests
  /\ ruleQ \subseteq Results
  /\ matching \in [Nodes -> Requests \cup {NoRequest}]
  /\ next \in [Nodes -> Nat \ {0}]
  /\ running \in [Nodes -> Requests \cup {NoRequest}]
  /\ place \in [Nodes -> Nat \ {0}]
  /\ lane \in [Nodes -> {"poll", "listen"}]
  /\ loops \in [Nodes -> SUBSET Loops]
  /\ evals \in [Nodes -> 0..MaxEvaluates]
  /\ setOut \in [Nodes -> SUBSET Requests]
  /\ ruleOut \in [Nodes -> SUBSET Results]
  /\ listed \in [Nodes -> SUBSET RowSpace]
  /\ rows \subseteq RowSpace
  /\ executed \in [Results -> Nat]
  /\ stages \in [Results -> Nat]
  /\ now \in 0..MaxTime
  /\ failures \in 0..MaxFailures
  /\ crashes \in 0..MaxCrashes

Init ==
  /\ fate = [q \in Requests |-> "new"]
  /\ requestQ = {} /\ setQ = {} /\ ruleQ = {}
  /\ matching = [n \in Nodes |-> NoRequest]
  /\ next = [n \in Nodes |-> 1]
  /\ running = [n \in Nodes |-> NoRequest]
  /\ place = [n \in Nodes |-> 1]
  /\ lane = [n \in Nodes |-> "poll"]
  /\ loops = [n \in Nodes |-> Loops]
  /\ evals = [n \in Nodes |-> 0]
  /\ setOut = [n \in Nodes |-> {}]
  /\ ruleOut = [n \in Nodes |-> {}]
  /\ listed = [n \in Nodes |-> {}]
  /\ rows = {}
  /\ executed = [x \in Results |-> 0]
  /\ stages = [x \in Results |-> 0]
  /\ now = 0
  /\ failures = 0
  /\ crashes = 0

------------------------------------------------------------------------------
(* taskExecutor: as many threads as corePoolSize says, as its queue is never *)
(* full.                                                                     *)

Free(n) == Cardinality(loops[n]) + evals[n] < CoreThreads
Drop(n, loop) == loops' = [loops EXCEPT ![n] = @ \ {loop}]

\* MatchResourceImpl.evaluate: the listener of the call's own list gets a thread
\* and is never stopped.
Evaluate(n) ==
  /\ Free(n)
  /\ evals[n] < MaxEvaluates
  /\ evals' = [evals EXCEPT ![n] = @ + 1]
  /\ UNCHANGED <<lists, intake, order, lane, loops, channels, listed, rows,
                 executed, stages, now, failures, crashes>>

\* A listener that a message made throw gets a thread for its loop again.
StartLoop(n, loop) ==
  /\ loop \notin loops[n]
  /\ Free(n)
  /\ loops' = [loops EXCEPT ![n] = @ \cup {loop}]
  /\ UNCHANGED <<lists, intake, order, lane, evals, channels, listed, rows,
                 executed, stages, now, failures, crashes>>

------------------------------------------------------------------------------
(* MatchResourceImpl and RequestServiceActivator.                           *)

Submit(q) ==
  /\ fate[q] = "new"
  /\ fate' = [fate EXCEPT ![q] = "queued"]
  /\ requestQ' = requestQ \cup {q}
  /\ UNCHANGED <<setQ, ruleQ, matching, next, order, threads, channels, listed, rows,
                 executed, stages, now, failures, crashes>>

\* A slip: sortId is counted up before its first use.
TakeRequestCounted(n, q) ==
  /\ "requests" \in loops[n]
  /\ matching[n] = NoRequest
  /\ q \in requestQ
  /\ requestQ' = requestQ \ {q}
  /\ fate' = [fate EXCEPT ![q] = "matching"]
  /\ matching' = [matching EXCEPT ![n] = q]
  /\ next' = [next EXCEPT ![n] = 2]
  /\ UNCHANGED <<setQ, ruleQ, order, threads, channels, listed, rows,
                 executed, stages, now, failures, crashes>>

TakeRequest(n, q) ==
  /\ "requests" \in loops[n]
  /\ matching[n] = NoRequest
  /\ q \in requestQ
  /\ requestQ' = requestQ \ {q}
  /\ fate' = [fate EXCEPT ![q] = "matching"]
  /\ matching' = [matching EXCEPT ![n] = q]
  /\ next' = [next EXCEPT ![n] = 1]
  /\ UNCHANGED <<setQ, ruleQ, order, threads, channels, listed, rows,
                 executed, stages, now, failures, crashes>>

(* MatchServiceImpl.match and LocalRuleSetExecutor.execute. The listener     *)
(* calls them, so what they throw ends its loop until it is started again.   *)

\* match throws: no bizType, no rule set, no rules, or the rule set it looks
\* at is not there.
Refuse(n) ==
  /\ matching[n] # NoRequest
  /\ ~Matchable(matching[n])
  /\ fate' = [fate EXCEPT ![matching[n]] = "refused"]
  /\ matching' = [matching EXCEPT ![n] = NoRequest]
  /\ Drop(n, "requests")
  /\ UNCHANGED <<lists, next, order, lane, evals, channels, listed, rows,
                 executed, stages, now, failures, crashes>>

\* The data extraction, Redis or the database throws in the middle of match.
MatchFails(n) ==
  /\ matching[n] # NoRequest
  /\ failures < MaxFailures
  /\ failures' = failures + 1
  /\ matching' = [matching EXCEPT ![n] = NoRequest]
  /\ next' = [next EXCEPT ![n] = 1]
  /\ Drop(n, "requests")
  /\ UNCHANGED <<lists, fate, order, lane, evals, channels, listed, rows,
                 executed, stages, now, crashes>>

\* An ordered rule set is one message.
SendsSet(n) == /\ matching[n] # NoRequest
               /\ Matchable(matching[n])
               /\ InOrder(matching[n])
Dispatched(n) == /\ fate' = [fate EXCEPT ![matching[n]] = "dispatched"]
                 /\ matching' = [matching EXCEPT ![n] = NoRequest]

DispatchRuleSet(n) ==
  /\ SendsSet(n)
  /\ setQ' = setQ \cup {matching[n]}
  /\ Dispatched(n)
  /\ UNCHANGED <<requestQ, ruleQ, next, order, threads, channels, listed, rows,
                 executed, stages, now, failures, crashes>>

\* The message cannot be made into JSON, which is caught.
RuleSetUnsent(n) ==
  /\ SendsSet(n)
  /\ failures < MaxFailures
  /\ failures' = failures + 1
  /\ Dispatched(n)
  /\ UNCHANGED <<lists, next, order, threads, channels, listed, rows,
                 executed, stages, now, crashes>>

\* Otherwise every rule is a message of its own, sent one after the other.
SendsRule(n) == /\ matching[n] # NoRequest
                /\ Matchable(matching[n])
                /\ ~InOrder(matching[n])
\* A slip: the loop runs one past the last rule.
ToNextRulePastEnd(n) ==
  LET q == matching[n]
      last == next[n] > Len(RulesFor(q))
  IN
  /\ next' = [next EXCEPT ![n] = IF last THEN 1 ELSE @ + 1]
  /\ fate' = [fate EXCEPT ![q] = IF last THEN "dispatched" ELSE @]
  /\ matching' = [matching EXCEPT ![n] = IF last THEN NoRequest ELSE q]

ToNextRule(n) ==
  LET q == matching[n]
      last == next[n] = Len(RulesFor(q))
  IN
  /\ next' = [next EXCEPT ![n] = IF last THEN 1 ELSE @ + 1]
  /\ fate' = [fate EXCEPT ![q] = IF last THEN "dispatched" ELSE @]
  /\ matching' = [matching EXCEPT ![n] = IF last THEN NoRequest ELSE q]

DispatchRule(n) ==
  /\ SendsRule(n)
  /\ ruleQ' = ruleQ \cup {<<matching[n], next[n]>>}
  /\ ToNextRule(n)
  /\ UNCHANGED <<requestQ, setQ, order, threads, channels, listed, rows,
                 executed, stages, now, failures, crashes>>

\* The message of one rule cannot be made into JSON: the loop goes on.
RuleUnsent(n) ==
  /\ SendsRule(n)
  /\ failures < MaxFailures
  /\ failures' = failures + 1
  /\ ToNextRule(n)
  /\ UNCHANGED <<lists, order, threads, channels, listed, rows,
                 executed, stages, now, crashes>>

(* RuleExeServiceActivator. The listener of list ruleSet and the poller of   *)
(* ruleSetOutputChannel share the one thread of singleTaskExecutor; the      *)
(* listener is a loop that ends only when a message makes it throw.          *)

StartListener(n) ==
  /\ lane[n] = "poll"
  /\ lane' = [lane EXCEPT ![n] = "listen"]
  /\ UNCHANGED <<lists, intake, order, loops, evals, channels, listed, rows,
                 executed, stages, now, failures, crashes>>

TakeRuleSet(n, q) ==
  /\ lane[n] = "listen"
  /\ running[n] = NoRequest
  /\ q \in setQ
  /\ setQ' = setQ \ {q}
  /\ running' = [running EXCEPT ![n] = q]
  /\ place' = [place EXCEPT ![n] = 1]
  /\ UNCHANGED <<requestQ, ruleQ, intake, threads, channels, listed, rows,
                 executed, stages, now, failures, crashes>>

\* One after the other: each result is added to the results that the entities
\* of the message share.
ExecuteNextRule(n) ==
  LET q == running[n] IN
  /\ q # NoRequest
  /\ place[n] =< Len(RulesFor(q))
  /\ executed' = [executed EXCEPT ![<<q, place[n]>>] = @ + 1]
  /\ place' = [place EXCEPT ![n] = @ + 1]
  /\ UNCHANGED <<lists, intake, running, threads, channels, listed, rows,
                 stages, now, failures, crashes>>

\* A slip: the answer is returned inside the loop.
HandOnEarly(n) ==
  LET q == running[n] IN
  /\ q # NoRequest
  /\ place[n] > 1
  /\ setOut' = [setOut EXCEPT ![n] = @ \cup {q}]
  /\ running' = [running EXCEPT ![n] = NoRequest]
  /\ UNCHANGED <<lists, intake, place, threads, ruleOut, listed, rows,
                 executed, stages, now, failures, crashes>>

HandOn(n) ==
  LET q == running[n] IN
  /\ q # NoRequest
  /\ place[n] > Len(RulesFor(q))
  /\ setOut' = [setOut EXCEPT ![n] = @ \cup {q}]
  /\ place' = [place EXCEPT ![n] = 1]
  /\ running' = [running EXCEPT ![n] = NoRequest]
  /\ UNCHANGED <<lists, intake, threads, ruleOut, listed, rows,
                 executed, stages, now, failures, crashes>>

\* The message is lost with the results of the rules that have run. What is
\* thrown anywhere in the loop ends the listener's, which is queued again behind
\* the polls that wait for the thread; trouble with JSON, before the first rule
\* and after the last, is caught.
RuleSetFails(n) ==
  /\ running[n] # NoRequest
  /\ failures < MaxFailures
  /\ failures' = failures + 1
  /\ place' = [place EXCEPT ![n] = 1]
  /\ running' = [running EXCEPT ![n] = NoRequest]
  /\ \/ lane' = [lane EXCEPT ![n] = "poll"]
     \/ place[n] \in {1, Len(RulesFor(running[n])) + 1} /\ UNCHANGED lane
  /\ UNCHANGED <<lists, intake, loops, evals, channels, listed, rows,
                 executed, stages, now, crashes>>

\* A slip: the message is read and left in the list.
ExecuteRulePeeked(n, x) ==
  /\ "rules" \in loops[n]
  /\ x \in ruleQ
  /\ executed' = [executed EXCEPT ![x] = @ + 1]
  /\ ruleOut' = [ruleOut EXCEPT ![n] = @ \cup {x}]
  /\ UNCHANGED <<lists, intake, order, threads, setOut, listed, rows,
                 stages, now, failures, crashes>>

ExecuteRule(n, x) ==
  /\ "rules" \in loops[n]
  /\ x \in ruleQ
  /\ ruleQ' = ruleQ \ {x}
  /\ executed' = [executed EXCEPT ![x] = @ + 1]
  /\ ruleOut' = [ruleOut EXCEPT ![n] = @ \cup {x}]
  /\ UNCHANGED <<requestQ, setQ, intake, order, threads, setOut, listed, rows,
                 stages, now, failures, crashes>>

\* Before or after the rule has run; what is thrown ends the loop, trouble with
\* JSON is caught.
RuleFails(n, x) ==
  /\ "rules" \in loops[n]
  /\ x \in ruleQ
  /\ failures < MaxFailures
  /\ failures' = failures + 1
  /\ ruleQ' = ruleQ \ {x}
  /\ executed' \in {executed, [executed EXCEPT ![x] = @ + 1]}
  /\ Drop(n, "rules") \/ UNCHANGED loops
  /\ UNCHANGED <<requestQ, setQ, intake, order, lane, evals, channels, listed, rows,
                 stages, now, crashes>>

(* PersistenceServiceActivator and ResultServiceImpl.getResult.              *)

\* Every one of the n entities carries the n shared results, so each result
\* is converted, and its stages are saved, n times.
ConvertRuleSet(n, q) ==
  /\ lane[n] = "poll"
  /\ q \in setOut[n]
  /\ setOut' = [setOut EXCEPT ![n] = @ \ {q}]
  /\ listed' = [listed EXCEPT ![n] =
                  @ \cup {Row(q, x[1], x[2], now) : x \in Places(q) \X Places(q)}]
  /\ stages' = [x \in Results |->
                  IF x[1] = q THEN stages[x] + Len(RulesFor(q)) ELSE stages[x]]
  /\ UNCHANGED <<lists, intake, order, threads, ruleOut, rows,
                 executed, now, failures, crashes>>

Convert(n, x) ==
  /\ x \in ruleOut[n]
  /\ ruleOut' = [ruleOut EXCEPT ![n] = @ \ {x}]
  /\ listed' = [listed EXCEPT ![n] = @ \cup {Row(x[1], x[2], 1, now)}]
  /\ stages' = [stages EXCEPT ![x] = @ + 1]
  /\ UNCHANGED <<lists, intake, order, threads, setOut, rows,
                 executed, now, failures, crashes>>

\* A slip: the poller of rulesOutputChannel is given singleTaskExecutor too.
ConvertRuleOnLane(n, x) == lane[n] = "poll" /\ Convert(n, x)

ConvertRule(n, x) == Free(n) /\ Convert(n, x)

\* getResult throws: entities and match types before that point are converted,
\* the rest of the message is lost.
ConvertRuleSetFails(n, q, whole, types) ==
  LET part == {i \in Places(q) : TypeOf[RulesFor(q)[i]] \in types}
      seen == {x \in Places(q) \X Places(q) :
                 x[2] =< whole \/ (x[2] = whole + 1 /\ x[1] \in part)}
  IN
  /\ lane[n] = "poll"
  /\ q \in setOut[n]
  /\ failures < MaxFailures
  /\ whole < Len(RulesFor(q))
  /\ failures' = failures + 1
  /\ setOut' = [setOut EXCEPT ![n] = @ \ {q}]
  /\ listed' = [listed EXCEPT ![n] = @ \cup {Row(q, x[1], x[2], now) : x \in seen}]
  /\ stages' = [x \in Results |->
                  IF x[1] # q THEN stages[x]
                  ELSE stages[x] + whole + (IF x[2] \in part THEN 1 ELSE 0)]
  /\ UNCHANGED <<lists, intake, order, threads, ruleOut, rows,
                 executed, now, crashes>>

ConvertRuleFails(n, x) ==
  /\ Free(n)
  /\ x \in ruleOut[n]
  /\ failures < MaxFailures
  /\ failures' = failures + 1
  /\ ruleOut' = [ruleOut EXCEPT ![n] = @ \ {x}]
  /\ UNCHANGED <<lists, intake, order, threads, setOut, listed, rows,
                 executed, stages, now, crashes>>

\* A flush: the list is emptied, and some of it reaches the table (what may be
\* missing, and why, is in ResultPersistence).
Flush(n, saved) ==
  /\ listed[n] # {}
  /\ saved \subseteq listed[n]
  /\ rows' = rows \cup saved
  /\ listed' = [listed EXCEPT ![n] = {}]
  /\ UNCHANGED <<lists, intake, order, threads, channels,
                 executed, stages, now, failures, crashes>>

\* A restart: the listeners get their threads before the first call.
Crash(n) ==
  /\ crashes < MaxCrashes
  /\ crashes' = crashes + 1
  /\ matching' = [matching EXCEPT ![n] = NoRequest]
  /\ place' = [place EXCEPT ![n] = 1]
  /\ next' = [next EXCEPT ![n] = 1]
  /\ running' = [running EXCEPT ![n] = NoRequest]
  /\ lane' = [lane EXCEPT ![n] = "poll"]
  /\ loops' = [loops EXCEPT ![n] = Loops]
  /\ evals' = [evals EXCEPT ![n] = 0]
  /\ setOut' = [setOut EXCEPT ![n] = {}]
  /\ ruleOut' = [ruleOut EXCEPT ![n] = {}]
  /\ listed' = [listed EXCEPT ![n] = {}]
  /\ UNCHANGED <<lists, fate, rows, executed, stages, now, failures>>

Tick ==
  /\ now < MaxTime
  /\ now' = now + 1
  /\ UNCHANGED <<lists, intake, order, threads, channels, listed, rows,
                 executed, stages, failures, crashes>>

Match(n) == Refuse(n) \/ DispatchRuleSet(n) \/ DispatchRule(n)
RunRules(n) == ExecuteNextRule(n) \/ HandOn(n)

Next ==
  \/ \E q \in Requests : Submit(q)
  \/ \E n \in Nodes :
       \/ Evaluate(n)
       \/ \E loop \in Loops : StartLoop(n, loop)
       \/ Match(n)
       \/ MatchFails(n) \/ RuleSetUnsent(n) \/ RuleUnsent(n)
       \/ StartListener(n)
       \/ RunRules(n)
       \/ RuleSetFails(n)
       \/ \E q \in Requests : \/ TakeRequest(n, q)
                              \/ TakeRuleSet(n, q)
                              \/ ConvertRuleSet(n, q)
                              \/ \E whole \in 0..Len(RulesFor(q)), types \in SUBSET MatchTypes :
                                   ConvertRuleSetFails(n, q, whole, types)
       \/ \E x \in Results : \/ ExecuteRule(n, x)
                             \/ RuleFails(n, x)
                             \/ ConvertRule(n, x)
                             \/ ConvertRuleFails(n, x)
       \/ \E saved \in SUBSET listed[n] : Flush(n, saved)
       \/ Crash(n)
  \/ Tick

Spec == Init /\ [][Next]_vars

\* Every listener loops and every poller fires, as far as there is a thread for
\* it; the queue of an executor is first come, first served. Nothing is assumed
\* of the clients, and failures and restarts never must be.
Fairness ==
  \A n \in Nodes :
    /\ WF_vars(\E q \in Requests : TakeRequest(n, q))
    /\ WF_vars(Match(n))
    /\ WF_vars(StartListener(n))
    /\ \A loop \in Loops : WF_vars(StartLoop(n, loop))
    /\ WF_vars(\E q \in Requests : TakeRuleSet(n, q))
    /\ WF_vars(RunRules(n))
    /\ WF_vars(\E q \in Requests : ConvertRuleSet(n, q))
    /\ WF_vars(\E x \in Results : ExecuteRule(n, x))
    /\ WF_vars(\E x \in Results : ConvertRule(n, x))
    /\ WF_vars(\E saved \in SUBSET listed[n] : Flush(n, saved))

FairSpec == Spec /\ Fairness

------------------------------------------------------------------------------
(* ResultServiceImpl: what a client reads.                                  *)

\* A slip: order by time desc alone.
BeforeByTime(a, b) == a.time > b.time

\* order by sortId, time desc
Before(a, b) == a.sortId < b.sortId \/ (a.sortId = b.sortId /\ a.time > b.time)

\* What is stored of one rule set and one kind of result.
RowsOf(s, type) == {r \in rows : r.set = s /\ TypeOf[r.rule] = type}

\* The lists that ResultDao may return: rows of two requests with one sortId
\* and one time come in either order.
Listings(S) ==
  {list \in Bijection(1..Cardinality(S), S) :
     \A i, j \in DOMAIN list : i < j => ~Before(list[j], list[i])}

\* A slip: rows are compared, no two of which are the same.
DistinctRows(list) ==
  Restrict(list, {i \in DOMAIN list : i = 1 \/ list[i] # list[i - 1]})

\* distinctResults: of rows of one rule next to each other, the first. The rows
\* that stay keep their places in the list, so an answer may have gaps.
Distinct(list) ==
  Restrict(list, {i \in DOMAIN list : i = 1 \/ list[i].rule # list[i - 1].rule})

Answers(s, type) == {Distinct(list) : list \in Listings(RowsOf(s, type))}

------------------------------------------------------------------------------
(* Properties.                                                              *)

\* The message that is to bring result x about waits in a list, its rule set
\* runs on node n and has not been handed on, or the result is in an output
\* channel of node n.
InList(x) == x \in ruleQ \/ x[1] \in setQ
InRun(n, x) == running[n] = x[1]
InChannel(n, x) == x \in ruleOut[n] \/ x[1] \in setOut[n]

\* Its rule is still to run.
ToRun(x) == InList(x) \/ \E n \in Nodes : InRun(n, x) /\ place[n] =< x[2]

Where(x) ==
  (IF InList(x) THEN {<<"list">>} ELSE {})
    \cup {<<"run", n>> : n \in {m \in Nodes : InRun(m, x)}}
    \cup {<<"channel", n>> : n \in {m \in Nodes : InChannel(m, x)}}
    \cup (IF stages[x] > 0 THEN {<<"converted">>} ELSE {})

\* No rule of a request runs twice, however many nodes pop the lists, fail or
\* restart in between: a list gives a message to one node only, and the loop
\* that sends the rules of an unordered set sends each of them once.
ExecutedOnce ==
  \A x \in Results : executed[x] + (IF ToRun(x) THEN 1 ELSE 0) =< 1

\* A result is in one place at a time on its way from the list to the table,
\* and while nothing fails or restarts it is somewhere once its request has
\* been dispatched: both ways through the engine hand every result on.
OnePlace ==
  \A x \in Results :
    /\ \A a, b \in Where(x) : a = b
    /\ failures = 0 /\ crashes = 0 /\ fate[x[1]] = "dispatched" => Where(x) # {}

\* Whatever rows have been written, of however many runs of a rule set, in
\* whatever order: a client that asks for the results of the rule set gets the
\* rules in the order of the set, each once, with its newest row, however the
\* database orders rows that tie. (sortId is
\* given by LocalRuleSetExecutor on one way and by RuleExeServiceActivator on
\* the other; distinctResults only looks at neighbours.)
AnswerInOrder ==
  \A s \in RuleSets, type \in MatchTypes :
    /\ Answers(s, type) # {}
    /\ \A answer \in Answers(s, type) :
         /\ \A i, j \in DOMAIN answer :
              i < j => \E k, l \in DOMAIN RulesOf[s] :
                         k < l /\ answer[i].rule = RulesOf[s][k]
                               /\ answer[j].rule = RulesOf[s][l]
         /\ \A r \in RowsOf(s, type) : \E i \in DOMAIN answer :
              answer[i].rule = r.rule /\ answer[i].time >= r.time

\* What the flow of results knows of a state.
ResultsOf == [q \in Requests |-> [i \in Places(q) |-> <<q, i>>]]
Sequential == {q \in Requests : InOrder(q)}
Status == [q \in Requests |-> IF fate[q] \in {"new", "refused"} THEN fate[q] ELSE "accepted"]
Converted == {x \in Results : stages[x] > 0}
Stored == {<<r.req, r.sortId>> : r \in rows}

\* The pipeline implements the flow that runs rules at most once, those of an
\* ordered rule set in their order, and stores only results of what has run, of
\* an ordered rule set only when all of it has, whatever is lost on the way. A
\* result counts as stored when some row is its.
Flow == INSTANCE ResultFlow WITH
  Of <- ResultsOf, status <- Status, ran <- executed, converted <- Converted, stored <- Stored
ImplementsFlow == Flow!FlowSpec

\* The calls of evaluate have taken every thread that the listeners leave.
UsedUp(n) == Cardinality(Loops) + evals[n] >= CoreThreads

\* A dispatched request of an unordered rule set gets all its results
\* converted, unless something fails or restarts, or evaluate has been called on
\* some node until no thread was left for the poller. (Listeners whose loops a
\* refused request has ended compete with these calls for a thread.)
UnorderedConverted ==
  \A q \in Requests :
    fate[q] = "dispatched" /\ ~InOrder(q)
      ~> \/ \A i \in Places(q) : stages[<<q, i>>] > 0
         \/ failures > 0 \/ crashes > 0
         \/ \E n \in Nodes : UsedUp(n)

\* The same of an ordered rule set: "all executed results were ready to redis
\* queue and waiting for persistence" (RuleExeServiceActivator).
OrderedConverted ==
  \A q \in Requests :
    fate[q] = "dispatched" /\ InOrder(q)
      ~> (\A i \in Places(q) : stages[<<q, i>>] > 0) \/ failures > 0 \/ crashes > 0
==============================================================================
