SPECIFICATION FairSpec
INVARIANT AnswerInOrder
PROPERTY UnorderedConverted
CONSTANTS
  n1 = n1  n2 = n2
  first = first  second = second  sorted = sorted  chained = chained  named = named
  loan = loan  card = card
  plain = plain  chain = chain  empty = empty
  accept1 = accept1  accept2 = accept2  score1 = score1
  ACCEPTANCE = ACCEPTANCE  SCORE = SCORE
  noSet = noSet  noRequest = noRequest
  NoSet = noSet  NoRequest = noRequest
  Nodes = {n1}
  Requests = {first, second, named}
  BizTypes <- MCBizTypes
  RuleSets <- MCRuleSets
  Rules <- MCRules
  MatchTypes <- MCTypes
  Method <- MCMethod
  BizTypeOf <- MCBizTypeOf
  NamedSet <- MCNamedSet
  DefaultSet <- MCDefault
  BizTypeOfSet <- MCBizTypeOfSet
  Ordered = {chain}
  RulesOf <- MCRulesOf
  TypeOf <- MCTypeOf
  CoreThreads = 4  MaxEvaluates = 2
  MaxFailures = 0  MaxCrashes = 0  MaxTime = 1
CHECK_DEADLOCK FALSE
