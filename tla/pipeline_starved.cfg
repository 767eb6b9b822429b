SPECIFICATION FairSpec
PROPERTIES OrderedConverted
CONSTANTS
  n1 = n1  n2 = n2
  first = first  second = second  sorted = sorted  chained = chained  named = named
  loan = loan  card = card
  plain = plain  chain = chain  empty = empty
  accept1 = accept1  accept2 = accept2  score1 = score1
  ACCEPTANCE = ACCEPTANCE  SCORE = SCORE
  noSet = noSet  noRequest = noRequest
  NoSet = noSet  NoRequest = noRequest
  Nodes = {n1}
  Requests = {sorted}
  BizTypes <- MCBizTypes
  RuleSets <- MCRuleSets
  Rules <- MCRules
  MatchTypes <- MCTypes
  Method <- MCMethod
  BizTypeOf <- MCBizTypeOf
  NamedSet <- MCNamedSet
  DefaultSet <- MCDefault
  BizTypeOfSet <- MCBizTypeOfSet
  Ordered = {chain}
  RulesOf <- MCRulesOf
  TypeOf <- MCTypeOf
  CoreThreads = 3  MaxEvaluates = 0
  MaxFailures = 0  MaxCrashes = 0  MaxTime = 0
CHECK_DEADLOCK FALSE
