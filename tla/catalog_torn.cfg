SPECIFICATION Spec
INVARIANT ReadsOneVersion
CONSTANTS
  s1 = s1  s2 = s2  ra = ra  ka = ka  loan = loan  card = card  x = x
  tree = tree  table = table  noRow = noRow  noDesign = noDesign
  NoRow = noRow  NoDesign = noDesign
  Designs = {tree, table}
  Sessions = {s1, s2}
  Rules = {ra}
  RuleSets = {ka}
  BizTypes = {loan, card}
  Sqls = {x}
  RuleDrafts <- MCRuleDrafts
  SetDrafts <- MCSetDrafts
  MaxWrites = 5
CHECK_DEADLOCK FALSE
