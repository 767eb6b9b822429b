SPECIFICATION Spec
INVARIANTS TypeOK StageStack TracesOwnRule AnswerComplete ErrorsReachTop
PROPERTY ListsFinal
CONSTANTS
  t1 = t1  t2 = t2
  limit = limit  score = score  income = income  overdue = overdue
  noRule = noRule  noStatus = noStatus  noProblem = noProblem
  NoRule = noRule  NoStatus = noStatus  NoProblem = noProblem
  Threads = {t1, t2}
  Rules = {limit, score}
  Params = {income}
  MaxExecutions = 2  MaxStages <- MCMaxStages
SYMMETRY ExecutionSymmetry
CHECK_DEADLOCK FALSE
