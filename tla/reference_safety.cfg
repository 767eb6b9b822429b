SPECIFICATION FairSpec
INVARIANTS TypeOK OneOpenTask DataOfTasks StaleOnly
PROPERTIES AnswersCurrent ClientsServed
CONSTANTS
  c1 = c1  c2 = c2  c3 = c3
  Clients = {c1, c2}
  Expiry = 1  MaxTasks = 10  MaxTime = 3  MaxFailures = 1
CHECK_DEADLOCK FALSE
