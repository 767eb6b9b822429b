SPECIFICATION FairSpec
CONSTANTS
  o1 = o1 w1 = w1 w2 = w2 t1 = t1 t2 = t2 t3 = t3
  mo = mo m1 = m1 m2 = m2 ra = ra rb = rb rc = rc rd = rd
  Workers = {o1, w1}
  Timers = {t1, t2}
  Channels = {"ruleSet", "rules"}
  Serves <- MCServes
  Messages = {mo, m1}
  ChannelOf <- MCChannelOf
  Payload <- MCPayload
  Results = {ra, rb, rc}
  NoThread = NoThread
  HitSize = 2
  MaxFailures = 0
  MaxCrashes = 0
CHECK_DEADLOCK FALSE
PROPERTY ListDrains
