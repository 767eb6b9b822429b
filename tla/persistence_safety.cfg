SPECIFICATION Spec
CONSTANTS
  o1 = o1 w1 = w1 w2 = w2 t1 = t1 t2 = t2 t3 = t3
  mo = mo m1 = m1 m2 = m2 ra = ra rb = rb rc = rc rd = rd
  Workers = {o1, w1, w2}
  Timers = {t1, t2, t3}
  Channels = {"ruleSet", "rules"}
  Serves <- MCServes
  Messages = {mo, m1, m2}
  ChannelOf <- MCChannelOf
  Payload <- MCPayload
  Results = {ra, rb, rc, rd}
  NoThread = NoThread
  HitSize = 2
  MaxFailures = 1
  MaxCrashes = 1
INVARIANTS TypeOK AtMostOnce OneFlushAtATime HitFlushed FlusherThere
PROPERTY ImplementsStore
CHECK_DEADLOCK FALSE
SYMMETRY Symmetry
