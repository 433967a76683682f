CONSTANTS
  t1 = t1  t2 = t2  c1 = c1  c2 = c2  c3 = c3
  Timers = {t1, t2}
  Clients = {c1, c2, c3}
  TimedRestart = {t2}
  Long = {t2}
SPECIFICATION FairSpec
INVARIANTS
  NoLostTimer
  NoUseAfterDestroy
PROPERTIES
  RecreateIsBlocking
  ScheduledFires
