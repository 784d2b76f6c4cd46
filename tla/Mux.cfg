SPECIFICATION FairSpec
CONSTANTS
  Callers = {c1}
  Workers = {t1, t2}
  PoolSize = 2
  FreeCap = 1
  MaxWaiters = 2
INVARIANTS NoPanic NoLostWaiter ClosedIsRetired
PROPERTIES UnclaimReturns CloseReleasesCallers IsStreams
CHECK_DEADLOCK FALSE
