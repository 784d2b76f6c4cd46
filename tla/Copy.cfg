SPECIFICATION FairSpec
CONSTANTS
  f1 = f1
  f2 = f2
  f3 = f3
  Files = {f1, f2, f3}
  Groups <- TwoGroups
  ResumeModes = {TRUE, FALSE}
  Verify = TRUE
  Parallel = 2
  Sizes = {0, 2}
  MayReplace <- BetweenAttempts
  MaxReplaced = 1
  MaxFails = 2
INVARIANTS RightCopy KeyWhilePulling
PROPERTIES Continues CopiedAtLast
CHECK_DEADLOCK FALSE
