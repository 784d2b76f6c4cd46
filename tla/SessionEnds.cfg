SPECIFICATION FairSpec
CONSTANTS
  r1 = r1
  r2 = r2
  s1 = s1
  Reqs = {r1, r2}
  Main = main
  Subs = {s1}
  User = user
  None = none
  Scenarios <- Ends
  MaxParts = 1
  MaxWaits = 1
INVARIANTS NoOrphan
PROPERTIES IdleKept EveryRequestReturns
CHECK_DEADLOCK FALSE
