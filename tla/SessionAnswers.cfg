SPECIFICATION Spec
CONSTANTS
  r1 = r1
  r2 = r2
  s1 = s1
  Reqs = {r1, r2}
  Main = main
  Subs = {s1}
  User = user
  None = none
  Scenarios <- Answering
  MaxParts = 1
  MaxWaits = 1
INVARIANTS SuccessIsComplete
CHECK_DEADLOCK FALSE
