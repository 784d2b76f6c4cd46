SPECIFICATION FairSpec
CONSTANTS
  c1 = c1
  r1 = r1
  r2 = r2
  r3 = r3
  Conns = {c1}
  Reqs = {r1, r2, r3}
  None = none
  HandleSpace = 4
  Scenarios <- Explored
INVARIANTS NoDescriptorLeak HandlesDistinct GraceKept 
 
CHECK_DEADLOCK FALSE
