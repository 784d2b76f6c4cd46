SPECIFICATION Spec
CONSTANTS
  a1 = a1
  a2 = a2
  f1 = f1
  f2 = f2
  o1 = o1
  o2 = o2
  Ops = {o1, o2}
  Files = {f1, f2}
  Addrs = {a1, a2}
  First = a1
  FirstFull = a1
  None = none
  Scenarios <- Reconnecting
  MaxSess = 3
  MaxOps = 4
INVARIANTS NoLeakedSession  NoCorpse
CHECK_DEADLOCK FALSE
