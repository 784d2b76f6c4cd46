SPECIFICATION FairSpec
CONSTANTS
  t1 = t1
  t2 = t2
  o1 = o1
  o2 = o2
  p1 = p1
  p2 = p2
  Comps = {input, t1, t2, o1}
  Ports = {p1, p2}
  Types = {a}
  NoType = none
  Input = input
  Tasks = {t1, t2}
  Outs = {o1}
  NProcs = {0, 2}
  EvtMax = 2
  MaxFails = 1
  SelfLoops = FALSE
  Explored <- Apps
INVARIANTS StartedIsRight  EachOnce PutBackFree
PROPERTIES LoopEnds
CHECK_DEADLOCK FALSE
