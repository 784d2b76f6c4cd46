\* Two objects under one or two names, in two directories; two writes fail and Close
\* is called up to three times.
SPECIFICATION Spec
CONSTANTS
  Names = {"a", "b"}
  Lens = {1}
  Begin = 2
  Big = 99
  MaxPuts = 2
  MaxFails = 2
  MaxCloses = 3
INVARIANTS  ClosedIsComplete FreeIsUnused 
CHECK_DEADLOCK FALSE
