\* A tree of two branches with two baskets each, in a file of six bytes read in
\* blocks of three; one operation fails and another goroutine reads the file once.
SPECIFICATION FairSpec
CONSTANTS
  Callers = {0, 1, 2}
  Size = 6
  BlkSize = 3
  MaxErrors = 1
  Baskets <- TwoBranches
  Scenarios <- Explored
  Other = 0
  OtherSpans <- Overlapping
  ResetTo <- Middle
INVARIANTS ReadsRight SplitIsComplement ServesEntry OnePlaceEach NoneLeft
PROPERTIES ReadReturns
CHECK_DEADLOCK FALSE
