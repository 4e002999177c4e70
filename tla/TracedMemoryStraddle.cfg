CONSTANTS
  CACHELINE_SIZE = 2
  StoreShapes <- StraddlingShapes
  FlushAddresses <- LineStarts
  MaxId = 5
SPECIFICATION TMSpec
INVARIANT FirstLineExact
CHECK_DEADLOCK FALSE
