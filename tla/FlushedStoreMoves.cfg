CONSTANTS
  CACHELINE_SIZE = 2
  StoreShapes <- StraddlingShapes
  FlushAddresses <- LineStarts
  MaxId = 4
SPECIFICATION TMSpec
INVARIANT FlushedStoreMoves
CHECK_DEADLOCK FALSE
