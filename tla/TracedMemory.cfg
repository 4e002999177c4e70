CONSTANTS
  CACHELINE_SIZE = 2
  StoreShapes <- NestedShapes
  FlushAddresses <- LineStarts
  MaxId = 5
SPECIFICATION TMSpec
INVARIANTS TypeOK PendingDisjoint StoreAccounted BeliefsExact FinalReport UnorderedFlushesBounded
CHECK_DEADLOCK FALSE
