CONSTANTS
  CACHELINE_SIZE = 2
  StoreShapes <- DisjointShapes
  FlushAddresses <- LineStarts
  MaxId = 5
SPECIFICATION OntaSpec
INVARIANT BugsLocated
PROPERTIES ImplementsMemory RedundantExact
CHECK_DEADLOCK FALSE
