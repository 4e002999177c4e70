SPECIFICATION Spec
CONSTANTS
  BTREE_ORDER = 4
  INIT_BUCKETS_NUM = 2
  MIN_HASHSET_THRESHOLD = 1
  MAX_HASHSET_THRESHOLD = 2
  hash_fun_a = 1
  hash_fun_b = 0
  hash_fun_p = 97
  MaxCrashes = 2
  Keys <- MCKeys
  Copies <- MCCopies
  MaxTx = 1
INVARIANTS
  TreesInShape
  HashExact
PROPERTIES
  ImplementsMap
  OperationsEnd
CHECK_DEADLOCK FALSE
