CONSTANTS
  Threads = {t1, t2}
  Regions <- MCRegions
  Cases <- MCCases
  CACHELINE_SIZE = 2
  Base = 100
  Addresses = {1, 2, 4}
  MaxSteps = 6
SPECIFICATION CollectionSpec
INVARIANTS TablesExact DependenciesOrdered ReducedExact ExecutionInCFG
CHECK_DEADLOCK FALSE
