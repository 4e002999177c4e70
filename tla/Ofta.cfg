CONSTANTS
  b1 = b1
  b2 = b2
  Backtraces <- TwoBacktraces
  MaxInstructions = 5
  MaxBugs = 4
  RECORD_OPERATIONS_LIMIT = 2
  default_ramdisk = TRUE
SPECIFICATION Spec
INVARIANTS RecordsMapped EveryBugLocated
CHECK_DEADLOCK FALSE
