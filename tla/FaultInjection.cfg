CONSTANTS
  a = a
  b = b
  c = c
  d = d
  Stacks <- ProperStacks
  MaxHits = 5
  current_size = 400
  Targets <- AnyTarget
  Instructions = {"all", "allrmw", "store", "sfence", "movnt"}
  KillDuringSerialize = FALSE
SPECIFICATION FPSpec
INVARIANTS TypeOK VisitedExact TreeFits TargetIsIteration StoresExposed
PROPERTY ImplementsCampaign
CHECK_DEADLOCK FALSE
