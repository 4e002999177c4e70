CONSTANTS
  a = a
  b = b
  c = c
  d = d
  Stacks <- RecursiveStacks
  MaxHits = 4
  current_size = 1000
  Targets <- WholeCampaign
  Instructions = {"all"}
  KillDuringSerialize = FALSE
SPECIFICATION FPSpec
INVARIANT AllFoundInFirstPhase
CHECK_DEADLOCK FALSE
