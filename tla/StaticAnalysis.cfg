CONSTANTS
  Programs <- MCPrograms
  Registers <- Two
  MaxSteps = 10
SPECIFICATION PFSpec
INVARIANTS GraphsExact RightAddress Covered ClosedAtExit
PROPERTY AnalysisEnds
CHECK_DEADLOCK FALSE
