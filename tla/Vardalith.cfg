CONSTANTS
  Configs <- TwoExperiments
  Pairs <- MCPairs
  PipeSize = 1
  MaxRaces = 1
  MaxInvocations = 2
SPECIFICATION Spec
INVARIANTS BugsAttributed RacesReported FilesCollected
PROPERTY InvocationsEnd
CHECK_DEADLOCK FALSE
