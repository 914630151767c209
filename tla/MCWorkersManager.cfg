SPECIFICATION FairSpec
CONSTANTS
  Policies <- MCPolicies
  ComputeIncrement <- MCComputeIncrement
  Timestamps = {0}
  MaxTimestamp = 1000000
  InitialHighestID = 0
  InitialThresholdsAmount = 3
  GrowthLimit = 2
  IdealMaxThresholdsAmount = 2
  InitialOffset = 2
  EnableBatchLimits = TRUE
  MaxBatchSize = 4
  MaxBatches = 3
INVARIANTS
  TypeOK
  NothingOutstandingAbove
  SettledOnce
  LoggedFrontierConfirmed
  SendNeverBlocks
  
PROPERTIES
  ImplementsFrontier
  BatchCompletes
\* A loop that stops is reported as a violation of BatchCompletes.
CHECK_DEADLOCK FALSE
