SPECIFICATION Spec
CONSTANTS
  Policies <- MCPolicies
  ComputeIncrement <- MCComputeIncrement
  Timestamps = {0}
  MaxTimestamp = 1000000
  InitialHighestID = 0
  InitialThresholdsAmount = 2
  GrowthLimit = 10
  IdealMaxThresholdsAmount = 1
  InitialOffset = 1
  EnableBatchLimits = FALSE
  MaxBatchSize = 0
  MaxBatches = 10
INVARIANT SlowsDownOnly
