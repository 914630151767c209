SPECIFICATION BoundedSpec
CONSTANTS
  Policies <- MCPolicies
  ComputeIncrement <- MCComputeIncrement
  Timestamps = {0, 600, 1200}
  MaxTimestamp = 1000000
  InitialThresholdsAmount = 10
  MaxAmount = 120
INVARIANTS
  MonotoneResponse
  RoundingAtMostOne
