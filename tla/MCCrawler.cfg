SPECIFICATION Spec
CONSTANTS
  Policies <- MCPolicies
  ComputeIncrement <- MCComputeIncrement
  Timestamps = {0}
  MaxTimestamp = 1000000
  InitialThresholdsAmount = 3
  IdealMaxThresholdsAmount = 1
  InitialOffset = 1
  EnableBatchLimits = FALSE
  MaxBatchSize = 0
  MaxBatches = 2
  SubWorkers = {s1}
  BackupWorkers = {b1}
  Sessions = {j1}
  SubordinateSize = 1
  BackupSize = 1
  WsSize = 1
  RefreshSize = 1
  MaxRetriesPerItem = 1
  MaxRateLimits = 0
  IDs = {1, 2, 3, 4}
INVARIANTS
  EachIDInOnePlace
  NothingLeftBehind
PROPERTIES
  BatchCompletes
  FrontierIsSettled
\* A manager that stops is reported as a violation of BatchCompletes.
CHECK_DEADLOCK FALSE
