SPECIFICATION FairSpec
CONSTANTS
  Workers = {w1, w2}
  EventKinds = {"Successes", "RateLimits", "Lost"}
  MaxEvents = 2
  MaxBatches = 2
INVARIANTS
  TypeOK
  ReportedOnceOrMissed
  LineAddsUp
  LineIsOfOneBatch
PROPERTY NobodyIsStuck
\* A loop that stops is reported as a violation of NobodyIsStuck.
CHECK_DEADLOCK FALSE
