SPECIFICATION FairSpec
CONSTANTS
  Names = {n1, n2}
  Blocking = {s1}
  NonBlocking = {b1}
  RefreshSize = 1
  MaxExpiries = 2
INVARIANTS
  TypeOK
  CrashOnlyAfterCancel
PROPERTIES
  FetchedIsUsable
  RequestsAreTaken
  SessionRecovers
\* A cancelled process comes to a stop.
CHECK_DEADLOCK FALSE
