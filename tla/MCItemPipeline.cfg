SPECIFICATION Spec
CONSTANTS
  Items = {i1, i2, i3}
  SubWorkers = {s1, s2}
  BackupWorkers = {b1, b2}
  Sessions = {j1}
  NoItem = NoItem
  SubordinateSize = 1
  BackupSize = 1
  WsSize = 1
  RefreshSize = 1
  MaxRetriesPerItem = 2
  MaxRateLimits = 0
SYMMETRY Symmetry
INVARIANTS
  TypeOK
  EachItemInOnePlace
PROPERTY ImplementsDelivery
