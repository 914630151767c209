SPECIFICATION FairSpec
CONSTANTS
  Sessions = {j1, j2}
  ExpectedMaxs = {0, 1, 254}
  Offsets = {255}
  RetriesSet = {0, 5}
  DelaySet = {100, 1500}
  ProxyFiles <- MCProxyFiles
  UserAgentFiles <- MCUserAgentFiles
  WsUrls = 2
INVARIANTS
  ManagerStartsPrepared
  NoPickFromNothing
  ProfilesAreUsable
  BackupPoolSuffices
PROPERTY StartsOrExits
