SPECIFICATION Spec
CONSTANTS
  Sessions = {j1}
  ExpectedMaxs = {255}
  Offsets = {50}
  RetriesSet = {5}
  DelaySet = {100}
  ProxyFiles <- MCProxyFiles
  UserAgentFiles <- MCUserAgentFiles
  WsUrls = 1
INVARIANT NoMoreThanConfigured
