SPECIFICATION FairSpec
CONSTANTS
  ConnsAmount = 2
  MaxContents = 4
INVARIANTS
  TypeOK
  OneWriterPerConnection
  WrittenOrLogged
PROPERTY ReceivedIsHandled
