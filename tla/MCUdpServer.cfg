SPECIFICATION FairSpec
CONSTANTS
  Socket = {s1, s2}
  Peer = {p1}
  Datagrams <- MCDatagrams
  ReadBufferSize = 6
  MaxPackage = 8
  MaxArrivals = 2
  MaxErrors = 1
  Blocks = 3
CHECK_DEADLOCK FALSE
INVARIANTS
  TypeOK
  OneOwner
  OneBufferIsEnough
  AnswersIntact
  MessagesAreDatagrams
PROPERTIES
  DatagramsReceived
  MemoryReturns
