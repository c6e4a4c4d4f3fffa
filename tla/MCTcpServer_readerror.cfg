SPECIFICATION FairSpec
CONSTANTS
  Conns = {c1, c2, c3}
  MaxConnections = 1
  IdSpace = 3
  NoConn = NoConn
CHECK_DEADLOCK FALSE
PROPERTIES
  ReadErrorCloses
