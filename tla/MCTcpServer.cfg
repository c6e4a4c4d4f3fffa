SPECIFICATION Spec
CONSTANTS
  Conns = {c1, c2, c3, c4}
  MaxConnections = 2
  IdSpace = 3
  NoConn = NoConn
CHECK_DEADLOCK FALSE
INVARIANTS
  TypeOK
  CountMatchesObjects
  LimitRespected
  IdsDistinctInWindow
PROPERTIES
  RefusedOnlyAtLimit
