SPECIFICATION BrokenPeerSpec
CONSTANTS
  Messages = {m1, m2}
  MaxSendQueueSize = 1
  HeartbeatInterval = 2
  TimerSlack = 1
  MaxSends = 2
CHECK_DEADLOCK FALSE
PROPERTIES
  DeferredCloseDeletes
