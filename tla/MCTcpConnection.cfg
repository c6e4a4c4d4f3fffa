SPECIFICATION FairSpec
CONSTANTS
  Messages = {m1, m2}
  MaxSendQueueSize = 2
  HeartbeatInterval = 2
  TimerSlack = 1
  MaxSends = 4
CHECK_DEADLOCK FALSE
INVARIANTS
  TypeOK
  AtMostOneWrite
  WrittenInOrder
  DeliberateCloseLosesNothing
  NoCallbackAfterDelete
  IdleBounded
PROPERTIES
  ImplementsOutStream
  ImplementsConnLifecycle
  QueueDrains
  DeferredCloseCompletes
