SPECIFICATION FairSpec
CONSTANTS
  Messages = {m1}
  Pong = Pong
  CloseFrame = CloseFrame
  Response = Response
  MaxSendQueueSize = 2
  MaxSends = 1
  MaxControls = 2
  MaxResponses = 2
CHECK_DEADLOCK FALSE
PROPERTIES
  IdleIsClosed
