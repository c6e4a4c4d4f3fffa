SPECIFICATION FairSpec
CONSTANTS
  Messages = {m1, m2}
  Pong = Pong
  CloseFrame = CloseFrame
  Response = Response
  MaxSendQueueSize = 2
  MaxSends = 3
  MaxControls = 2
  MaxResponses = 2
CHECK_DEADLOCK FALSE
INVARIANTS
  TypeOK
  AtMostOneWrite
  MessagesInOrder
  DeliberateCloseLosesNothing
  HandshakeFirst
PROPERTIES
  QueueDrains
