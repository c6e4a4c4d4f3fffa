SPECIFICATION Spec
CONSTANTS
  Streams <- MCStreams
  MaxPackage = 6
  ReadBufferSize = 5
  MaxMessages = 14
CHECK_DEADLOCK FALSE
INVARIANTS
  TypeOK
  BytesAccountedFor
  MessagesArePackages
  NothingHeldBack
  BufferBounded
PROPERTIES
  HandlerReturns
  AllIsRead
