SPECIFICATION Spec
CONSTANTS
  Streams <- MCStreams
CHECK_DEADLOCK FALSE
INVARIANTS
  TypeOK
  CountIsBuffer
  DecodesWellCut
PROPERTIES
  LoopReturns
