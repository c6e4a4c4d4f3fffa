SPECIFICATION Spec
CONSTANTS
  Streams <- OneLine
CHECK_DEADLOCK FALSE
INVARIANTS
  ArrivedIsHandled
