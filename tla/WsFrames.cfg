SPECIFICATION Spec
CONSTANTS
  Streams <- Usual
  Cuts <- Whole
  Messages <- Shapes
  Pieces = 2
  BufLen = 20
  Extended = 6
  Long = 16
INVARIANTS TypeOK  Drained
CHECK_DEADLOCK FALSE
