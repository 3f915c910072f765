SPECIFICATION SSpec
CONSTANTS
  c1 = c1
  c2 = c2
  Conns = {c1, c2}
  NoConn = NoConn
  MaxAttempts = 2
  MaxAsk = 1
  GpiFails = TRUE
  PMFails = TRUE
INVARIANTS STypeOK HeldObjects
PROPERTY Implements
CHECK_DEADLOCK FALSE
