SPECIFICATION Spec
CONSTANTS
  c1 = c1
  Conns = {c1}
  NoConn = NoConn
  MaxAsk = 2
  GpiFails = TRUE
INVARIANTS TypeOK ReadyHeld BitmapExclusive FreedThreadDone FreshAnswer
CHECK_DEADLOCK FALSE
