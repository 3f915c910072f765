SPECIFICATION SLiveSpec
CONSTANTS
  c1 = c1
  Conns = {c1}
  NoConn = NoConn
  MaxAttempts = 1
  MaxAsk = 1
  GpiFails = FALSE
  PMFails = TRUE
PROPERTIES UserEnds GuiReturns
CHECK_DEADLOCK FALSE
