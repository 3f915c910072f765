SPECIFICATION Spec
CONSTANTS
  c1 = c1
  c2 = c2
  Conns = {c1, c2}
  Pairs <- AllPairs
  SecurityTypes = {"None", "VncAuth", "failed", "Tight"}
  Configs <- Settings
  Typed = {"p", "v"}
  MaxConfigs = 1
INVARIANTS TypeOK Understood 
PROPERTIES HandshakeEnds
CHECK_DEADLOCK FALSE
