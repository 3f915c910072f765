SPECIFICATION FairSpec
CONSTANTS
  c1 = c1
  c2 = c2
  Clients = {c1, c2}
  Addrs = {0, 1}
  Configs <- Modes
  MemoryFails = TRUE
  ListenFails = TRUE
INVARIANTS TypeOK Books LogonAsked SoleClient
PROPERTIES ClosedReaped
CHECK_DEADLOCK FALSE
