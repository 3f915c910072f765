SPECIFICATION LiveSpec
CONSTANTS
  MaxClients = 2
  Addrs = {a1, a2}
  Slots = {s1, s2}
  Wins = {w1}
  None = None
INVARIANTS TypeOK RecordsLive Told
PROPERTIES Settles QuitEnds
CHECK_DEADLOCK FALSE
