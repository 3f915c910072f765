SPECIFICATION Spec
CONSTANTS
  c1 = c1
  c2 = c2
  Clients = {c1, c2}
  Scenes <- MCScenes
  Keys <- MCKeys
  Symbol <- MCSymbol
  Scan <- MCScan
  Sequences <- Menu
  Slots = 2
  Buttons <- MCButtons
  MaxKeys = 6
  MaxQueue = 1
INVARIANTS TypeOK  DragOwned
CHECK_DEADLOCK FALSE
