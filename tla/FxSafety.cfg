SPECIFICATION Spec
CONSTANTS
  Folder = Folder
  RemoteInit <- MCRemoteSmall
  LocalInit <- MCLocalSmall
  MaxQueue = 1
  MaxCommands = 3
  Patient = FALSE
  Events <- AllEvents
CHECK_DEADLOCK FALSE
INVARIANTS TypeOK SentWhole
